-------------------------- MODULE SessionChainProofs --------------------------
(***************************************************************************)
(* Proofs about SessionChain, for any number of processes and runs: its    *)
(* type, what a session's chain may hold, and that a chain no save         *)
(* overtook can be rebuilt with the hashes it records.                     *)
(*                                                                         *)
(* That the file holds only approved runs is not inductive: what a process *)
(* is about to save, extend with or build on must be approved too, and a   *)
(* run that exists is not made again.  approved and passed only grow, so   *)
(* each of these facts survives what the other processes do.               *)
(*                                                                         *)
(* What a save keeps and what can be rebuilt need an invariant that ties   *)
(* what each process saw, hashed and holds to the file (KInv).             *)
(***************************************************************************)
EXTENDS SessionChain, SequenceTheorems, TLAPS

Sound    == approved \cap passed
Eligible == Sound \ OtherProject

\* What each process holds is approved, passed and of the session's project.
HeldIsApproved ==
  \A p \in Procs :
    /\ RunsOf(mine[p].chainLinks) \subseteq Eligible
    /\ arg[p] # NoRun => arg[p] \in Sound
    /\ pc[p] = "extend" => arg[p] # NoRun
    /\ pc[p] \in {"hash", "append"} => arg[p] \in Eligible
    /\ pc[p] = "session" => hash[p].patches \subseteq Sound

\* A session run that was never approved is still there (Remove), so no other
\* run takes its id.
UnapprovedIsKept == \A r \in inSession \ approved : stored[r] # "absent"

CInv ==
  /\ TypeOK
  /\ LinksAreApproved
  /\ HeldIsApproved
  /\ UnapprovedIsKept
  /\ SessionRunsBuildOnApproved

------------------------------------------------------------------------------
(* The operators on chains.                                                *)

LEMMA RunsOfType ==
  ASSUME NEW links \in Seq(Links)
  PROVE  RunsOf(links) \subseteq Runs
<1>1. \A i \in 1..Len(links) : links[i] \in Links
  OBVIOUS
<1> QED
  BY <1>1 DEF RunsOf, Links

LEMMA RunsOfEmpty == RunsOf(<<>>) = {}
BY DEF RunsOf

LEMMA RunsOfAppend ==
  ASSUME NEW links \in Seq(Links), NEW link \in Links
  PROVE  /\ Append(links, link) \in Seq(Links)
         /\ RunsOf(Append(links, link)) = RunsOf(links) \cup {link.runId}
<1>1. Append(links, link) \in Seq(Links)
  OBVIOUS
<1>2. RunsOf(Append(links, link)) \subseteq RunsOf(links) \cup {link.runId}
  BY DEF RunsOf
<1>3. RunsOf(links) \subseteq RunsOf(Append(links, link))
  BY DEF RunsOf
<1>4. link.runId \in RunsOf(Append(links, link))
  <2>1. Append(links, link)[Len(links) + 1] = link /\ Len(links) + 1 \in 1..Len(Append(links, link))
    OBVIOUS
  <2> QED
    BY <2>1 DEF RunsOf
<1> QED
  BY <1>1, <1>2, <1>3, <1>4

LEMMA RunIdsOfChain ==
  ASSUME NEW links \in Seq(Links)
  PROVE  /\ RunIds(links) \in Seq(Runs)
         /\ {RunIds(links)[i] : i \in 1..Len(RunIds(links))} = RunsOf(links)
<1>0. ASSUME NEW i \in 1..Len(links) PROVE links[i].runId \in Runs
  <2>1. links[i] \in Links
    BY ElementOfSeq
  <2> QED
    BY <2>1 DEF Links
<1>1. RunIds(links) \in [1..Len(links) -> Runs]
  BY <1>0 DEF RunIds
<1>2. RunIds(links) \in Seq(Runs)
  BY <1>1, SeqDef
<1>3. Len(RunIds(links)) = Len(links)
  BY <1>1, <1>2
<1> QED
  BY <1>2, <1>3 DEF RunIds, RunsOf

\* The workspace rebuilt from a chain holds the patches of its runs.
LEMMA WorkspaceOfChain ==
  ASSUME NEW links \in Seq(Links)
  PROVE  /\ Workspace(RunIds(links)) \in Workspaces
         /\ Workspace(RunIds(links)).patches = RunsOf(links)
BY RunIdsOfChain, RunsOfType DEF Workspace, Workspaces, Parts

\* Likewise when one more run is appended (computeExtendedWorkspaceManifestHash).
LEMMA WorkspaceOfExtension ==
  ASSUME NEW links \in Seq(Links), NEW r \in Runs
  PROVE  Workspace(Append(RunIds(links), r)) \in Workspaces
<1>1. Append(RunIds(links), r) \in Seq(Runs)
  BY RunIdsOfChain
<1>2. {Append(RunIds(links), r)[i] : i \in 1..Len(Append(RunIds(links), r))} \subseteq Runs
  BY <1>1, ElementOfSeq
<1> QED
  BY <1>2 DEF Workspace, Workspaces, Parts

------------------------------------------------------------------------------
(* Types.                                                                  *)

ProcTypeOK ==
  /\ pc \in [Procs -> {"idle", "save", "write", "close", "run", "build", "session",
                       "extend", "hash", "append"}]
  /\ arg \in [Procs -> Runs \cup {NoRun}]
  /\ mine \in [Procs -> Sessions \cup {NoFile}]
  /\ hash \in [Procs -> Workspaces]
  /\ seen \in [Procs -> Sessions \cup {NoFile}]

DiskTypeOK ==
  /\ stored \in [Parts -> {"absent", "intact", "altered"}]
  /\ against \in [Runs -> SUBSET Runs]
  /\ passed \subseteq Runs /\ inSession \subseteq Runs /\ approved \subseteq Runs

FileTypeOK == file \in Sessions \cup {NoFile, Unreadable}

HistoryTypeOK ==
  /\ raced \in BOOLEAN /\ sealed \in BOOLEAN
  /\ extended \subseteq Runs

LEMMA TypeParts ==
  /\ TypeOK <=> ProcTypeOK /\ DiskTypeOK /\ FileTypeOK /\ HistoryTypeOK
  /\ TypeOK' <=> ProcTypeOK' /\ DiskTypeOK' /\ FileTypeOK' /\ HistoryTypeOK'
BY DEF TypeOK, ProcTypeOK, DiskTypeOK, FileTypeOK, HistoryTypeOK

LEMMA EmptyChain == <<>> \in Seq(Links) /\ BaseManifestHash \in Workspaces
BY DEF BaseManifestHash, Workspaces

LEMMA InitTypeOK == Init => TypeOK
BY ZenonT(30), EmptyChain DEF Init, TypeOK

\* A process that ends forgets what it held.
LEMMA ExitTypeOK ==
  ASSUME ProcTypeOK, NEW p \in Procs, Exit(p)
  PROVE  ProcTypeOK'
BY EmptyChain DEF ProcTypeOK, Exit, Goto

\* What loadSession returns is a session.
LEMMA LoadedIsSession ==
  ASSUME FileTypeOK, Loadable
  PROVE  file \in Sessions
BY DEF FileTypeOK, Loadable, NoFile, Unreadable

\* What a process holds has a chain.
LEMMA HeldIsChain ==
  ASSUME ProcTypeOK, NEW p \in Procs
  PROVE  mine[p].chainLinks \in Seq(Links)
<1>1. NoFile.chainLinks = <<>>
  BY DEF NoFile
<1>2. CASE mine[p] = NoFile
  BY <1>1, <1>2, EmptyChain
<1>3. CASE mine[p] \in Sessions
  BY <1>3 DEF Sessions
<1> QED
  BY <1>2, <1>3 DEF ProcTypeOK

\* A session as a command may save it: closed, or extended by one link.
LEMMA ClosedIsSession ==
  ASSUME NEW s \in Sessions
  PROVE  [s EXCEPT !.status = "closed"] \in Sessions
BY DEF Sessions

LEMMA ExtendedIsSession ==
  ASSUME NEW s \in Sessions, NEW link \in Links
  PROVE  [s EXCEPT !.chainLinks = Append(@, link)] \in Sessions
<1>1. Append(s.chainLinks, link) \in Seq(Links)
  BY DEF Sessions
<1> QED
  BY <1>1 DEF Sessions

\* A process that hashes or appends has the run it extends the session with.
LEMMA ExtensionHasRun ==
  ASSUME DiskTypeOK, HeldIsApproved, NEW p \in Procs, pc[p] \in {"hash", "append"}
  PROVE  arg[p] \in Runs
BY DEF DiskTypeOK, HeldIsApproved, Eligible, Sound

\* Every step of a process that has begun keeps the types.
LEMMA StepTypeOK ==
  ASSUME TypeOK, HeldIsApproved, NEW p \in Procs, Step(p) \/ Dies(p)
  PROVE  TypeOK'
<1> USE TypeParts
<1>1. CASE SaveTruncates(p)
  BY <1>1 DEF SaveTruncates, diskVars, ProcTypeOK, DiskTypeOK, FileTypeOK, HistoryTypeOK
<1>2. CASE SaveWrites(p)
  <2>1. ProcTypeOK'
    BY <1>2, ExitTypeOK DEF SaveWrites
  <2>2. FileTypeOK'
    BY <1>2 DEF SaveWrites, ProcTypeOK, FileTypeOK
  <2>3. HistoryTypeOK'
    BY <1>2 DEF SaveWrites, ProcTypeOK, HistoryTypeOK
  <2> QED
    BY <1>2, <2>1, <2>2, <2>3 DEF SaveWrites, diskVars, DiskTypeOK
<1>3. CASE CloseLoads(p)
  <2>1. ProcTypeOK'
    BY <1>3, ExitTypeOK, LoadedIsSession, ClosedIsSession DEF CloseLoads, Goto, ProcTypeOK
  <2> QED
    BY <1>3, <2>1 DEF CloseLoads, diskVars, historyVars, DiskTypeOK, FileTypeOK, HistoryTypeOK
<1>4. CASE RunReloads(p)
  <2>1. ProcTypeOK'
    BY <1>4, ExitTypeOK, LoadedIsSession DEF RunReloads, Goto, ProcTypeOK
  <2> QED
    BY <1>4, <2>1 DEF RunReloads, diskVars, historyVars, DiskTypeOK, FileTypeOK, HistoryTypeOK
<1>5. CASE RunBuilds(p)
  <2>1. Workspace(RunIds(mine[p].chainLinks)) \in Workspaces
    BY HeldIsChain, WorkspaceOfChain
  <2>2. ProcTypeOK'
    BY <1>5, <2>1, ExitTypeOK DEF RunBuilds, ProcTypeOK
  <2> QED
    BY <1>5, <2>2 DEF RunBuilds, diskVars, historyVars, DiskTypeOK, FileTypeOK, HistoryTypeOK
<1>6. CASE \E r \in Runs, isPassed \in BOOLEAN : RunFinishes(p, r, isPassed)
  <2> PICK r \in Runs, isPassed \in BOOLEAN : RunFinishes(p, r, isPassed)
    BY <1>6
  <2>1. ProcTypeOK'
    BY ExitTypeOK DEF RunFinishes
  <2>2. hash[p].patches \subseteq Runs
    BY DEF ProcTypeOK, Workspaces
  <2>3. DiskTypeOK'
    BY <2>2 DEF RunFinishes, NewRun, DiskTypeOK
  <2> QED
    BY <2>1, <2>3 DEF RunFinishes, historyVars, FileTypeOK, HistoryTypeOK
<1>7. CASE ExtendLoads(p)
  <2>1. ProcTypeOK'
    BY <1>7, ExitTypeOK, LoadedIsSession DEF ExtendLoads, Loadable, Goto, ProcTypeOK
  <2> QED
    BY <1>7, <2>1 DEF ExtendLoads, diskVars, historyVars, DiskTypeOK, FileTypeOK, HistoryTypeOK
<1>8. CASE ExtendHashes(p)
  <2>1. Workspace(Append(RunIds(mine[p].chainLinks), arg[p])) \in Workspaces
    BY <1>8, HeldIsChain, WorkspaceOfExtension, ExtensionHasRun DEF ExtendHashes
  <2>2. ProcTypeOK'
    BY <1>8, <2>1, ExitTypeOK DEF ExtendHashes, ProcTypeOK
  <2> QED
    BY <1>8, <2>2 DEF ExtendHashes, diskVars, historyVars, DiskTypeOK, FileTypeOK, HistoryTypeOK
<1>9. CASE ExtendAppends(p)
  <2> DEFINE link == [runId |-> arg[p], workspaceManifestHash |-> hash[p]]
  <2>1. link \in Links
    BY <1>9, ExtensionHasRun DEF ExtendAppends, ProcTypeOK, Links
  <2>2. ProcTypeOK'
    BY <1>9, <2>1, ExitTypeOK, LoadedIsSession, ExtendedIsSession DEF ExtendAppends, Loadable, Goto, ProcTypeOK
  <2> QED
    BY <1>9, <2>2 DEF ExtendAppends, diskVars, DiskTypeOK, FileTypeOK, HistoryTypeOK
<1>10. CASE Dies(p)
  <2>1. ProcTypeOK'
    BY <1>10, ExitTypeOK DEF Dies
  <2> QED
    BY <1>10, <2>1 DEF Dies, diskVars, historyVars, DiskTypeOK, FileTypeOK, HistoryTypeOK
<1> QED
  BY <1>1, <1>2, <1>3, <1>4, <1>5, <1>6, <1>7, <1>8, <1>9, <1>10 DEF Step

\* And so does every step that begins a command or changes what is stored.
LEMMA BeginTypeOK ==
  ASSUME TypeOK, (\E p \in Procs : Begin(p)) \/ (\E x \in Parts : Alter(x) \/ Remove(x))
  PROVE  TypeOK'
<1> USE TypeParts
<1>1. ASSUME NEW p \in Procs, Create(p) PROVE TypeOK'
  <2>1. [status |-> "open", chainLinks |-> <<>>] \in Sessions
    BY EmptyChain DEF Sessions
  <2>2. ProcTypeOK'
    BY <1>1, <2>1 DEF Create, Goto, ProcTypeOK
  <2> QED
    BY <1>1, <2>2 DEF Create, historyVars, DiskTypeOK, FileTypeOK, HistoryTypeOK
<1>2. ASSUME NEW p \in Procs, Close(p) \/ RunValidates(p) PROVE TypeOK'
  BY <1>2 DEF Close, RunValidates, diskVars, historyVars, ProcTypeOK, DiskTypeOK, FileTypeOK, HistoryTypeOK
<1>3. ASSUME NEW p \in Procs, NEW r \in Runs, NEW before \in SUBSET Runs,
             NEW isPassed \in BOOLEAN, PlainRun(p, r, before, isPassed)
      PROVE  TypeOK'
  BY <1>3 DEF PlainRun, NewRun, procVars, historyVars, ProcTypeOK, DiskTypeOK, FileTypeOK, HistoryTypeOK
<1>4. ASSUME NEW p \in Procs, NEW r \in Runs, Approve(p, r) \/ ApproveExtends(p, r)
      PROVE  TypeOK'
  BY <1>4 DEF Approve, ApproveExtends, ApproveCommits, procVars, historyVars,
              ProcTypeOK, DiskTypeOK, FileTypeOK, HistoryTypeOK
<1>5. ASSUME NEW x \in Parts, Alter(x) \/ Remove(x) PROVE TypeOK'
  BY <1>5 DEF Alter, Remove, procVars, historyVars, ProcTypeOK, DiskTypeOK, FileTypeOK, HistoryTypeOK
<1> QED
  BY <1>1, <1>2, <1>3, <1>4, <1>5 DEF Begin

------------------------------------------------------------------------------
(* What chains hold.                                                       *)

Grows == approved \subseteq approved' /\ passed \subseteq passed'

LEMMA NextGrows == Next => Grows
BY ZenonT(30) DEF Next, Begin, Step, Grows, Create, Close, RunValidates, PlainRun, NewRun, Approve,
       ApproveExtends, ApproveCommits, SaveTruncates, SaveWrites, CloseLoads, RunReloads,
       RunBuilds, RunFinishes, ExtendLoads, ExtendHashes, ExtendAppends, Dies, Alter,
       Remove, diskVars

LEMMA NoFileIsEmpty == RunsOf(NoFile.chainLinks) = {} /\ RunsOf(Unreadable.chainLinks) = {}
BY RunsOfEmpty DEF NoFile, Unreadable

\* The facts about what p holds, alone: a step of p must establish them for p,
\* the others keep theirs because approved and passed grow.
Holds(p) ==
  /\ RunsOf(mine[p].chainLinks) \subseteq Eligible
  /\ arg[p] # NoRun => arg[p] \in Sound
  /\ pc[p] = "extend" => arg[p] # NoRun
  /\ pc[p] \in {"hash", "append"} => arg[p] \in Eligible
  /\ pc[p] = "session" => hash[p].patches \subseteq Sound

LEMMA HeldByEach == (HeldIsApproved <=> \A p \in Procs : Holds(p))
                    /\ (HeldIsApproved' <=> \A p \in Procs : Holds(p)')
BY DEF HeldIsApproved, Holds

LEMMA OthersHold ==
  ASSUME ProcTypeOK, Grows, NEW q \in Procs, Holds(q),
         pc'[q] = pc[q], mine'[q] = mine[q], arg'[q] = arg[q], hash'[q] = hash[q]
  PROVE  Holds(q)'
BY DEF Grows, Holds, Eligible, Sound

LEMMA ExitHolds ==
  ASSUME ProcTypeOK, HeldIsApproved, Grows, NEW p \in Procs, Exit(p)
  PROVE  HeldIsApproved'
<1>1. Holds(p)'
  BY NoFileIsEmpty DEF Exit, Goto, ProcTypeOK, Holds
<1>2. ASSUME NEW q \in Procs \ {p} PROVE Holds(q)'
  <2>1. pc'[q] = pc[q] /\ mine'[q] = mine[q] /\ arg'[q] = arg[q] /\ hash'[q] = hash[q]
    BY DEF Exit, Goto, ProcTypeOK
  <2> QED
    BY <2>1, HeldByEach, OthersHold
<1> QED
  BY <1>1, <1>2, HeldByEach

\* A step of p in which only p's own variables change.
LEMMA ActorHolds ==
  ASSUME ProcTypeOK, HeldIsApproved, Grows, NEW p \in Procs, Holds(p)',
         \A q \in Procs \ {p} :
           pc'[q] = pc[q] /\ mine'[q] = mine[q] /\ arg'[q] = arg[q] /\ hash'[q] = hash[q]
  PROVE  HeldIsApproved'
<1>1. ASSUME NEW q \in Procs \ {p} PROVE Holds(q)'
  BY HeldByEach, OthersHold
<1> QED
  BY <1>1, HeldByEach

\* What SESSION.json holds may be taken up by a command.
LEMMA FileIsEligible ==
  ASSUME LinksAreApproved
  PROVE  RunsOf(file.chainLinks) \subseteq Eligible /\ extended \subseteq Sound
BY DEF LinksAreApproved, Eligible, Sound

\* Every step of a process that has begun keeps what the processes hold approved.
LEMMA StepHolds ==
  ASSUME TypeOK, HeldIsApproved, LinksAreApproved, Grows,
         NEW p \in Procs, Step(p) \/ Dies(p)
  PROVE  HeldIsApproved'
<1> USE TypeParts
<1>0. Holds(p)
  BY HeldByEach
<1>1. CASE SaveTruncates(p)
  <2>1. Holds(p)'
    BY <1>0, <1>1 DEF SaveTruncates, diskVars, ProcTypeOK, Holds, Eligible, Sound
  <2> QED
    BY <1>1, <2>1, ActorHolds DEF SaveTruncates, ProcTypeOK
<1>2. CASE SaveWrites(p) \/ Dies(p)
  BY <1>2, ExitHolds DEF SaveWrites, Dies
<1>3. CASE CloseLoads(p)
  <2>1. CASE Loadable
    <3>1. mine'[p].chainLinks = file.chainLinks
      BY <1>3, <2>1, LoadedIsSession DEF CloseLoads, Goto, ProcTypeOK, Sessions
    <3>2. Holds(p)'
      BY <1>0, <1>3, <2>1, <3>1, FileIsEligible
         DEF CloseLoads, Goto, diskVars, ProcTypeOK, Holds, Eligible, Sound
    <3> QED
      BY <1>3, <2>1, <3>2, ActorHolds DEF CloseLoads, Goto, ProcTypeOK
  <2> QED
    BY <1>3, <2>1, ExitHolds DEF CloseLoads
<1>4. CASE RunReloads(p)
  <2>1. CASE Loadable
    <3>1. Holds(p)'
      BY <1>0, <1>4, <2>1, FileIsEligible
         DEF RunReloads, Goto, diskVars, ProcTypeOK, Holds, Eligible, Sound
    <3> QED
      BY <1>4, <2>1, <3>1, ActorHolds DEF RunReloads, Goto, ProcTypeOK
  <2> QED
    BY <1>4, <2>1, ExitHolds DEF RunReloads
<1>5. CASE RunBuilds(p)
  <2> DEFINE runIds == RunIds(mine[p].chainLinks)
  <2>1. CASE Builds(runIds)
    <3>1. Workspace(runIds).patches \subseteq Sound
      BY <1>0, HeldIsChain, WorkspaceOfChain DEF Holds, Eligible
    <3>2. hash'[p] = Workspace(runIds) /\ pc'[p] \in {"session", "close"}
      BY <1>5, <2>1 DEF RunBuilds, ProcTypeOK
    <3>3. Holds(p)'
      <4> HIDE DEF runIds
      <4>1. mine'[p] = mine[p] /\ arg'[p] = arg[p] /\ approved' = approved /\ passed' = passed
        BY <1>5, <2>1 DEF RunBuilds, diskVars, runIds
      <4> QED
        BY <1>0, <3>1, <3>2, <4>1 DEF Holds, Eligible, Sound
    <3> QED
      BY <1>5, <2>1, <3>3, ActorHolds DEF RunBuilds, ProcTypeOK
  <2> QED
    BY <1>5, <2>1, ExitHolds DEF RunBuilds
<1>6. CASE \E r \in Runs, isPassed \in BOOLEAN : RunFinishes(p, r, isPassed)
  BY <1>6, ExitHolds DEF RunFinishes
<1>7. CASE ExtendLoads(p)
  <2>1. CASE file.status = "open" /\ arg[p] \notin OtherProject
    <3>1. arg[p] \in Eligible
      BY <1>0, <1>7, <2>1 DEF ExtendLoads, Holds, Eligible
    <3>2. Holds(p)'
      BY <1>0, <1>7, <2>1, <3>1, FileIsEligible
         DEF ExtendLoads, Goto, diskVars, ProcTypeOK, Holds, Eligible, Sound
    <3> QED
      BY <1>7, <2>1, <3>2, ActorHolds DEF ExtendLoads, Goto, ProcTypeOK
  <2> QED
    BY <1>7, <2>1, ExitHolds DEF ExtendLoads
<1>8. CASE ExtendHashes(p)
  <2> DEFINE runIds == Append(RunIds(mine[p].chainLinks), arg[p])
  <2>1. CASE Builds(runIds)
    <3>1. Holds(p)'
      <4>1. mine'[p] = mine[p] /\ arg'[p] = arg[p] /\ pc'[p] = "append"
            /\ approved' = approved /\ passed' = passed /\ pc[p] = "hash"
        BY <1>8, <2>1 DEF ExtendHashes, diskVars, ProcTypeOK
      <4> QED
        BY <1>0, <4>1 DEF Holds, Eligible, Sound
    <3> QED
      BY <1>8, <2>1, <3>1, ActorHolds DEF ExtendHashes, ProcTypeOK
  <2> QED
    BY <1>8, <2>1, ExitHolds DEF ExtendHashes
<1>9. CASE ExtendAppends(p)
  <2> DEFINE link == [runId |-> arg[p], workspaceManifestHash |-> hash[p]]
  <2>1. CASE file.status = "open"
    <3>1. link \in Links
      BY <1>9, ExtensionHasRun DEF ExtendAppends, ProcTypeOK, Links
    <3>2. file \in Sessions /\ file.chainLinks \in Seq(Links)
      BY <2>1, LoadedIsSession DEF Loadable, Sessions
    <3>3. mine'[p].chainLinks = Append(file.chainLinks, link)
      BY <1>9, <2>1, <3>2 DEF ExtendAppends, Goto, ProcTypeOK, Sessions
    <3>4. RunsOf(mine'[p].chainLinks) = RunsOf(file.chainLinks) \cup {arg[p]}
      BY <3>1, <3>2, <3>3, RunsOfAppend
    <3>5. arg[p] \in Eligible
      BY <1>0, <1>9 DEF ExtendAppends, Holds
    <3>6. Holds(p)'
      <4>1. pc'[p] = "save" /\ arg'[p] = arg[p] /\ approved' = approved /\ passed' = passed
        BY <1>9, <2>1 DEF ExtendAppends, Goto, diskVars, ProcTypeOK
      <4> QED
        BY <1>0, <3>4, <3>5, <4>1, FileIsEligible DEF Holds, Eligible, Sound
    <3> QED
      BY <1>9, <2>1, <3>6, ActorHolds DEF ExtendAppends, Goto, ProcTypeOK
  <2> QED
    BY <1>9, <2>1, ExitHolds DEF ExtendAppends
<1> QED
  BY <1>1, <1>2, <1>3, <1>4, <1>5, <1>6, <1>7, <1>8, <1>9 DEF Step

\* A run that begins, and what happens to the stored parts, disturbs nothing
\* that a process holds.
LEMMA BeginHolds ==
  ASSUME TypeOK, HeldIsApproved, Grows,
         (\E p \in Procs : Begin(p)) \/ (\E x \in Parts : Alter(x) \/ Remove(x))
  PROVE  HeldIsApproved'
<1> USE TypeParts
<1>1. ASSUME NEW p \in Procs, Create(p) PROVE HeldIsApproved'
  <2>1. mine'[p].chainLinks = <<>> /\ pc'[p] = "save" /\ arg'[p] = arg[p]
        /\ approved' = approved /\ passed' = passed
    BY <1>1 DEF Create, Goto, ProcTypeOK
  <2>2. Holds(p)'
    BY <2>1, HeldByEach, RunsOfEmpty DEF Holds, Eligible, Sound
  <2> QED
    BY <1>1, <2>2, ActorHolds DEF Create, Goto, ProcTypeOK
<1>2. ASSUME NEW p \in Procs, Close(p) \/ RunValidates(p) PROVE HeldIsApproved'
  <2>1. mine'[p] = mine[p] /\ pc'[p] \in {"close", "run"} /\ arg'[p] = arg[p]
        /\ approved' = approved /\ passed' = passed
    BY <1>2 DEF Close, RunValidates, diskVars, ProcTypeOK
  <2>2. Holds(p)'
    BY <2>1, HeldByEach DEF Holds, Eligible, Sound
  <2> QED
    BY <1>2, <2>2, ActorHolds DEF Close, RunValidates, ProcTypeOK
<1>3. ASSUME NEW p \in Procs, NEW r \in Runs, ApproveExtends(p, r) PROVE HeldIsApproved'
  <2>1. mine'[p] = mine[p] /\ pc'[p] = "extend" /\ arg'[p] = r /\ r \in Sound'
    BY <1>3 DEF ApproveExtends, ApproveCommits, ProcTypeOK, Sound
  <2>2. RunsOf(mine'[p].chainLinks) \subseteq Eligible'
    BY <2>1, HeldByEach DEF Holds, Grows, Eligible, Sound
  <2>3. Holds(p)'
    BY <2>1, <2>2, RunsAssumption DEF Holds
  <2> QED
    BY <1>3, <2>3, ActorHolds DEF ApproveExtends, ProcTypeOK
<1>4. ASSUME UNCHANGED procVars PROVE HeldIsApproved'
  <2>1. ASSUME NEW q \in Procs PROVE Holds(q)'
    BY <1>4, HeldByEach, OthersHold DEF procVars
  <2> QED
    BY <2>1, HeldByEach
<1> QED
  BY <1>1, <1>2, <1>3, <1>4 DEF Begin, PlainRun, Approve, Alter, Remove

\* The file gets only what a process holds, and a session says extended of the
\* run it extended it with.
LEMMA LinksStayApproved ==
  ASSUME TypeOK, HeldIsApproved, LinksAreApproved, Grows, Next
  PROVE  LinksAreApproved'
<1> USE TypeParts
<1>1. ASSUME RunsOf(file'.chainLinks) \subseteq Eligible, extended' \subseteq Sound
      PROVE  LinksAreApproved'
  BY <1>1 DEF LinksAreApproved, Grows, Eligible, Sound
<1>2. ASSUME NEW p \in Procs, SaveTruncates(p) PROVE LinksAreApproved'
  BY <1>1, <1>2, FileIsEligible, NoFileIsEmpty DEF SaveTruncates
<1>3. ASSUME NEW p \in Procs, SaveWrites(p) PROVE LinksAreApproved'
  <2>1. Holds(p)
    BY HeldByEach
  <2>2. file' \in {mine[p], Unreadable}
    BY <1>3 DEF SaveWrites
  <2>3. RunsOf(file'.chainLinks) \subseteq Eligible
    BY <2>1, <2>2, NoFileIsEmpty DEF Holds
  <2>4. extended' \subseteq Sound
    BY <1>3, <2>1, FileIsEligible DEF SaveWrites, Holds
  <2> QED
    BY <1>1, <2>3, <2>4
<1>4. ASSUME UNCHANGED <<file, extended>> PROVE LinksAreApproved'
  BY <1>1, <1>4, FileIsEligible
<1>5. ASSUME NEW p \in Procs, Begin(p) \/ Dies(p) PROVE UNCHANGED <<file, extended>>
  BY <1>5 DEF Begin, Create, Close, RunValidates, PlainRun, Approve, ApproveExtends,
              ApproveCommits, Dies, procVars, historyVars
<1>6. ASSUME NEW p \in Procs, Step(p), ~SaveTruncates(p), ~SaveWrites(p)
      PROVE  UNCHANGED <<file, extended>>
  BY <1>6 DEF Step, CloseLoads, RunReloads, RunBuilds, RunFinishes, ExtendLoads,
              ExtendHashes, ExtendAppends, historyVars
<1>7. ASSUME NEW x \in Parts, Alter(x) \/ Remove(x) PROVE UNCHANGED <<file, extended>>
  BY <1>7 DEF Alter, Remove, historyVars
<1> QED
  BY <1>2, <1>3, <1>4, <1>5, <1>6, <1>7 DEF Next

\* A new run takes the id of no session run.
LEMMA NewRunIsNew ==
  ASSUME UnapprovedIsKept, NEW r \in Runs, stored[r] = "absent", r \notin approved
  PROVE  r \notin inSession
BY DEF UnapprovedIsKept

\* What a session run was written on top of stays as it was when it ended.
LEMMA SessionRunsStay ==
  ASSUME TypeOK, HeldIsApproved, UnapprovedIsKept, SessionRunsBuildOnApproved, Grows, Next
  PROVE  UnapprovedIsKept' /\ SessionRunsBuildOnApproved'
<1> USE TypeParts
<1>1. ASSUME UNCHANGED <<stored, against, inSession>>
      PROVE  UnapprovedIsKept' /\ SessionRunsBuildOnApproved'
  BY <1>1 DEF UnapprovedIsKept, SessionRunsBuildOnApproved, Grows
<1>2. ASSUME NEW p \in Procs, Create(p)
      PROVE  UnapprovedIsKept' /\ SessionRunsBuildOnApproved'
  <2>1. ASSUME NEW r \in Runs, stored[r] # "absent" PROVE stored'[r] # "absent"
    BY <1>2, <2>1 DEF Create, DiskTypeOK, Parts, Base
  <2> QED
    BY <1>2, <2>1 DEF Create, UnapprovedIsKept, SessionRunsBuildOnApproved, Grows, DiskTypeOK
<1>3. ASSUME NEW r \in Runs, NEW before, NEW isPassed, NewRun(r, before, isPassed)
      PROVE  /\ stored'[r] # "absent" /\ against'[r] = before
             /\ \A s \in Runs \ {r} : stored'[s] = stored[s] /\ against'[s] = against[s]
             /\ r \notin inSession
  BY <1>3, NewRunIsNew DEF NewRun, DiskTypeOK, Parts
<1>4. ASSUME NEW p \in Procs, NEW r \in Runs, NEW before \in SUBSET Runs,
             NEW isPassed \in BOOLEAN, PlainRun(p, r, before, isPassed)
      PROVE  UnapprovedIsKept' /\ SessionRunsBuildOnApproved'
  BY <1>3, <1>4 DEF PlainRun, UnapprovedIsKept, SessionRunsBuildOnApproved, Grows, DiskTypeOK
<1>5. ASSUME NEW p \in Procs, NEW r \in Runs, NEW isPassed \in BOOLEAN,
             RunFinishes(p, r, isPassed)
      PROVE  UnapprovedIsKept' /\ SessionRunsBuildOnApproved'
  <2>1. hash[p].patches \subseteq Sound
    BY <1>5, HeldByEach DEF RunFinishes, Holds
  <2> QED
    BY <1>3, <1>5, <2>1
    DEF RunFinishes, UnapprovedIsKept, SessionRunsBuildOnApproved, Grows, Sound, DiskTypeOK
<1>6. ASSUME NEW x \in Parts, Alter(x) \/ Remove(x)
      PROVE  UnapprovedIsKept' /\ SessionRunsBuildOnApproved'
  <2>1. ASSUME NEW r \in inSession \ approved PROVE stored'[r] # "absent"
    BY <1>6, <2>1, RunsAssumption
    DEF Alter, Remove, UnapprovedIsKept, DiskTypeOK, Parts, Base
  <2> QED
    BY <1>6, <2>1
    DEF Alter, Remove, UnapprovedIsKept, SessionRunsBuildOnApproved, Grows
<1> QED
  BY <1>1, <1>2, <1>4, <1>5, <1>6
  DEF Next, Begin, Step, Close, RunValidates, Approve, ApproveExtends, ApproveCommits,
      SaveTruncates, SaveWrites, CloseLoads, RunReloads, RunBuilds, ExtendLoads,
      ExtendHashes, ExtendAppends, Dies, diskVars

------------------------------------------------------------------------------
(* The invariant.                                                          *)

LEMMA InitInv == Init => CInv
<1> SUFFICES ASSUME Init PROVE CInv
  OBVIOUS
<1>1. LinksAreApproved
  BY NoFileIsEmpty DEF Init, LinksAreApproved
<1>2. HeldIsApproved
  BY NoFileIsEmpty DEF Init, HeldIsApproved, Sound
<1> QED
  BY InitTypeOK, <1>1, <1>2 DEF Init, CInv, UnapprovedIsKept, SessionRunsBuildOnApproved

LEMMA StepInv == CInv /\ [Next]_vars => CInv'
<1> SUFFICES ASSUME CInv, [Next]_vars PROVE CInv'
  OBVIOUS
<1>1. CASE Next
  <2>1. Grows
    BY <1>1, NextGrows
  <2>2. TypeOK'
    BY <1>1, StepTypeOK, BeginTypeOK DEF Next, CInv
  <2>3. HeldIsApproved'
    BY <1>1, <2>1, StepHolds, BeginHolds DEF Next, CInv
  <2>4. LinksAreApproved'
    BY <1>1, <2>1, LinksStayApproved DEF CInv
  <2> QED
    BY <1>1, <2>1, <2>2, <2>3, <2>4, SessionRunsStay DEF CInv
<1>2. CASE UNCHANGED vars
  BY <1>2 DEF vars, diskVars, procVars, historyVars, CInv, TypeOK, LinksAreApproved,
              HeldIsApproved, UnapprovedIsKept, SessionRunsBuildOnApproved, Eligible, Sound
<1> QED
  BY <1>1, <1>2

\* The strengthened invariant holds of every behaviour of the commands.
THEOREM Inductive == Spec => []CInv
BY InitInv, StepInv, PTL DEF Spec

\* Every variable stays in its set: no command saves a session, or hands on a
\* workspace, of another shape than loadSession accepts.
THEOREM TypeCorrect == Spec => []TypeOK
<1>1. CInv => TypeOK
  BY DEF CInv
<1> QED
  BY Inductive, <1>1, PTL

\* Whatever the commands do to each other, a session's chain holds approved runs
\* of its own project that passed, and so is every run approve reported (cmdApprove).
THEOREM ChainIsApproved == Spec => []LinksAreApproved
<1>1. CInv => LinksAreApproved
  BY DEF CInv
<1> QED
  BY Inductive, <1>1, PTL

\* The workspace a session run starts from holds patches of approved runs that
\* passed, and nothing else (buildSessionRunSnapshot).
THEOREM RunsBuildOnApproved == Spec => []SessionRunsBuildOnApproved
<1>1. CInv => SessionRunsBuildOnApproved
  BY DEF CInv
<1> QED
  BY Inductive, <1>1, PTL

------------------------------------------------------------------------------
(* What saves keep.  A process that saves has the file it first loaded     *)
(* (seen) and what it makes of it (mine).  As long as no save overtook     *)
(* another command, the file is what the process has seen when its save    *)
(* begins, and until it ends the file is unreadable to everyone else.      *)

Before(links, i) == {links[j].runId : j \in 1..(i - 1)}

\* A link after these runs: its patch applies, and its hash is that of the workspace,
\* but for parts that were altered since.
FollowsIn(ag, st, link, before) ==
  LET h == link.workspaceManifestHash IN
  /\ ag[link.runId] \subseteq before
  /\ link.runId \notin before
  /\ h.patches = before \cup {link.runId}
  /\ h.altered \subseteq {x \in h.patches \cup {Base} : st[x] = "altered"}

ChainIn(ag, st, links) == \A i \in 1..Len(links) : FollowsIn(ag, st, links[i], Before(links, i))
ChainFollows(links) == ChainIn(against, stored, links)

Link(p) == [runId |-> arg[p], workspaceManifestHash |-> hash[p]]

Kept(p) ==
  /\ pc[p] = "idle" => seen[p] = NoFile
  /\ pc[p] \in {"idle", "close", "run", "build", "session"} => arg[p] = NoRun
  /\ pc[p] \in {"hash", "append"} => mine[p] = seen[p] /\ mine[p] \in Sessions
  /\ pc[p] = "append" => FollowsIn(against, stored, Link(p), RunsOf(seen[p].chainLinks))
  /\ pc[p] \in {"save", "write"} =>
       /\ mine[p] \in Sessions
       /\ seen[p].status = "closed" => mine[p].status = "closed"
       /\ RunsOf(seen[p].chainLinks) \subseteq RunsOf(mine[p].chainLinks)
       /\ arg[p] # NoRun => arg[p] \in RunsOf(mine[p].chainLinks)

Keeps(session) ==
  /\ sealed => session.status = "closed"
  /\ extended \subseteq RunsOf(session.chainLinks)

Unraced ==
  ~raced =>
    /\ ChainFollows(file.chainLinks)
    /\ \A p \in Procs : pc[p] \in {"save", "write"} => ChainFollows(mine[p].chainLinks)
    /\ file # Unreadable => Keeps(file)
    /\ \A p \in Procs : pc[p] = "write" =>
         file = Unreadable /\ Keeps(mine[p]) /\ \A q \in Procs : pc[q] = "write" => q = p

KInv == (\A p \in Procs : Kept(p)) /\ Unraced

\* What was altered stays so, and an approved run keeps its patch.
Stays(ag, st, ag2, st2, runs) ==
  /\ \A x \in Parts : st[x] = "altered" => st2[x] = "altered"
  /\ \A r \in runs : ag2[r] = ag[r]

LEMMA FollowsStays ==
  ASSUME NEW ag, NEW st, NEW ag2, NEW st2, NEW runs, Stays(ag, st, ag2, st2, runs),
         NEW link \in Links, NEW before, link.runId \in runs, FollowsIn(ag, st, link, before)
  PROVE  FollowsIn(ag2, st2, link, before)
<1>1. link.workspaceManifestHash.patches \cup {Base} \subseteq Parts
  BY DEF Links, Workspaces, Parts
<1> QED
  BY <1>1 DEF Stays, FollowsIn

LEMMA ChainStays ==
  ASSUME NEW ag, NEW st, NEW ag2, NEW st2, NEW runs, Stays(ag, st, ag2, st2, runs),
         NEW links \in Seq(Links), RunsOf(links) \subseteq runs, ChainIn(ag, st, links)
  PROVE  ChainIn(ag2, st2, links)
<1> SUFFICES ASSUME NEW i \in 1..Len(links) PROVE FollowsIn(ag2, st2, links[i], Before(links, i))
  BY DEF ChainIn
<1>1. links[i] \in Links /\ links[i].runId \in runs
  BY ElementOfSeq DEF RunsOf
<1>2. FollowsIn(ag, st, links[i], Before(links, i))
  BY DEF ChainIn
<1> QED
  BY <1>1, <1>2, FollowsStays

LEMMA ChainAppends ==
  ASSUME NEW ag, NEW st, NEW links \in Seq(Links), NEW link \in Links,
         ChainIn(ag, st, links), FollowsIn(ag, st, link, RunsOf(links))
  PROVE  ChainIn(ag, st, Append(links, link))
<1> DEFINE more == Append(links, link)
           n == Len(links)
<1>1. n \in Nat /\ Len(more) = n + 1 /\ more[n + 1] = link /\ \A i \in 1..n : more[i] = links[i]
  OBVIOUS
<1> HIDE DEF more
<1>2. Before(more, n + 1) = RunsOf(links)
  BY <1>1 DEF Before, RunsOf
<1>3. ASSUME NEW i \in 1..n PROVE Before(more, i) = Before(links, i)
  BY <1>1 DEF Before
<1>4. ASSUME NEW i \in 1..(n + 1) PROVE FollowsIn(ag, st, more[i], Before(more, i))
  <2>1. CASE i = n + 1
    BY <1>1, <1>2, <2>1
  <2>2. CASE i \in 1..n
    BY <1>1, <1>3, <2>2 DEF ChainIn
  <2> QED
    BY <1>1, <2>1, <2>2
<1>5. ChainIn(ag, st, more)
  BY <1>1, <1>4 DEF ChainIn
<1> QED
  BY <1>5 DEF more

\* The link of an extension that could be built.
LEMMA ExtensionFollows ==
  ASSUME NEW links \in Seq(Links), NEW r \in Runs, Builds(Append(RunIds(links), r))
  PROVE  FollowsIn(against, stored,
                   [runId |-> r, workspaceManifestHash |-> Workspace(Append(RunIds(links), r))], RunsOf(links))
<1> DEFINE ids == RunIds(links)
           more == Append(ids, r)
           n == Len(links)
<1>1. ids \in Seq(Runs) /\ Len(ids) = n /\ n \in Nat /\ \A i \in 1..n : ids[i] = links[i].runId
  <2>1. ids \in Seq(Runs)
    BY RunIdsOfChain
  <2> QED
    BY <2>1 DEF RunIds
<1>2. Len(more) = n + 1 /\ more[n + 1] = r /\ \A i \in 1..n : more[i] = links[i].runId
  <2> HIDE DEF ids
  <2> QED
    BY <1>1
<1>3. Builds(more)
  OBVIOUS
<1> DEFINE h == Workspace(more)
<1> HIDE DEF ids, more
<1>4. {more[j] : j \in 1..((n + 1) - 1)} = RunsOf(links)
  BY <1>1, <1>2 DEF RunsOf
<1>5. n + 1 \in 1..Len(more)
  BY <1>1, <1>2
<1>6. against[r] \subseteq RunsOf(links) /\ r \notin RunsOf(links)
  BY <1>2, <1>3, <1>4, <1>5 DEF Builds
<1>7. {more[i] : i \in 1..Len(more)} = RunsOf(links) \cup {r}
  BY <1>1, <1>2 DEF RunsOf
<1>8. h.patches = RunsOf(links) \cup {r} /\ h.altered = {x \in h.patches \cup {Base} : stored[x] = "altered"}
  BY <1>7 DEF Workspace
<1> HIDE DEF h
<1>9. FollowsIn(against, stored, [runId |-> r, workspaceManifestHash |-> h], RunsOf(links))
  BY <1>6, <1>8 DEF FollowsIn
<1> QED
  BY <1>9 DEF h, more, ids

------------------------------------------------------------------------------

LEMMA NextStays == ASSUME CInv, Next PROVE Stays(against, stored, against', stored', approved)
<1> TypeOK
  BY DEF CInv
<1>1. CASE UNCHANGED <<stored, against>>
  BY <1>1 DEF Stays
<1>2. ASSUME NEW p \in Procs, Create(p) PROVE Stays(against, stored, against', stored', approved)
  BY <1>2 DEF Create, Stays, TypeOK, Parts
<1>3. ASSUME NEW r \in Runs, NEW before, NEW isPassed, NewRun(r, before, isPassed)
      PROVE  Stays(against, stored, against', stored', approved)
  BY <1>3 DEF NewRun, Stays, TypeOK, Parts
<1>4. ASSUME NEW x \in Parts, Alter(x) \/ Remove(x) PROVE Stays(against, stored, against', stored', approved)
  BY <1>4 DEF Alter, Remove, Stays, TypeOK
<1> QED
  BY <1>1, <1>2, <1>3, <1>4
  DEF Next, Begin, Step, Close, RunValidates, PlainRun, Approve, ApproveExtends, ApproveCommits,
      SaveTruncates, SaveWrites, CloseLoads, RunReloads, RunBuilds, RunFinishes, ExtendLoads,
      ExtendHashes, ExtendAppends, Dies, diskVars

\* What a process that does not move holds stays as good as it was.
LEMMA OthersKept ==
  ASSUME CInv, Next, NEW q \in Procs, Kept(q), pc'[q] = pc[q], mine'[q] = mine[q], arg'[q] = arg[q],
         hash'[q] = hash[q], seen'[q] = seen[q]
  PROVE  Kept(q)'
<1>1. CASE pc[q] # "append"
  BY <1>1 DEF Kept
<1>2. CASE pc[q] = "append"
  <2>1. Link(q) \in Links /\ Link(q).runId \in approved
    BY <1>2 DEF CInv, TypeOK, HeldIsApproved, Eligible, Sound, Link, Links
  <2>2. FollowsIn(against, stored, Link(q), RunsOf(seen[q].chainLinks))
    BY <1>2 DEF Kept
  <2>3. FollowsIn(against', stored', Link(q), RunsOf(seen[q].chainLinks))
    BY <2>1, <2>2, NextStays, FollowsStays
  <2>4. Link(q)' = Link(q)
    BY DEF Link
  <2> QED
    BY <1>2, <2>3, <2>4 DEF Kept
<1> QED
  BY <1>1, <1>2

LEMMA KeptByActor ==
  ASSUME CInv, Next, \A q \in Procs : Kept(q), NEW p \in Procs, Kept(p)',
         \A q \in Procs \ {p} : /\ pc'[q] = pc[q] /\ mine'[q] = mine[q] /\ arg'[q] = arg[q]
                                /\ hash'[q] = hash[q] /\ seen'[q] = seen[q]
  PROVE  (\A q \in Procs : Kept(q))'
<1>1. ASSUME NEW q \in Procs \ {p} PROVE Kept(q)'
  BY OthersKept
<1> QED
  BY <1>1

LEMMA ExitKept ==
  ASSUME CInv, Next, \A q \in Procs : Kept(q), NEW p \in Procs, Exit(p)
  PROVE  (\A q \in Procs : Kept(q))'
<1>1. pc'[p] = "idle" /\ seen'[p] = NoFile /\ arg'[p] = NoRun
  BY DEF Exit, Goto, CInv, TypeOK
<1>2. Kept(p)'
  BY <1>1 DEF Kept
<1> QED
  BY <1>2, KeptByActor DEF Exit, Goto, CInv, TypeOK

LEMMA FileIsChain == ASSUME TypeOK PROVE file.chainLinks \in Seq(Links)
<1>1. CASE file \in {NoFile, Unreadable}
  <2>1. file.chainLinks = <<>>
    BY <1>1 DEF NoFile, Unreadable
  <2> QED
    BY <2>1, EmptyChain
<1>2. CASE file \in Sessions
  BY <1>2 DEF Sessions
<1> QED
  BY <1>1, <1>2 DEF TypeOK

\* No step but those of a save changes the file; one that begins a save has a chain
\* that follows.
LEMMA UnracedStays ==
  ASSUME CInv, Unraced, Next, UNCHANGED <<file, sealed, extended>>, ~raced' => ~raced,
         \A q \in Procs : pc'[q] = "write" => pc[q] = "write" /\ mine'[q] = mine[q],
         \A q \in Procs : ~raced' /\ pc'[q] = "save" =>
            (pc[q] = "save" /\ mine'[q] = mine[q]) \/ ChainIn(against', stored', mine'[q].chainLinks)
  PROVE  Unraced'
<1> SUFFICES ASSUME ~raced' PROVE /\ ChainFollows(file.chainLinks)'
                                  /\ \A p \in Procs : pc'[p] \in {"save", "write"} =>
                                       ChainIn(against', stored', mine'[p].chainLinks)
                                  /\ file' # Unreadable => Keeps(file)'
                                  /\ \A p \in Procs : pc'[p] = "write" =>
                                       /\ file' = Unreadable /\ Keeps(mine[p])'
                                       /\ \A q \in Procs : pc'[q] = "write" => q = p
  BY DEF Unraced, ChainFollows
<1>1. ~raced
  OBVIOUS
<1>2. Stays(against, stored, against', stored', approved)
  BY NextStays
<1>3. ChainFollows(file.chainLinks)'
  <2>1. file.chainLinks \in Seq(Links) /\ RunsOf(file.chainLinks) \subseteq approved
    BY FileIsChain DEF CInv, LinksAreApproved
  <2>2. ChainIn(against, stored, file.chainLinks)
    BY <1>1 DEF Unraced, ChainFollows
  <2> QED
    BY <1>2, <2>1, <2>2, ChainStays DEF ChainFollows
<1>4. ASSUME NEW p \in Procs, pc[p] \in {"save", "write"}, mine'[p] = mine[p]
      PROVE  ChainIn(against', stored', mine'[p].chainLinks)
  <2>1. mine[p].chainLinks \in Seq(Links) /\ RunsOf(mine[p].chainLinks) \subseteq approved
    BY HeldIsChain, TypeParts DEF CInv, HeldIsApproved, Eligible, Sound
  <2>2. ChainIn(against, stored, mine[p].chainLinks)
    BY <1>1, <1>4 DEF Unraced, ChainFollows
  <2> QED
    BY <1>2, <1>4, <2>1, <2>2, ChainStays
<1>5. file' # Unreadable => Keeps(file)'
  BY <1>1 DEF Unraced, Keeps
<1>6. ASSUME NEW p \in Procs, pc'[p] = "write"
      PROVE  file' = Unreadable /\ Keeps(mine[p])' /\ \A q \in Procs : pc'[q] = "write" => q = p
  BY <1>1, <1>6 DEF Unraced, Keeps
<1> QED
  BY <1>3, <1>4, <1>5, <1>6

\* A process that ends saves nothing.
LEMMA ExitUnraced ==
  ASSUME CInv, Unraced, Next, NEW p \in Procs, Exit(p), UNCHANGED <<file, sealed, extended, raced>>
  PROVE  Unraced'
<1>1. pc'[p] = "idle" /\ \A q \in Procs \ {p} : pc'[q] = pc[q] /\ mine'[q] = mine[q]
  BY DEF Exit, Goto, CInv, TypeOK
<1> QED
  BY <1>1, UnracedStays

\* Nor does one that moves to another place than a save.
LEMMA MoveKeeps ==
  ASSUME CInv, KInv, Next, NEW p \in Procs, Kept(p)', pc'[p] \notin {"save", "write"},
         UNCHANGED <<file, sealed, extended, raced>>,
         \A q \in Procs \ {p} : /\ pc'[q] = pc[q] /\ mine'[q] = mine[q] /\ arg'[q] = arg[q]
                                /\ hash'[q] = hash[q] /\ seen'[q] = seen[q]
  PROVE  KInv'
<1>1. (\A q \in Procs : Kept(q))'
  BY KeptByActor DEF KInv
<1>2. Unraced'
  BY UnracedStays DEF KInv
<1> QED
  BY <1>1, <1>2 DEF KInv

\* The steps of a process that has begun, without those of a save.
LEMMA StepKeeps ==
  ASSUME CInv, KInv, Next, NEW p \in Procs, Step(p) \/ Dies(p), ~SaveTruncates(p), ~SaveWrites(p)
  PROVE  KInv'
<1> TypeOK /\ HeldIsApproved /\ Unraced /\ \A q \in Procs : Kept(q)
  BY DEF CInv, KInv
<1>1. CASE CloseLoads(p)
  <2>1. CASE Loadable
    <3>1. file \in Sessions
      BY <2>1, LoadedIsSession, TypeParts
    <3>2. /\ pc[p] = "close" /\ pc'[p] = "save" /\ mine'[p] = [file EXCEPT !.status = "closed"]
          /\ seen'[p] = file /\ arg'[p] = arg[p]
      BY <1>1, <2>1 DEF CloseLoads, Goto, TypeOK
    <3>3. mine'[p] \in Sessions /\ mine'[p].status = "closed" /\ mine'[p].chainLinks = file.chainLinks
      BY <3>1, <3>2 DEF Sessions
    <3>4. Kept(p)'
      BY <3>2, <3>3 DEF Kept
    <3>5. (\A q \in Procs : Kept(q))'
      BY <1>1, <2>1, <3>4, KeptByActor DEF CloseLoads, Goto, TypeOK
    <3>6. ~raced' => ChainIn(against', stored', mine'[p].chainLinks)
      BY <1>1, <3>3 DEF CloseLoads, diskVars, historyVars, Unraced, ChainFollows
    <3>7. Unraced'
      <4>1. ASSUME NEW q \in Procs, q # p PROVE pc'[q] = pc[q] /\ mine'[q] = mine[q]
        BY <1>1, <2>1, <4>1 DEF CloseLoads, Goto, TypeOK
      <4>2. UNCHANGED <<file, sealed, extended, raced>>
        BY <1>1 DEF CloseLoads, historyVars
      <4> QED
        BY <3>2, <3>6, <4>1, <4>2, UnracedStays
    <3> QED
      BY <3>5, <3>7 DEF KInv
  <2>2. CASE ~Loadable
    <3>1. Exit(p) /\ UNCHANGED <<file, sealed, extended, raced>>
      BY <1>1, <2>2 DEF CloseLoads, historyVars
    <3> QED
      BY <3>1, ExitKept, ExitUnraced DEF KInv
  <2> QED
    BY <2>1, <2>2
<1>2. CASE RunReloads(p)
  <2>1. CASE Loadable
    <3>1. pc[p] = "run" /\ pc'[p] = "build" /\ arg'[p] = arg[p]
      BY <1>2, <2>1 DEF RunReloads, Goto, TypeOK
    <3>2. Kept(p)'
      BY <3>1 DEF Kept
    <3> QED
      BY <1>2, <2>1, <3>1, <3>2, MoveKeeps DEF RunReloads, Goto, historyVars, TypeOK
  <2>2. CASE ~Loadable
    <3>1. Exit(p) /\ UNCHANGED <<file, sealed, extended, raced>>
      BY <1>2, <2>2 DEF RunReloads, historyVars
    <3> QED
      BY <3>1, ExitKept, ExitUnraced DEF KInv
  <2> QED
    BY <2>1, <2>2
<1>3. CASE RunBuilds(p)
  <2>1. CASE Builds(RunIds(mine[p].chainLinks))
    <3>1. pc[p] = "build" /\ pc'[p] \in {"session", "close"} /\ arg'[p] = arg[p]
      BY <1>3, <2>1 DEF RunBuilds, TypeOK
    <3>2. Kept(p)'
      BY <3>1 DEF Kept
    <3> QED
      BY <1>3, <2>1, <3>1, <3>2, MoveKeeps DEF RunBuilds, historyVars, TypeOK
  <2>2. CASE ~Builds(RunIds(mine[p].chainLinks))
    <3>1. Exit(p) /\ UNCHANGED <<file, sealed, extended, raced>>
      BY <1>3, <2>2 DEF RunBuilds, historyVars
    <3> QED
      BY <3>1, ExitKept, ExitUnraced DEF KInv
  <2> QED
    BY <2>1, <2>2
<1>4. CASE (\E r \in Runs, isPassed \in BOOLEAN : RunFinishes(p, r, isPassed)) \/ Dies(p)
  <2>1. Exit(p) /\ UNCHANGED <<file, sealed, extended, raced>>
    BY <1>4 DEF RunFinishes, Dies, historyVars
  <2> QED
    BY <2>1, ExitKept, ExitUnraced DEF KInv
<1>5. CASE ExtendLoads(p)
  <2>1. CASE file.status = "open" /\ arg[p] \notin OtherProject
    <3>1. file \in Sessions
      BY <2>1, LoadedIsSession, TypeParts DEF Loadable
    <3>2. /\ pc[p] = "extend" /\ pc'[p] = "hash" /\ mine'[p] = file /\ seen'[p] = file
      BY <1>5, <2>1 DEF ExtendLoads, Goto, TypeOK
    <3>3. Kept(p)'
      BY <3>1, <3>2 DEF Kept
    <3> QED
      BY <1>5, <2>1, <3>2, <3>3, MoveKeeps DEF ExtendLoads, Goto, historyVars, TypeOK
  <2>2. CASE ~(file.status = "open" /\ arg[p] \notin OtherProject)
    <3>1. Exit(p) /\ UNCHANGED <<file, sealed, extended, raced>>
      BY <1>5, <2>2 DEF ExtendLoads, historyVars
    <3> QED
      BY <3>1, ExitKept, ExitUnraced DEF KInv
  <2> QED
    BY <2>1, <2>2
<1>6. CASE ExtendHashes(p)
  <2> DEFINE ids == Append(RunIds(mine[p].chainLinks), arg[p])
  <2>1. CASE Builds(ids)
    <3>1. /\ pc[p] = "hash" /\ pc'[p] = "append" /\ mine'[p] = mine[p] /\ seen'[p] = seen[p]
          /\ arg'[p] = arg[p] /\ hash'[p] = Workspace(ids) /\ UNCHANGED <<against, stored>>
      BY <1>6, <2>1 DEF ExtendHashes, diskVars, TypeOK
    <3>2. mine[p] = seen[p] /\ mine[p] \in Sessions
      BY <3>1 DEF Kept
    <3>3. arg[p] \in Runs
      BY <3>1, ExtensionHasRun, TypeParts
    <3>4. FollowsIn(against, stored, [runId |-> arg[p], workspaceManifestHash |-> Workspace(ids)],
                    RunsOf(mine[p].chainLinks))
      BY <2>1, <3>2, <3>3, ExtensionFollows DEF Sessions
    <3> HIDE DEF ids
    <3>5. Link(p)' = [runId |-> arg[p], workspaceManifestHash |-> Workspace(ids)]
      BY <3>1 DEF Link
    <3>6. FollowsIn(against', stored', Link(p)', RunsOf(seen'[p].chainLinks))
      BY <3>1, <3>2, <3>4, <3>5
    <3>7. Kept(p)'
      BY <3>1, <3>2, <3>6 DEF Kept
    <3> QED
      BY <1>6, <2>1, <3>1, <3>7, MoveKeeps DEF ExtendHashes, historyVars, TypeOK, ids
  <2>2. CASE ~Builds(ids)
    <3>1. Exit(p) /\ UNCHANGED <<file, sealed, extended, raced>>
      BY <1>6, <2>2 DEF ExtendHashes, historyVars
    <3> QED
      BY <3>1, ExitKept, ExitUnraced DEF KInv
  <2> QED
    BY <2>1, <2>2
<1>7. CASE ExtendAppends(p)
  <2>1. CASE file.status = "open"
    <3>1. file \in Sessions /\ file.chainLinks \in Seq(Links)
      BY <2>1, LoadedIsSession, TypeParts DEF Loadable, Sessions
    <3>2. /\ pc[p] = "append" /\ pc'[p] = "save" /\ seen'[p] = file /\ arg'[p] = arg[p]
          /\ mine'[p] = [file EXCEPT !.chainLinks = Append(@, Link(p))]
          /\ raced' = (raced \/ file # seen[p])
          /\ UNCHANGED <<against, stored, file, sealed, extended>>
      BY <1>7, <2>1 DEF ExtendAppends, Goto, diskVars, Link, TypeOK
    <3>3. Link(p) \in Links
      BY <3>2, ExtensionHasRun, TypeParts DEF ProcTypeOK, Link, Links
    <3>4. /\ mine'[p] \in Sessions /\ mine'[p].status = "open"
          /\ mine'[p].chainLinks = Append(file.chainLinks, Link(p))
      <4>1. [file EXCEPT !.chainLinks = Append(@, Link(p))] \in Sessions
        BY <3>1, <3>3, ExtendedIsSession
      <4> QED
        BY <2>1, <3>1, <3>2, <4>1 DEF Sessions
    <3>5. RunsOf(mine'[p].chainLinks) = RunsOf(file.chainLinks) \cup {arg[p]}
      BY <3>1, <3>3, <3>4, RunsOfAppend DEF Link
    <3>6. Kept(p)'
      BY <2>1, <3>2, <3>4, <3>5 DEF Kept
    <3>7. (\A q \in Procs : Kept(q))'
      BY <1>7, <2>1, <3>6, KeptByActor DEF ExtendAppends, Goto, TypeOK
    <3>8. ~raced' => ChainIn(against', stored', mine'[p].chainLinks)
      <4> SUFFICES ASSUME ~raced' PROVE ChainIn(against, stored, Append(file.chainLinks, Link(p)))
        BY <3>2, <3>4
      <4>1. ~raced /\ file = seen[p]
        BY <3>2
      <4>2. ChainIn(against, stored, file.chainLinks)
        BY <4>1 DEF Unraced, ChainFollows
      <4>3. FollowsIn(against, stored, Link(p), RunsOf(file.chainLinks))
        BY <3>2, <4>1 DEF Kept
      <4> QED
        BY <3>1, <3>3, <4>2, <4>3, ChainAppends
    <3>9. Unraced'
      <4>1. ASSUME NEW q \in Procs, q # p PROVE pc'[q] = pc[q] /\ mine'[q] = mine[q]
        BY <1>7, <2>1, <4>1 DEF ExtendAppends, Goto, TypeOK
      <4>2. ~raced' => ~raced
        BY <3>2
      <4>3. UNCHANGED <<file, sealed, extended>> /\ pc'[p] = "save"
        BY <3>2
      <4> QED
        BY <3>8, <4>1, <4>2, <4>3, UnracedStays
    <3> QED
      BY <3>7, <3>9 DEF KInv
  <2>2. CASE file.status # "open"
    <3>1. Exit(p) /\ UNCHANGED <<file, sealed, extended, raced>>
      BY <1>7, <2>2 DEF ExtendAppends
    <3> QED
      BY <3>1, ExitKept, ExitUnraced DEF KInv
  <2> QED
    BY <2>1, <2>2
<1> QED
  BY <1>1, <1>2, <1>3, <1>4, <1>5, <1>6, <1>7 DEF Step

\* A save that begins: the file is what the process has seen, or the save overtakes another.
LEMMA SaveTruncatesKeeps ==
  ASSUME CInv, KInv, Next, NEW p \in Procs, SaveTruncates(p)
  PROVE  KInv'
<1> TypeOK /\ Unraced /\ \A q \in Procs : Kept(q)
  BY DEF CInv, KInv
<1>1. /\ pc[p] = "save" /\ pc'[p] = "write" /\ file' = Unreadable /\ raced' = (raced \/ file # seen[p])
      /\ UNCHANGED <<stored, against, arg, mine, hash, seen, sealed, extended>>
      /\ \A q \in Procs \ {p} : pc'[q] = pc[q]
  BY DEF SaveTruncates, diskVars, TypeOK
<1>2. Kept(p)'
  BY <1>1 DEF Kept
<1>3. (\A q \in Procs : Kept(q))'
  BY <1>1, <1>2, KeptByActor
<1>4. Unraced'
  <2> SUFFICES ASSUME ~raced'
               PROVE  /\ ChainFollows(file.chainLinks)'
                      /\ \A q \in Procs : pc'[q] \in {"save", "write"} => ChainFollows(mine[q].chainLinks)'
                      /\ \A q \in Procs : pc'[q] = "write" => Keeps(mine[q])' /\ q = p
    BY <1>1 DEF Unraced
  <2>1. ~raced /\ file = seen[p]
    BY <1>1
  <2>2. file # Unreadable
    BY <2>1 DEF TypeOK, Sessions, NoFile, Unreadable
  <2>3. ChainFollows(file.chainLinks)'
    BY <1>1 DEF ChainFollows, ChainIn, Unreadable
  <2>4. \A q \in Procs : pc'[q] \in {"save", "write"} => ChainFollows(mine[q].chainLinks)'
    BY <1>1, <2>1 DEF Unraced, ChainFollows
  <2>5. Keeps(mine[p])
    BY <1>1, <2>1, <2>2 DEF Unraced, Keeps, Kept
  <2>6. \A q \in Procs : pc[q] # "write"
    BY <2>1, <2>2 DEF Unraced
  <2> QED
    BY <1>1, <2>3, <2>4, <2>5, <2>6 DEF Keeps
<1> QED
  BY <1>3, <1>4 DEF KInv

\* A save that ends: nobody else could read, or begin to save, in the meantime.
LEMMA SaveWritesKeeps ==
  ASSUME CInv, KInv, Next, NEW p \in Procs, SaveWrites(p)
  PROVE  KInv'
<1> TypeOK /\ Unraced /\ \A q \in Procs : Kept(q)
  BY DEF CInv, KInv
<1>1. (\A q \in Procs : Kept(q))'
  BY ExitKept DEF SaveWrites, KInv
<1>2. /\ pc[p] = "write" /\ pc'[p] = "idle" /\ UNCHANGED <<stored, against>>
      /\ \A q \in Procs \ {p} : pc'[q] = pc[q] /\ mine'[q] = mine[q]
  BY DEF SaveWrites, Exit, Goto, diskVars, TypeOK
<1>3. Unraced'
  <2> SUFFICES ASSUME ~raced'
               PROVE  /\ ChainFollows(file.chainLinks)'
                      /\ \A q \in Procs : pc'[q] \in {"save", "write"} => ChainFollows(mine[q].chainLinks)'
                      /\ file' # Unreadable => Keeps(file)'
                      /\ \A q \in Procs : pc'[q] # "write"
    BY DEF Unraced
  <2>1. /\ ~raced /\ file = Unreadable /\ file' = mine[p]
        /\ sealed' = (sealed \/ mine[p].status = "closed")
        /\ extended' = IF arg[p] = NoRun THEN extended ELSE extended \cup {arg[p]}
    BY DEF SaveWrites
  <2>2. Keeps(mine[p]) /\ ChainFollows(mine[p].chainLinks) /\ \A q \in Procs : pc[q] = "write" => q = p
    BY <1>2, <2>1 DEF Unraced
  <2>3. ChainFollows(file.chainLinks)'
    BY <1>2, <2>1, <2>2 DEF ChainFollows
  <2>4. \A q \in Procs : pc'[q] \in {"save", "write"} => ChainFollows(mine[q].chainLinks)'
    BY <1>2, <2>1 DEF Unraced, ChainFollows
  <2>5. arg[p] # NoRun => arg[p] \in RunsOf(mine[p].chainLinks)
    BY <1>2 DEF Kept
  <2>6. Keeps(file)'
    BY <2>1, <2>2, <2>5 DEF Keeps
  <2> QED
    BY <1>2, <2>2, <2>3, <2>4, <2>6
<1> QED
  BY <1>1, <1>3 DEF KInv

\* The beginning of a command, and what happens around the commands.
LEMMA BeginKeeps ==
  ASSUME CInv, KInv, Next, (\E p \in Procs : Begin(p)) \/ (\E x \in Parts : Alter(x) \/ Remove(x))
  PROVE  KInv'
<1> TypeOK /\ Unraced /\ \A q \in Procs : Kept(q)
  BY DEF CInv, KInv
<1>1. ASSUME NEW p \in Procs, Create(p) PROVE KInv'
  <2> DEFINE fresh == [status |-> "open", chainLinks |-> <<>>]
  <2>1. /\ pc[p] = "idle" /\ pc'[p] = "save" /\ mine'[p] = fresh /\ seen'[p] = seen[p] /\ arg'[p] = arg[p]
        /\ UNCHANGED <<file, sealed, extended, raced, arg, hash, seen>>
        /\ \A q \in Procs \ {p} : pc'[q] = pc[q] /\ mine'[q] = mine[q]
    BY <1>1 DEF Create, Goto, historyVars, TypeOK
  <2>2. fresh \in Sessions /\ fresh.status = "open" /\ fresh.chainLinks = <<>>
    BY EmptyChain DEF Sessions
  <2> HIDE DEF fresh
  <2>3. seen[p].status # "closed" /\ RunsOf(seen[p].chainLinks) = {} /\ arg[p] = NoRun
    <3>1. seen[p] = NoFile /\ arg[p] = NoRun
      BY <2>1 DEF Kept
    <3> QED
      BY <3>1, NoFileIsEmpty DEF NoFile
  <2>4. Kept(p)'
    BY <2>1, <2>2, <2>3 DEF Kept
  <2>5. (\A q \in Procs : Kept(q))'
    BY <2>1, <2>4, KeptByActor
  <2>6. ChainIn(against', stored', mine'[p].chainLinks)
    <3>1. \A i \in 1..Len(<<>>) : FALSE
      OBVIOUS
    <3> QED
      BY <2>1, <2>2, <3>1 DEF ChainIn
  <2>7. Unraced'
    BY <2>1, <2>6, UnracedStays
  <2> QED
    BY <2>5, <2>7 DEF KInv
<1>2. ASSUME NEW p \in Procs, Close(p) \/ RunValidates(p) PROVE KInv'
  <2>1. /\ pc[p] = "idle" /\ pc'[p] \in {"close", "run"} /\ arg'[p] = arg[p]
        /\ UNCHANGED <<file, sealed, extended, raced, arg, mine, hash, seen>>
        /\ \A q \in Procs \ {p} : pc'[q] = pc[q]
    BY <1>2 DEF Close, RunValidates, historyVars, TypeOK
  <2>2. Kept(p)'
    BY <2>1 DEF Kept
  <2> QED
    BY <2>1, <2>2, MoveKeeps
<1>3. ASSUME NEW p \in Procs, NEW r \in Runs, ApproveExtends(p, r) PROVE KInv'
  <2>1. /\ pc'[p] = "extend" /\ UNCHANGED <<file, sealed, extended, raced, mine, hash, seen>>
        /\ \A q \in Procs \ {p} : pc'[q] = pc[q] /\ arg'[q] = arg[q]
    BY <1>3 DEF ApproveExtends, ApproveCommits, historyVars, TypeOK
  <2>2. Kept(p)'
    BY <2>1 DEF Kept
  <2> QED
    BY <2>1, <2>2, MoveKeeps
<1>4. ASSUME UNCHANGED procVars, UNCHANGED <<file, sealed, extended, raced>> PROVE KInv'
  <2>1. (\A q \in Procs : Kept(q))'
    BY <1>4, OthersKept DEF procVars
  <2>2. Unraced'
    BY <1>4, UnracedStays DEF procVars
  <2> QED
    BY <2>1, <2>2 DEF KInv
<1> QED
  BY <1>1, <1>2, <1>3, <1>4 DEF Begin, PlainRun, Approve, Alter, Remove, ApproveCommits, historyVars

LEMMA InitKeeps == Init => KInv
<1> SUFFICES ASSUME Init PROVE KInv
  OBVIOUS
<1>1. \A p \in Procs : Kept(p)
  BY DEF Init, Kept
<1>2. ChainFollows(file.chainLinks)
  <2>1. \A i \in 1..Len(<<>>) : FALSE
    OBVIOUS
  <2> QED
    BY <2>1 DEF Init, NoFile, ChainFollows, ChainIn
<1>3. Keeps(file)
  BY DEF Init, Keeps
<1> QED
  BY <1>1, <1>2, <1>3 DEF Init, KInv, Unraced

LEMMA NextKeeps == CInv /\ KInv /\ [Next]_vars => KInv'
<1> SUFFICES ASSUME CInv, KInv, [Next]_vars PROVE KInv'
  OBVIOUS
<1>1. CASE Next
  <2>1. ASSUME NEW p \in Procs, Step(p) \/ Dies(p) PROVE KInv'
    BY <1>1, <2>1, StepKeeps, SaveTruncatesKeeps, SaveWritesKeeps
  <2>2. ASSUME (\E p \in Procs : Begin(p)) \/ (\E x \in Parts : Alter(x) \/ Remove(x)) PROVE KInv'
    BY <1>1, <2>2, BeginKeeps
  <2> QED
    BY <1>1, <2>1, <2>2 DEF Next
<1>2. CASE UNCHANGED vars
  <2>1. (\A p \in Procs : Kept(p))'
    BY <1>2 DEF vars, diskVars, procVars, KInv, Kept, Link
  <2>2. Unraced'
    BY <1>2 DEF vars, diskVars, procVars, historyVars, KInv, Unraced, ChainFollows, Keeps
  <2> QED
    BY <2>1, <2>2 DEF KInv
<1> QED
  BY <1>1, <1>2

LEMMA AlwaysKept == Spec => []KInv
BY Inductive, InitKeeps, NextKeeps, PTL DEF Spec

\* As long as no save overtook another command, a closed session stays closed and a run
\* whose approve reported it stays in the chain, whoever dies in the middle of a save:
\* for any number of processes and runs (saveSession, closeSession, extendSession).
THEOREM SavesKeep == Spec => []SavesKeepWhatWasSaved
<1>1. KInv => SavesKeepWhatWasSaved
  BY DEF KInv, Unraced, Keeps, SavesKeepWhatWasSaved, Loadable, Unreadable
<1> QED
  BY AlwaysKept, <1>1, PTL

LEMMA SameWorkspace ==
  ASSUME NEW h \in Workspaces, NEW w \in Workspaces, h.patches = w.patches, h.altered = w.altered
  PROVE  h = w
<1>1. h = [patches |-> h.patches, altered |-> h.altered] /\ w = [patches |-> w.patches, altered |-> w.altered]
  BY DEF Workspaces
<1> QED
  BY <1>1

LEMMA FollowingChainIsReproducible ==
  ASSUME TypeOK, NEW links \in Seq(Links), ChainFollows(links),
         \A x \in {Base} \cup RunsOf(links) : stored[x] = "intact"
  PROVE  /\ Builds(RunIds(links))
         /\ \A i \in 1..Len(links) :
              links[i].workspaceManifestHash = Workspace(RunIds(SubSeq(links, 1, i)))
<1> DEFINE n == Len(links)
<1>1. n \in Nat /\ Len(RunIds(links)) = n /\ \A i \in 1..n : RunIds(links)[i] = links[i].runId
  <2>1. RunIds(links) \in Seq(Runs)
    BY RunIdsOfChain
  <2> QED
    BY <2>1 DEF RunIds
<1>2. \A i \in 1..n : FollowsIn(against, stored, links[i], Before(links, i))
  BY DEF ChainFollows, ChainIn
<1>3. \A i \in 1..n : links[i].runId \in RunsOf(links) /\ links[i] \in Links
  BY ElementOfSeq DEF RunsOf
<1>4. Builds(RunIds(links))
  <2>1. stored[Base] # "absent"
    OBVIOUS
  <2>2. ASSUME NEW i \in 1..n
        PROVE  LET before == {RunIds(links)[j] : j \in 1..(i - 1)} IN
               /\ stored[RunIds(links)[i]] # "absent"
               /\ against[RunIds(links)[i]] \subseteq before
               /\ RunIds(links)[i] \notin before
    <3>1. {RunIds(links)[j] : j \in 1..(i - 1)} = Before(links, i)
      BY <1>1 DEF Before
    <3> QED
      BY <1>1, <1>2, <1>3, <3>1 DEF FollowsIn
  <2> QED
    BY <1>1, <2>1, <2>2 DEF Builds
<1>5. ASSUME NEW i \in 1..n
      PROVE  links[i].workspaceManifestHash = Workspace(RunIds(SubSeq(links, 1, i)))
  <2> DEFINE front == SubSeq(links, 1, i)
             h == links[i].workspaceManifestHash
             w == Workspace(RunIds(front))
  <2>1. front \in Seq(Links) /\ Len(front) = i /\ \A j \in 1..i : front[j] = links[j]
    OBVIOUS
  <2>2. RunsOf(front) = Before(links, i) \cup {links[i].runId}
    <3> HIDE DEF front
    <3>1. RunsOf(front) = {links[j].runId : j \in 1..i}
      BY <2>1 DEF RunsOf
    <3> QED
      BY <1>1, <3>1 DEF Before
  <2>3. w.patches = RunsOf(front) /\ w \in Workspaces
    <3> HIDE DEF front
    <3> QED
      BY <2>1, WorkspaceOfChain
  <2>4. RunsOf(front) \subseteq RunsOf(links)
    <3> HIDE DEF front
    <3> QED
      BY <1>1, <2>1 DEF RunsOf
  <2>5. w.altered = {}
    <3> HIDE DEF front
    <3>1. {RunIds(front)[k] : k \in 1..Len(RunIds(front))} = RunsOf(front)
      BY <2>1, RunIdsOfChain
    <3>2. w.altered = {x \in RunsOf(front) \cup {Base} : stored[x] = "altered"}
      BY <3>1 DEF Workspace
    <3> QED
      BY <2>4, <3>2
  <2>6. h \in Workspaces /\ h.patches = RunsOf(front) /\ h.altered = {}
    <3>1. FollowsIn(against, stored, links[i], Before(links, i))
      BY <1>2
    <3>2. h \in Workspaces
      BY <1>3 DEF Links
    <3>3. h.patches = RunsOf(front) /\ h.altered \subseteq {x \in RunsOf(front) \cup {Base} : stored[x] = "altered"}
      BY <2>2, <3>1 DEF FollowsIn
    <3> QED
      BY <2>4, <3>2, <3>3
  <2> HIDE DEF h, w
  <2>7. h = w
    BY <2>3, <2>5, <2>6, SameWorkspace
  <2> QED
    BY <2>7 DEF h, w
<1> QED
  BY <1>4, <1>5

\* As long as no save overtook another command, a chain whose parts are all there and
\* as they were stored can be rebuilt, and every link has the hash of what is rebuilt
\* from the links up to it (computeExtendedWorkspaceManifestHash, buildCumulativeWorkspace).
THEOREM ChainReproduces == Spec => []ChainIsReproducible
<1>1. CInv /\ KInv => ChainIsReproducible
  <2> SUFFICES ASSUME CInv, KInv, ~raced,
                      \A x \in {Base} \cup RunsOf(file.chainLinks) : stored[x] = "intact"
               PROVE  /\ Builds(RunIds(file.chainLinks))
                      /\ \A i \in 1..Len(file.chainLinks) :
                           file.chainLinks[i].workspaceManifestHash =
                             Workspace(RunIds(SubSeq(file.chainLinks, 1, i)))
    BY DEF ChainIsReproducible
  <2>1. ChainFollows(file.chainLinks) /\ file.chainLinks \in Seq(Links) /\ TypeOK
    BY FileIsChain DEF CInv, KInv, Unraced
  <2> QED
    BY <2>1, FollowingChainIsReproducible
<1> QED
  BY AlwaysKept, Inductive, <1>1, PTL
=============================================================================
