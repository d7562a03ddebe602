----------------------------- MODULE SessionChain -----------------------------
(***************************************************************************)
(* The session chain: SESSION.json (src/src/sessions/session-chain.ts),    *)
(* the workspace rebuilt from it (session-workspace.ts), and the commands  *)
(* that use them, each a process of its own: session create and close,     *)
(* run --session, approve --extend-session (src/src/cli/commands).         *)
(*                                                                         *)
(* Nothing locks SESSION.json.  A command loads it, computes, loads it     *)
(* again and saves it whole, and a save truncates the file before it       *)
(* writes it: every load, truncation and write is a step of its own, and   *)
(* the process may die between any two.                                    *)
(*                                                                         *)
(* One session is modelled; sessions share nothing.  A workspace is what   *)
(* went into it: the set of runs whose patches it contains, and which of   *)
(* these stored parts no longer are what was stored.  Its manifest hash is *)
(* the workspace itself.  The git half of approve is one step here: it is  *)
(* modelled in Approve.                                                    *)
(*                                                                         *)
(* A definition Name_Variant is a mutant of Name: no action uses it.       *)
(***************************************************************************)
EXTENDS Naturals, Sequences, FiniteSets

CONSTANTS
  Procs,         \* processes of the powerplant command
  Runs,          \* run ids
  OtherProject,  \* runs of another project than the session's
  RepoHome,      \* is the directory of the stored runs inside a git repository?
  NoRun          \* no run

ASSUME RunsAssumption ==
  /\ OtherProject \subseteq Runs
  /\ NoRun \notin Runs
  /\ "base" \notin Runs
  /\ RepoHome \in BOOLEAN

VARIABLES
  file,       \* SESSION.json
  stored,     \* the base workspace and the PATCH.diff of each run, as they are on disk
  against,    \* for each run, the runs whose patches its own was written on top of
  passed,     \* runs whose SESSION_SUMMARY.json says passed
  inSession,  \* runs of run --session: their source is a copy in the run's directory
  approved,   \* runs with a commit made by approve
  pc,         \* where each process is
  arg,        \* the run an approve extends the session with
  mine,       \* the session as a process loaded it, then as it will save it
  hash,       \* the workspace manifest hash a process computed, or its snapshot
  seen,       \* history: the file as the process first loaded it
  raced,      \* history: a process saved over, or hashed, a chain it had not seen
  sealed,     \* history: a completed save wrote "closed"
  extended    \* history: runs whose approve has said "Session extended"

diskVars    == <<stored, against, passed, inSession, approved>>
procVars    == <<pc, arg, mine, hash, seen>>
historyVars == <<raced, sealed, extended>>
vars == <<file, diskVars, procVars, historyVars>>

Base == "base"   \* the session's base directory
Parts == Runs \cup {Base}

Workspaces == [patches : SUBSET Runs, altered : SUBSET Parts]
Links      == [runId : Runs, workspaceManifestHash : Workspaces]
Sessions   == [status : {"open", "closed"}, chainLinks : Seq(Links)]

NoFile     == [status |-> "absent", chainLinks |-> <<>>]
Unreadable == [status |-> "unreadable", chainLinks |-> <<>>]

\* loadSession returns, instead of throwing.
Loadable == file.status \in {"open", "closed"}

RunsOf(links) == {links[i].runId : i \in 1..Len(links)}

\* buildCumulativeWorkspace gets through: every stored part is there, and each
\* patch, in the chain's order, finds what it was written on top of, and is new.
Builds(runIds) ==
  /\ stored[Base] # "absent"
  /\ \A i \in 1..Len(runIds) :
       LET before == {runIds[j] : j \in 1..(i - 1)} IN
       /\ stored[runIds[i]] # "absent"
       /\ against[runIds[i]] \subseteq before
       /\ runIds[i] \notin before

\* The workspace it builds.
Workspace(runIds) ==
  LET runs == {runIds[i] : i \in 1..Len(runIds)} IN
  [patches |-> runs, altered |-> {x \in runs \cup {Base} : stored[x] = "altered"}]

RunIds(links) == [i \in 1..Len(links) |-> links[i].runId]

BaseManifestHash == [patches |-> {}, altered |-> {}]
ExpectedHash(links) ==
  IF links = <<>> THEN BaseManifestHash ELSE links[Len(links)].workspaceManifestHash

------------------------------------------------------------------------------
Init ==
  /\ file = NoFile
  /\ stored = [x \in Parts |-> "absent"]
  /\ against = [r \in Runs |-> {}]
  /\ passed = {}
  /\ inSession = {}
  /\ approved = {}
  /\ pc = [p \in Procs |-> "idle"]
  /\ arg = [p \in Procs |-> NoRun]
  /\ mine = [p \in Procs |-> NoFile]
  /\ hash = [p \in Procs |-> BaseManifestHash]
  /\ seen = [p \in Procs |-> NoFile]
  /\ raced = FALSE
  /\ sealed = FALSE
  /\ extended = {}

\* p goes on at l with the session s in hand.
Goto(p, l, s) ==
  /\ pc' = [pc EXCEPT ![p] = l]
  /\ mine' = [mine EXCEPT ![p] = s]

\* p ends, here or by an error: nothing of it stays.
Exit(p) ==
  /\ Goto(p, "idle", NoFile)
  /\ arg' = [arg EXCEPT ![p] = NoRun]
  /\ hash' = [hash EXCEPT ![p] = BaseManifestHash]
  /\ seen' = [seen EXCEPT ![p] = NoFile]

------------------------------------------------------------------------------
(* saveSession.                                                            *)

SaveTruncates(p) ==
  /\ pc[p] = "save"
  /\ pc' = [pc EXCEPT ![p] = "write"]
  /\ file' = Unreadable
  /\ raced' = (raced \/ file # seen[p])
  /\ UNCHANGED <<diskVars, arg, mine, hash, seen, sealed, extended>>

\* Two saves that overlap may leave a mixture of both texts.
SaveWrites(p) ==
  /\ pc[p] = "write"
  /\ file' \in IF file = Unreadable THEN {mine[p]} ELSE {mine[p], Unreadable}
  /\ raced' = (raced \/ file # Unreadable)
  /\ sealed' = (sealed \/ mine[p].status = "closed")
  /\ extended' = IF arg[p] = NoRun THEN extended ELSE extended \cup {arg[p]}
  /\ Exit(p)
  /\ UNCHANGED diskVars

------------------------------------------------------------------------------
(* session create and session close.                                       *)

\* The base workspace is built and hashed; SESSION.json is saved next.
Create(p) ==
  /\ file = NoFile
  /\ stored[Base] = "absent"
  /\ \A q \in Procs : pc[q] = "idle"
  /\ stored' = [stored EXCEPT ![Base] = "intact"]
  /\ Goto(p, "save", [status |-> "open", chainLinks |-> <<>>])
  /\ UNCHANGED <<file, against, passed, inSession, approved, arg, hash, seen, historyVars>>

\* The command's own load; a session already closed ends it.
Close(p) ==
  /\ pc[p] = "idle"
  /\ file.status = "open"
  /\ pc' = [pc EXCEPT ![p] = "close"]
  /\ UNCHANGED <<file, diskVars, arg, mine, hash, seen, historyVars>>

\* closeSession, called by session close and when a snapshot does not match.
CloseLoads(p) ==
  /\ pc[p] = "close"
  /\ IF Loadable
     THEN /\ Goto(p, "save", [file EXCEPT !.status = "closed"])
          /\ seen' = [seen EXCEPT ![p] = file]
          /\ UNCHANGED <<arg, hash>>
     ELSE Exit(p)
  /\ UNCHANGED <<file, diskVars, historyVars>>

------------------------------------------------------------------------------
(* run and run --session.                                                  *)

\* The run r comes into being, with a patch on top of what was there.
NewRun(r, before, isPassed) ==
  /\ stored[r] = "absent"
  /\ r \notin approved
  /\ stored' = [stored EXCEPT ![r] = "intact"]
  /\ against' = [against EXCEPT ![r] = before]
  /\ passed' = IF isPassed THEN passed \cup {r} ELSE passed

\* A run of the project's own source, which has some of the approved branches merged.
PlainRun(p, r, before, isPassed) ==
  /\ pc[p] = "idle"
  /\ before \subseteq IF r \in OtherProject THEN {} ELSE approved \ OtherProject
  /\ NewRun(r, before, isPassed)
  /\ UNCHANGED <<file, inSession, approved, procVars, historyVars>>

\* The session is validated; disclosure, the prompt and provisioning follow.
RunValidates(p) ==
  /\ pc[p] = "idle"
  /\ file.status = "open"
  /\ pc' = [pc EXCEPT ![p] = "run"]
  /\ UNCHANGED <<file, diskVars, arg, mine, hash, seen, historyVars>>

RunReloads_Unreadable(p) ==
  /\ pc[p] = "run"
  /\ IF file # NoFile THEN Goto(p, "build", file) /\ UNCHANGED <<arg, hash, seen>> ELSE Exit(p)
  /\ UNCHANGED <<file, diskVars, historyVars>>

\* It is loaded again, and its status is not looked at.
RunReloads(p) ==
  /\ pc[p] = "run"
  /\ IF Loadable THEN Goto(p, "build", file) /\ UNCHANGED <<arg, hash, seen>> ELSE Exit(p)
  /\ UNCHANGED <<file, diskVars, historyVars>>

\* buildSessionRunSnapshot: the workspace is rebuilt and must have the manifest
\* hash the session recorded; otherwise the session is closed.
RunBuilds(p) ==
  LET links == mine[p].chainLinks IN
  /\ pc[p] = "build"
  /\ IF Builds(RunIds(links))
     THEN /\ pc' = [pc EXCEPT ![p] = IF Workspace(RunIds(links)) = ExpectedHash(links)
                                     THEN "session" ELSE "close"]
          /\ hash' = [hash EXCEPT ![p] = Workspace(RunIds(links))]
          /\ UNCHANGED <<arg, mine, seen>>
     ELSE Exit(p)
  /\ UNCHANGED <<file, diskVars, historyVars>>

\* The broker session on the snapshot ends with a package.
RunFinishes(p, r, isPassed) ==
  /\ pc[p] = "session"
  /\ NewRun(r, hash[p].patches, isPassed)
  /\ inSession' = inSession \cup {r}
  /\ Exit(p)
  /\ UNCHANGED <<file, approved, historyVars>>

------------------------------------------------------------------------------
(* approve.                                                                *)

\* The git half: r gets its commit on a new branch, again if the branch of an
\* earlier approve was deleted.  It refuses a run whose source is no git repository.
ApproveCommits(p, r) ==
  /\ pc[p] = "idle"
  /\ stored[r] # "absent"
  /\ r \in inSession => RepoHome
  /\ approved' = approved \cup {r}
  /\ UNCHANGED <<file, stored, against, passed, inSession>>

\* approve, without --extend-session or of a run that did not pass.
Approve(p, r) ==
  /\ ApproveCommits(p, r)
  /\ UNCHANGED <<procVars, historyVars>>

\* approve --extend-session: only of a run that passed.
ApproveExtends_Failed(p, r) ==
  /\ ApproveCommits(p, r)
  /\ pc' = [pc EXCEPT ![p] = "extend"]
  /\ arg' = [arg EXCEPT ![p] = r]
  /\ UNCHANGED <<mine, hash, seen, historyVars>>

ApproveExtends(p, r) ==
  /\ ApproveCommits(p, r)
  /\ r \in passed
  /\ pc' = [pc EXCEPT ![p] = "extend"]
  /\ arg' = [arg EXCEPT ![p] = r]
  /\ UNCHANGED <<mine, hash, seen, historyVars>>

\* The session must load, be open, and be of the run's project.
ExtendLoads(p) ==
  /\ pc[p] = "extend"
  /\ IF file.status = "open" /\ arg[p] \notin OtherProject
     THEN /\ Goto(p, "hash", file)
          /\ seen' = [seen EXCEPT ![p] = file]
          /\ UNCHANGED <<arg, hash>>
     ELSE Exit(p)
  /\ UNCHANGED <<file, diskVars, historyVars>>

\* computeExtendedWorkspaceManifestHash: what is stored is not compared with
\* what the session recorded of it.
ExtendHashes(p) ==
  LET runIds == Append(RunIds(mine[p].chainLinks), arg[p]) IN
  /\ pc[p] = "hash"
  /\ IF Builds(runIds)
     THEN /\ pc' = [pc EXCEPT ![p] = "append"]
          /\ hash' = [hash EXCEPT ![p] = Workspace(runIds)]
          /\ UNCHANGED <<arg, mine, seen>>
     ELSE Exit(p)
  /\ UNCHANGED <<file, diskVars, historyVars>>

ExtendAppends_Forgets(p) ==
  LET link == [runId |-> arg[p], workspaceManifestHash |-> hash[p]] IN
  /\ pc[p] = "append"
  /\ IF file.status = "open"
     THEN /\ Goto(p, "save", [file EXCEPT !.chainLinks = <<link>>])
          /\ raced' = (raced \/ file # seen[p])
          /\ UNCHANGED <<arg, hash, seen>>
     ELSE Exit(p) /\ UNCHANGED raced
  /\ UNCHANGED <<file, diskVars, sealed, extended>>

ExtendAppends_EvenClosed(p) ==
  LET link == [runId |-> arg[p], workspaceManifestHash |-> hash[p]] IN
  /\ pc[p] = "append"
  /\ IF Loadable
     THEN /\ Goto(p, "save", [status |-> "open", chainLinks |-> Append(file.chainLinks, link)])
          /\ seen' = [seen EXCEPT ![p] = file]
          /\ UNCHANGED <<arg, hash>>
     ELSE Exit(p)
  /\ UNCHANGED <<file, diskVars, historyVars>>

\* extendSession loads the session again, refuses a closed one, and appends.
ExtendAppends(p) ==
  LET link == [runId |-> arg[p], workspaceManifestHash |-> hash[p]] IN
  /\ pc[p] = "append"
  /\ IF file.status = "open"
     THEN /\ Goto(p, "save", [file EXCEPT !.chainLinks = Append(@, link)])
          /\ raced' = (raced \/ file # seen[p])
          /\ seen' = [seen EXCEPT ![p] = file]
          /\ UNCHANGED <<arg, hash>>
     ELSE Exit(p) /\ UNCHANGED raced
  /\ UNCHANGED <<file, diskVars, sealed, extended>>

------------------------------------------------------------------------------
(* What happens around the commands.                                       *)

\* The process dies.  A save it had begun stays half done.
Dies(p) ==
  /\ pc[p] # "idle"
  /\ Exit(p)
  /\ UNCHANGED <<file, diskVars, historyVars>>

\* A stored part is edited or removed by hand.
\* Bound: one part is edited, after the removals, and no part is restored.
Alter(x) ==
  /\ \A y \in Parts : stored[y] # "altered"
  /\ stored[x] = "intact"
  /\ file # NoFile
  /\ stored' = [stored EXCEPT ![x] = "altered"]
  /\ UNCHANGED <<file, against, passed, inSession, approved, procVars, raced, sealed, extended>>

Remove(x) ==
  /\ \A y \in Parts : stored[y] # "altered"
  /\ stored[x] = "intact"
  /\ x \in approved \cup {Base}
  /\ stored' = [stored EXCEPT ![x] = "absent"]
  /\ UNCHANGED <<file, against, passed, inSession, approved, procVars, historyVars>>

Step(p) ==
  \/ SaveTruncates(p)
  \/ SaveWrites(p)
  \/ CloseLoads(p)
  \/ RunReloads(p)
  \/ RunBuilds(p)
  \/ \E r \in Runs, isPassed \in BOOLEAN : RunFinishes(p, r, isPassed)
  \/ ExtendLoads(p)
  \/ ExtendHashes(p)
  \/ ExtendAppends(p)

Begin(p) ==
  \/ Create(p)
  \/ Close(p)
  \/ RunValidates(p)
  \/ \E r \in Runs, before \in SUBSET Runs, isPassed \in BOOLEAN :
       PlainRun(p, r, before, isPassed)
  \/ \E r \in Runs : Approve(p, r)
  \/ \E r \in Runs : ApproveExtends(p, r)

Next ==
  \/ \E p \in Procs : Begin(p) \/ Step(p) \/ Dies(p)
  \/ \E x \in Parts : Alter(x) \/ Remove(x)

Spec == Init /\ [][Next]_vars
------------------------------------------------------------------------------
(* Properties.                                                             *)

\* Every variable stays in its set.
TypeOK ==
  /\ file \in Sessions \cup {NoFile, Unreadable}
  /\ stored \in [Parts -> {"absent", "intact", "altered"}]
  /\ against \in [Runs -> SUBSET Runs]
  /\ passed \subseteq Runs /\ inSession \subseteq Runs /\ approved \subseteq Runs
  /\ pc \in [Procs -> {"idle", "save", "write", "close", "run", "build", "session",
                       "extend", "hash", "append"}]
  /\ arg \in [Procs -> Runs \cup {NoRun}]
  /\ mine \in [Procs -> Sessions \cup {NoFile}]
  /\ hash \in [Procs -> Workspaces]
  /\ seen \in [Procs -> Sessions \cup {NoFile}]
  /\ raced \in BOOLEAN /\ sealed \in BOOLEAN
  /\ extended \subseteq Runs

\* Whatever the commands do to each other, a session's chain holds approved runs
\* of its own project that passed, and nothing else (cmdApprove).
LinksAreApproved ==
  /\ RunsOf(file.chainLinks) \subseteq (approved \cap passed) \ OtherProject
  /\ extended \subseteq approved \cap passed

\* A session run starts from approved work that passed, and its patch is written
\* on top of nothing else.
SessionRunsBuildOnApproved ==
  \A r \in inSession : against[r] \subseteq approved \cap passed

\* The chain is reproducible: as long as no save overtook another command, every
\* link's hash is that of the workspace rebuilt from the links up to it, and with
\* nothing removed it can be rebuilt (computeExtendedWorkspaceManifestHash,
\* buildCumulativeWorkspace).
ChainIsReproducible ==
  LET links == file.chainLinks IN
  ~raced /\ (\A x \in {Base} \cup RunsOf(links) : stored[x] = "intact") /\ Loadable =>
    /\ Builds(RunIds(links))
    /\ \A i \in 1..Len(links) :
         links[i].workspaceManifestHash = Workspace(RunIds(SubSeq(links, 1, i)))

\* As long as no save overtook another command, a closed session stays closed,
\* and a run whose approve said so stays in the chain.
SavesKeepWhatWasSaved ==
  ~raced /\ Loadable =>
    /\ sealed => file.status = "closed"
    /\ extended \subseteq RunsOf(file.chainLinks)

------------------------------------------------------------------------------
(* What the code checks and then does not keep.                            *)

\* run.ts:119: no run is started against a closed session.
ClosedSessionIsNotRun ==
  \A p \in Procs : pc[p] = "session" => mine[p].status = "open"
=============================================================================
