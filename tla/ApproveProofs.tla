----------------------------- MODULE ApproveProofs -----------------------------
(***************************************************************************)
(* Proofs about Approve, for any number of processes, runs and files, and  *)
(* any sequence of user actions: its type, and what an approve does to a   *)
(* repository that nobody else touches.                                    *)
(*                                                                         *)
(* What an approve commits is decided many steps before, by what it found  *)
(* when it began.  AloneKnows relates the repository at each place of an   *)
(* approve to start, the repository then; an approve that is no longer     *)
(* alone has no start, and nothing is said of it.                          *)
(***************************************************************************)
EXTENDS Approve, TLAPS

Busy == {"checked", "branch", "apply", "add", "commit", "return", "delete"}
Tracked == Files \ (Ignored \cup New)

Whole(t) == \A f \in Tracked : t[f] # Absent

\* Every tree of the repository has every tracked file.
TreesAreWhole ==
  /\ Whole(index) /\ Whole(worktree)
  /\ \A b \in Branches \cup {Detached} : Exists(b) => Whole(tip[b])

\* An approve that is under way has a captured run, and its branch to return to.
BusyHasRun ==
  \A p \in Procs : pc[p] \in Busy =>
    /\ run[p] \in Runs /\ manifest[run[p]] # NoTree
    /\ pc[p] # "checked" => original[p] \in Branches \cup {Detached}

\* What an approve of r that began on s commits.
Made(r, s) == [f \in Files |-> IF f \in Touches[r] THEN Patched(r, s.worktree[f]) ELSE s.index[f]]

\* How far an approve alone with the repository has come, in terms of s, the
\* repository it began on, and r, its run.
SinceStart(p, s, r) ==
  /\ pc[p] \in Busy
  /\ s.head \in Branches \cup {Detached} /\ s.tip[s.head] # NoTree
  /\ \A f \in Files \ Ignored : manifest[r][f] # Absent => s.worktree[f] = manifest[r][f]
  /\ \A f \in Touches[r] : s.worktree[f].hunk = manifest[r][f].hunk
  /\ pc[p] # "checked" => original[p] = s.head
  /\ pc[p] \in {"checked", "branch"} =>
       head = s.head /\ tip = s.tip /\ index = s.index /\ worktree = s.worktree
  /\ pc[p] \in Holding =>
       /\ s.tip[r] = NoTree
       /\ tip = [s.tip EXCEPT ![r] = tip[r]]
       /\ tip[r] \in {s.tip[s.head], Made(r, s)}
  /\ pc[p] \in {"apply", "add", "commit"} => tip[r] = s.tip[s.head]
  /\ pc[p] \in {"apply", "add", "commit", "return"} => head = r
  /\ pc[p] \in {"apply", "add"} => index = s.index
  /\ pc[p] = "apply" => worktree = s.worktree
  /\ pc[p] \in {"add", "commit"} => worktree = Patch(r, s.worktree)
  /\ pc[p] = "commit" => index = Made(r, s)
  /\ pc[p] = "return" /\ tip[r] # s.tip[s.head] =>
       index = Made(r, s) /\ worktree = Patch(r, s.worktree)
  /\ (/\ pc[p] = "delete" /\ s.head # Detached /\ p \notin slips
      /\ s.index = s.tip[s.head] \/ tip[r] = s.tip[s.head]) => head = s.head

AloneKnows == \A p \in Procs : start[p] # None => SinceStart(p, start[p], run[p])

AInv == TypeOK /\ TreesAreWhole /\ BusyHasRun /\ RunHeldByOne /\ AloneKnows

------------------------------------------------------------------------------
(* Trees and branches.                                                     *)

AnyHead == Branches \cup {Detached}

\* The repository is well-formed: HEAD is on a commit, and no tracked file is missing.
GitOK ==
  /\ head \in AnyHead /\ tip \in [AnyHead -> Trees] /\ Exists(head)
  /\ index \in Trees /\ worktree \in Trees
  /\ TreesAreWhole

LEMMA WholeTreeExists ==
  ASSUME NEW t, Whole(t)
  PROVE  t # NoTree
BY ProjectAssumption DEF Whole, Tracked, NoTree

\* A file is absent exactly when nobody wrote what the patches are about.
LEMMA ContentFacts ==
  /\ None \notin Authors
  /\ Absent \in Contents /\ Absent.hunk = None
  /\ \A a \in Authors : By(a) \in Contents /\ By(a) # Absent /\ By(a).hunk = a
  /\ \A c \in Contents : c # Absent => c \in [hunk : Authors, rest : Authors] /\ c.hunk # None
  /\ \A c \in Contents, a \in Authors : c # Absent =>
       /\ [c EXCEPT !.hunk = a] \in Contents /\ [c EXCEPT !.hunk = a] # Absent
       /\ [c EXCEPT !.rest = a] \in Contents /\ [c EXCEPT !.rest = a] # Absent
<1>1. None \notin Authors
  BY ProjectAssumption DEF Authors
<1>2. Absent \in Contents /\ Absent.hunk = None
  BY DEF Contents, Absent, By
<1>3. \A c \in [hunk : Authors, rest : Authors] : c # Absent
  BY <1>1, <1>2
<1>4. ASSUME NEW a \in Authors PROVE By(a) \in Contents /\ By(a) # Absent /\ By(a).hunk = a
  <2>1. By(a) \in [hunk : Authors, rest : Authors] /\ By(a).hunk = a
    BY DEF By
  <2> QED
    BY <1>3, <2>1 DEF Contents
<1>5. ASSUME NEW c \in Contents, c # Absent
      PROVE  c \in [hunk : Authors, rest : Authors] /\ c.hunk # None
  BY <1>1, <1>5 DEF Contents
<1>6. ASSUME NEW c \in Contents, NEW a \in Authors, c # Absent
      PROVE  /\ [c EXCEPT !.hunk = a] \in Contents /\ [c EXCEPT !.hunk = a] # Absent
             /\ [c EXCEPT !.rest = a] \in Contents /\ [c EXCEPT !.rest = a] # Absent
  <2>1. c \in [hunk : Authors, rest : Authors]
    BY <1>5, <1>6
  <2>2. /\ [c EXCEPT !.hunk = a] \in [hunk : Authors, rest : Authors]
        /\ [c EXCEPT !.rest = a] \in [hunk : Authors, rest : Authors]
    BY <2>1
  <2> QED
    BY <1>3, <2>2 DEF Contents
<1> QED
  BY <1>1, <1>2, <1>4, <1>5, <1>6

LEMMA PatchedFacts ==
  ASSUME NEW r \in Runs, NEW c \in Contents
  PROVE  Patched(r, c) \in Contents /\ Patched(r, c) # Absent
<1>1. r \in Authors
  BY DEF Authors
<1> QED
  BY <1>1, ContentFacts DEF Patched

LEMMA TreeTypes ==
  /\ NoTree \in Trees
  /\ \A r \in Runs, t \in Trees :
       Patch(r, t) \in Trees /\ (Whole(t) => Whole(Patch(r, t)))
<1>1. NoTree \in Trees
  BY ContentFacts DEF NoTree, Trees
<1>2. ASSUME NEW r \in Runs, NEW t \in Trees
      PROVE  Patch(r, t) \in Trees /\ (Whole(t) => Whole(Patch(r, t)))
  <2>1. \A f \in Files : t[f] \in Contents
    BY DEF Trees
  <2>2. \A f \in Files : Patched(r, t[f]) \in Contents /\ Patched(r, t[f]) # Absent
    BY <2>1, PatchedFacts
  <2>3. Patch(r, t) \in Trees
    BY <2>1, <2>2 DEF Patch, Trees
  <2>4. Whole(t) => Whole(Patch(r, t))
    BY <2>2 DEF Patch, Whole, Tracked
  <2> QED
    BY <2>3, <2>4
<1> QED
  BY <1>1, <1>2

\* git checkout, of a branch that may be checked out.
LEMMA SwitchKeepsGit ==
  ASSUME GitOK, NEW b \in Branches, MaySwitch(b), Switch(b)
  PROVE  GitOK'
<1>1. head' \in AnyHead /\ tip' = tip /\ Exists(head)'
  BY DEF Switch, MaySwitch, Exists, AnyHead
<1>2. /\ index' = [f \in Files |-> IF tip[b][f] # tip[head][f] THEN tip[b][f] ELSE index[f]]
      /\ worktree' = [f \in Files |-> IF tip[b][f] # tip[head][f] THEN tip[b][f] ELSE worktree[f]]
  BY DEF Switch
<1>3. tip[b] \in Trees /\ index \in Trees /\ worktree \in Trees
  BY DEF GitOK, AnyHead
<1>4. index' \in Trees /\ worktree' \in Trees
  BY <1>2, <1>3 DEF Trees
<1>5. Whole(tip[b]) /\ Whole(index) /\ Whole(worktree)
  BY DEF GitOK, TreesAreWhole, MaySwitch
<1>6. Whole(index') /\ Whole(worktree')
  BY <1>2, <1>5 DEF Whole, Tracked
<1>7. TreesAreWhole'
  BY <1>1, <1>6 DEF GitOK, TreesAreWhole, Exists, Whole
<1> QED
  BY <1>1, <1>4, <1>7 DEF GitOK

\* A commit, or a branch, is made of a whole tree.
LEMMA CommitKeepsGit ==
  ASSUME GitOK, NEW b \in AnyHead, NEW t \in Trees, Whole(t),
         tip' = [tip EXCEPT ![b] = t], head' \in {head, b},
         UNCHANGED <<index, worktree>>
  PROVE  GitOK'
<1>1. tip' \in [AnyHead -> Trees]
  BY DEF GitOK
<1>2. ASSUME NEW c \in AnyHead, tip'[c] # NoTree PROVE Whole(tip'[c])
  BY <1>2 DEF GitOK, TreesAreWhole, Exists, AnyHead
<1>3. Exists(head)'
  BY WholeTreeExists DEF GitOK, Exists
<1>4. TreesAreWhole'
  BY <1>2 DEF GitOK, TreesAreWhole, Exists, Whole, AnyHead
<1> QED
  BY <1>1, <1>3, <1>4 DEF GitOK

\* Nothing of git changes.
LEMMA SameGit ==
  ASSUME GitOK, UNCHANGED gitVars
  PROVE  GitOK'
BY DEF GitOK, gitVars, TreesAreWhole, Whole, Exists

\* Only the working tree, or only the index, changes, to a whole tree.
LEMMA LocalKeepsGit ==
  ASSUME GitOK, UNCHANGED <<head, tip>>,
         index' \in Trees, Whole(index'), worktree' \in Trees, Whole(worktree')
  PROVE  GitOK'
BY DEF GitOK, TreesAreWhole, Whole, Exists

LEMMA TypeIsGitOK ==
  ASSUME TypeOK, TreesAreWhole
  PROVE  GitOK
BY DEF TypeOK, GitOK, AnyHead

------------------------------------------------------------------------------
(* The repository stays well-formed, whoever acts.                         *)

LEMMA StepKeepsGit ==
  ASSUME TypeOK, TreesAreWhole, BusyHasRun, NEW p \in Procs, Step(p)
  PROVE  GitOK'
<1> USE TypeIsGitOK
<1>1. CASE UNCHANGED gitVars
  BY <1>1, SameGit
<1>2. CASE CreatesBranch(p)
  <2>1. run[p] \in Runs /\ run[p] \in AnyHead
    BY <1>2 DEF CreatesBranch, BusyHasRun, Busy, AnyHead, Branches
  <2>2. tip[head] \in Trees /\ Whole(tip[head])
    BY DEF GitOK, TreesAreWhole, AnyHead
  <2>3. CASE UNCHANGED <<head, tip>>
    BY <1>1, <1>2, <2>3 DEF CreatesBranch, gitVars
  <2>4. CASE MakesBranch(p)
    BY <1>2, <2>1, <2>2, <2>4, CommitKeepsGit DEF CreatesBranch, MakesBranch
  <2> QED
    BY <1>2, <2>3, <2>4 DEF CreatesBranch
<1>3. CASE Applies(p)
  <2>1. run[p] \in Runs
    BY <1>3 DEF Applies, BusyHasRun, Busy
  <2>2. worktree' \in Trees /\ Whole(worktree')
    BY <1>3, <2>1, TreeTypes DEF Applies, GitOK, TreesAreWhole
  <2> QED
    BY <1>3, <2>2, LocalKeepsGit DEF Applies, GitOK, TreesAreWhole
<1>4. CASE Stages(p)
  <2>1. index' \in Trees /\ Whole(index')
    BY <1>4 DEF Stages, GitOK, Trees, TreesAreWhole, Whole, Tracked
  <2> QED
    BY <1>4, <2>1, LocalKeepsGit DEF Stages, GitOK, TreesAreWhole
<1>5. CASE Commits(p) \/ FailsAfterCommit(p)
  <2>1. index \in Trees /\ Whole(index) /\ head \in AnyHead
    BY DEF GitOK, TreesAreWhole
  <2> QED
    BY <1>5, <2>1, CommitKeepsGit DEF Commits, FailsAfterCommit
<1>9. CASE FailsBetweenFiles(p)
  <2>1. run[p] \in Runs
    BY <1>9 DEF FailsBetweenFiles, BusyHasRun, Busy
  <2>2. /\ Patch(run[p], worktree) \in Trees /\ Whole(Patch(run[p], worktree))
        /\ worktree \in Trees /\ Whole(worktree)
    BY <2>1, TreeTypes DEF GitOK, TreesAreWhole
  <2>3. PICK done \in SUBSET Touches[run[p]] :
          worktree' = [f \in Files |-> IF f \in done THEN Patch(run[p], worktree)[f] ELSE worktree[f]]
    BY <1>9 DEF FailsBetweenFiles
  <2>4. worktree' \in Trees /\ Whole(worktree')
    BY <2>2, <2>3 DEF Trees, Whole, Tracked
  <2> QED
    BY <1>9, <2>4, LocalKeepsGit DEF FailsBetweenFiles, GitOK, TreesAreWhole
<1>6. CASE Returns(p)
  <2>1. CASE original[p] # Detached /\ MaySwitch(original[p]) /\ Switch(original[p])
    <3>1. original[p] \in Branches
      BY <1>6, <2>1 DEF Returns, BusyHasRun, Busy
    <3> QED
      BY <2>1, <3>1, SwitchKeepsGit
  <2> QED
    BY <1>1, <1>6, <2>1 DEF Returns
<1>7. CASE DeletesBranch(p)
  <2>1. CASE UNCHANGED tip
    BY <1>1, <1>7, <2>1 DEF DeletesBranch, gitVars
  <2>2. CASE head # run[p] /\ tip' = [tip EXCEPT ![run[p]] = NoTree]
    <3>1. tip' = [tip EXCEPT ![run[p]] = NoTree] /\ UNCHANGED <<head, index, worktree>>
      BY <1>7, <2>2 DEF DeletesBranch
    <3>2. tip' \in [AnyHead -> Trees] /\ tip'[head] = tip[head]
      BY <2>2, <3>1, TreeTypes DEF GitOK
    <3>3. \A b \in AnyHead : tip'[b] # NoTree => Whole(tip'[b])
      BY <3>1 DEF GitOK, TreesAreWhole, Exists, AnyHead
    <3>4. TreesAreWhole'
      BY <3>1, <3>3 DEF GitOK, TreesAreWhole, Exists, Whole, AnyHead
    <3> QED
      BY <3>1, <3>2, <3>4 DEF GitOK, Exists
  <2> QED
    BY <1>7, <2>1, <2>2 DEF DeletesBranch
<1>8. CASE (\E r \in Runs : Checks(p, r)) \/ ReadsBranch(p) \/ Fails(p) \/ Dies(p)
  BY <1>1, <1>8 DEF Checks, ReadsBranch, Fails, Dies
<1> QED
  BY <1>2, <1>3, <1>4, <1>5, <1>6, <1>7, <1>8, <1>9 DEF Step

LEMMA UserKeepsGit ==
  ASSUME TypeOK, TreesAreWhole, UserActs
  PROVE  GitOK' /\ UNCHANGED manifest
<1> USE TypeIsGitOK
<1>1. CASE \E f \in Files : Edit(f)
  <2>0. PICK f \in Files : Edit(f)
    BY <1>1
  <2>1. PICK c \in Edits(worktree[f]) : worktree' = [worktree EXCEPT ![f] = c]
    BY <2>0 DEF Edit
  <2>2. worktree[f] \in Contents /\ User \in Authors
    BY DEF GitOK, Trees, Authors
  <2>3. c \in Contents /\ c # Absent
    BY <2>1, <2>2, ContentFacts DEF Edits
  <2>4. worktree' \in Trees /\ Whole(worktree')
    BY <2>1, <2>3 DEF GitOK, Trees, TreesAreWhole, Whole, Tracked
  <2> QED
    BY <1>1, <2>4, LocalKeepsGit DEF Edit, GitOK, TreesAreWhole
<1>2. CASE \E f \in Files : Stage(f)
  <2>1. index' \in Trees /\ Whole(index')
    BY <1>2 DEF Stage, GitOK, Trees, TreesAreWhole, Whole, Tracked
  <2> QED
    BY <1>2, <2>1, LocalKeepsGit DEF Stage, GitOK, TreesAreWhole
<1>3. CASE UserCommits
  <2>1. PICK t \in {index, [f \in Files |-> IF index[f] = Absent THEN Absent ELSE worktree[f]]} :
          tip' = [tip EXCEPT ![head] = t] /\ index' = t
    BY <1>3 DEF UserCommits
  <2>2. /\ index \in Trees /\ Whole(index) /\ worktree \in Trees /\ Whole(worktree)
        /\ head \in AnyHead
    BY DEF GitOK, TreesAreWhole
  <2>3. t \in Trees /\ Whole(t)
    BY <2>1, <2>2, ContentFacts DEF Trees, Whole, Tracked
  <2>4. tip' \in [AnyHead -> Trees]
    BY <2>1, <2>3 DEF GitOK
  <2>5. \A b \in AnyHead : tip'[b] # NoTree => Whole(tip'[b])
    BY <2>1, <2>3 DEF GitOK, TreesAreWhole, Exists, AnyHead
  <2>6. UNCHANGED <<head, worktree>>
    BY <1>3 DEF UserCommits
  <2>7. Exists(head)'
    BY <2>1, <2>2, <2>3, <2>6, WholeTreeExists DEF GitOK, Exists
  <2>8. TreesAreWhole'
    BY <2>1, <2>3, <2>5, <2>6 DEF GitOK, TreesAreWhole, Exists, Whole, AnyHead
  <2> QED
    BY <1>3, <2>1, <2>3, <2>4, <2>6, <2>7, <2>8 DEF GitOK, UserCommits
<1>4. CASE \E b \in Branches : UserSwitches(b)
  BY <1>4, SwitchKeepsGit DEF UserSwitches
<1>5. CASE UserDetaches
  <2>1. tip[head] \in Trees /\ Whole(tip[head]) /\ Detached \in AnyHead
    BY DEF GitOK, TreesAreWhole, AnyHead
  <2> QED
    BY <1>5, <2>1, CommitKeepsGit DEF UserDetaches
<1>6. CASE \E b \in Runs : UserDeletes(b)
  <2>1. PICK b \in Runs : UserDeletes(b)
    BY <1>6
  <2>2. tip' = [tip EXCEPT ![b] = NoTree] /\ UNCHANGED <<head, index, worktree, manifest>> /\ b # head
    BY <2>1 DEF UserDeletes
  <2>3. tip' \in [AnyHead -> Trees] /\ tip'[head] = tip[head]
    BY <2>2, TreeTypes DEF GitOK
  <2>4. \A d \in AnyHead : tip'[d] # NoTree => Whole(tip'[d])
    BY <2>2 DEF GitOK, TreesAreWhole, Exists, AnyHead
  <2>5. TreesAreWhole'
    BY <2>2, <2>4 DEF GitOK, TreesAreWhole, Exists, Whole, AnyHead
  <2> QED
    BY <2>2, <2>3, <2>5 DEF GitOK, Exists
<1> QED
  BY <1>1, <1>2, <1>3, <1>4, <1>5, <1>6 DEF UserActs

------------------------------------------------------------------------------
(* The processes.                                                          *)

ProcTypes ==
  /\ pc \in [Procs -> Busy \cup {"idle"} \cup Ended]
  /\ run \in [Procs -> Runs \cup {None}]
  /\ original \in [Procs -> AnyHead \cup {None}]
  /\ slips \subseteq Procs
  /\ start \in [Procs -> Repositories \cup {None}]

LEMMA TypeParts ==
  /\ TypeOK => ProcTypes
  /\ GitOK /\ ProcTypes /\ manifest \in [Runs -> Trees] /\ acts \in 0..MaxActs => TypeOK
BY DEF TypeOK, ProcTypes, GitOK, AnyHead, Busy

LEMMA RepositoryType ==
  ASSUME TypeOK
  PROVE  Repository \in Repositories
BY DEF TypeOK, Repository, Repositories

LEMMA DisturbType ==
  ASSUME ProcTypes, NEW p \in Procs
  PROVE  /\ Disturb(p) \in [Procs -> Repositories \cup {None}]
         /\ Drop(p) \in [Procs -> Repositories \cup {None}]
         /\ Nobody \in [Procs -> Repositories \cup {None}]
BY DEF ProcTypes, Disturb, Drop, Nobody

LEMMA StepKeepsProcTypes ==
  ASSUME TypeOK, BusyHasRun, NEW p \in Procs, Step(p)
  PROVE  ProcTypes' /\ UNCHANGED manifest
<1>1. ProcTypes
  BY TypeParts
<1>2. head \in AnyHead
  BY DEF TypeOK, AnyHead
<1>3. CASE \E r \in Runs : Checks(p, r)
  BY <1>1, <1>3, RepositoryType DEF Checks, ProcTypes, Goto, Busy
<1>4. CASE ReadsBranch(p)
  BY <1>1, <1>2, <1>4, DisturbType DEF ReadsBranch, Ends, ProcTypes, Goto, Busy, Ended
<1>5. CASE CreatesBranch(p)
  <2>1. start' \in [Procs -> Repositories \cup {None}]
    BY <1>1, <1>5, DisturbType DEF CreatesBranch
  <2>2. CASE Ends(p, "refused")
    BY <1>1, <1>5, <2>1, <2>2 DEF CreatesBranch, Ends, ProcTypes, Goto, Busy, Ended
  <2>3. CASE Goto(p, "apply") /\ UNCHANGED <<run, original>>
    BY <1>1, <1>5, <2>1, <2>3 DEF CreatesBranch, ProcTypes, Goto, Busy, Ended
  <2> QED
    BY <1>5, <2>2, <2>3 DEF CreatesBranch
<1>6. CASE Applies(p)
  BY <1>1, <1>6, DisturbType DEF Applies, Ends, ProcTypes, Goto, Busy, Ended
<1>10. CASE Stages(p)
  BY <1>1, <1>10, DisturbType DEF Stages, Ends, ProcTypes, Goto, Busy, Ended
<1>11. CASE Commits(p)
  BY <1>1, <1>11, DisturbType DEF Commits, Ends, ProcTypes, Goto, Busy, Ended
<1>12. CASE Fails(p)
  BY <1>1, <1>12, DisturbType DEF Fails, Ends, ProcTypes, Goto, Busy, Ended
<1>13. CASE FailsBetweenFiles(p) \/ FailsAfterCommit(p)
  BY <1>1, <1>13, DisturbType DEF FailsBetweenFiles, FailsAfterCommit, ProcTypes, Goto, Busy
<1>7. CASE Returns(p)
  BY <1>1, <1>7, DisturbType DEF Returns, ProcTypes, Goto, Busy
<1>8. CASE DeletesBranch(p)
  BY <1>1, <1>8, DisturbType DEF DeletesBranch, Ends, ProcTypes, Goto, Ended
<1>9. CASE Dies(p)
  BY <1>1, <1>9, DisturbType DEF Dies, Ends, ProcTypes, Goto, Ended
<1> QED
  BY <1>3, <1>4, <1>5, <1>6, <1>7, <1>8, <1>9, <1>10, <1>11, <1>12, <1>13 DEF Step

\* A process that begins has a captured run, and one that goes on keeps its own.
LEMMA StepKeepsBusyHasRun ==
  ASSUME TypeOK, BusyHasRun, NEW p \in Procs, Step(p)
  PROVE  BusyHasRun'
<1>1. UNCHANGED manifest
  BY StepKeepsProcTypes
<1>2. ProcTypes /\ head \in AnyHead
  BY TypeParts DEF TypeOK, AnyHead
<1> SUFFICES ASSUME NEW q \in Procs, pc'[q] \in Busy
             PROVE  /\ run'[q] \in Runs /\ manifest[run'[q]] # NoTree
                    /\ pc'[q] # "checked" => original'[q] \in AnyHead
  BY <1>1 DEF BusyHasRun, AnyHead
<1>3. CASE \E r \in Runs : Checks(p, r)
  BY <1>2, <1>3 DEF Checks, ProcTypes, Goto, BusyHasRun, AnyHead
<1>4. CASE ReadsBranch(p)
  BY <1>2, <1>4 DEF ReadsBranch, Ends, ProcTypes, Goto, Busy, Ended, BusyHasRun, AnyHead
<1>5. CASE CreatesBranch(p)
  BY <1>2, <1>5 DEF CreatesBranch, Ends, ProcTypes, Goto, Busy, Ended, BusyHasRun, AnyHead
<1>6. CASE Applies(p) \/ Stages(p) \/ Commits(p) \/ Fails(p)
  BY <1>2, <1>6 DEF Applies, Stages, Commits, Fails, Ends, ProcTypes, Goto, Busy, Ended, BusyHasRun, AnyHead
<1>7. CASE Returns(p)
  BY <1>2, <1>7 DEF Returns, ProcTypes, Goto, Busy, BusyHasRun, AnyHead
<1>8. CASE DeletesBranch(p) \/ Dies(p)
  BY <1>2, <1>8 DEF DeletesBranch, Dies, Ends, ProcTypes, Goto, Busy, Ended, BusyHasRun, AnyHead
<1>9. CASE FailsBetweenFiles(p) \/ FailsAfterCommit(p)
  BY <1>2, <1>9 DEF FailsBetweenFiles, FailsAfterCommit, ProcTypes, Goto, Busy, BusyHasRun, AnyHead
<1> QED
  BY <1>3, <1>4, <1>5, <1>6, <1>7, <1>8, <1>9 DEF Step

------------------------------------------------------------------------------
(* The branch of a run.                                                    *)

\* How a step changes the branches: it makes the branch of its run, which was not
\* there; it writes an existing tree to where HEAD is; it deletes the branch of its
\* run; or it leaves them.
LEMMA HoldersStep ==
  ASSUME AInv, NEW p \in Procs, Step(p)
  PROVE  RunHeldByOne'
<1>1. ProcTypes /\ GitOK /\ BusyHasRun /\ RunHeldByOne
  BY TypeParts, TypeIsGitOK DEF AInv
<1>2. ASSUME NEW q \in Procs, q # p PROVE pc'[q] = pc[q] /\ run'[q] = run[q]
  BY <1>1, <1>2 DEF Step, Checks, ReadsBranch, CreatesBranch, Applies, Stages, Commits, Fails,
                    FailsBetweenFiles, FailsAfterCommit, Returns, DeletesBranch, Dies, Ends, Goto, ProcTypes
<1>3. CASE /\ \A b \in Runs : Exists(b) => Exists(b)'
           /\ pc'[p] \in Holding => pc[p] \in Holding /\ run'[p] = run[p]
  <2>1. ASSUME NEW q \in Procs, pc'[q] \in Holding PROVE pc[q] \in Holding /\ run'[q] = run[q]
    BY <1>2, <1>3, <2>1
  <2>2. \A q \in Procs : pc[q] \in Holding => run[q] \in Runs
    BY <1>1 DEF BusyHasRun, Busy, Holding
  <2> QED
    BY <1>1, <1>3, <2>1, <2>2 DEF RunHeldByOne
<1>4. CASE CreatesBranch(p)
  <2>1. run[p] \in Runs /\ run[p] \in AnyHead /\ pc[p] \notin Holding
    BY <1>1, <1>4 DEF CreatesBranch, BusyHasRun, Busy, Holding, AnyHead, Branches
  <2>2. CASE UNCHANGED <<head, tip>> /\ Ends(p, "refused")
    BY <1>1, <1>3, <2>2 DEF Ends, Goto, Exists, Holding, ProcTypes
  <2>3. CASE MakesBranch(p)
    <3>1. /\ ~Exists(run[p])
          /\ \A b \in AnyHead : tip'[b] = IF b = run[p] THEN tip[head] ELSE tip[b]
      BY <1>1, <2>1, <2>3 DEF MakesBranch, GitOK
    <3>2. tip[head] # NoTree
      BY <1>1 DEF GitOK, Exists
    <3>3. \A q \in Procs : pc[q] \in Holding => run[q] # run[p] /\ run[q] \in AnyHead
      BY <1>1, <3>1 DEF RunHeldByOne, BusyHasRun, Busy, Holding, AnyHead, Branches
    <3>4. pc'[p] \in Holding => run'[p] = run[p]
      BY <1>1, <1>4 DEF CreatesBranch, Ends, Goto, Holding, ProcTypes
    <3>5. \A q \in Procs : pc'[q] \in Holding =>
            \/ q = p /\ run'[q] = run[p]
            \/ q # p /\ pc[q] \in Holding /\ run'[q] = run[q]
      BY <1>2, <3>4
    <3>6. \A q \in Procs : pc'[q] \in Holding => tip'[run'[q]] # NoTree
      BY <1>1, <2>1, <3>1, <3>2, <3>3, <3>5 DEF RunHeldByOne, Exists
    <3> QED
      BY <1>1, <3>3, <3>5, <3>6 DEF RunHeldByOne, Exists
  <2> QED
    BY <1>4, <2>2, <2>3 DEF CreatesBranch
<1>5. CASE DeletesBranch(p)
  <2>1. pc[p] \in Holding /\ pc'[p] \notin Holding /\ run[p] \in AnyHead
    BY <1>1, <1>5 DEF DeletesBranch, Ends, Goto, Holding, ProcTypes, BusyHasRun, Busy, AnyHead, Branches
  <2>2. \A b \in AnyHead \ {run[p]} : tip'[b] = tip[b]
    BY <1>1, <1>5 DEF DeletesBranch, GitOK
  <2>3. \A q \in Procs : pc'[q] \in Holding =>
          /\ q # p /\ pc[q] \in Holding /\ run'[q] = run[q]
          /\ run[q] \in AnyHead /\ run[q] # run[p]
    BY <1>1, <1>2, <2>1 DEF RunHeldByOne, BusyHasRun, Busy, Holding, AnyHead, Branches
  <2> QED
    BY <1>1, <2>2, <2>3 DEF RunHeldByOne, Exists
<1>6. CASE Commits(p) \/ FailsAfterCommit(p)
  <2>1. tip' = [tip EXCEPT ![head] = index]
    BY <1>6 DEF Commits, FailsAfterCommit
  <2>2. index # NoTree
    BY <1>1, WholeTreeExists DEF GitOK, TreesAreWhole
  <2>3. \A b \in Runs : Exists(b) => Exists(b)'
    BY <1>1, <2>1, <2>2 DEF GitOK, Exists, AnyHead, Branches
  <2>4. pc'[p] \in Holding => pc[p] \in Holding /\ run'[p] = run[p]
    BY <1>1, <1>6 DEF Commits, FailsAfterCommit, Ends, Goto, Holding, ProcTypes
  <2> QED
    BY <1>3, <2>3, <2>4
<1>7. CASE (\E r \in Runs : Checks(p, r)) \/ ReadsBranch(p) \/ Dies(p)
  <2>1. UNCHANGED tip
    BY <1>7 DEF Checks, ReadsBranch, Dies, gitVars
  <2>2. pc'[p] \notin Holding
    BY <1>1, <1>7 DEF Checks, ReadsBranch, Dies, Ends, Goto, Holding, ProcTypes
  <2> QED
    BY <1>3, <2>1, <2>2 DEF Exists
<1>8. CASE Applies(p) \/ Stages(p) \/ Fails(p) \/ FailsBetweenFiles(p) \/ Returns(p)
  <2>1. UNCHANGED tip
    BY <1>8 DEF Applies, Stages, Fails, FailsBetweenFiles, Returns, Switch, gitVars
  <2>2. pc[p] \in Holding /\ UNCHANGED run
    BY <1>8 DEF Applies, Stages, Fails, FailsBetweenFiles, Returns, Holding
  <2> QED
    BY <1>3, <2>1, <2>2 DEF Exists
<1> QED
  BY <1>4, <1>5, <1>6, <1>7, <1>8 DEF Step

\* A commit puts a tree where there was one, and nobody's branch is deleted under him.
LEMMA HoldersUser ==
  ASSUME AInv, UserActs
  PROVE  RunHeldByOne'
<1>1. GitOK /\ RunHeldByOne /\ BusyHasRun
  BY TypeIsGitOK DEF AInv
<1>2. UNCHANGED <<pc, run>>
  BY DEF UserActs, procVars
<1>3. ASSUME NEW q \in Procs, pc[q] \in Holding PROVE run[q] \in Runs /\ run[q] \in AnyHead /\ Exists(run[q])
  BY <1>1, <1>3 DEF RunHeldByOne, BusyHasRun, Busy, Holding, AnyHead, Branches
<1>4. ASSUME NEW q \in Procs, pc[q] \in Holding PROVE tip'[run[q]] # NoTree
  <2>1. CASE UNCHANGED tip
    BY <1>3, <1>4, <2>1 DEF Exists
  <2>2. CASE UserCommits
    <3>1. GitOK'
      BY UserKeepsGit DEF AInv
    <3>2. tip' = [tip EXCEPT ![head] = tip'[head]] /\ head' = head
      BY <1>1, <2>2 DEF UserCommits, GitOK
    <3>3. tip'[head] # NoTree
      BY <3>1, <3>2 DEF GitOK, Exists
    <3> QED
      BY <1>1, <1>3, <1>4, <3>2, <3>3 DEF GitOK, Exists
  <2>3. CASE UserDetaches
    BY <1>1, <1>3, <1>4, <2>3 DEF UserDetaches, GitOK, Exists
  <2>4. CASE \E b \in Runs : UserDeletes(b)
    BY <1>1, <1>3, <1>4, <2>4 DEF UserDeletes, GitOK, Exists
  <2> QED
    BY <2>1, <2>2, <2>3, <2>4 DEF UserActs, Edit, Stage, UserSwitches, Switch
<1> QED
  BY <1>1, <1>2, <1>4 DEF RunHeldByOne, Exists

------------------------------------------------------------------------------
(* An approve alone with the repository.                                   *)

\* What another process does ends the privacy of q, or leaves what q knows as it was.
LEMMA OthersStep ==
  ASSUME TypeOK, NEW p \in Procs, Step(p), NEW q \in Procs, q # p, start'[q] # None
  PROVE  /\ start'[q] = start[q] /\ pc'[q] = pc[q] /\ run'[q] = run[q] /\ original'[q] = original[q]
         /\ q \in slips' <=> q \in slips
         /\ UNCHANGED gitVars
<1>1. ProcTypes
  BY TypeParts
<1>2. CASE (\E r \in Runs : Checks(p, r)) \/ ReadsBranch(p) \/ Fails(p) \/ Dies(p)
  BY <1>1, <1>2 DEF Checks, ReadsBranch, Fails, Dies, Ends, Goto, Drop, ProcTypes
<1>3. CASE CreatesBranch(p)
  BY <1>1, <1>3 DEF CreatesBranch, Ends, Goto, Drop, Disturb, Nobody, ProcTypes, gitVars
<1>4. CASE Applies(p) \/ Stages(p) \/ Commits(p) \/ DeletesBranch(p)
  BY <1>1, <1>4 DEF Applies, Stages, Commits, DeletesBranch, Ends, Goto, Disturb, Nobody, ProcTypes
<1>5. CASE Returns(p)
  BY <1>1, <1>5 DEF Returns, Goto, Disturb, ProcTypes
<1>6. CASE FailsBetweenFiles(p) \/ FailsAfterCommit(p)
  BY <1>1, <1>6 DEF FailsBetweenFiles, FailsAfterCommit, Goto, Disturb, ProcTypes
<1> QED
  BY <1>2, <1>3, <1>4, <1>5, <1>6 DEF Step

\* An approve alone, on a branch it made, may go back: its branch is where it began,
\* or at a commit of its own, and then both copies of the files in which the two
\* differ are as committed, if nothing else was staged.
LEMMA OwnReturn ==
  ASSUME AInv, NEW p \in Procs, Returns(p), start[p] # None, start[p].head # Detached,
         p \notin slips', start[p].index = Base(p) \/ tip[run[p]] = Base(p)
  PROVE  head' = start[p].head
<1> DEFINE s == start[p]
           r == run[p]
<1>1. SinceStart(p, s, r) /\ pc[p] = "return"
  BY DEF AInv, AloneKnows, Returns
<1>2. /\ s.tip[r] = NoTree /\ tip = [s.tip EXCEPT ![r] = tip[r]] /\ head = r
      /\ tip[r] \in {s.tip[s.head], Made(r, s)}
      /\ tip[r] # s.tip[s.head] => index = Made(r, s) /\ worktree = Patch(r, s.worktree)
      /\ original[p] = s.head /\ s.tip[s.head] # NoTree /\ s.head \in AnyHead
  BY <1>1 DEF SinceStart, AnyHead, Holding
<1>3. s \in Repositories /\ r \in Runs
  BY <1>1 DEF AInv, TypeOK, BusyHasRun, SinceStart
<1>4. s.tip \in [AnyHead -> Trees]
  BY <1>3 DEF Repositories, AnyHead
<1>5. s.head # r /\ tip[s.head] = s.tip[s.head]
  BY <1>2, <1>3, <1>4 DEF AnyHead, Branches
<1>6. MaySwitch(original[p])
  <2>1. Exists(original[p])
    BY <1>2, <1>5 DEF Exists
  <2>2. CASE tip[r] = s.tip[s.head]
    BY <1>2, <1>5, <2>1, <2>2 DEF MaySwitch
  <2>3. CASE tip[r] # s.tip[s.head]
    <3>1. s.index = s.tip[s.head] /\ tip[r] = Made(r, s) /\ index = Made(r, s) /\ worktree = Patch(r, s.worktree)
      BY <1>2, <2>3 DEF Base
    <3>2. ASSUME NEW f \in Files, s.tip[s.head][f] # Made(r, s)[f]
          PROVE  worktree[f] = Made(r, s)[f] /\ index[f] = Made(r, s)[f]
      <4>1. f \in Touches[r]
        BY <3>1, <3>2 DEF Made
      <4> QED
        BY <3>1, <4>1 DEF Made, Patch
    <3> QED
      BY <1>2, <1>5, <2>1, <3>1, <3>2 DEF MaySwitch
  <2> QED
    BY <2>2, <2>3
<1> QED
  BY <1>2, <1>6 DEF Returns, Switch

\* The approve's own step takes it from one line of SinceStart to the next.
LEMMA OwnStep ==
  ASSUME AInv, NEW p \in Procs, Step(p), start'[p] # None
  PROVE  SinceStart(p, start[p], run[p])'
<1> DEFINE s == start[p]
           r == run[p]
<1>1. ProcTypes /\ UNCHANGED manifest
  BY TypeParts, StepKeepsProcTypes DEF AInv
<1>2. CASE \E q \in Runs : Checks(p, q)
  <2>1. PICK q \in Runs : Checks(p, q)
    BY <1>2
  <2>2. pc'[p] = "checked" /\ run'[p] = q /\ start'[p] = Repository /\ UNCHANGED gitVars
    BY <1>1, <2>1 DEF Checks, Goto, ProcTypes
  <2>3. head \in AnyHead /\ tip[head] # NoTree
    BY DEF AInv, TypeOK, AnyHead, Exists
  <2>4. /\ \A f \in Files \ Ignored : manifest[q][f] # Absent => worktree[f] = manifest[q][f]
        /\ \A f \in Touches[q] : worktree[f].hunk = manifest[q][f].hunk
    BY <2>1 DEF Checks, Drifted, Fits
  <2> QED
    BY <1>1, <2>2, <2>3, <2>4 DEF SinceStart, Repository, gitVars, Busy, Holding, AnyHead
<1> SUFFICES ASSUME s # None, ~\E q \in Runs : Checks(p, q)
             PROVE  SinceStart(p, start[p], run[p])'
  <2>1. ASSUME s = None PROVE FALSE \/ \E q \in Runs : Checks(p, q)
    BY <1>1, <2>1 DEF Step, ReadsBranch, CreatesBranch, Applies, Stages, Commits, Fails,
                      FailsBetweenFiles, FailsAfterCommit, Returns, DeletesBranch, Dies, Disturb,
                      Drop, Nobody, ProcTypes
  <2> QED
    BY <1>2, <2>1
<1>3. SinceStart(p, s, r) /\ s \in Repositories /\ r \in Runs
  BY <1>1 DEF AInv, AloneKnows, SinceStart, BusyHasRun, ProcTypes
<1>4. s.tip \in [AnyHead -> Trees] /\ s.head \in AnyHead /\ r \in AnyHead
  BY <1>3 DEF Repositories, AnyHead, Branches
<1>5. CASE ReadsBranch(p)
  <2>1. pc[p] = "checked" /\ pc'[p] = "branch" /\ UNCHANGED <<gitVars, run, start>> /\ original'[p] = head
    BY <1>1, <1>5 DEF ReadsBranch, Drop, Goto, ProcTypes
  <2> QED
    BY <1>1, <1>3, <2>1 DEF SinceStart, gitVars, Busy, Holding
<1>6. CASE CreatesBranch(p)
  <2>1. /\ pc[p] = "branch" /\ pc'[p] = "apply" /\ ~Exists(r)
        /\ tip' = [tip EXCEPT ![r] = tip[head]] /\ head' = r
        /\ start'[p] = s /\ UNCHANGED <<run, original, index, worktree>>
    BY <1>1, <1>6 DEF CreatesBranch, MakesBranch, Drop, Disturb, Nobody, Goto, ProcTypes
  <2>2. head = s.head /\ tip = s.tip /\ index = s.index /\ worktree = s.worktree /\ original[p] = s.head
    BY <1>3, <2>1 DEF SinceStart
  <2> QED
    BY <1>1, <1>3, <1>4, <2>1, <2>2 DEF SinceStart, Exists, Busy, Holding
<1>7. CASE Applies(p)
  <2>1. /\ pc[p] = "apply" /\ pc'[p] = "add" /\ worktree' = Patch(r, worktree)
        /\ start'[p] = s /\ UNCHANGED <<head, tip, index, run, original>>
    BY <1>1, <1>7 DEF Applies, Disturb, Goto, ProcTypes
  <2> QED
    BY <1>1, <1>3, <2>1 DEF SinceStart, Busy, Holding
<1>8. CASE Stages(p)
  <2>1. /\ pc[p] = "add" /\ pc'[p] = "commit"
        /\ index' = [f \in Files |-> IF f \in Touches[r] THEN worktree[f] ELSE index[f]]
        /\ start'[p] = s /\ UNCHANGED <<head, tip, worktree, run, original>>
    BY <1>1, <1>8 DEF Stages, Disturb, Goto, ProcTypes
  <2>2. worktree = Patch(r, s.worktree) /\ index = s.index
    BY <1>3, <2>1 DEF SinceStart
  <2>3. index' = Made(r, s)
    BY <2>1, <2>2 DEF Patch, Made
  <2> QED
    BY <1>1, <1>3, <2>1, <2>2, <2>3 DEF SinceStart, Busy, Holding
<1>9. CASE Fails(p)
  <2>1. /\ pc[p] \in {"apply", "add", "commit"} /\ pc'[p] = "return"
        /\ UNCHANGED <<gitVars, run, original, start>>
    BY <1>1, <1>9 DEF Fails, Goto, ProcTypes
  <2> QED
    BY <1>1, <1>3, <2>1 DEF SinceStart, gitVars, Busy, Holding
<1>12. CASE FailsBetweenFiles(p)
  <2>1. /\ pc[p] = "apply" /\ pc'[p] = "return" /\ start'[p] = s
        /\ UNCHANGED <<head, tip, index, run, original>>
    BY <1>1, <1>12 DEF FailsBetweenFiles, Goto, Disturb, ProcTypes
  <2> QED
    BY <1>1, <1>3, <2>1 DEF SinceStart, Busy, Holding
<1>13. CASE FailsAfterCommit(p)
  <2>1. /\ pc[p] = "commit" /\ pc'[p] = "return" /\ start'[p] = s
        /\ tip' = [tip EXCEPT ![head] = index]
        /\ UNCHANGED <<head, index, worktree, run, original>>
    BY <1>1, <1>13 DEF FailsAfterCommit, Goto, Disturb, ProcTypes
  <2>2. /\ head = r /\ index = Made(r, s) /\ worktree = Patch(r, s.worktree)
        /\ s.tip[r] = NoTree /\ tip = [s.tip EXCEPT ![r] = tip[r]]
    BY <1>3, <2>1 DEF SinceStart, Holding
  <2>3. tip'[r] = Made(r, s) /\ tip' = [s.tip EXCEPT ![r] = tip'[r]]
    BY <1>4, <2>1, <2>2
  <2> QED
    BY <1>1, <1>3, <2>1, <2>2, <2>3 DEF SinceStart, Busy, Holding
<1>10. CASE Returns(p)
  <2>1. pc[p] = "return" /\ pc'[p] = "delete" /\ start'[p] = s /\ UNCHANGED <<run, original>>
    BY <1>1, <1>10 DEF Returns, Disturb, Goto, ProcTypes
  <2>2. tip' = tip
    BY <1>10 DEF Returns, Switch, gitVars
  <2>3. s.head # Detached /\ p \notin slips' /\ (s.index = s.tip[s.head] \/ tip[r] = s.tip[s.head])
          => head' = s.head
    BY <1>10, OwnReturn DEF Base
  <2> QED
    BY <1>1, <1>3, <2>1, <2>2, <2>3 DEF SinceStart, Busy, Holding
<1>11. CASE Commits(p) \/ DeletesBranch(p) \/ Dies(p)
  BY <1>1, <1>11 DEF Commits, DeletesBranch, Dies, Nobody, Drop, ProcTypes
<1> QED
  BY <1>5, <1>6, <1>7, <1>8, <1>9, <1>10, <1>11, <1>12, <1>13 DEF Step

------------------------------------------------------------------------------
(* The inductive invariant.                                                *)

LEMMA InitIsInvariant == Init => AInv
<1> SUFFICES ASSUME Init PROVE AInv
  OBVIOUS
<1> DEFINE first == [f \in Files |-> IF f \in Ignored \cup New THEN Absent ELSE By(Initial)]
<1>1. first \in Trees /\ Whole(first) /\ first # NoTree /\ NoTree \in Trees
  <2>1. By(Initial) \in Contents /\ By(Initial) # Absent /\ Absent \in Contents
    BY ContentFacts DEF Authors
  <2>2. first \in Trees /\ Whole(first)
    BY <2>1 DEF Trees, Whole, Tracked
  <2> QED
    BY <2>2, TreeTypes, WholeTreeExists
<1>2. /\ head = Main /\ index = first /\ worktree = first
      /\ tip = [b \in AnyHead |-> IF b = Main THEN first ELSE NoTree]
  BY DEF Init, AnyHead
<1>3. GitOK
  BY <1>1, <1>2 DEF GitOK, TreesAreWhole, Exists, AnyHead, Branches
<1>4. ProcTypes /\ manifest \in [Runs -> Trees] /\ acts \in 0..MaxActs
  BY <1>1, ProjectAssumption DEF Init, ProcTypes
<1>5. BusyHasRun /\ RunHeldByOne /\ AloneKnows
  BY DEF Init, BusyHasRun, RunHeldByOne, AloneKnows, Busy, Holding
<1> QED
  BY <1>3, <1>4, <1>5, TypeParts DEF AInv, GitOK

\* SinceStart of q is not about any other run's manifest.
LEMMA UndisturbedKnows ==
  ASSUME AInv, NEW q \in Procs, start'[q] # None, start'[q] = start[q],
         pc'[q] = pc[q], run'[q] = run[q], original'[q] = original[q], UNCHANGED gitVars,
         manifest'[run[q]] = manifest[run[q]], q \in slips' <=> q \in slips
  PROVE  SinceStart(q, start[q], run[q])'
<1>1. SinceStart(q, start[q], run[q])
  BY DEF AInv, AloneKnows
<1> QED
  BY <1>1 DEF SinceStart, gitVars

LEMMA StepKeepsInvariant ==
  ASSUME AInv, NEW p \in Procs, Step(p), UNCHANGED acts
  PROVE  AInv'
<1>1. GitOK' /\ ProcTypes' /\ UNCHANGED manifest /\ BusyHasRun' /\ RunHeldByOne'
  BY StepKeepsGit, StepKeepsProcTypes, StepKeepsBusyHasRun, HoldersStep DEF AInv
<1>2. TypeOK'
  BY <1>1, TypeParts DEF AInv, TypeOK, ProcTypes, GitOK, AnyHead, Busy
<1>3. ASSUME NEW q \in Procs, start'[q] # None
      PROVE  SinceStart(q, start[q], run[q])'
  <2>1. CASE q = p
    BY <1>3, <2>1, OwnStep
  <2>2. CASE q # p
    BY <1>1, <1>3, <2>2, OthersStep, UndisturbedKnows DEF AInv
  <2> QED
    BY <2>1, <2>2
<1> QED
  BY <1>1, <1>2, <1>3 DEF AInv, AloneKnows, GitOK

LEMMA CaptureKeepsInvariant ==
  ASSUME AInv, NEW r \in Runs, Capture(r), UNCHANGED acts
  PROVE  AInv'
<1>1. /\ GitOK' /\ ProcTypes'
  BY TypeParts, TypeIsGitOK, SameGit DEF AInv, Capture, procVars, ProcTypes
<1>2. manifest' \in [Runs -> Trees] /\ \A q \in Runs : manifest[q] # NoTree => manifest'[q] = manifest[q]
  BY ContentFacts DEF Capture, AInv, TypeOK, Trees
<1>3. manifest'[r] # NoTree /\ manifest[r] = NoTree
  <2>1. Whole(worktree)
    BY DEF AInv, TreesAreWhole
  <2>2. Whole(manifest'[r])
    BY <2>1 DEF Capture, AInv, TypeOK, Whole, Tracked
  <2> QED
    BY <2>2, WholeTreeExists DEF Capture
<1>4. TypeOK'
  BY <1>1, <1>2 DEF AInv, TypeOK, ProcTypes, GitOK, AnyHead, Busy
<1>5. BusyHasRun' /\ RunHeldByOne'
  BY <1>2 DEF AInv, BusyHasRun, RunHeldByOne, Exists, Capture, procVars, gitVars
<1>6. ASSUME NEW q \in Procs, start'[q] # None
      PROVE  SinceStart(q, start[q], run[q])'
  <2>1. SinceStart(q, start[q], run[q]) /\ run[q] \in Runs /\ manifest[run[q]] # NoTree
    BY <1>6 DEF AInv, AloneKnows, BusyHasRun, SinceStart, Capture
  <2> QED
    BY <1>2, <1>6, <2>1, UndisturbedKnows DEF Capture, procVars
<1> QED
  BY <1>1, <1>4, <1>5, <1>6 DEF AInv, AloneKnows, GitOK

LEMMA UserKeepsInvariant ==
  ASSUME AInv, UserActs
  PROVE  AInv'
<1>1. GitOK' /\ UNCHANGED manifest
  BY UserKeepsGit DEF AInv
<1>2. ProcTypes' /\ AloneKnows'
  BY TypeParts DEF AInv, UserActs, procVars, Nobody, ProcTypes, AloneKnows
<1>3. BusyHasRun' /\ RunHeldByOne'
  BY <1>1, HoldersUser DEF AInv, BusyHasRun, UserActs, procVars
<1>4. acts' \in 0..MaxActs
  BY ProjectAssumption DEF UserActs, AInv, TypeOK
<1>5. TypeOK'
  BY <1>1, <1>2, <1>4 DEF AInv, TypeOK, ProcTypes, GitOK, AnyHead, Busy
<1> QED
  BY <1>1, <1>2, <1>3, <1>5 DEF AInv, GitOK

LEMMA NextKeepsInvariant == AInv /\ [Next]_vars => AInv'
<1> SUFFICES ASSUME AInv, [Next]_vars PROVE AInv'
  OBVIOUS
<1>1. CASE UNCHANGED vars
  BY <1>1 DEF AInv, TypeOK, TreesAreWhole, BusyHasRun, RunHeldByOne, AloneKnows, SinceStart, Whole, Exists,
              vars, gitVars, procVars
<1> QED
  BY <1>1, StepKeepsInvariant, CaptureKeepsInvariant, UserKeepsInvariant DEF Next

\* Every variable stays in its set and HEAD on a commit, every commit and both
\* copies keep the tracked files, an approve under way has its run and its branch to
\* return to, no two hold one branch, and one alone knows the repository from what
\* it found.
THEOREM Inductive == Spec => []AInv
<1> QED
  BY InitIsInvariant, NextKeepsInvariant, PTL DEF Spec

\* No two approves work on the branch of one run, and the branch of an approve that
\* has made it is there until it ends.
THEOREM HeldByOne == Spec => []RunHeldByOne
<1>1. AInv => RunHeldByOne
  BY DEF AInv
<1> QED
  BY <1>1, Inductive, PTL

\* Every variable stays in its set, and HEAD is on a commit.
THEOREM TypeCorrect == Spec => []TypeOK
<1>1. AInv => TypeOK
  BY DEF AInv
<1> QED
  BY <1>1, Inductive, PTL

------------------------------------------------------------------------------
(* What an approve alone with the repository does to it.                   *)

\* Only p's own step moves p, while p is alone.
LEMMA MovedByItself ==
  ASSUME AInv, [Next]_vars, NEW p \in Procs, pc'[p] # pc[p]
  PROVE  Step(p)
<1>1. PICK q \in Procs : Step(q)
  BY DEF Next, vars, Capture, UserActs, procVars
<1>2. CASE q # p
  <2>1. ProcTypes
    BY TypeParts DEF AInv
  <2> QED
    BY <1>1, <1>2, <2>1 DEF Step, Checks, ReadsBranch, CreatesBranch, Applies, Stages, Commits, Fails,
                            FailsBetweenFiles, FailsAfterCommit, Returns, DeletesBranch, Dies, Ends,
                            Goto, ProcTypes
<1> QED
  BY <1>1, <1>2

\* What is known of an approve that is about to commit.
LEMMA AtCommit ==
  ASSUME AInv, [Next]_vars, NEW p \in Procs, Succeeds(p)
  PROVE  /\ Commits(p) /\ head = run[p] /\ run[p] \in Runs
         /\ tip'[run[p]] = Made(run[p], start[p])
         /\ \A f \in Files \ Ignored :
              manifest[run[p]][f] # Absent => start[p].worktree[f] = manifest[run[p]][f]
         /\ \A f \in Touches[run[p]] : start[p].worktree[f].hunk = manifest[run[p]][f].hunk
<1>1. Step(p) /\ ProcTypes
  BY MovedByItself, TypeParts DEF Succeeds, AInv
<1>2. Commits(p)
  BY <1>1 DEF Succeeds, Step, Checks, ReadsBranch, CreatesBranch, Applies, Stages, Fails,
              FailsBetweenFiles, FailsAfterCommit, Returns, DeletesBranch, Dies, Ends, Goto, ProcTypes
<1>3. SinceStart(p, start[p], run[p]) /\ run[p] \in Runs
  BY DEF AInv, AloneKnows, BusyHasRun, Succeeds, SinceStart
<1>4. head = run[p] /\ index = Made(run[p], start[p])
  BY <1>3 DEF SinceStart, Succeeds
<1>5. tip'[run[p]] = index
  BY <1>2, <1>3, <1>4 DEF Commits, AInv, TypeOK, Branches
<1> QED
  BY <1>2, <1>3, <1>4, <1>5 DEF SinceStart

\* An approve that began alone with nothing staged commits to its own branch, on
\* top of the commit it began on, exactly the files of the patch, each as the user
\* had it, with the patch's hunks applied.
THEOREM CommitsThePatch == Spec => CleanCommitIsThePatch
<1>1. AInv /\ [Next]_vars =>
        \A p \in Procs :
          Succeeds(p) /\ start[p].index = Base(p) =>
            /\ head = run[p]
            /\ \A f \in Files :
                 tip'[run[p]][f] = IF f \in Touches[run[p]] THEN Patched(run[p], start[p].worktree[f])
                                                            ELSE Base(p)[f]
  <2> SUFFICES ASSUME AInv, [Next]_vars, NEW p \in Procs, Succeeds(p), start[p].index = Base(p)
               PROVE  /\ head = run[p]
                      /\ \A f \in Files :
                           tip'[run[p]][f] = IF f \in Touches[run[p]]
                                             THEN Patched(run[p], start[p].worktree[f]) ELSE Base(p)[f]
    OBVIOUS
  <2>1. head = run[p] /\ tip'[run[p]] = Made(run[p], start[p])
    BY AtCommit
  <2> QED
    BY <2>1 DEF Made
<1> QED
  BY <1>1, Inductive, PTL DEF Spec, CleanCommitIsThePatch

\* A file that is absent from the manifest and in which the patch fits is absent.
LEMMA AbsentFits ==
  ASSUME NEW c \in Contents, NEW d \in Contents, c.hunk = d.hunk, d = Absent
  PROVE  c = d
BY ContentFacts

\* From a clean tree, what an approve commits is the captured source, patched.
THEOREM CommitsTheVerifiedTree == Spec => CleanCommitIsTheVerifiedTree
<1>1. AInv /\ [Next]_vars =>
        \A p \in Procs :
          Succeeds(p) /\ start[p].index = Base(p)
            /\ (\A f \in Files \ Ignored : start[p].worktree[f] = Base(p)[f]) =>
            \A f \in Files \ Ignored :
              f \in Touches[run[p]] \/ manifest[run[p]][f] # Absent
                => tip'[run[p]][f] = Patch(run[p], manifest[run[p]])[f]
  <2> SUFFICES ASSUME AInv, [Next]_vars, NEW p \in Procs, Succeeds(p), start[p].index = Base(p),
                      \A f \in Files \ Ignored : start[p].worktree[f] = Base(p)[f],
                      NEW f \in Files \ Ignored,
                      f \in Touches[run[p]] \/ manifest[run[p]][f] # Absent
               PROVE  tip'[run[p]][f] = Patch(run[p], manifest[run[p]])[f]
    OBVIOUS
  <2>1. start[p] \in Repositories /\ manifest[run[p]] \in Trees
    BY AtCommit DEF AInv, TypeOK, Succeeds
  <2>2. start[p].worktree[f] \in Contents /\ manifest[run[p]][f] \in Contents
    BY <2>1 DEF Repositories, Trees
  <2>3. start[p].worktree[f] = manifest[run[p]][f]
    BY <2>2, AtCommit, AbsentFits
  <2>4. start[p].index[f] = start[p].worktree[f]
    OBVIOUS
  <2>5. tip'[run[p]] = Made(run[p], start[p])
    BY AtCommit
  <2> QED
    BY <2>3, <2>4, <2>5 DEF Patch, Made
<1> QED
  BY <1>1, Inductive, PTL DEF Spec, CleanCommitIsTheVerifiedTree

\* While nothing else touches the repository, an approve changes no commit but that
\* of the run's own branch.
THEOREM ChangesOnlyItsBranch == Spec => OnlyOwnBranch
<1>1. AInv /\ [Next]_vars =>
        \A p \in Procs :
          start[p] # None /\ pc'[p] # pc[p] => \A b \in Branches \ {run[p]} : tip'[b] = tip[b]
  <2> SUFFICES ASSUME AInv, [Next]_vars, NEW p \in Procs, start[p] # None, pc'[p] # pc[p],
                      NEW b \in Branches \ {run[p]}
               PROVE  tip'[b] = tip[b]
    OBVIOUS
  <2>1. Step(p) /\ tip \in [AnyHead -> Trees] /\ b \in AnyHead
    BY MovedByItself DEF AInv, TypeOK, AnyHead
  <2>2. CASE Commits(p) \/ FailsAfterCommit(p)
    <3>1. head = run[p]
      BY <2>2 DEF AInv, AloneKnows, SinceStart, Commits, FailsAfterCommit
    <3> QED
      BY <2>1, <2>2, <3>1 DEF Commits, FailsAfterCommit
  <2>3. CASE CreatesBranch(p) \/ DeletesBranch(p)
    BY <2>1, <2>3 DEF CreatesBranch, MakesBranch, DeletesBranch
  <2>4. CASE ~(Commits(p) \/ FailsAfterCommit(p) \/ CreatesBranch(p) \/ DeletesBranch(p))
    BY <2>1, <2>4 DEF Step, Checks, ReadsBranch, Applies, Stages, Fails, FailsBetweenFiles, Returns,
                      Dies, Switch, gitVars
  <2> QED
    BY <2>2, <2>3, <2>4
<1> QED
  BY <1>1, Inductive, PTL DEF Spec, OnlyOwnBranch

\* An approve that fails after it has made its branch, and that nobody else crossed,
\* has changed no other branch, and has left its own gone, where it began, or at its
\* own commit; if its cleanup commands did what git allows, HEAD is back and there is
\* neither branch nor commit, unless HEAD was detached or staged files are in the way.
THEOREM LeavesNoCommit == Spec => FailureLeavesNoCommit
<1>1. AInv /\ [Next]_vars =>
        \A p \in Procs :
          Reports(p) =>
            /\ \A b \in Branches \ {run[p]} : tip'[b] = start[p].tip[b]
            /\ tip'[run[p]] \in {NoTree, Base(p), Commit(p)}
            /\ (/\ p \notin slips' /\ start[p].head # Detached
                /\ start[p].index = Base(p) \/ tip[run[p]] = Base(p))
                 => head' = start[p].head /\ tip' = start[p].tip
  <2> SUFFICES ASSUME AInv, [Next]_vars, NEW p \in Procs, Reports(p)
               PROVE  /\ \A b \in Branches \ {run[p]} : tip'[b] = start[p].tip[b]
                      /\ tip'[run[p]] \in {NoTree, Base(p), Commit(p)}
                      /\ (/\ p \notin slips' /\ start[p].head # Detached
                          /\ start[p].index = Base(p) \/ tip[run[p]] = Base(p))
                           => head' = start[p].head /\ tip' = start[p].tip
    OBVIOUS
  <2> DEFINE s == start[p]
             r == run[p]
  <2>1. Step(p) /\ ProcTypes
    BY MovedByItself, TypeParts DEF Reports, AInv
  <2>2. DeletesBranch(p)
    BY <2>1 DEF Reports, Step, Checks, ReadsBranch, CreatesBranch, Applies, Stages, Commits, Fails,
                FailsBetweenFiles, FailsAfterCommit, Returns, Dies, Ends, Goto, ProcTypes
  <2>3. /\ s.tip[r] = NoTree /\ tip = [s.tip EXCEPT ![r] = tip[r]]
        /\ tip[r] \in {Base(p), Commit(p)}
        /\ s.tip[s.head] # NoTree
        /\ s.head # Detached /\ p \notin slips /\ (s.index = Base(p) \/ tip[r] = Base(p))
             => head = s.head
    BY DEF AInv, AloneKnows, SinceStart, Reports, Holding, Base, Commit, Made
  <2>4. s \in Repositories /\ r \in Runs
    BY <2>1 DEF AInv, BusyHasRun, ProcTypes, Reports, Busy
  <2>5. s.tip \in [AnyHead -> Trees] /\ r \in AnyHead
    BY <2>4 DEF Repositories, AnyHead, Branches
  <2>6. tip' \in {tip, [tip EXCEPT ![r] = NoTree]} /\ head' = head /\ slips \subseteq slips'
    BY <2>2 DEF DeletesBranch
  <2>7. \A b \in Branches \ {r} : tip'[b] = s.tip[b]
    BY <2>3, <2>5, <2>6 DEF AnyHead
  <2>8. tip'[r] \in {NoTree, Base(p), Commit(p)}
    BY <2>3, <2>5, <2>6
  <2>9. ASSUME p \notin slips', s.head # Detached, s.index = Base(p) \/ tip[r] = Base(p)
        PROVE  head' = s.head /\ tip' = s.tip
    <3>1. head = s.head
      BY <2>3, <2>6, <2>9
    <3>2. head # r
      BY <2>3, <3>1
    <3>3. tip' = [tip EXCEPT ![r] = NoTree]
      BY <2>2, <2>9, <3>2 DEF DeletesBranch
    <3>4. tip' = s.tip
      BY <2>3, <2>5, <3>3
    <3> QED
      BY <2>6, <3>1, <3>4
  <2> QED
    BY <2>7, <2>8, <2>9
<1> QED
  BY <1>1, Inductive, PTL DEF Spec, FailureLeavesNoCommit
================================================================================
