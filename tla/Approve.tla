-------------------------------- MODULE Approve --------------------------------
(***************************************************************************)
(* powerplant approve up to its commit (src/src/cli/commands/approve.ts,   *)
(* src/src/runs/apply-patch.ts): the checks, the branch, the patch, the    *)
(* commit and the cleanup, on the user's own git repository.               *)
(*                                                                         *)
(* Every git command is one step.  Between two of them the user edits,     *)
(* stages, commits and switches branches, other approves run, and the      *)
(* process may die.  Git is external: the semantics of its commands is     *)
(* given to the extent that approve relies on it.                          *)
(*                                                                         *)
(* A file's content is who wrote which part of it: the part the runs'      *)
(* patches are about, and the rest.  A run edits that part, or adds a new  *)
(* file; the user edits either.                                            *)
(* A definition Name_Variant is a mutant of Name: no action uses it.       *)
(***************************************************************************)
EXTENDS Naturals, FiniteSets

CONSTANTS
  Procs,    \* approve processes
  Runs,     \* run ids; a run also names its branch powerplant/<run-id>
  Files,    \* paths of the project
  Ignored,  \* paths that match excludePaths: in no manifest, in no patch
  New,      \* paths that do not exist at first
  Touches,  \* the files each run's patch writes
  Main, Detached,      \* the user's branch; a HEAD that is on no branch
  Initial, User,       \* authors: of the first commit, of the user's edits
  MaxActs,             \* bound on the user's git commands and edits
  None                 \* no author, no run, no record of the start

ASSUME ProjectAssumption ==
  /\ Ignored \subseteq Files /\ New \subseteq Files /\ Ignored \cup New # Files
  /\ Touches \in [Runs -> (SUBSET (Files \ Ignored)) \ {{}}]
  /\ {Main, Detached} \cap Runs = {} /\ Main # Detached
  /\ None \notin {Initial, User} \cup Runs
  /\ MaxActs \in Nat

VARIABLES
  head,      \* the branch HEAD is on, or Detached
  tip,       \* the tree of each branch's last commit; of HEAD itself when Detached
  index,
  worktree,
  manifest,  \* SOURCE_MANIFEST.json of each run: the source when it was captured
  pc,
  run,       \* the run a process approves
  original,  \* the branch it will return to
  slips,     \* history: processes one of whose cleanup commands failed by itself
  acts,      \* how often the user has acted
  start      \* history: the repository when the process began, while nothing else
             \* has touched it since

gitVars     == <<head, tip, index, worktree>>
procVars    == <<pc, run, original>>
vars == <<gitVars, manifest, procVars, slips, acts, start>>

\* A file that author a has written as a whole; a file that is not there.
By(a)    == [hunk |-> a, rest |-> a]
Absent   == By(None)

Authors  == {Initial, User} \cup Runs
Contents == {Absent} \cup [hunk : Authors, rest : Authors]
Trees    == [Files -> Contents]
Branches == {Main} \cup Runs
NoTree   == [f \in Files |-> Absent]
Exists(b) == tip[b] # NoTree

\* How an approve ends.
Ended == {"refused", "approved", "deleted", "dead"}

\* An approve has made the branch of its run and has not ended.
Holding == {"apply", "add", "commit", "return", "delete"}

\* The repository, as far as an approve may compare with it.
Repository == [head |-> head, tip |-> tip, index |-> index, worktree |-> worktree]
Repositories == [head : Branches \cup {Detached}, tip : [Branches \cup {Detached} -> Trees],
                 index : Trees, worktree : Trees]

Init ==
  LET first == [f \in Files |-> IF f \in Ignored \cup New THEN Absent ELSE By(Initial)] IN
  /\ head = Main
  /\ tip = [b \in Branches \cup {Detached} |-> IF b = Main THEN first ELSE NoTree]
  /\ index = first
  /\ worktree = first
  /\ manifest = [r \in Runs |-> NoTree]
  /\ pc = [p \in Procs |-> "idle"]
  /\ run = [p \in Procs |-> None]
  /\ original = [p \in Procs |-> None]
  /\ slips = {}
  /\ acts = 0
  /\ start = [p \in Procs |-> None]

------------------------------------------------------------------------------
(* git.                                                                    *)

\* git checkout b is refused when it would overwrite a local change.
MaySwitch(b) ==
  /\ Exists(b)
  /\ \A f \in Files : tip[b][f] # tip[head][f] => worktree[f] = tip[head][f] /\ index[f] = tip[head][f]

Switch(b) ==
  LET moved(t) == [f \in Files |-> IF tip[b][f] # tip[head][f] THEN tip[b][f] ELSE t[f]] IN
  /\ head' = b
  /\ index' = moved(index)
  /\ worktree' = moved(worktree)
  /\ UNCHANGED tip

\* The patch of r fits tree t: what its hunks are about is as r found it, or still
\* missing.  The rest of the file may have been edited.
Fits(r, t) == \A f \in Touches[r] : t[f].hunk = manifest[r][f].hunk

Patched(r, c) == IF c = Absent THEN By(r) ELSE [c EXCEPT !.hunk = r]
Patch(r, t) == [f \in Files |-> IF f \in Touches[r] THEN Patched(r, t[f]) ELSE t[f]]

\* checkSourceDrift: the files of the manifest are as they were.  A file that is
\* not in it, being ignored or newer, is not looked at.
Drifted(r) ==
  \E f \in Files \ Ignored : manifest[r][f] # Absent /\ worktree[f] # manifest[r][f]

------------------------------------------------------------------------------
(* approve.                                                                *)

\* p changes the repository: no other process is alone with it any more.
Disturb(p) == [q \in Procs |-> IF q = p THEN start[p] ELSE None]

Goto(p, l) == pc' = [pc EXCEPT ![p] = l]

Checks_NoDrift(p, r) ==
  /\ pc[p] = "idle"
  /\ manifest[r] # NoTree
  /\ Fits(r, worktree)
  /\ Goto(p, "checked")
  /\ run' = [run EXCEPT ![p] = r]
  /\ start' = [start EXCEPT ![p] = Repository]
  /\ UNCHANGED <<gitVars, manifest, original, slips>>

\* The artifacts are there, the source has not drifted, git apply --check passes.
\* A run that did not pass its checks is approved like one that did.
Checks(p, r) ==
  /\ pc[p] = "idle"
  /\ manifest[r] # NoTree
  /\ ~Drifted(r)
  /\ Fits(r, worktree)
  /\ Goto(p, "checked")
  /\ run' = [run EXCEPT ![p] = r]
  /\ start' = [start EXCEPT ![p] = Repository]
  /\ UNCHANGED <<gitVars, manifest, original, slips>>

Nobody == [q \in Procs |-> None]
Drop(p) == [start EXCEPT ![p] = None]

\* p exits, having said l; its record is dropped.
Ends(p, l) ==
  /\ Goto(p, l)
  /\ run' = [run EXCEPT ![p] = None]
  /\ original' = [original EXCEPT ![p] = None]

\* The current branch is remembered (HEAD, if it is detached) and the run's
\* branch must not exist.
ReadsBranch(p) ==
  /\ pc[p] = "checked"
  /\ IF Exists(run[p])
     THEN Ends(p, "refused") /\ start' = Drop(p)
     ELSE /\ Goto(p, "branch")
          /\ original' = [original EXCEPT ![p] = head]
          /\ UNCHANGED <<run, start>>
  /\ UNCHANGED <<gitVars, manifest, slips>>

CreatesBranch_NotCheckedOut(p) ==
  /\ pc[p] = "branch"
  /\ ~Exists(run[p])
  /\ Goto(p, "apply")
  /\ tip' = [tip EXCEPT ![run[p]] = tip[head]]
  /\ start' = Disturb(p)
  /\ UNCHANGED <<head, run, original, index, worktree, manifest, slips>>

MakesBranch(p) ==
  /\ ~Exists(run[p])
  /\ tip' = [tip EXCEPT ![run[p]] = tip[head]]
  /\ head' = run[p]

CreatesBranch_Resets(p) ==
  /\ pc[p] = "branch"
  /\ UNCHANGED <<index, worktree, manifest, slips>>
  /\ \/ /\ Ends(p, "refused") /\ start' = Drop(p)
        /\ UNCHANGED <<head, tip>>
     \/ /\ tip' = [tip EXCEPT ![run[p]] = tip[head]]
        /\ head' = run[p]
        /\ Goto(p, "apply") /\ start' = Disturb(p)
        /\ UNCHANGED <<run, original>>

\* git checkout -b.  It may fail, as it does when the branch is there by now; it
\* may also make the branch and then fail, by a post-checkout hook that does.  Any
\* failure ends the approve, with no cleanup.
CreatesBranch(p) ==
  /\ pc[p] = "branch"
  /\ UNCHANGED <<index, worktree, manifest, slips>>
  /\ \/ /\ Ends(p, "refused") /\ start' = Drop(p)
        /\ UNCHANGED <<head, tip>>
     \/ /\ MakesBranch(p)
        /\ Goto(p, "apply") /\ start' = Disturb(p)
        /\ UNCHANGED <<run, original>>
     \/ /\ MakesBranch(p)
        /\ Ends(p, "refused") /\ start' = Nobody

\* git apply, on the working tree only.
Applies(p) ==
  /\ pc[p] = "apply"
  /\ Fits(run[p], worktree)
  /\ worktree' = Patch(run[p], worktree)
  /\ Goto(p, "add")
  /\ start' = Disturb(p)
  /\ UNCHANGED <<head, tip, index, manifest, run, original, slips>>

Stages_All(p) ==
  /\ pc[p] = "add"
  /\ index' = worktree
  /\ Goto(p, "commit")
  /\ start' = Disturb(p)
  /\ UNCHANGED <<head, tip, worktree, manifest, run, original, slips>>

\* git add of the patched files; whatever else the index holds stays in it.
Stages(p) ==
  /\ pc[p] = "add"
  /\ index' = [f \in Files |-> IF f \in Touches[run[p]] THEN worktree[f] ELSE index[f]]
  /\ Goto(p, "commit")
  /\ start' = Disturb(p)
  /\ UNCHANGED <<head, tip, worktree, manifest, run, original, slips>>

\* git commit: the whole index, on the branch HEAD is on by then.
Commits(p) ==
  /\ pc[p] = "commit"
  /\ index # tip[head]
  /\ tip' = [tip EXCEPT ![head] = index]
  /\ Ends(p, "approved")
  /\ start' = Nobody
  /\ UNCHANGED <<head, index, worktree, manifest, slips>>

\* git apply, add or commit fails: the patch no longer fits, a patched file is
\* ignored by git, a hook refuses, there is nothing to commit.
Fails(p) ==
  /\ pc[p] \in {"apply", "add", "commit"}
  /\ Goto(p, "return")
  /\ UNCHANGED <<gitVars, manifest, run, original, slips, start>>

\* git apply fails between two files, those of done patched.
FailsBetweenFiles(p) ==
  /\ pc[p] = "apply"
  /\ Fits(run[p], worktree)
  /\ \E done \in SUBSET Touches[run[p]] :
       worktree' = [f \in Files |-> IF f \in done THEN Patch(run[p], worktree)[f] ELSE worktree[f]]
  /\ Goto(p, "return")
  /\ start' = Disturb(p)
  /\ UNCHANGED <<head, tip, index, manifest, run, original, slips>>

\* git commit succeeds, and the unlink of the message file after it throws.
FailsAfterCommit(p) ==
  /\ pc[p] = "commit"
  /\ index # tip[head]
  /\ tip' = [tip EXCEPT ![head] = index]
  /\ Goto(p, "return")
  /\ start' = Disturb(p)
  /\ UNCHANGED <<head, index, worktree, manifest, run, original, slips>>

\* cleanupApprovalBranch, first half: git checkout of the original branch,
\* without --force.  "git checkout HEAD" does nothing.  Its exit status is not
\* looked at: it may fail where git would allow it (index.lock, a full disk).
Returns(p) ==
  /\ pc[p] = "return"
  /\ IF original[p] # Detached /\ MaySwitch(original[p])
     THEN \/ Switch(original[p]) /\ start' = Disturb(p) /\ UNCHANGED slips
          \/ slips' = slips \cup {p} /\ UNCHANGED <<gitVars, start>>
     ELSE UNCHANGED <<gitVars, start, slips>>
  /\ Goto(p, "delete")
  /\ UNCHANGED <<manifest, run, original>>

DeletesBranch_Keeps(p) ==
  /\ pc[p] = "delete"
  /\ UNCHANGED gitVars
  /\ Ends(p, "deleted")
  /\ start' = Nobody
  /\ UNCHANGED <<manifest, slips>>

DeletesBranch_Forced(p) ==
  /\ pc[p] = "delete"
  /\ tip' = [tip EXCEPT ![run[p]] = NoTree]
  /\ Ends(p, "deleted")
  /\ start' = Nobody
  /\ UNCHANGED <<head, index, worktree, manifest, slips>>

\* Second half: git branch -D, which git refuses for the branch HEAD is on and
\* which may fail by itself.  The branch is reported deleted in every case.
DeletesBranch(p) ==
  /\ pc[p] = "delete"
  /\ IF head # run[p]
     THEN \/ tip' = [tip EXCEPT ![run[p]] = NoTree] /\ UNCHANGED slips
          \/ slips' = slips \cup {p} /\ UNCHANGED tip
     ELSE UNCHANGED <<tip, slips>>
  /\ Ends(p, "deleted")
  /\ start' = Nobody
  /\ UNCHANGED <<head, index, worktree, manifest>>

Dies(p) ==
  /\ pc[p] \notin {"idle"} \cup Ended
  /\ Ends(p, "dead")
  /\ start' = Drop(p)
  /\ UNCHANGED <<gitVars, manifest, slips>>

------------------------------------------------------------------------------
(* The user.                                                               *)

\* A run is captured from the working tree, and ends with a package.
Capture(r) ==
  /\ manifest[r] = NoTree
  /\ manifest' = [manifest EXCEPT ![r] = [f \in Files |-> IF f \in Ignored THEN Absent ELSE worktree[f]]]
  /\ UNCHANGED <<gitVars, procVars, slips, start>>

\* A new file, or an edit near what the patches are about, or elsewhere.
Edits(c) ==
  IF c = Absent THEN {By(User)} ELSE {[c EXCEPT !.hunk = User], [c EXCEPT !.rest = User]}

Edit(f) ==
  /\ \E c \in Edits(worktree[f]) \ {worktree[f]} : worktree' = [worktree EXCEPT ![f] = c]
  /\ UNCHANGED <<head, tip, index, manifest>>

Stage(f) ==
  /\ index[f] # worktree[f]
  /\ index' = [index EXCEPT ![f] = worktree[f]]
  /\ UNCHANGED <<head, tip, worktree, manifest>>

\* git commit, or git commit -a, which stages every file that git knows first.
UserCommits ==
  /\ \E t \in {index, [f \in Files |-> IF index[f] = Absent THEN Absent ELSE worktree[f]]} :
       /\ t # tip[head]
       /\ tip' = [tip EXCEPT ![head] = t]
       /\ index' = t
  /\ UNCHANGED <<head, worktree, manifest>>

UserSwitches(b) ==
  /\ b # head
  /\ MaySwitch(b)
  /\ Switch(b)
  /\ UNCHANGED manifest

\* git checkout --detach.
UserDetaches ==
  /\ head # Detached
  /\ tip' = [tip EXCEPT ![Detached] = tip[head]]
  /\ head' = Detached
  /\ UNCHANGED <<index, worktree, manifest>>

\* git branch -D of a run's branch, as approve asks for when it finds one
\* (approve.ts:260), while no approve holds it.
UserDeletes(b) ==
  /\ b # head /\ Exists(b)
  /\ \A q \in Procs : pc[q] \in Holding => run[q] # b
  /\ tip' = [tip EXCEPT ![b] = NoTree]
  /\ UNCHANGED <<head, index, worktree, manifest>>

Step(p) ==
  \/ \E r \in Runs : Checks(p, r)
  \/ ReadsBranch(p)
  \/ CreatesBranch(p)
  \/ Applies(p)
  \/ Stages(p)
  \/ Commits(p)
  \/ Fails(p)
  \/ FailsBetweenFiles(p)
  \/ FailsAfterCommit(p)
  \/ Returns(p)
  \/ DeletesBranch(p)
  \/ Dies(p)

\* The user is not the process's: nobody is alone with the repository afterwards.
UserActs ==
  /\ acts < MaxActs
  /\ acts' = acts + 1
  /\ start' = Nobody
  /\ UNCHANGED <<procVars, slips>>
  /\ \/ \E f \in Files : Edit(f) \/ Stage(f)
     \/ UserCommits
     \/ \E b \in Branches : UserSwitches(b)
     \/ UserDetaches
     \/ \E b \in Runs : UserDeletes(b)

Next ==
  \/ \E p \in Procs : Step(p) /\ UNCHANGED acts
  \/ \E r \in Runs : Capture(r) /\ UNCHANGED acts
  \/ UserActs

Spec == Init /\ [][Next]_vars

------------------------------------------------------------------------------
(* Properties.                                                             *)

\* Every variable stays in its set, and HEAD is on a commit.
TypeOK ==
  /\ head \in Branches \cup {Detached}
  /\ tip \in [Branches \cup {Detached} -> Trees]
  /\ Exists(head)
  /\ index \in Trees /\ worktree \in Trees
  /\ manifest \in [Runs -> Trees]
  /\ pc \in [Procs -> {"idle", "checked", "branch", "apply", "add", "commit", "return", "delete"} \cup Ended]
  /\ run \in [Procs -> Runs \cup {None}]
  /\ original \in [Procs -> Branches \cup {Detached, None}]
  /\ slips \subseteq Procs
  /\ acts \in 0..MaxActs
  /\ start \in [Procs -> Repositories \cup {None}]

\* In this step p's approve succeeds; or fails, having made a branch; and only p
\* has touched the repository since it began.
Succeeds(p) == start[p] # None /\ pc[p] = "commit" /\ pc'[p] = "approved"
Reports(p) == start[p] # None /\ pc[p] = "delete" /\ pc'[p] = "deleted"

\* The commit that p began on, and what p commits on top of it.
Base(p) == start[p].tip[start[p].head]
Commit(p) == [f \in Files |-> IF f \in Touches[run[p]]
                              THEN Patched(run[p], start[p].worktree[f]) ELSE start[p].index[f]]

\* A run's branch is made once: an approve that finds it, left by a dead approve or
\* in use by another, is refused, whatever came between its look and its git
\* checkout -b; so no two approves work on one branch.
RunHeldByOne ==
  \A p \in Procs : pc[p] \in Holding =>
    /\ Exists(run[p])
    /\ \A q \in Procs \ {p} : pc[q] \in Holding => run[q] # run[p]

\* While nothing else touches the repository, an approve changes no commit but
\* that of the run's own branch, "never main/master" (docs/ROAD_TO_USABLE.md:110).
OnlyOwnBranch ==
  [][\A p \in Procs :
       start[p] # None /\ pc'[p] # pc[p] =>
         \A b \in Branches \ {run[p]} : tip'[b] = tip[b]]_vars

\* An approve that began alone with nothing staged commits to its own branch, on
\* top of the commit it began on, exactly the files of the patch: each as the user
\* had it, his own earlier edits of it included, with the patch's hunks applied.
CleanCommitIsThePatch ==
  [][\A p \in Procs :
       Succeeds(p) /\ start[p].index = Base(p) =>
         /\ head = run[p]
         /\ \A f \in Files :
              tip'[run[p]][f] = IF f \in Touches[run[p]] THEN Patched(run[p], start[p].worktree[f])
                                                         ELSE Base(p)[f]]_vars

\* If the tree was clean too ("Run it from a clean working tree", README.md), what
\* is committed is the tree that the run's checks saw: the captured source, patched.
\* Approve itself compares only the working tree with the manifest.
CleanCommitIsTheVerifiedTree ==
  [][\A p \in Procs :
       Succeeds(p) /\ start[p].index = Base(p)
         /\ (\A f \in Files \ Ignored : start[p].worktree[f] = Base(p)[f]) =>
         \A f \in Files \ Ignored :
           f \in Touches[run[p]] \/ manifest[run[p]][f] # Absent
             => tip'[run[p]][f] = Patch(run[p], manifest[run[p]])[f]]_vars

\* An approve that fails after it has made its branch, and that nobody else crossed,
\* has changed no other branch; its own is gone, or still at the commit it began on,
\* or (when it failed after git commit) at what it committed.  If both cleanup
\* commands did what git allows, HEAD is back and there is no branch and no commit
\* (docs/ROAD_TO_USABLE.md:111), unless HEAD was detached, or staged files went
\* into a commit that git checkout then cannot leave.
FailureLeavesNoCommit ==
  [][\A p \in Procs :
       Reports(p) =>
         /\ \A b \in Branches \ {run[p]} : tip'[b] = start[p].tip[b]
         /\ tip'[run[p]] \in {NoTree, Base(p), Commit(p)}
         /\ (/\ p \notin slips' /\ start[p].head # Detached
             /\ start[p].index = Base(p) \/ tip[run[p]] = Base(p))
              => head' = start[p].head /\ tip' = start[p].tip]_vars

------------------------------------------------------------------------------
(* What the docs promise and the code does not keep.                       *)

\* "Branch is always powerplant/<run-id>" (docs/ROAD_TO_USABLE.md:110): the commit
\* goes to the run's branch, even if HEAD was moved after git checkout -b.
CommitsToItsBranch ==
  [][\A p \in Procs : pc[p] = "commit" /\ pc'[p] = "approved" => head = run[p]]_vars
=============================================================================
