--------------------------- MODULE SanitizedSnapshot ---------------------------
(***************************************************************************)
(* From the project to the workspace of a run and back to the project      *)
(* (src/src/projects/preview-sanitization.ts, build-pilot-snapshot.ts,     *)
(* build-sanitized-workspace.ts, validate-sanitized-workspace.ts,          *)
(* verify-source-unchanged.ts), and the disposable workspace of            *)
(* `powerplant verify` (verification/create-verification-workspace.ts):    *)
(* the tree is walked and its files are hashed, copied and hashed again    *)
(* one by one, while the user works in it.                                 *)
(*                                                                         *)
(* Globs are given by the paths they match; a directory that is excluded   *)
(* is the paths below it.  A content stands for its hash.                  *)
(***************************************************************************)
EXTENDS Naturals, FiniteSets, Functions

CONSTANTS Paths,
          Included, Excluded, DenyIfPresent,  \* the contract: the paths its patterns match
          MaxChanges                   \* bound: what the user does to the tree

ASSUME SnapshotAssumption == Included \cup Excluded \cup DenyIfPresent \subseteq Paths /\ MaxChanges \in Nat

VARIABLES
  tree,    \* the source project: path -> content, "link", or "none"
  changes, \* history: how often a path was changed
  snap,    \* the command: place, files it has still to go through, what it recorded, and
           \* as history the canaries in files that the scan could not read
  copies   \* the baseline and the workspace on disk

snapshotVars == <<tree, changes, snap, copies>>

Absent == [p \in Paths |-> "none"]

SnapIdle == [kind |-> "run", pc |-> "idle", todo |-> {}, shown |-> {}, manifest |-> Absent,
             listed |-> Absent, skipped |-> {}, differs |-> FALSE]

SnapshotInit ==
  /\ \E there \in SUBSET Paths : tree = [p \in Paths |-> IF p \in there THEN "old" ELSE "none"]
  /\ changes = [p \in Paths |-> 0]
  /\ \E k \in {"run", "verify"} : snap = [SnapIdle EXCEPT !.kind = k]
  /\ copies = [baseline |-> Absent, workspace |-> Absent]

SnapAt(l) == snap.pc = l

\* What reading a path gives: a link's is the content of another file.
Read(p) == IF tree[p] = "link" THEN "outside" ELSE tree[p]

Files == {p \in Paths : tree[p] \notin {"none", "link"}}
Relevant == Files \ Excluded
Entering == Included \ Excluded

\* The files in the order of the directory.
File == CHOOSE p \in snap.todo : TRUE

\* Reading a file that is gone throws.
SnapThrows == snap' = [snap EXCEPT !.pc = "threw"]

\* A step of a loop over files, and its end.
Loop(l) == SnapAt(l) /\ snap.todo # {}
Ended(l, next, todo) == SnapAt(l) /\ snap.todo = {} /\ snap' = [snap EXCEPT !.pc = next, !.todo = todo]

------------------------------------------------------------------------------

\* previewSanitization: what run and verify show before they ask and begin.  Links count
\* as files.
Preview ==
  /\ SnapAt("idle")
  /\ snap' = [snap EXCEPT !.pc = "begin", !.shown = {p \in Entering : tree[p] # "none"}]
  /\ UNCHANGED <<tree, changes, copies>>

\* captureSourceManifest: all files that are not excluded; verify has no such manifest.
CaptureWalk ==
  /\ SnapAt("begin")
  /\ snap' = IF snap.kind = "run" THEN [snap EXCEPT !.pc = "capture", !.todo = Relevant]
                                  ELSE [snap EXCEPT !.pc = "walk"]
  /\ UNCHANGED <<tree, changes, copies>>

CaptureFile ==
  /\ Loop("capture")
  /\ IF Read(File) = "none" THEN SnapThrows
     ELSE snap' = [snap EXCEPT !.todo = @ \ {File}, !.manifest[File] = Read(File)]
  /\ UNCHANGED <<tree, changes, copies>>

Captured == Ended("capture", "walk", {}) /\ UNCHANGED <<tree, changes, copies>>

\* buildSanitizedWorkspace: a link that would enter is refused, and only then.
CopyWalk ==
  /\ SnapAt("walk")
  /\ IF \E p \in Entering : tree[p] = "link" THEN SnapThrows
     ELSE snap' = [snap EXCEPT !.pc = "copy", !.todo = Files \cap Entering]
  /\ UNCHANGED <<tree, changes, copies>>

CopyFile ==
  /\ Loop("copy")
  /\ IF Read(File) = "none" THEN SnapThrows /\ UNCHANGED copies
     ELSE /\ copies' = [copies EXCEPT !.baseline[File] = Read(File)]
          /\ snap' = [snap EXCEPT !.pc = "list"]
  /\ UNCHANGED <<tree, changes>>

\* The hash of the copied file is taken from the source once more.
ListFile ==
  /\ SnapAt("list")
  /\ IF Read(File) = "none" THEN SnapThrows
     ELSE snap' = [snap EXCEPT !.pc = "copy", !.todo = @ \ {File}, !.listed[File] = Read(File)]
  /\ UNCHANGED <<tree, changes, copies>>

Copied == Ended("copy", "validate", {}) /\ UNCHANGED <<tree, changes, copies>>

Copies == {p \in Paths : copies.baseline[p] # "none"}
Canaries == {p \in Paths : copies.baseline[p] = "canary"}

Violations(skipped) == (Copies \cap DenyIfPresent) \cup (Canaries \ skipped)

\* validateSanitizedWorkspace, on the copy, whose scan passes over a file that it cannot
\* read; then the writable copy of the copy.
Validate ==
  /\ SnapAt("validate")
  /\ \E skipped \in SUBSET Canaries :
       IF Violations(skipped) # {} THEN SnapThrows /\ UNCHANGED copies
       ELSE /\ snap' = [snap EXCEPT !.pc = "ready", !.skipped = skipped]
            /\ copies' = IF snap.kind = "run" THEN [copies EXCEPT !.workspace = copies.baseline] ELSE copies
  /\ UNCHANGED <<tree, changes>>

------------------------------------------------------------------------------
(* After the session, or the checks, the source is looked at again.        *)

\* The record that the source is compared with.
Record == IF snap.kind = "run" THEN snap.manifest ELSE snap.listed
Recorded == {p \in Paths : Record[p] # "none"}

VerifySourceStarts ==
  /\ SnapAt("ready")
  /\ snap' = [snap EXCEPT !.pc = "compare", !.todo = Recorded]
  /\ UNCHANGED <<tree, changes, copies>>

\* verifySourceUnchanged and checkSourceModified, one file: changed, or missing.
CompareFile ==
  /\ Loop("compare")
  /\ snap' = [snap EXCEPT !.todo = @ \ {File}, !.differs = @ \/ Read(File) # Record[File]]
  /\ UNCHANGED <<tree, changes, copies>>

EndSnapshot(differs) == snap' = [snap EXCEPT !.pc = "done", !.differs = differs]

CompareNew_Recorded ==
  /\ SnapAt("compare") /\ snap.todo = {}
  /\ EndSnapshot(snap.differs)
  /\ UNCHANGED <<tree, changes, copies>>

\* verifySourceUnchanged alone looks for files that are new, excluded ones and links
\* aside.
CompareNew ==
  /\ SnapAt("compare") /\ snap.todo = {}
  /\ EndSnapshot(snap.differs \/ (snap.kind = "run" /\ ~(Relevant \subseteq Recorded)))
  /\ UNCHANGED <<tree, changes, copies>>

Command ==
  \/ Preview \/ CaptureWalk \/ CaptureFile \/ Captured \/ CopyWalk \/ CopyFile \/ ListFile
  \/ Copied \/ Validate \/ VerifySourceStarts \/ CompareFile \/ CompareNew

\* The user writes, removes or links a file.
ChangeTree ==
  /\ ~SnapAt("threw") /\ ~SnapAt("done") /\ SumFunction(changes) < MaxChanges
  /\ \E p \in Paths, c \in {"none", "old", "new", "canary", "link"} :
       /\ tree[p] # c
       /\ tree' = [tree EXCEPT ![p] = c]
       /\ changes' = [changes EXCEPT ![p] = @ + 1]
  /\ UNCHANGED <<snap, copies>>

SnapshotNext == Command \/ ChangeTree

\* A command by itself, whatever the source is at its start.
SnapshotSpec == SnapshotInit /\ [][SnapshotNext]_snapshotVars

------------------------------------------------------------------------------

\* "Capture source manifest BEFORE any copy (proves source untouched)"
\* (build-pilot-snapshot.ts:96).  When a run's source is found unmodified, what the
\* agent was given is what the manifest says, file by file, also if the user worked in
\* the tree while it was captured and copied: only a path that was changed and changed
\* back can escape.  Nothing is in a validated workspace that is excluded or denied, and
\* nothing that carries the canary but in a file that the scan could not read ("skip
\* canary scan, not a violation", validate-sanitized-workspace.ts:51); and what was shown
\* to the user before is what is copied, as long as the tree was left alone.
UnmodifiedMeansCopied ==
  /\ SnapAt("done") /\ snap.kind = "run" /\ ~snap.differs =>
       \A p \in Paths : changes[p] <= 1 =>
         /\ copies.baseline[p] = IF p \in Entering THEN snap.manifest[p] ELSE "none"
         /\ snap.listed[p] = copies.baseline[p]
  /\ snap.pc \in {"ready", "compare", "done"} =>
       /\ \A p \in Paths : copies.baseline[p] # "none" =>
            /\ p \in Included \ (Excluded \cup DenyIfPresent)
            /\ copies.baseline[p] = "canary" => p \in snap.skipped
       /\ snap.kind = "run" => copies.workspace = copies.baseline
       /\ (\A p \in Paths : changes[p] = 0) => Copies = snap.shown
================================================================================
