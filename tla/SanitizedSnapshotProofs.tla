------------------------ MODULE SanitizedSnapshotProofs ------------------------
(***************************************************************************)
(* Proofs about SanitizedSnapshot: what an unmodified source says about    *)
(* the workspace that was built from it, for any set of paths, any         *)
(* contract and any number of changes.                                     *)
(***************************************************************************)
EXTENDS SanitizedSnapshot, TLAPS

TreeContents == {"none", "old", "new", "canary", "link"}
Readings == {"none", "old", "new", "canary", "outside"}
SnapPlaces ==
  {"idle", "begin", "capture", "walk", "copy", "list", "validate", "ready", "compare", "done", "threw"}
AfterCopy == {"validate", "ready", "compare", "done"}

SnapRecords ==
  [kind : {"run", "verify"}, pc : SnapPlaces, todo : SUBSET Paths, shown : SUBSET Paths,
   manifest : [Paths -> Readings], listed : [Paths -> Readings], skipped : SUBSET Paths,
   differs : BOOLEAN]

SnapTypes ==
  /\ tree \in [Paths -> TreeContents] /\ changes \in [Paths -> Nat]
  /\ snap \in SnapRecords
  /\ copies \in [baseline : [Paths -> Readings], workspace : [Paths -> Readings]]

\* How far the command has come with a path.
IsCaptured(p) ==
  \/ SnapAt("capture") /\ p \notin snap.todo
  \/ snap.pc \in {"walk", "copy", "list"} \cup AfterCopy
IsCopied(p) ==
  \/ SnapAt("copy") /\ p \notin snap.todo
  \/ SnapAt("list") /\ (p \notin snap.todo \/ p = File)
  \/ snap.pc \in AfterCopy
IsListed(p) ==
  \/ snap.pc \in {"copy", "list"} /\ p \notin snap.todo
  \/ snap.pc \in AfterCopy
\* The comparison found the path as it was recorded.
IsCompared(p) ==
  /\ ~snap.differs
  /\ (SnapAt("compare") /\ p \notin snap.todo) \/ SnapAt("done")

\* Nothing is recorded before its place, and only what may enter is copied and listed.
Confined ==
  /\ snap.pc \in {"idle", "begin"} => \A p \in Paths : snap.manifest[p] = "none"
  /\ snap.pc \in {"idle", "begin", "capture", "walk"} =>
       \A p \in Paths : copies.baseline[p] = "none" /\ snap.listed[p] = "none"
  /\ snap.pc \in {"copy", "list"} => snap.todo \subseteq Entering
  /\ SnapAt("list") => snap.todo # {}
  /\ \A p \in Paths \ Entering : copies.baseline[p] = "none" /\ snap.listed[p] = "none"

\* A path nobody changed was shown, and is copied, as it is.
AsShown(p) ==
  changes[p] = 0 =>
    /\ ~SnapAt("idle") /\ ~SnapAt("threw") => (p \in snap.shown <=> p \in Entering /\ tree[p] # "none")
    /\ snap.pc \in {"copy", "list"} \cup AfterCopy /\ p \in Entering => tree[p] # "link"
    /\ IsCopied(p) /\ p \in Entering => copies.baseline[p] = Read(p)

\* A path in the manifest that still is what the manifest says, or was when it was
\* compared, was so all the while.
AsCaptured(p) ==
  snap.kind = "run" /\ IsCaptured(p) /\ snap.manifest[p] # "none" =>
    /\ changes[p] = 0 => Read(p) = snap.manifest[p]
    /\ changes[p] <= 1 /\ (Read(p) = snap.manifest[p] \/ IsCompared(p)) /\ p \in Entering =>
         /\ IsCopied(p) => copies.baseline[p] = snap.manifest[p]
         /\ IsListed(p) => snap.listed[p] = snap.manifest[p]

\* A path that was no file when the files were captured, and is none now, was none all
\* the while.
AsMissed(p) ==
  snap.kind = "run" /\ IsCaptured(p) /\ snap.manifest[p] = "none" /\ p \notin Excluded =>
    /\ changes[p] = 0 => p \notin Files
    /\ changes[p] <= 1 /\ (p \notin Files \/ (SnapAt("done") /\ ~snap.differs)) =>
         /\ snap.pc \in {"copy", "list"} => p \notin snap.todo
         /\ copies.baseline[p] = "none" /\ snap.listed[p] = "none"

\* What was validated stays as it was.
Validated ==
  snap.pc \in {"ready", "compare", "done"} =>
    /\ \A p \in Paths : copies.baseline[p] # "none" =>
         p \notin DenyIfPresent /\ (copies.baseline[p] = "canary" => p \in snap.skipped)
    /\ snap.kind = "run" => copies.workspace = copies.baseline

PathsInv == \A p \in Paths : AsShown(p) /\ AsCaptured(p) /\ AsMissed(p)

SnapInv == SnapTypes /\ Confined /\ PathsInv /\ Validated

------------------------------------------------------------------------------

LEMMA FileIsTodo == ASSUME snap.todo # {} PROVE File \in snap.todo
BY DEF File

LEMMA ReadingsAre ==
  ASSUME SnapTypes, NEW p \in Paths
  PROVE  /\ tree[p] \in TreeContents /\ Read(p) \in Readings
         /\ Read(p) = "none" <=> tree[p] = "none"
         /\ tree[p] # "link" => Read(p) = tree[p]
         /\ changes[p] \in Nat /\ snap.manifest[p] \in Readings /\ snap.listed[p] \in Readings
         /\ copies.baseline[p] \in Readings
BY DEF SnapTypes, TreeContents, Readings, SnapRecords, Read

LEMMA SnapStarts == SnapshotInit => SnapInv
<1> SUFFICES ASSUME SnapshotInit PROVE SnapInv
  OBVIOUS
<1>1. /\ tree \in [Paths -> TreeContents] /\ changes \in [Paths -> Nat]
      /\ copies = [baseline |-> Absent, workspace |-> Absent]
  BY DEF SnapshotInit, TreeContents
<1>2. PICK k \in {"run", "verify"} : snap = [SnapIdle EXCEPT !.kind = k]
  BY DEF SnapshotInit
<1>3. Absent \in [Paths -> Readings]
  BY DEF Absent, Readings
<1>4. snap \in SnapRecords /\ snap.pc = "idle" /\ snap.manifest = Absent /\ snap.listed = Absent
  BY <1>2, <1>3 DEF SnapIdle, SnapRecords, SnapPlaces
<1>5. SnapTypes
  BY <1>1, <1>3, <1>4 DEF SnapTypes
<1>6. Confined
  BY <1>1, <1>4 DEF Confined, SnapAt, Absent
<1>7. PathsInv
  BY <1>1, <1>4 DEF PathsInv, AsShown, AsCaptured, AsMissed, IsCaptured, IsCopied, IsListed, IsCompared,
     SnapAt, Absent, AfterCopy
<1> QED
  BY <1>4, <1>5, <1>6, <1>7 DEF SnapInv, Validated

\* A command that throws says nothing more.
LEMMA SnapThrowsKeeps ==
  ASSUME SnapInv, SnapThrows, UNCHANGED <<tree, changes, copies>>
  PROVE  SnapInv'
<1>1. /\ snap' \in SnapRecords /\ snap'.pc = "threw" /\ snap'.listed = snap.listed
  BY DEF SnapInv, SnapTypes, SnapThrows, SnapRecords, SnapPlaces
<1>2. SnapTypes' /\ Confined'
  BY <1>1 DEF SnapInv, SnapTypes, Confined, SnapAt
<1>3. PathsInv' /\ Validated'
  BY <1>1 DEF SnapInv, PathsInv, AsShown, AsCaptured, AsMissed, IsCaptured, IsCopied, IsListed, IsCompared,
     SnapAt, AfterCopy, Validated
<1> QED
  BY <1>2, <1>3 DEF SnapInv

LEMMA PreviewKeeps == ASSUME SnapInv, Preview PROVE SnapInv'
<1> DEFINE shown == {p \in Entering : tree[p] # "none"}
<1>1. shown \subseteq Paths
  BY SnapshotAssumption DEF Entering
<1>2. /\ snap' \in SnapRecords /\ snap.pc = "idle" /\ snap'.pc = "begin" /\ snap'.shown = shown
      /\ snap'.manifest = snap.manifest /\ snap'.listed = snap.listed /\ UNCHANGED <<tree, changes, copies>>
  BY <1>1 DEF Preview, SnapAt, SnapInv, SnapTypes, SnapRecords, SnapPlaces
<1>3. SnapTypes' /\ Confined'
  BY <1>2 DEF SnapInv, SnapTypes, Confined, SnapAt
<1>4. ASSUME NEW p \in Paths PROVE (AsShown(p) /\ AsCaptured(p) /\ AsMissed(p))'
  BY <1>2 DEF AsShown, AsCaptured, AsMissed, IsCaptured, IsCopied, IsListed, IsCompared, SnapAt, AfterCopy
<1> QED
  BY <1>2, <1>3, <1>4 DEF SnapInv, PathsInv, Validated

LEMMA CaptureWalkKeeps == ASSUME SnapInv, CaptureWalk PROVE SnapInv'
<1>1. Relevant \subseteq Paths
  BY DEF Relevant, Files
<1>2. /\ snap' \in SnapRecords /\ snap.pc = "begin" /\ snap'.shown = snap.shown /\ snap'.kind = snap.kind
      /\ IF snap.kind = "run" THEN snap'.pc = "capture" /\ snap'.todo = Relevant ELSE snap'.pc = "walk"
      /\ snap'.manifest = snap.manifest /\ snap'.listed = snap.listed /\ UNCHANGED <<tree, changes, copies>>
  <2>1. CASE snap.kind = "run"
    BY <1>1, <2>1 DEF CaptureWalk, SnapAt, SnapInv, SnapTypes, SnapRecords, SnapPlaces
  <2>2. CASE snap.kind # "run"
    BY <1>1, <2>2 DEF CaptureWalk, SnapAt, SnapInv, SnapTypes, SnapRecords, SnapPlaces
  <2> QED
    BY <2>1, <2>2
<1>3. SnapTypes' /\ Confined'
  BY <1>2 DEF SnapInv, SnapTypes, Confined, SnapAt
<1>4. ASSUME NEW p \in Paths PROVE (AsShown(p) /\ AsCaptured(p) /\ AsMissed(p))'
  <2>1. AsShown(p)'
    BY <1>2 DEF SnapInv, PathsInv, AsShown, IsCopied, SnapAt, AfterCopy
  <2>2. snap.manifest[p] = "none" /\ copies.baseline[p] = "none" /\ snap.listed[p] = "none"
    BY <1>2 DEF SnapInv, Confined
  <2>3. AsCaptured(p)'
    BY <1>2, <2>2 DEF AsCaptured
  <2>4. snap.kind = "run" /\ IsCaptured(p)' /\ p \notin Excluded => p \notin Files
    BY <1>2 DEF IsCaptured, Relevant, SnapAt, AfterCopy
  <2>5. AsMissed(p)'
    BY <1>2, <2>2, <2>4 DEF AsMissed, Files
  <2> QED
    BY <2>1, <2>3, <2>5
<1> QED
  BY <1>2, <1>3, <1>4 DEF SnapInv, PathsInv, Validated

LEMMA CaptureFileKeeps == ASSUME SnapInv, CaptureFile PROVE SnapInv'
<1> DEFINE f == File
           v == Read(File)
<1>1. f \in snap.todo /\ f \in Paths /\ v \in Readings
  BY FileIsTodo, ReadingsAre DEF CaptureFile, Loop, SnapInv, SnapTypes, SnapRecords
<1>2. CASE v = "none"
  BY <1>2, SnapThrowsKeeps DEF CaptureFile
<1>3. CASE v # "none"
  <2>1. /\ snap' = [snap EXCEPT !.todo = @ \ {f}, !.manifest[f] = v] /\ snap.pc = "capture"
        /\ UNCHANGED <<tree, changes, copies>>
    BY <1>3 DEF CaptureFile, Loop, SnapAt
  <2>0. v = Read(f)
    OBVIOUS
  <2> HIDE DEF f, v
  <2>2. snap \in SnapRecords /\ snap.manifest \in [Paths -> Readings]
    BY DEF SnapInv, SnapTypes, SnapRecords
  <2> DEFINE m == [snap.manifest EXCEPT ![f] = v]
  <2>3. m \in [Paths -> Readings] /\ m[f] = v /\ \A p \in Paths : p # f => m[p] = snap.manifest[p]
    BY <1>1, <2>2
  <2>4. snap' = [snap EXCEPT !.todo = snap.todo \ {f}, !.manifest = m]
    BY <2>1, <2>2 DEF SnapRecords
  <2> HIDE DEF m
  <2>5. /\ snap' \in SnapRecords /\ snap'.pc = "capture" /\ snap'.shown = snap.shown /\ snap'.kind = snap.kind
        /\ snap'.todo = snap.todo \ {f} /\ snap'.manifest = m /\ snap'.listed = snap.listed
    BY ZenonT(30), <2>1, <2>2, <2>3, <2>4 DEF SnapRecords
  <2>6. SnapTypes' /\ Confined'
    BY <2>1, <2>5 DEF SnapInv, SnapTypes, Confined, SnapAt
  <2>7. ASSUME NEW p \in Paths PROVE (AsShown(p) /\ AsCaptured(p) /\ AsMissed(p))'
    <3>1. AsShown(p) /\ AsCaptured(p) /\ AsMissed(p)
      BY DEF SnapInv, PathsInv
    <3>2. AsShown(p)'
      BY <2>1, <2>5, <3>1 DEF AsShown, IsCopied, SnapAt, AfterCopy
    <3>3. copies.baseline[p] = "none" /\ snap.listed[p] = "none"
      BY <2>1 DEF SnapInv, Confined
    <3>4. Read(p)' = Read(p) /\ (p \in Files)' = (p \in Files)
      BY <2>1 DEF Read, Files
    <3>5. AsCaptured(p)' /\ AsMissed(p)'
      <4>1. CASE p = f
        <5>1. snap'.manifest[p] = Read(p) /\ snap'.manifest[p] # "none"
          BY <1>3, <2>0, <2>3, <2>5, <4>1
        <5> QED
          BY <2>1, <2>5, <3>4, <5>1
          DEF AsCaptured, AsMissed, IsCopied, IsListed, SnapAt, AfterCopy
      <4>2. CASE p # f
        <5>1. snap'.manifest[p] = snap.manifest[p] /\ (IsCaptured(p)' <=> IsCaptured(p))
          BY <2>1, <2>3, <2>5, <4>2 DEF IsCaptured, SnapAt, AfterCopy
        <5>2. ~IsCopied(p)' /\ ~IsListed(p)' /\ ~(snap'.pc \in {"copy", "list"}) /\ ~SnapAt("done")'
          BY <2>1, <2>5 DEF IsCopied, IsListed, SnapAt, AfterCopy
        <5>3. AsCaptured(p)'
          BY <2>1, <2>5, <3>1, <3>4, <5>1, <5>2 DEF AsCaptured
        <5>4. AsMissed(p)'
          BY <2>1, <2>5, <3>1, <3>3, <3>4, <5>1, <5>2 DEF AsMissed
        <5> QED
          BY <5>3, <5>4
      <4> QED
        BY <4>1, <4>2
    <3> QED
      BY <3>2, <3>5
  <2> QED
    BY <2>5, <2>6, <2>7 DEF SnapInv, PathsInv, Validated
<1> QED
  BY <1>2, <1>3

LEMMA CapturedKeeps == ASSUME SnapInv, Captured PROVE SnapInv'
<1>1. /\ snap' \in SnapRecords /\ snap.pc = "capture" /\ snap'.pc = "walk" /\ snap'.shown = snap.shown
      /\ snap'.kind = snap.kind /\ snap.todo = {} /\ snap'.manifest = snap.manifest /\ snap'.listed = snap.listed
      /\ UNCHANGED <<tree, changes, copies>>
  BY DEF Captured, Ended, SnapAt, SnapInv, SnapTypes, SnapRecords, SnapPlaces
<1>2. SnapTypes' /\ Confined'
  BY <1>1 DEF SnapInv, SnapTypes, Confined, SnapAt
<1>3. ASSUME NEW p \in Paths PROVE (AsShown(p) /\ AsCaptured(p) /\ AsMissed(p))'
  <2>1. AsShown(p) /\ AsCaptured(p) /\ AsMissed(p)
    BY DEF SnapInv, PathsInv
  <2>2. Read(p)' = Read(p) /\ (p \in Files)' = (p \in Files) /\ IsCaptured(p)
    BY <1>1 DEF Read, Files, IsCaptured, SnapAt
  <2>3. copies.baseline[p] = "none" /\ snap.listed[p] = "none"
    BY <1>1 DEF SnapInv, Confined
  <2>4. AsShown(p)'
    BY <1>1, <2>1, <2>2 DEF AsShown, IsCopied, SnapAt, AfterCopy
  <2>5. AsCaptured(p)'
    BY <1>1, <2>1, <2>2 DEF AsCaptured, IsCopied, IsListed, SnapAt, AfterCopy
  <2>6. AsMissed(p)'
    BY <1>1, <2>1, <2>2, <2>3 DEF AsMissed, SnapAt
  <2> QED
    BY <2>4, <2>5, <2>6
<1> QED
  BY <1>1, <1>2, <1>3 DEF SnapInv, PathsInv, Validated

------------------------------------------------------------------------------
(* Building the workspace.                                                 *)

LEMMA CopyWalkKeeps == ASSUME SnapInv, CopyWalk PROVE SnapInv'
<1>1. CASE \E p \in Entering : tree[p] = "link"
  BY <1>1, SnapThrowsKeeps DEF CopyWalk
<1>2. CASE \A p \in Entering : tree[p] # "link"
  <2> DEFINE todo == Files \cap Entering
  <2>1. todo \subseteq Paths /\ todo \subseteq Entering
    BY DEF Files
  <2>2. /\ snap' \in SnapRecords /\ snap.pc = "walk" /\ snap'.pc = "copy" /\ snap'.shown = snap.shown
        /\ snap'.kind = snap.kind /\ snap'.todo = todo /\ snap'.manifest = snap.manifest
        /\ snap'.listed = snap.listed /\ UNCHANGED <<tree, changes, copies>>
    BY ZenonT(30), <1>2, <2>1 DEF CopyWalk, SnapAt, SnapInv, SnapTypes, SnapRecords, SnapPlaces
  <2>3. SnapTypes' /\ Confined'
    BY <2>1, <2>2 DEF SnapInv, SnapTypes, Confined, SnapAt
  <2>4. ASSUME NEW p \in Paths PROVE (AsShown(p) /\ AsCaptured(p) /\ AsMissed(p))'
    <3>1. AsShown(p) /\ AsCaptured(p) /\ AsMissed(p)
      BY DEF SnapInv, PathsInv
    <3>2. Read(p)' = Read(p) /\ (p \in Files)' = (p \in Files) /\ IsCaptured(p)
      BY <2>2 DEF Read, Files, IsCaptured, SnapAt
    <3>3. copies.baseline[p] = "none" /\ snap.listed[p] = "none"
      BY <2>2 DEF SnapInv, Confined
    <3>4. p \in Entering /\ p \notin todo => Read(p) = "none"
      BY <1>2 DEF Files, Read
    <3>5. AsShown(p)'
      BY <1>2, <2>2, <3>1, <3>2, <3>3, <3>4 DEF AsShown, IsCopied, SnapAt, AfterCopy
    <3>6. AsCaptured(p)'
      BY <2>2, <3>1, <3>2, <3>4 DEF AsCaptured, IsCopied, IsListed, IsCompared, SnapAt, AfterCopy
    <3>7. AsMissed(p)'
      BY <2>2, <3>1, <3>2, <3>3 DEF AsMissed, SnapAt
    <3> QED
      BY <3>5, <3>6, <3>7
  <2> QED
    BY <2>2, <2>3, <2>4 DEF SnapInv, PathsInv, Validated
<1> QED
  BY <1>1, <1>2

LEMMA CopyFileKeeps == ASSUME SnapInv, CopyFile PROVE SnapInv'
<1> DEFINE f == File
           v == Read(File)
<1>1. f \in snap.todo /\ f \in Paths /\ v \in Readings
  BY FileIsTodo, ReadingsAre DEF CopyFile, Loop, SnapInv, SnapTypes, SnapRecords
<1>2. CASE v = "none"
  BY <1>2, SnapThrowsKeeps DEF CopyFile
<1>3. CASE v # "none"
  <2>1. /\ copies' = [copies EXCEPT !.baseline[f] = v] /\ snap' = [snap EXCEPT !.pc = "list"]
        /\ snap.pc = "copy" /\ UNCHANGED <<tree, changes>>
    BY <1>3 DEF CopyFile, Loop, SnapAt
  <2>0. v = Read(f) /\ f = File
    OBVIOUS
  <2> HIDE DEF f, v
  <2>2. /\ snap' \in SnapRecords /\ snap'.pc = "list" /\ snap'.shown = snap.shown /\ snap'.kind = snap.kind
        /\ snap'.todo = snap.todo /\ snap'.manifest = snap.manifest /\ snap'.listed = snap.listed
    BY <2>1 DEF SnapInv, SnapTypes, SnapRecords, SnapPlaces
  <2>3. /\ copies'.baseline \in [Paths -> Readings] /\ copies'.workspace = copies.workspace
        /\ copies' \in [baseline : [Paths -> Readings], workspace : [Paths -> Readings]]
        /\ copies'.baseline[f] = v /\ \A p \in Paths : p # f => copies'.baseline[p] = copies.baseline[p]
    BY <1>1, <2>1 DEF SnapInv, SnapTypes
  <2>4. File' = f
    BY <2>0, <2>2 DEF File
  <2>5. f \in Entering
    BY <1>1, <2>1 DEF SnapInv, Confined, SnapAt
  <2>6. SnapTypes'
    BY <2>1, <2>2, <2>3 DEF SnapInv, SnapTypes
  <2>7. Confined'
    BY <1>1, <2>1, <2>2, <2>3, <2>5 DEF SnapInv, Confined, SnapAt
  <2>8. ASSUME NEW p \in Paths PROVE (AsShown(p) /\ AsCaptured(p) /\ AsMissed(p))'
    <3>1. AsShown(p) /\ AsCaptured(p) /\ AsMissed(p)
      BY DEF SnapInv, PathsInv
    <3>2. Read(p)' = Read(p) /\ (p \in Files)' = (p \in Files) /\ IsCaptured(p)
      BY <2>1 DEF Read, Files, IsCaptured, SnapAt
    <3>3. (IsCopied(p)' <=> IsCopied(p) \/ p = f) /\ (IsListed(p)' <=> IsListed(p)) /\ ~IsCompared(p)'
      BY <1>1, <2>1, <2>2, <2>4 DEF IsCopied, IsListed, IsCompared, SnapAt, AfterCopy
    <3>4. ~IsListed(f)
      BY <1>1, <2>1 DEF IsListed, SnapAt, AfterCopy
    <3>5. AsShown(p)'
      BY <2>0, <2>1, <2>2, <2>3, <3>1, <3>2, <3>3 DEF AsShown, SnapAt, AfterCopy
    <3>6. AsCaptured(p)'
      BY <2>0, <2>1, <2>2, <2>3, <3>1, <3>2, <3>3, <3>4 DEF AsCaptured
    <3>7. AsMissed(p)'
      <4>1. CASE p = f
        BY <1>1, <2>1, <2>2, <3>1, <3>2, <4>1 DEF AsMissed, SnapAt
      <4>2. CASE p # f
        BY <2>1, <2>2, <2>3, <3>1, <3>2, <4>2 DEF AsMissed, SnapAt
      <4> QED
        BY <4>1, <4>2
    <3> QED
      BY <3>5, <3>6, <3>7
  <2> QED
    BY <2>2, <2>6, <2>7, <2>8 DEF SnapInv, PathsInv, Validated
<1> QED
  BY <1>2, <1>3

LEMMA ListFileKeeps == ASSUME SnapInv, ListFile PROVE SnapInv'
<1> DEFINE f == File
           v == Read(File)
<1>1. f \in snap.todo /\ f \in Paths /\ v \in Readings
  BY FileIsTodo, ReadingsAre DEF ListFile, SnapInv, SnapTypes, SnapRecords, Confined
<1>2. CASE v = "none"
  BY <1>2, SnapThrowsKeeps DEF ListFile
<1>3. CASE v # "none"
  <2>1. /\ snap' = [snap EXCEPT !.pc = "copy", !.todo = @ \ {f}, !.listed[f] = v] /\ snap.pc = "list"
        /\ UNCHANGED <<tree, changes, copies>>
    BY <1>3 DEF ListFile, SnapAt
  <2>0. v = Read(f) /\ f = File
    OBVIOUS
  <2> HIDE DEF f, v
  <2>2. snap \in SnapRecords /\ snap.listed \in [Paths -> Readings]
    BY DEF SnapInv, SnapTypes, SnapRecords
  <2> DEFINE m == [snap.listed EXCEPT ![f] = v]
  <2>3. m \in [Paths -> Readings] /\ m[f] = v /\ \A p \in Paths : p # f => m[p] = snap.listed[p]
    BY <1>1, <2>2
  <2>4. snap' = [snap EXCEPT !.pc = "copy", !.todo = snap.todo \ {f}, !.listed = m]
    BY <2>1, <2>2 DEF SnapRecords
  <2> HIDE DEF m
  <2>5. /\ snap' \in SnapRecords /\ snap'.pc = "copy" /\ snap'.shown = snap.shown /\ snap'.kind = snap.kind
        /\ snap'.todo = snap.todo \ {f} /\ snap'.manifest = snap.manifest /\ snap'.listed = m
    BY <2>2, <2>3, <2>4 DEF SnapRecords, SnapPlaces
  <2>6. f \in Entering
    BY <1>1, <2>1 DEF SnapInv, Confined, SnapAt
  <2>7. SnapTypes' /\ Confined'
    BY <1>1, <2>1, <2>3, <2>5, <2>6 DEF SnapInv, SnapTypes, Confined, SnapAt
  <2>8. ASSUME NEW p \in Paths PROVE (AsShown(p) /\ AsCaptured(p) /\ AsMissed(p))'
    <3>1. AsShown(p) /\ AsCaptured(p) /\ AsMissed(p)
      BY DEF SnapInv, PathsInv
    <3>2. Read(p)' = Read(p) /\ (p \in Files)' = (p \in Files) /\ IsCaptured(p)
      BY <2>1 DEF Read, Files, IsCaptured, SnapAt
    <3>3. (IsCopied(p)' <=> IsCopied(p)) /\ (IsListed(p)' <=> IsListed(p) \/ p = f) /\ ~IsCompared(p)'
      BY <1>1, <2>0, <2>1, <2>5 DEF IsCopied, IsListed, IsCompared, SnapAt, AfterCopy
    <3>4. AsShown(p)'
      BY <2>1, <2>5, <3>1, <3>2, <3>3 DEF AsShown, SnapAt, AfterCopy
    <3>5. AsCaptured(p)'
      BY <2>0, <2>1, <2>3, <2>5, <3>1, <3>2, <3>3 DEF AsCaptured
    <3>6. AsMissed(p)'
      <4>1. CASE p = f
        BY <1>1, <2>1, <2>5, <3>1, <3>2, <4>1 DEF AsMissed, SnapAt
      <4>2. CASE p # f
        BY <2>1, <2>3, <2>5, <3>1, <3>2, <4>2 DEF AsMissed, SnapAt
      <4> QED
        BY <4>1, <4>2
    <3> QED
      BY <3>4, <3>5, <3>6
  <2> QED
    BY <2>5, <2>7, <2>8 DEF SnapInv, PathsInv, Validated
<1> QED
  BY <1>2, <1>3

LEMMA CopiedKeeps == ASSUME SnapInv, Copied PROVE SnapInv'
<1>1. /\ snap' \in SnapRecords /\ snap.pc = "copy" /\ snap'.pc = "validate" /\ snap'.shown = snap.shown
      /\ snap'.kind = snap.kind /\ snap.todo = {} /\ snap'.manifest = snap.manifest /\ snap'.listed = snap.listed
      /\ UNCHANGED <<tree, changes, copies>>
  BY DEF Copied, Ended, SnapAt, SnapInv, SnapTypes, SnapRecords, SnapPlaces
<1>2. SnapTypes' /\ Confined'
  BY <1>1 DEF SnapInv, SnapTypes, Confined, SnapAt
<1>3. ASSUME NEW p \in Paths PROVE (AsShown(p) /\ AsCaptured(p) /\ AsMissed(p))'
  <2>1. AsShown(p) /\ AsCaptured(p) /\ AsMissed(p)
    BY DEF SnapInv, PathsInv
  <2>2. Read(p)' = Read(p) /\ (p \in Files)' = (p \in Files) /\ IsCaptured(p) /\ IsCopied(p) /\ IsListed(p)
    BY <1>1 DEF Read, Files, IsCaptured, IsCopied, IsListed, SnapAt
  <2>3. AsShown(p)'
    BY <1>1, <2>1, <2>2 DEF AsShown, SnapAt, AfterCopy
  <2>4. AsCaptured(p)'
    BY <1>1, <2>1, <2>2 DEF AsCaptured, IsCompared, SnapAt
  <2>5. AsMissed(p)'
    BY <1>1, <2>1, <2>2 DEF AsMissed, SnapAt
  <2> QED
    BY <2>3, <2>4, <2>5
<1> QED
  BY <1>1, <1>2, <1>3 DEF SnapInv, PathsInv, Validated

LEMMA ValidateKeeps == ASSUME SnapInv, Validate PROVE SnapInv'
<1>0. PICK skipped \in SUBSET Canaries :
        IF Violations(skipped) # {} THEN SnapThrows /\ UNCHANGED copies
        ELSE /\ snap' = [snap EXCEPT !.pc = "ready", !.skipped = skipped]
             /\ copies' = IF snap.kind = "run" THEN [copies EXCEPT !.workspace = copies.baseline] ELSE copies
  BY DEF Validate
<1>1. CASE Violations(skipped) # {}
  BY <1>0, <1>1, SnapThrowsKeeps DEF Validate
<1>2. CASE Violations(skipped) = {}
  <2>0. skipped \in SUBSET Paths /\ snap.pc = "validate" /\ UNCHANGED <<tree, changes>>
        /\ snap' = [snap EXCEPT !.pc = "ready", !.skipped = skipped]
    BY <1>0, <1>2 DEF Canaries, Validate, SnapAt
  <2>1. /\ snap' \in SnapRecords /\ snap.pc = "validate" /\ snap'.pc = "ready" /\ snap'.shown = snap.shown
        /\ snap'.kind = snap.kind /\ snap'.manifest = snap.manifest /\ snap'.listed = snap.listed
        /\ snap'.skipped = skipped /\ UNCHANGED <<tree, changes>>
    BY <2>0 DEF SnapInv, SnapTypes, SnapRecords, SnapPlaces
  <2>2. /\ copies' \in [baseline : [Paths -> Readings], workspace : [Paths -> Readings]]
        /\ copies'.baseline = copies.baseline
        /\ snap.kind = "run" => copies'.workspace = copies.baseline
    <3>1. CASE snap.kind = "run"
      BY <1>0, <1>2, <3>1 DEF SnapInv, SnapTypes
    <3>2. CASE snap.kind # "run"
      BY <1>0, <1>2, <3>2 DEF SnapInv, SnapTypes
    <3> QED
      BY <3>1, <3>2
  <2>3. SnapTypes' /\ Confined'
    BY <2>1, <2>2 DEF SnapInv, SnapTypes, Confined, SnapAt
  <2>4. Validated'
    BY <1>2, <2>1, <2>2 DEF Validated, Violations, Copies, Canaries
  <2>5. ASSUME NEW p \in Paths PROVE (AsShown(p) /\ AsCaptured(p) /\ AsMissed(p))'
    <3>1. AsShown(p) /\ AsCaptured(p) /\ AsMissed(p)
      BY DEF SnapInv, PathsInv
    <3>2. /\ Read(p)' = Read(p) /\ (p \in Files)' = (p \in Files)
          /\ IsCaptured(p) /\ IsCopied(p) /\ IsListed(p)
      BY <2>1 DEF Read, Files, IsCaptured, IsCopied, IsListed, SnapAt, AfterCopy
    <3>3. AsShown(p)'
      BY <2>1, <2>2, <3>1, <3>2 DEF AsShown, SnapAt, AfterCopy
    <3>4. AsCaptured(p)'
      BY <2>1, <2>2, <3>1, <3>2 DEF AsCaptured, IsCompared, SnapAt
    <3>5. AsMissed(p)'
      BY <2>1, <2>2, <3>1, <3>2 DEF AsMissed, SnapAt
    <3> QED
      BY <3>3, <3>4, <3>5
  <2> QED
    BY <2>3, <2>4, <2>5 DEF SnapInv, PathsInv
<1> QED
  BY <1>1, <1>2

------------------------------------------------------------------------------
(* Looking at the source again, and the user's changes.                    *)

LEMMA VerifySourceStartsKeeps == ASSUME SnapInv, VerifySourceStarts PROVE SnapInv'
<1>1. Recorded \subseteq Paths
  BY DEF Recorded
<1>2. /\ snap' \in SnapRecords /\ snap.pc = "ready" /\ snap'.pc = "compare" /\ snap'.shown = snap.shown
      /\ snap'.kind = snap.kind /\ snap'.todo = Recorded /\ snap'.manifest = snap.manifest
      /\ snap'.listed = snap.listed /\ snap'.skipped = snap.skipped /\ UNCHANGED <<tree, changes, copies>>
  BY <1>1 DEF VerifySourceStarts, SnapAt, SnapInv, SnapTypes, SnapRecords, SnapPlaces
<1>3. SnapTypes' /\ Confined'
  BY <1>2 DEF SnapInv, SnapTypes, Confined, SnapAt
<1>4. ASSUME NEW p \in Paths PROVE (AsShown(p) /\ AsCaptured(p) /\ AsMissed(p))'
  <2>1. AsShown(p) /\ AsCaptured(p) /\ AsMissed(p)
    BY DEF SnapInv, PathsInv
  <2>2. /\ Read(p)' = Read(p) /\ (p \in Files)' = (p \in Files)
        /\ IsCaptured(p) /\ IsCopied(p) /\ IsListed(p)
    BY <1>2 DEF Read, Files, IsCaptured, IsCopied, IsListed, SnapAt, AfterCopy
  <2>3. AsShown(p)'
    BY <1>2, <2>1, <2>2 DEF AsShown, SnapAt, AfterCopy
  <2>4. snap.kind = "run" /\ snap.manifest[p] # "none" => ~IsCompared(p)'
    BY <1>2 DEF IsCompared, Recorded, Record, SnapAt
  <2>5. AsCaptured(p)'
    BY <1>2, <2>1, <2>2, <2>4 DEF AsCaptured
  <2>6. AsMissed(p)'
    BY <1>2, <2>1, <2>2 DEF AsMissed, SnapAt
  <2> QED
    BY <2>3, <2>5, <2>6
<1> QED
  BY <1>2, <1>3, <1>4 DEF SnapInv, PathsInv, Validated

LEMMA CompareFileKeeps == ASSUME SnapInv, CompareFile PROVE SnapInv'
<1> DEFINE f == File
           d == snap.differs \/ Read(File) # Record[File]
<1>1. f \in snap.todo /\ f \in Paths /\ snap.pc = "compare"
  BY FileIsTodo DEF CompareFile, Loop, SnapInv, SnapTypes, SnapRecords, SnapAt
<1>2. /\ snap' = [snap EXCEPT !.todo = snap.todo \ {f}, !.differs = d] /\ UNCHANGED <<tree, changes, copies>>
  BY DEF CompareFile, SnapInv, SnapTypes, SnapRecords
<1>3. d \in BOOLEAN /\ (~d => ~snap.differs /\ Read(f) = Record[f])
  BY DEF SnapInv, SnapTypes, SnapRecords
<1> HIDE DEF f, d
<1>4. /\ snap' \in SnapRecords /\ snap'.pc = "compare" /\ snap'.shown = snap.shown /\ snap'.kind = snap.kind
      /\ snap'.todo = snap.todo \ {f} /\ snap'.manifest = snap.manifest /\ snap'.listed = snap.listed
      /\ snap'.differs = d
  BY <1>1, <1>2, <1>3 DEF SnapInv, SnapTypes, SnapRecords
<1>5. SnapTypes' /\ Confined'
  BY <1>1, <1>2, <1>4 DEF SnapInv, SnapTypes, Confined, SnapAt
<1>6. ASSUME NEW p \in Paths PROVE (AsShown(p) /\ AsCaptured(p) /\ AsMissed(p))'
  <2>1. AsShown(p) /\ AsCaptured(p) /\ AsMissed(p)
    BY DEF SnapInv, PathsInv
  <2>2. /\ Read(p)' = Read(p) /\ (p \in Files)' = (p \in Files)
        /\ IsCaptured(p) /\ IsCopied(p) /\ IsListed(p)
    BY <1>1, <1>2 DEF Read, Files, IsCaptured, IsCopied, IsListed, SnapAt, AfterCopy
  <2>3. AsShown(p)'
    BY <1>1, <1>2, <1>4, <2>1, <2>2 DEF AsShown, SnapAt, AfterCopy
  <2>4. snap.kind = "run" /\ IsCompared(p)' => IsCompared(p) \/ Read(p) = snap.manifest[p]
    BY <1>1, <1>3, <1>4 DEF IsCompared, Record, SnapAt
  <2>5. AsCaptured(p)'
    BY <1>2, <1>4, <2>1, <2>2, <2>4 DEF AsCaptured
  <2>6. AsMissed(p)'
    BY <1>1, <1>2, <1>4, <2>1, <2>2 DEF AsMissed, SnapAt
  <2> QED
    BY <2>3, <2>5, <2>6
<1> QED
  BY <1>1, <1>2, <1>4, <1>5, <1>6 DEF SnapInv, PathsInv, Validated

LEMMA CompareNewKeeps == ASSUME SnapInv, CompareNew PROVE SnapInv'
<1> DEFINE d == snap.differs \/ (snap.kind = "run" /\ ~(Relevant \subseteq Recorded))
<1>1. /\ snap' = [snap EXCEPT !.pc = "done", !.differs = d] /\ snap.pc = "compare" /\ snap.todo = {}
      /\ UNCHANGED <<tree, changes, copies>>
  BY DEF CompareNew, EndSnapshot, SnapAt
<1>2. d \in BOOLEAN /\ (~d => ~snap.differs /\ (snap.kind = "run" => Relevant \subseteq Recorded))
  BY DEF SnapInv, SnapTypes, SnapRecords
<1> HIDE DEF d
<1>3. /\ snap' \in SnapRecords /\ snap'.pc = "done" /\ snap'.shown = snap.shown /\ snap'.kind = snap.kind
      /\ snap'.manifest = snap.manifest /\ snap'.listed = snap.listed /\ snap'.differs = d
  BY <1>1, <1>2 DEF SnapInv, SnapTypes, SnapRecords, SnapPlaces
<1>4. SnapTypes' /\ Confined'
  BY <1>1, <1>3 DEF SnapInv, SnapTypes, Confined, SnapAt
<1>5. ASSUME NEW p \in Paths PROVE (AsShown(p) /\ AsCaptured(p) /\ AsMissed(p))'
  <2>1. AsShown(p) /\ AsCaptured(p) /\ AsMissed(p)
    BY DEF SnapInv, PathsInv
  <2>2. /\ Read(p)' = Read(p) /\ (p \in Files)' = (p \in Files)
        /\ IsCaptured(p) /\ IsCopied(p) /\ IsListed(p)
    BY <1>1 DEF Read, Files, IsCaptured, IsCopied, IsListed, SnapAt, AfterCopy
  <2>3. AsShown(p)'
    BY <1>1, <1>3, <2>1, <2>2 DEF AsShown, SnapAt, AfterCopy
  <2>4. IsCompared(p)' => IsCompared(p)
    BY <1>1, <1>2, <1>3 DEF IsCompared, SnapAt
  <2>5. AsCaptured(p)'
    BY <1>1, <1>3, <2>1, <2>2, <2>4 DEF AsCaptured
  <2>6. ~d /\ snap.kind = "run" /\ snap.manifest[p] = "none" /\ p \notin Excluded => p \notin Files
    BY <1>2 DEF Recorded, Record, Relevant
  <2>7. AsMissed(p)'
    BY <1>1, <1>3, <2>1, <2>2, <2>6 DEF AsMissed, SnapAt
  <2> QED
    BY <2>3, <2>5, <2>7
<1> QED
  BY <1>1, <1>3, <1>4, <1>5 DEF SnapInv, PathsInv, Validated

\* The first change of a path makes it differ from what it was; the second takes it out of
\* what is promised.
LEMMA ChangeTreeKeeps == ASSUME SnapInv, ChangeTree PROVE SnapInv'
<1>1. PICK q \in Paths, c \in TreeContents :
        tree[q] # c /\ tree' = [tree EXCEPT ![q] = c] /\ changes' = [changes EXCEPT ![q] = changes[q] + 1]
  BY DEF ChangeTree, TreeContents
<1>2. UNCHANGED <<snap, copies>> /\ snap.pc # "threw" /\ snap.pc # "done"
  BY DEF ChangeTree, SnapAt
<1>3. changes[q] \in Nat
  BY DEF SnapInv, SnapTypes
<1> DEFINE more == changes[q] + 1
<1>4. more \in Nat /\ more # 0 /\ (more <= 1 => changes[q] = 0)
  BY <1>3
<1>5. changes' = [changes EXCEPT ![q] = more]
  BY <1>1
<1> HIDE DEF more
<1>6. SnapTypes'
  BY <1>1, <1>2, <1>4, <1>5 DEF SnapInv, SnapTypes
<1>7. Confined' /\ Validated'
  BY <1>2 DEF SnapInv, Confined, Validated, SnapAt
<1>8. ASSUME NEW p \in Paths PROVE (AsShown(p) /\ AsCaptured(p) /\ AsMissed(p))'
  <2>1. AsShown(p) /\ AsCaptured(p) /\ AsMissed(p)
    BY DEF SnapInv, PathsInv
  <2>2. /\ IsCaptured(p)' <=> IsCaptured(p)
        /\ IsCopied(p)' <=> IsCopied(p)
        /\ IsListed(p)' <=> IsListed(p)
        /\ IsCompared(p)' <=> IsCompared(p)
    BY <1>2 DEF IsCaptured, IsCopied, IsListed, IsCompared, SnapAt, File
  <2>3. CASE p # q
    <3>1. tree'[p] = tree[p] /\ changes'[p] = changes[p]
      BY <1>1, <2>3 DEF SnapInv, SnapTypes
    <3>2. Read(p)' = Read(p) /\ (p \in Files)' = (p \in Files)
      BY <3>1 DEF Read, Files
    <3> QED
      BY <1>2, <2>1, <2>2, <3>1, <3>2 DEF AsShown, AsCaptured, AsMissed, SnapAt
  <2>4. CASE p = q
    <3>1. tree'[p] = c /\ tree[p] # c /\ changes'[p] = more
      BY <1>1, <1>5, <2>4 DEF SnapInv, SnapTypes
    <3>2. Read(p)' # Read(p)
      BY <3>1 DEF Read, SnapInv, SnapTypes, TreeContents
    <3>3. AsShown(p)'
      BY <1>4, <3>1 DEF AsShown
    <3>4. AsCaptured(p)'
      BY <1>2, <1>4, <2>1, <2>2, <2>4, <3>1, <3>2 DEF AsCaptured
    <3>5. AsMissed(p)'
      BY <1>2, <1>4, <2>1, <2>2, <2>4, <3>1 DEF AsMissed, SnapAt
    <3> QED
      BY <3>3, <3>4, <3>5
  <2> QED
    BY <2>3, <2>4
<1> QED
  BY <1>6, <1>7, <1>8 DEF SnapInv, PathsInv

------------------------------------------------------------------------------

LEMMA SnapKeeps == SnapInv /\ [SnapshotNext]_snapshotVars => SnapInv'
<1> SUFFICES ASSUME SnapInv, [SnapshotNext]_snapshotVars PROVE SnapInv'
  OBVIOUS
<1>1. CASE Command
  BY <1>1, PreviewKeeps, CaptureWalkKeeps, CaptureFileKeeps, CapturedKeeps, CopyWalkKeeps, CopyFileKeeps,
     ListFileKeeps, CopiedKeeps, ValidateKeeps, VerifySourceStartsKeeps, CompareFileKeeps, CompareNewKeeps
  DEF Command
<1>2. CASE ChangeTree
  BY <1>2, ChangeTreeKeeps
<1>3. CASE UNCHANGED snapshotVars
  BY <1>3 DEF snapshotVars, SnapInv, SnapTypes, Confined, PathsInv, AsShown, AsCaptured, AsMissed, Validated,
     IsCaptured, IsCopied, IsListed, IsCompared, SnapAt, File, Read, Files
<1> QED
  BY <1>1, <1>2, <1>3 DEF SnapshotNext

LEMMA SnapMeans == SnapInv => UnmodifiedMeansCopied
<1> SUFFICES ASSUME SnapInv PROVE UnmodifiedMeansCopied
  OBVIOUS
<1>1. ASSUME SnapAt("done"), snap.kind = "run", ~snap.differs, NEW p \in Paths, changes[p] <= 1
      PROVE  /\ copies.baseline[p] = IF p \in Entering THEN snap.manifest[p] ELSE "none"
             /\ snap.listed[p] = copies.baseline[p]
  <2>1. IsCaptured(p) /\ IsCopied(p) /\ IsListed(p) /\ IsCompared(p)
    BY <1>1 DEF IsCaptured, IsCopied, IsListed, IsCompared, SnapAt, AfterCopy
  <2>2. AsCaptured(p) /\ AsMissed(p)
    BY DEF SnapInv, PathsInv
  <2>3. CASE p \notin Entering
    BY <2>3 DEF SnapInv, Confined
  <2>4. CASE p \in Entering /\ snap.manifest[p] # "none"
    BY <1>1, <2>1, <2>2, <2>4 DEF AsCaptured
  <2>5. CASE p \in Entering /\ snap.manifest[p] = "none"
    BY <1>1, <2>1, <2>2, <2>5 DEF AsMissed, Entering
  <2> QED
    BY <2>3, <2>4, <2>5
<1>2. ASSUME snap.pc \in {"ready", "compare", "done"}
      PROVE  /\ \A p \in Paths : copies.baseline[p] # "none" =>
                  /\ p \in Included \ (Excluded \cup DenyIfPresent)
                  /\ copies.baseline[p] = "canary" => p \in snap.skipped
             /\ snap.kind = "run" => copies.workspace = copies.baseline
             /\ (\A p \in Paths : changes[p] = 0) => Copies = snap.shown
  <2>1. Validated
    BY DEF SnapInv
  <2>2. \A p \in Paths : copies.baseline[p] # "none" => p \in Entering
    BY DEF SnapInv, Confined
  <2>3. /\ \A p \in Paths : copies.baseline[p] # "none" =>
             /\ p \in Included \ (Excluded \cup DenyIfPresent)
             /\ copies.baseline[p] = "canary" => p \in snap.skipped
        /\ snap.kind = "run" => copies.workspace = copies.baseline
    BY <1>2, <2>1, <2>2 DEF Validated, Entering
  <2>4. ASSUME \A p \in Paths : changes[p] = 0
        PROVE  Copies = snap.shown
    <3>1. ASSUME NEW p \in Paths PROVE copies.baseline[p] # "none" <=> p \in snap.shown
      <4>1. AsShown(p)
        BY DEF SnapInv, PathsInv
      <4>2. p \in snap.shown <=> p \in Entering /\ tree[p] # "none"
        BY <1>2, <2>4, <4>1 DEF AsShown, SnapAt
      <4>3. p \in Entering => copies.baseline[p] = Read(p)
        BY <1>2, <2>4, <4>1 DEF AsShown, IsCopied, AfterCopy
      <4> QED
        BY <2>2, <4>2, <4>3, ReadingsAre DEF SnapInv
    <3>2. snap.shown \subseteq Paths
      BY DEF SnapInv, SnapTypes, SnapRecords
    <3> QED
      BY <3>1, <3>2 DEF Copies
  <2>5. (\A p \in Paths : changes[p] = 0) => Copies = snap.shown
    BY <2>4, Zenon
  <2> QED
    BY <2>3, <2>5
<1> QED
  BY <1>1, <1>2 DEF UnmodifiedMeansCopied

\* When a run finds its source unmodified, every path that changed at most once since the
\* command began was copied, and hashed, as the manifest has it; nothing excluded or
\* denied passes validation, and a canary only in a file that the scan could not read;
\* and of a tree that was left alone exactly the
\* files are copied that the preview showed.  For every contract, any set of paths and any
\* interleaving of the user's changes with the walks and the reads.
THEOREM UnmodifiedIsCopied == SnapshotSpec => []UnmodifiedMeansCopied
<1>1. SnapshotInit => SnapInv
  BY SnapStarts
<1>2. SnapInv /\ [SnapshotNext]_snapshotVars => SnapInv'
  BY SnapKeeps
<1>3. SnapInv => UnmodifiedMeansCopied
  BY SnapMeans
<1> QED
  BY <1>1, <1>2, <1>3, PTL DEF SnapshotSpec

================================================================================
