----------------------------- MODULE SkillIngestion -----------------------------
(***************************************************************************)
(* powerplant skill import (src/src/skills/skill-ingestion.ts,             *)
(* candidate-store.ts): Gate 0 walks the package and copies it into a      *)
(* candidate directory, Gate 1 validates the copy.  The user goes on       *)
(* editing the package meanwhile, and the process may die or meet an error *)
(* of the file system at any await.                                        *)
(*                                                                         *)
(* A file is copied chunk by chunk.  A chunk is the version of the file it *)
(* was read from, so that a copy is the sequence of its chunks' versions;  *)
(* versions stand for mtime and ctime, which every change moves on.        *)
(*                                                                         *)
(* A definition Name_Variant is a mutant of Name: no action uses it.       *)
(***************************************************************************)
EXTENDS Naturals, Sequences, FiniteSets, SequencesExt, TLC

CONSTANTS
  Cand,          \* candidate ids, randomUUID()
  Names,         \* skill names
  NameOf,        \* the name that each candidate's manifest or frontmatter gives
  Malformed,     \* versions of a file that Gate 1 refuses
  MaxFileSize, MaxTotalSize, MaxFileCount,   \* Gate 0 limits, in chunks and files
  Budgets,       \* what may happen in a behaviour: [edits, imports, commands, ready]
  None

SkillMd  == "SKILL.md"
Manifest == "manifest.json"
Meta     == ".powerplant-meta.json"
Package  == {SkillMd, Manifest, Meta}   \* Meta is reserved: a package must not have it

Kinds == {"file", "hardlink", "symlink", "special", "deep", "none"}

ASSUME IngestionAssumption ==
  /\ NameOf \in [Cand -> Names]
  /\ Malformed \subseteq Nat
  /\ {MaxFileSize, MaxTotalSize, MaxFileCount} \subseteq Nat \ {0}
  /\ \A b \in Budgets : /\ {b.edits, b.imports, b.commands} \subseteq Nat
                        /\ b.ready \subseteq Cand /\ IsFiniteSet(b.ready)
                        /\ b.ready # {} => MaxTotalSize >= 2 /\ MaxFileCount >= 2
  /\ None \notin Cand \cup Names

VARIABLES
  source,    \* the package directory: kind, inode, version and size of each entry
  clock,     \* the last version given
  imp,       \* the import in progress
  cands,     \* the candidate directories
  audit,     \* skill-audit.jsonl
  budget,    \* what may still happen
  faulted    \* history: a process died, or a cleanup or a move failed

ingestionVars == <<source, clock, imp, cands, audit, budget, faulted>>

\* size is the walk's totalSizeBytes, bytes the copy's packageBytesCopied.
Idle == [pc |-> "idle", cand |-> None, todo |-> {}, entries |-> <<>>, size |-> 0, copied |-> 0, bytes |-> 0]

NoDirectory == [at |-> "none", files |-> [f \in Package |-> None], sha |-> None, torn |-> FALSE]

\* A directory that was removed: randomUUID() does not give its id again.
Removed == [NoDirectory EXCEPT !.at = "removed"]

\* A candidate that was imported before the behaviour begins: both files whole.
Ready == [at |-> "candidates", files |-> [f \in Package |-> IF f = Meta THEN <<0>> ELSE <<1>>],
          sha |-> None, torn |-> FALSE]

Entry(kind, v, size) == [kind |-> kind, inode |-> v, version |-> v, size |-> size]

IngestionInit ==
  /\ \E s \in 1..MaxFileSize, m \in {"file", "none"} :
       source = [f \in Package |-> CASE f = SkillMd -> Entry("file", 1, s)
                                 [] f = Manifest -> Entry(m, 1, 1)
                                 [] OTHER -> Entry("none", 1, 0)]
  /\ clock = 1
  /\ imp = Idle
  /\ \E b \in Budgets :
       /\ budget = b
       /\ cands = [c \in Cand |-> IF c \in b.ready THEN Ready ELSE NoDirectory]
       /\ audit = SetToSeq({[event |-> "imported", name |-> NameOf[c], cand |-> c] : c \in b.ready})
  /\ faulted = FALSE

Spend(what) == /\ budget[what] > 0
               /\ budget' = [budget EXCEPT ![what] = @ - 1]

\* appendAuditEvent.
Audit(e) == audit' = Append(audit, e)

------------------------------------------------------------------------------
(* The user.                                                               *)

\* Writes a file in place: same inode, any size, also beyond the limits.
EditFile(f) ==
  /\ Spend("edits")
  /\ source[f].kind = "file"
  /\ \E s \in 0..MaxFileSize + 1 :
       source' = [source EXCEPT ![f].version = clock + 1, ![f].size = s]
  /\ clock' = clock + 1
  /\ UNCHANGED <<imp, cands, audit, faulted>>

\* Puts another entry in the place of f, or removes it.
ReplaceFile(f) ==
  /\ Spend("edits")
  /\ \E k \in Kinds :
       source' = [source EXCEPT ![f] = Entry(k, clock + 1, 1)]
  /\ clock' = clock + 1
  /\ UNCHANGED <<imp, cands, audit, faulted>>

------------------------------------------------------------------------------
(* The import.                                                             *)

Imports(e) == [event |-> e, name |-> None, cand |-> None]

\* A source path that is missing, a symlink or not a directory.
RefuseRoot ==
  /\ imp.pc = "idle" /\ Spend("imports")
  /\ Audit(Imports("import-rejected"))
  /\ UNCHANGED <<source, clock, imp, cands, faulted>>

ReadDirectory ==
  /\ imp.pc = "idle" /\ Spend("imports")
  /\ imp' = [Idle EXCEPT !.pc = "walk", !.todo = {f \in Package : source[f].kind # "none"}]
  /\ UNCHANGED <<source, clock, cands, audit, faulted>>

\* walkSourceDirectory on one entry that readdir named.
WalkAccepts(f) ==
  LET s == source[f] IN
  /\ f # Meta
  /\ s.kind = "file"
  /\ s.size <= MaxFileSize
  /\ Len(imp.entries) < MaxFileCount
  /\ imp.size + s.size <= MaxTotalSize

\* files.push: what the walk saw, for the checks when the file is opened.
Walked(f) ==
  LET s == source[f] IN
  [file |-> f, kind |-> s.kind, inode |-> s.inode, version |-> s.version, size |-> s.size]

Walk(f) ==
  /\ imp.pc = "walk" /\ f \in imp.todo
  /\ IF WalkAccepts(f)
     THEN /\ imp' = [imp EXCEPT !.todo = @ \ {f}, !.entries = Append(@, Walked(f)),
                                !.size = @ + source[f].size]
          /\ UNCHANGED audit
     ELSE /\ imp' = Idle
          /\ Audit(Imports("import-rejected"))
  /\ UNCHANGED <<source, clock, cands, budget, faulted>>

CreateSnapshot(c) ==
  /\ imp.pc = "walk" /\ imp.todo = {}
  /\ cands[c] = NoDirectory
  /\ imp' = [imp EXCEPT !.pc = "open", !.cand = c]
  /\ cands' = [cands EXCEPT ![c].at = "candidates"]
  /\ UNCHANGED <<source, clock, audit, budget, faulted>>

Current == imp.entries[imp.copied + 1]
CurrentSource == source[Current.file]
Copied == cands[imp.cand].files[Current.file]

\* A copy that failed: the snapshot is removed, best effort, and the import rejected.
RejectCopy ==
  /\ imp' = Idle
  /\ \E removed \in BOOLEAN :
       /\ cands' = [cands EXCEPT ![imp.cand] = IF removed THEN Removed ELSE @]
       /\ faulted' = (faulted \/ ~removed)
  /\ Audit(Imports("import-rejected"))

\* open with O_NOFOLLOW, fstat against what the walk saw, and the empty destination.
OpenSource ==
  /\ imp.pc = "open" /\ imp.copied < Len(imp.entries)
  /\ IF /\ CurrentSource.kind = "file"
        /\ CurrentSource.inode = Current.inode
        /\ CurrentSource.version = Current.version
     THEN /\ imp' = [imp EXCEPT !.pc = "read"]
          /\ cands' = [cands EXCEPT ![imp.cand].files[Current.file] = <<>>]
          /\ UNCHANGED <<audit, faulted>>
     ELSE RejectCopy
  /\ UNCHANGED <<source, clock, budget>>

\* The open handle reads the inode it was opened on, also when the path has another now.
Handle == IF CurrentSource.inode = Current.inode THEN CurrentSource ELSE Current

\* One read of the copy loop: a chunk within every limit, the end of the file, or an error.
ReadChunk ==
  /\ imp.pc = "read"
  /\ LET n == Len(Copied) IN
     \/ /\ n < Handle.size
        /\ n + 1 <= Current.size
        /\ n + 1 <= MaxFileSize
        /\ imp.bytes + n + 1 <= MaxTotalSize
        /\ cands' = [cands EXCEPT ![imp.cand].files[Current.file] = Append(@, Handle.version)]
        /\ UNCHANGED <<imp, audit, faulted>>
     \/ /\ n >= Handle.size /\ n = Current.size
        /\ imp' = [imp EXCEPT !.pc = "fstat"]
        /\ UNCHANGED <<cands, audit, faulted>>
     \/ /\ \/ n >= Handle.size /\ n # Current.size
           \/ n < Handle.size /\ n + 1 > Current.size
        /\ RejectCopy
  /\ UNCHANGED <<source, clock, budget>>

\* The post-copy fstat: mtime and ctime move on with every write, replacement or removal.
FinishFile_NoFstat ==
  /\ imp.pc = "fstat"
  /\ imp' = [imp EXCEPT !.pc = "open", !.copied = @ + 1, !.bytes = @ + Current.size]
  /\ UNCHANGED <<source, clock, cands, audit, budget, faulted>>

FinishFile ==
  /\ imp.pc = "fstat"
  /\ IF CurrentSource.version = Current.version
     THEN /\ imp' = [imp EXCEPT !.pc = "open", !.copied = @ + 1, !.bytes = @ + Current.size]
          /\ UNCHANGED <<cands, audit, faulted>>
     ELSE RejectCopy
  /\ UNCHANGED <<source, clock, budget>>

\* validateCandidateSchema, on the snapshot alone.  A package without manifest.json
\* gets a skeleton from the frontmatter of SKILL.md.
Gate1Accepts(files) ==
  /\ files[SkillMd] \notin {None, <<>>}
  /\ LET identity == IF files[Manifest] = None THEN files[SkillMd] ELSE files[Manifest] IN
     identity # <<>> /\ Head(identity) \notin Malformed

Gate1 ==
  /\ imp.pc = "open" /\ imp.copied = Len(imp.entries)
  /\ IF Gate1Accepts(cands[imp.cand].files)
     THEN /\ imp' = [imp EXCEPT !.pc = "accepted"]
          /\ UNCHANGED <<cands, audit, faulted>>
     ELSE /\ imp' = Idle
          /\ \E moved \in BOOLEAN :
               /\ cands' = [cands EXCEPT ![imp.cand].at = IF moved THEN "quarantine" ELSE @]
               /\ faulted' = (faulted \/ ~moved)
          /\ Audit([Imports("import-rejected") EXCEPT !.cand = imp.cand])
  /\ UNCHANGED <<source, clock, budget>>

\* .powerplant-meta.json, and then the event.
WriteMeta ==
  /\ imp.pc = "accepted"
  /\ imp' = [imp EXCEPT !.pc = "written"]
  /\ cands' = [cands EXCEPT ![imp.cand].files[Meta] = <<0>>]
  /\ UNCHANGED <<source, clock, audit, budget, faulted>>

AuditImport ==
  /\ imp.pc = "written"
  /\ imp' = Idle
  /\ Audit([event |-> "imported", name |-> NameOf[imp.cand], cand |-> imp.cand])
  /\ UNCHANGED <<source, clock, cands, budget, faulted>>

\* The process dies, or an error that nobody catches ends the import: the directory stays.
ImportDies ==
  /\ imp.pc # "idle"
  /\ imp' = Idle
  /\ faulted' = TRUE
  /\ UNCHANGED <<source, clock, cands, audit, budget>>

ImportStep ==
  \/ \E f \in Package : EditFile(f) \/ ReplaceFile(f) \/ Walk(f)
  \/ RefuseRoot \/ ReadDirectory
  \/ \E c \in Cand : CreateSnapshot(c)
  \/ OpenSource \/ ReadChunk \/ FinishFile
  \/ Gate1 \/ WriteMeta \/ AuditImport
  \/ ImportDies

------------------------------------------------------------------------------
(* What an import promises.                                                *)

Imported(c) == \E i \in DOMAIN audit : audit[i].event = "imported" /\ audit[i].cand = c

\* An imported candidate holds each of its files as it was at one moment, never the
\* beginning of one version and the end of another, and stays within the limits of
\* Gate 0, whatever the user did to the package during the walk and the copy
\* (copyFileSecure: fstat before and after, budgets per chunk).
WholeFilesWithinLimits ==
  \A c \in Cand : Imported(c) =>
    LET files == cands[c].files
        held  == {f \in {SkillMd, Manifest} : files[f] # None}
        Size(f) == IF files[f] = None THEN 0 ELSE Len(files[f])
    IN  /\ \A f \in held : \A i, j \in DOMAIN files[f] : files[f][i] = files[f][j]
        /\ \A f \in held : Size(f) <= MaxFileSize
        /\ Size(SkillMd) + Size(Manifest) <= MaxTotalSize
        /\ Cardinality(held) <= MaxFileCount

================================================================================
