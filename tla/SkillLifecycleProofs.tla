-------------------------- MODULE SkillLifecycleProofs --------------------------
(***************************************************************************)
(* Proofs about SkillLifecycle and the SkillIngestion in it: guidance that *)
(* is rendered was validated and promoted, the audit log tells the         *)
(* registry, version numbers are distinct, and imported files are whole,   *)
(* for any number of processes, candidates and skills, and whatever is     *)
(* imported or edited meanwhile.                                           *)
(*                                                                         *)
(* An envelope's hash comes from the registry, the registry's from a       *)
(* promote that may not have reached the audit log yet, and a promote's    *)
(* from a validate.  Evidence follows a hash along that way: whoever holds *)
(* one can show its events in the log, or the process that is about to     *)
(* write them.  A command that is alone is one event ahead of the log      *)
(* (LogInv); the walk of an import bounds what its copy holds (FileInv).   *)
(***************************************************************************)
EXTENDS SkillLifecycle, SequenceTheorems, FiniteSetTheorems, WellFoundedInduction, TLAPS

------------------------------------------------------------------------------
(* Types.                                                                  *)

Directories == [at : {"none", "candidates", "quarantine", "removed"}, files : [Package -> Contents],
                sha : {None} \cup Hashes, torn : BOOLEAN]
SourceEntries == [kind : Kinds, inode : Nat, version : Nat, size : Nat]
WalkedEntries == [file : Package, kind : Kinds, inode : Nat, version : Nat, size : Nat]

Filling == {"open", "read", "fstat", "accepted", "written"}
ImportRecords == [pc : {"idle", "walk"} \cup Filling, cand : {None} \cup Cand, todo : SUBSET Package,
                  entries : Seq(WalkedEntries), size : Nat, copied : Nat, bytes : Nat]

Skills == [Names -> {None} \cup SkillRecords]

ImportEvents == [event : {"imported", "import-rejected"}, name : {None} \cup Names, cand : {None} \cup Cand]
EvaluationEvents == [event : {"evaluated"}, name : Names, cand : Cand, hash : Hashes]
PromotionEvents == [event : {"promoted"}, name : Names, cand : Cand, hash : Hashes, to : Nat]
DisabledEvents == [event : {"disabled"}, name : Names, cand : Cand]
RollbackEvents == [event : {"rolled-back"}, name : Names, cand : {None}, to : Nat]
CommandEvents == EvaluationEvents \cup PromotionEvents \cup DisabledEvents \cup RollbackEvents
Events == ImportEvents \cup CommandEvents

CommandRecords ==
  [pc : {"idle", "hashed", "save", "audit", "render"}, name : {None} \cup Names, cand : {None} \cup Cand,
   skills : {None} \cup Skills, event : {None} \cup CommandEvents, hash : {None} \cup Hashes,
   manifest : Contents, raced : BOOLEAN]

ImportTypes ==
  /\ source \in [Package -> SourceEntries]
  /\ clock \in Nat
  /\ imp \in ImportRecords
  /\ cands \in [Cand -> Directories]
  /\ audit \in Seq(Events)
  /\ faulted \in BOOLEAN

\* What an import holds at its places.
ImportHolds ==
  /\ imp.pc \in Filling <=> imp.cand \in Cand
  /\ imp.copied <= Len(imp.entries)
  /\ imp.pc \in {"read", "fstat"} => imp.copied < Len(imp.entries)
  /\ imp.pc = "read" => Copied \in Seq(Nat)

\* What a command holds at its places.
Holds(c) ==
  /\ c \in CommandRecords
  /\ c.pc \in {"hashed", "render"} => c.cand \in Cand /\ c.hash \in Hashes
  /\ c.pc = "hashed" =>
       /\ c.manifest \in Seq(Nat)
       /\ c.event \in EvaluationEvents /\ c.event.cand = c.cand /\ c.event.hash = c.hash
  /\ c.pc = "save" => c.skills \in Skills
  /\ c.pc \in {"save", "audit"} => c.event \in CommandEvents

LTypes ==
  /\ ImportTypes
  /\ ImportHolds
  /\ registry \in [parses : BOOLEAN, skills : Skills]
  /\ \A p \in Procs : Holds(cmd[p])
  /\ cmd \in [Procs -> CommandRecords]
  /\ envelopes \subseteq [cand : Cand, hash : Hashes, raced : BOOLEAN, text : Contents]
  /\ alone \in BOOLEAN

------------------------------------------------------------------------------
(* Evidence.                                                               *)

Evaluated(c, h) ==
  \E i \in DOMAIN audit : audit[i].event = "evaluated" /\ audit[i].hash = h /\ audit[i].cand = c

\* Evaluated, and promoted after it.
Validated(c, h) ==
  \E i, j \in DOMAIN audit :
    /\ i < j
    /\ audit[i].event = "evaluated" /\ audit[i].hash = h /\ audit[i].cand = c
    /\ audit[j].event = "promoted" /\ audit[j].hash = h /\ audit[j].cand = c

\* The process is about to write that.
Evaluating(p, c, h) ==
  /\ cmd[p].pc = "audit"
  /\ cmd[p].event.event = "evaluated" /\ cmd[p].event.hash = h /\ cmd[p].event.cand = c
Promoting(p, c, h) ==
  /\ cmd[p].pc \in {"save", "audit"}
  /\ cmd[p].event.event = "promoted" /\ cmd[p].event.hash = h /\ cmd[p].event.cand = c
  /\ Evaluated(c, h)

Vouched(c, h) == Validated(c, h) \/ \E p \in Procs : Promoting(p, c, h)

\* The versions of a skill: the active one and the archived ones.
Versions(r) == {Archived(r)} \cup {r.previous[i] : i \in DOMAIN r.previous}

VouchedFor(skills) ==
  \A n \in Names : skills[n] # None => \A e \in Versions(skills[n]) : Vouched(e.cand, e.hash)

CandidatesShow ==
  \A c \in Cand : cands[c].sha # None =>
    Evaluated(c, cands[c].sha) \/ \E p \in Procs : Evaluating(p, c, cands[c].sha)
CommandsShow ==
  \A p \in Procs :
    /\ cmd[p].pc = "save" => VouchedFor(cmd[p].skills)
    /\ cmd[p].pc = "render" => Validated(cmd[p].cand, cmd[p].hash)
EnvelopesShow == \A e \in envelopes : Validated(e.cand, e.hash)

Evidence == alone => CandidatesShow /\ VouchedFor(registry.skills) /\ CommandsShow /\ EnvelopesShow

\* Between the comparison and the reading, an unraced SKILL.md is the one that was compared.
StillCompared ==
  \A p \in Procs : cmd[p].pc = "render" /\ ~cmd[p].raced =>
    LET c == cmd[p].cand IN
    /\ imp.cand # c /\ cands[c].at # "none"
    /\ cands[c].files[SkillMd] = cmd[p].hash[SkillMd]
UnracedIsCompared == \A e \in envelopes : ~e.raced => e.text = e.hash[SkillMd]

LInv == LTypes /\ Evidence /\ StillCompared /\ UnracedIsCompared

------------------------------------------------------------------------------
(* The operators of the model.                                             *)

LEMMA SequenceOfASet ==
  ASSUME NEW S, IsFiniteSet(S)
  PROVE  SetToSeq(S) \in Seq(S)
<1>1. Cardinality(S) \in Nat /\ Bijection(1..Cardinality(S), S) # {}
  BY FS_CardinalityType DEF ExistsBijection
<1>2. \E f \in [1..Cardinality(S) -> S] : IsInjective(f)
  BY <1>1 DEF Bijection, Injection
<1> QED
  BY <1>1, <1>2 DEF SetToSeq

LEMMA FirstWithInRange ==
  ASSUME NEW r \in SkillRecords, NEW v, FirstWith(r, v) # 0
  PROVE  FirstWith(r, v) \in DOMAIN r.previous /\ r.previous[FirstWith(r, v)].version = v
<1> DEFINE I == {i \in 1..Len(r.previous) : r.previous[i].version = v}
<1>1. FirstWith(r, v) = IF I # {} THEN Min(I) ELSE 0
  BY DEF FirstWith, SelectInSeq
<1>2. I # {} /\ FirstWith(r, v) = Min(I)
  BY <1>1
<1>3. PICK m \in I : \A j \in I : ~ <<j, m>> \in OpToRel(<, Nat)
  <2>1. I \subseteq Nat
    BY DEF SkillRecords
  <2> HIDE DEF I
  <2> QED
    BY <1>2, <2>1, NatLessThanWellFounded, WFMin
<1>4. \A j \in I : m <= j
  <2>1. I \subseteq Nat
    BY DEF SkillRecords
  <2> HIDE DEF I
  <2>2. ASSUME NEW j \in I PROVE m <= j
    <3>1. ~(j < m)
      BY <1>3, <2>1 DEF OpToRel
    <3> QED
      BY <2>1, <3>1
  <2> QED
    BY <2>2
<1>5. Min(I) \in I
  BY <1>4 DEF Min
<1> QED
  BY <1>2, <1>5 DEF SkillRecords

\* promoteSkill archives what it replaces.
LEMMA PromotedKeeps ==
  ASSUME NEW skills \in Skills, NEW n \in Names, NEW c \in Cand, NEW h \in Hashes
  PROVE  /\ Promoted(skills, n, c, h) \in Skills
         /\ Promoted(skills, n, c, h)[n] \in SkillRecords /\ Promoted(skills, n, c, h)[n].version \in Nat
         /\ \A m \in Names : Promoted(skills, n, c, h)[m] # None =>
              \A e \in Versions(Promoted(skills, n, c, h)[m]) :
                \/ e.cand = c /\ e.hash = h
                \/ skills[m] # None /\ e \in Versions(skills[m])
<1> DEFINE r == skills[n]
           new == IF r = None
                  THEN Active([version |-> 1, cand |-> c, hash |-> h], <<>>)
                  ELSE Active([version |-> r.version + 1, cand |-> c, hash |-> h],
                              Append(r.previous, Archived(r)))
<1>1. Promoted(skills, n, c, h) = [skills EXCEPT ![n] = new]
  BY DEF Promoted
<1>2. new \in SkillRecords /\ new.cand = c /\ new.hash = h
  <2>1. CASE r = None
    BY <2>1 DEF Active, SkillRecords
  <2>2. CASE r # None
    <3>1. r \in SkillRecords
      BY <2>2 DEF Skills
    <3>2. Archived(r) \in VersionRecords
      BY <3>1 DEF SkillRecords, VersionRecords, Archived
    <3>3. Append(r.previous, Archived(r)) \in Seq(VersionRecords)
      BY <3>1, <3>2 DEF SkillRecords
    <3>4. r.version + 1 \in Nat
      BY <3>1 DEF SkillRecords
    <3> DEFINE v == r.version + 1
               previous == Append(r.previous, Archived(r))
    <3>5. new = Active([version |-> v, cand |-> c, hash |-> h], previous)
      BY <2>2
    <3>6. v \in Nat /\ previous \in Seq(VersionRecords)
      BY <3>3, <3>4
    <3> HIDE DEF new, v, previous
    <3> QED
      BY <3>5, <3>6 DEF Active, SkillRecords
  <2> QED
    BY <2>1, <2>2
<1>3. \A e \in Versions(new) : \/ e.cand = c /\ e.hash = h
                               \/ r # None /\ e \in Versions(r)
  <2>1. Archived(new).cand = c /\ Archived(new).hash = h
    BY <1>2 DEF Archived
  <2>2. CASE r = None
    <3>1. DOMAIN new.previous = {}
      BY <2>2 DEF Active
    <3> QED
      BY <2>1, <3>1 DEF Versions
  <2>3. CASE r # None
    <3>1. r \in SkillRecords
      BY <2>3 DEF Skills
    <3>2. new.previous = Append(r.previous, Archived(r))
      BY <2>3 DEF Active
    <3>3. r.previous \in Seq(VersionRecords) /\ Archived(r) \in VersionRecords
      BY <3>1 DEF SkillRecords, VersionRecords, Archived
    <3> DEFINE q == r.previous
               a == Archived(r)
    <3>4. q \in Seq(VersionRecords) /\ a \in Versions(r) /\ \A i \in 1..Len(q) : q[i] \in Versions(r)
      BY <3>3 DEF Versions
    <3> HIDE DEF q, a
    <3>5. \A i \in DOMAIN Append(q, a) : Append(q, a)[i] \in Versions(r)
      BY <3>4
    <3>6. ASSUME NEW i \in DOMAIN new.previous PROVE new.previous[i] \in Versions(r)
      BY <3>2, <3>5 DEF q, a
    <3> QED
      BY <2>1, <2>3, <3>6 DEF Versions
  <2> QED
    BY <2>2, <2>3
<1> HIDE DEF new
<1>4. Promoted(skills, n, c, h) \in Skills /\ Promoted(skills, n, c, h)[n] = new
  BY <1>1, <1>2 DEF Skills
<1>5. \A m \in Names : m # n => Promoted(skills, n, c, h)[m] = skills[m]
  BY <1>1 DEF Skills
<1>6. new.version \in Nat
  BY <1>2 DEF SkillRecords
<1> QED
  BY <1>2, <1>3, <1>4, <1>5, <1>6

LEMMA DisabledKeeps ==
  ASSUME NEW skills \in Skills, NEW n \in Names, skills[n] # None
  PROVE  /\ Disabled(skills, n) \in Skills /\ Disabled(skills, n)[n] \in SkillRecords
         /\ \A m \in Names : Disabled(skills, n)[m] # None =>
              skills[m] # None /\ Versions(Disabled(skills, n)[m]) = Versions(skills[m])
<1> DEFINE new == [skills[n] EXCEPT !.disabled = TRUE]
<1>1. skills[n] \in SkillRecords
  BY DEF Skills
<1>2. new \in SkillRecords /\ Versions(new) = Versions(skills[n])
  BY <1>1 DEF SkillRecords, Versions, Archived
<1>3. Disabled(skills, n) = [skills EXCEPT ![n] = new]
  BY DEF Disabled
<1> HIDE DEF new
<1> QED
  BY <1>2, <1>3 DEF Skills

\* rollbackSkill loses no version and invents none.
LEMMA RolledBackKeeps ==
  ASSUME NEW skills \in Skills, NEW n \in Names, NEW v,
         skills[n] # None, FirstWith(skills[n], v) # 0
  PROVE  /\ RolledBack(skills, n, v) \in Skills /\ RolledBack(skills, n, v)[n] \in SkillRecords
         /\ \A m \in Names : RolledBack(skills, n, v)[m] # None =>
              skills[m] # None /\ Versions(RolledBack(skills, n, v)[m]) \subseteq Versions(skills[m])
<1> DEFINE r == skills[n]
           i == FirstWith(r, v)
           rest == RemoveAt(r.previous, i)
           previous == Append(rest, Archived(r))
           new == Active(r.previous[i], previous)
<1>1. r \in SkillRecords /\ i \in 1..Len(r.previous) /\ r.previous \in Seq(VersionRecords)
  <2>1. r \in SkillRecords
    BY DEF Skills
  <2> QED
    BY <2>1, FirstWithInRange DEF SkillRecords
<1>2. RolledBack(skills, n, v) = [skills EXCEPT ![n] = new]
  BY DEF RolledBack
<1> HIDE DEF i
<1>3. Archived(r) \in VersionRecords /\ r.previous[i] \in VersionRecords
  <2>1. r.previous[i] \in VersionRecords
    BY <1>1
  <2>2. Archived(r) \in VersionRecords
    BY <1>1 DEF SkillRecords, VersionRecords, Archived
  <2> QED
    BY <2>1, <2>2
<1>4. rest \in Seq(VersionRecords) /\ \A j \in DOMAIN rest : rest[j] \in Versions(r)
  <2> DEFINE before == SubSeq(r.previous, 1, i - 1)
             after == SubSeq(r.previous, i + 1, Len(r.previous))
  <2>1. /\ before \in Seq(VersionRecords) /\ after \in Seq(VersionRecords)
        /\ \A j \in 1..Len(before) : before[j] \in Versions(r)
        /\ \A j \in 1..Len(after) : after[j] \in Versions(r)
    BY <1>1 DEF Versions
  <2>2. rest = before \o after
    BY DEF RemoveAt
  <2> HIDE DEF before, after, rest
  <2> QED
    BY <2>1, <2>2
<1> HIDE DEF rest
<1>5. previous \in Seq(VersionRecords) /\ \A j \in DOMAIN previous : previous[j] \in Versions(r)
  <2>1. Archived(r) \in Versions(r)
    BY DEF Versions
  <2> QED
    BY <1>3, <1>4, <2>1
<1> HIDE DEF previous
<1>6. new \in SkillRecords /\ new.previous = previous /\ Archived(new) = r.previous[i]
  BY <1>3, <1>5 DEF Active, SkillRecords, VersionRecords, Archived
<1>7. Versions(new) \subseteq Versions(r)
  BY <1>1, <1>5, <1>6 DEF Versions
<1> HIDE DEF new
<1> QED
  BY <1>2, <1>6, <1>7 DEF Skills

------------------------------------------------------------------------------
(* Imports.                                                                *)

LEMMA IdleIsTyped == Idle \in ImportRecords /\ Idle.pc = "idle" /\ Idle.cand = None
                     /\ Idle.copied = 0 /\ Len(Idle.entries) = 0
  BY DEF Idle, ImportRecords

LEMMA NoDirectoryIsTyped ==
  /\ NoDirectory \in Directories /\ NoDirectory.at = "none" /\ NoDirectory.sha = None
  /\ Removed \in Directories /\ Removed.sha = None
  BY DEF NoDirectory, Removed, Directories, Contents

LEMMA InitImport ==
  ASSUME IngestionInit
  PROVE  /\ ImportTypes /\ ImportHolds
         /\ \A c \in Cand : cands[c].sha = None
         /\ \A i \in DOMAIN audit : audit[i].event = "imported"
         /\ \A i \in DOMAIN audit : cands[audit[i].cand] = Ready /\ 2 <= MaxTotalSize /\ 2 <= MaxFileCount
         /\ imp = Idle /\ \A f \in Package : source[f].version <= clock
<1> USE IngestionAssumption
<1>1. source \in [Package -> SourceEntries]
  <2>1. PICK s \in 1..MaxFileSize, m \in {"file", "none"} :
          source = [f \in Package |-> CASE f = SkillMd -> Entry("file", 1, s)
                                    [] f = Manifest -> Entry(m, 1, 1)
                                    [] OTHER -> Entry("none", 1, 0)]
    BY DEF IngestionInit
  <2>2. s \in Nat
    OBVIOUS
  <2>3. Entry("file", 1, s) \in SourceEntries /\ Entry(m, 1, 1) \in SourceEntries
        /\ Entry("none", 1, 0) \in SourceEntries
    BY <2>2 DEF Entry, SourceEntries, Kinds
  <2>4. \A f \in Package : source[f] \in SourceEntries
    BY <2>1, <2>3
  <2> QED
    BY <2>1, <2>4
<1>10. \A f \in Package : source[f].version <= clock
  BY DEF IngestionInit, Entry
<1>2. PICK b \in Budgets :
        /\ cands = [c \in Cand |-> IF c \in b.ready THEN Ready ELSE NoDirectory]
        /\ audit = SetToSeq({[event |-> "imported", name |-> NameOf[c], cand |-> c] : c \in b.ready})
  BY DEF IngestionInit
<1>3. b.ready \subseteq Cand /\ IsFiniteSet(b.ready)
  OBVIOUS
<1>4. Ready \in Directories /\ Ready.sha = None /\ NoDirectory.sha = None
  <2>1. \A f \in Package : (IF f = Meta THEN <<0>> ELSE <<1>>) \in Contents
    BY DEF Contents
  <2> QED
    BY <2>1 DEF Ready, Directories, NoDirectory
<1>5. cands \in [Cand -> Directories] /\ \A c \in Cand : cands[c].sha = None
  BY <1>2, <1>4, NoDirectoryIsTyped
<1>6. /\ audit \in Seq(Events)
      /\ \A i \in DOMAIN audit : audit[i].event = "imported" /\ audit[i].cand \in b.ready
  <2> DEFINE told == {[event |-> "imported", name |-> NameOf[c], cand |-> c] : c \in b.ready}
  <2>1. IsFiniteSet(told)
    <3> DEFINE tell == [c \in b.ready |-> [event |-> "imported", name |-> NameOf[c], cand |-> c]]
    <3>1. tell \in Surjection(b.ready, told)
      BY DEF Surjection
    <3> HIDE DEF told, tell
    <3> QED
      BY <1>3, <3>1, FS_Surjection
  <2>2. told \subseteq Events /\ \A e \in told : e.event = "imported" /\ e.cand \in b.ready
    BY <1>3 DEF Events, ImportEvents
  <2>3. SetToSeq(told) \in Seq(told)
    BY <2>1, SequenceOfASet
  <2> HIDE DEF told
  <2>4. SetToSeq(told) \in Seq(Events)
    BY <2>2, <2>3
  <2>5. \A i \in DOMAIN SetToSeq(told) : SetToSeq(told)[i] \in told
    BY <2>3
  <2> QED
    BY <1>2, <2>2, <2>4, <2>5 DEF told
<1>7. imp = Idle /\ clock \in Nat /\ faulted \in BOOLEAN
  BY DEF IngestionInit
<1>8. ImportTypes
  BY <1>1, <1>5, <1>6, <1>7, IdleIsTyped DEF ImportTypes
<1>9. ImportHolds
  BY <1>7, IdleIsTyped DEF ImportHolds, Filling
<1>11. \A i \in DOMAIN audit : cands[audit[i].cand] = Ready /\ 2 <= MaxTotalSize /\ 2 <= MaxFileCount
  BY <1>2, <1>3, <1>6
<1> QED
  BY <1>5, <1>6, <1>7, <1>8, <1>9, <1>10, <1>11

\* The event of an import may be appended.
LEMMA ImportEventsAppend ==
  ASSUME audit \in Seq(Events), NEW e \in Events, Audit(e)
  PROVE  audit' \in Seq(Events)
  BY DEF Audit

LEMMA RejectionIsTold ==
  /\ Imports("import-rejected") \in ImportEvents
  /\ \A c \in Cand : [Imports("import-rejected") EXCEPT !.cand = c] \in ImportEvents
  /\ ImportEvents \subseteq Events
  BY DEF Imports, Events, ImportEvents

LEMMA RejectCopyKeeps ==
  ASSUME ImportTypes, imp.cand \in Cand, RejectCopy, UNCHANGED <<source, clock>>
  PROVE  ImportTypes' /\ ImportHolds'
<1>1. imp' = Idle
  BY DEF RejectCopy
<1>2. audit' \in Seq(Events)
  BY RejectionIsTold, ImportEventsAppend DEF RejectCopy, ImportTypes
<1>3. cands' \in [Cand -> Directories] /\ faulted' \in BOOLEAN
  BY NoDirectoryIsTyped DEF RejectCopy, ImportTypes
<1>4. ImportTypes'
  BY <1>1, <1>2, <1>3, IdleIsTyped DEF ImportTypes
<1> QED
  BY <1>1, <1>4, IdleIsTyped, IngestionAssumption DEF ImportHolds, Filling

LEMMA UserKeepsTypes ==
  ASSUME ImportTypes, ImportHolds, NEW f \in Package, EditFile(f) \/ ReplaceFile(f)
  PROVE  ImportTypes' /\ ImportHolds'
<1>1. UNCHANGED <<imp, cands, audit, faulted>> /\ clock' \in Nat
  BY DEF EditFile, ReplaceFile, ImportTypes
<1>2. source' \in [Package -> SourceEntries]
  <2>1. CASE EditFile(f)
    <3>1. PICK s \in 0..MaxFileSize + 1 :
            source' = [source EXCEPT ![f].version = clock + 1, ![f].size = s]
      BY <2>1 DEF EditFile
    <3>2. s \in Nat /\ clock + 1 \in Nat
      BY IngestionAssumption DEF ImportTypes
    <3> DEFINE v == clock + 1
    <3>3. source' = [source EXCEPT ![f].version = v, ![f].size = s] /\ v \in Nat
      BY <3>1, <3>2
    <3> HIDE DEF v
    <3> QED
      BY <3>2, <3>3 DEF ImportTypes, SourceEntries
  <2>2. CASE ReplaceFile(f)
    <3>1. PICK k \in Kinds : source' = [source EXCEPT ![f] = Entry(k, clock + 1, 1)]
      BY <2>2 DEF ReplaceFile
    <3>2. Entry(k, clock + 1, 1) \in SourceEntries
      BY DEF ImportTypes, Entry, SourceEntries
    <3> QED
      BY <3>1, <3>2 DEF ImportTypes
  <2> QED
    BY <2>1, <2>2
<1>3. ImportTypes'
  BY <1>1, <1>2 DEF ImportTypes
<1> QED
  BY <1>1, <1>3 DEF ImportHolds, Copied, Current

\* An entry that the import is at.
LEMMA CurrentIsTyped ==
  ASSUME ImportTypes, ImportHolds, imp.copied < Len(imp.entries)
  PROVE  /\ Current \in WalkedEntries /\ Current.file \in Package /\ CurrentSource \in SourceEntries
         /\ Handle.version \in Nat
<1>1. Current \in WalkedEntries
  BY DEF ImportTypes, ImportRecords, Current
<1>2. Current.file \in Package
  BY <1>1 DEF WalkedEntries
<1>3. CurrentSource \in SourceEntries
  BY <1>2 DEF CurrentSource, ImportTypes
<1>4. Handle.version \in Nat
  BY <1>1, <1>3 DEF Handle, WalkedEntries, SourceEntries
<1> QED
  BY <1>1, <1>2, <1>3, <1>4

LEMMA FilesAreDirectories ==
  ASSUME cands \in [Cand -> Directories], NEW c \in Cand, NEW f \in Package, NEW t \in Contents
  PROVE  /\ [cands EXCEPT ![c].files[f] = t] \in [Cand -> Directories]
         /\ [cands EXCEPT ![c].files[f] = t][c].files[f] = t
<1>1. [cands[c] EXCEPT !.files[f] = t] \in Directories /\ [cands[c] EXCEPT !.files[f] = t].files[f] = t
  BY DEF Directories
<1>2. [cands EXCEPT ![c].files[f] = t] = [cands EXCEPT ![c] = [cands[c] EXCEPT !.files[f] = t]]
  OBVIOUS
<1> QED
  BY <1>1, <1>2

LEMMA WalkKeepsTypes ==
  ASSUME ImportTypes, ImportHolds, NEW f \in Package, Walk(f)
  PROVE  ImportTypes' /\ ImportHolds'
<1>1. UNCHANGED <<source, clock, cands, faulted>> /\ imp.pc = "walk" /\ imp.cand \notin Cand
  BY DEF Walk, ImportHolds, Filling
<1>2. CASE WalkAccepts(f)
  <2> DEFINE w == Walked(f)
             entries == Append(imp.entries, w)
             todo == imp.todo \ {f}
             size == imp.size + source[f].size
  <2>1. w \in WalkedEntries
    <3>1. source[f] \in SourceEntries
      BY DEF ImportTypes
    <3> QED
      BY <3>1 DEF Walked, WalkedEntries, SourceEntries
  <2>2. imp' = [imp EXCEPT !.todo = todo, !.entries = entries, !.size = size] /\ audit' = audit
    BY <1>2, Zenon DEF Walk
  <2>3. todo \in SUBSET Package /\ imp.entries \in Seq(WalkedEntries) /\ size \in Nat
    BY DEF ImportTypes, ImportRecords, SourceEntries
  <2> HIDE DEF w, todo, size
  <2>4. entries \in Seq(WalkedEntries) /\ Len(entries) = Len(imp.entries) + 1
    BY <2>1, <2>3
  <2> HIDE DEF entries
  <2>5. imp' \in ImportRecords /\ imp'.pc = "walk" /\ imp'.cand = imp.cand /\ imp'.copied = imp.copied
        /\ imp'.entries = entries
    BY <1>1, <2>2, <2>3, <2>4 DEF ImportTypes, ImportRecords
  <2>6. imp'.copied <= Len(imp'.entries)
    BY <2>3, <2>4, <2>5 DEF ImportHolds, ImportTypes, ImportRecords
  <2> QED
    BY <1>1, <2>2, <2>5, <2>6 DEF ImportTypes, ImportHolds, Filling
<1>3. CASE ~WalkAccepts(f)
  <2>1. imp' = Idle /\ Audit(Imports("import-rejected"))
    BY <1>3 DEF Walk
  <2>2. audit' \in Seq(Events)
    BY <2>1, RejectionIsTold, ImportEventsAppend DEF ImportTypes
  <2> QED
    BY <1>1, <2>1, <2>2, IdleIsTyped, IngestionAssumption DEF ImportTypes, ImportHolds, Filling
<1> QED
  BY <1>2, <1>3

LEMMA CopyKeepsTypes ==
  ASSUME ImportTypes, ImportHolds, OpenSource \/ ReadChunk \/ FinishFile
  PROVE  ImportTypes' /\ ImportHolds'
<1>1. UNCHANGED <<source, clock>> /\ imp.pc \in {"open", "read", "fstat"} /\ imp.copied < Len(imp.entries)
      /\ imp.cand \in Cand
  BY DEF OpenSource, ReadChunk, FinishFile, ImportHolds, Filling
<1>2. CASE RejectCopy
  BY <1>1, <1>2, RejectCopyKeeps
<1> DEFINE f == Current.file
<1>3. f \in Package /\ Current \in WalkedEntries /\ Handle.version \in Nat
  BY <1>1, CurrentIsTyped
<1>4. CASE /\ OpenSource
           /\ imp' = [imp EXCEPT !.pc = "read"]
           /\ cands' = [cands EXCEPT ![imp.cand].files[Current.file] = <<>>]
           /\ UNCHANGED <<audit, faulted>>
  <2>1. imp' \in ImportRecords /\ imp'.pc = "read" /\ imp'.cand = imp.cand
        /\ imp'.copied = imp.copied /\ imp'.entries = imp.entries
    BY <1>4 DEF ImportTypes, ImportRecords, Filling
  <2>2. Current' = Current
    BY <2>1 DEF Current
  <2>3. <<>> \in Contents /\ <<>> \in Seq(Nat)
    BY DEF Contents
  <2>4. cands' \in [Cand -> Directories] /\ cands'[imp.cand].files[f] = <<>>
    <3>1. cands' = [cands EXCEPT ![imp.cand].files[f] = <<>>]
      BY <1>4
    <3>2. PICK t \in Contents : t = <<>>
      BY <2>3
    <3> HIDE DEF f
    <3>3. cands' = [cands EXCEPT ![imp.cand].files[f] = t]
      BY <3>1, <3>2
    <3>4. cands \in [Cand -> Directories] /\ imp.cand \in Cand /\ f \in Package
      BY <1>1, <1>3 DEF ImportTypes
    <3>5. cands' \in [Cand -> Directories] /\ cands'[imp.cand].files[f] = t
      BY <3>3, <3>4, FilesAreDirectories
    <3> QED
      BY <3>2, <3>5
  <2>5. Copied' \in Seq(Nat)
    BY <2>1, <2>2, <2>3, <2>4 DEF Copied
  <2> QED
    BY <1>1, <1>4, <2>1, <2>4, <2>5 DEF ImportTypes, ImportHolds, Filling
<1>5. CASE /\ ReadChunk
           /\ cands' = [cands EXCEPT ![imp.cand].files[Current.file] = Append(@, Handle.version)]
           /\ UNCHANGED <<imp, audit, faulted>>
  <2> DEFINE t == Append(cands[imp.cand].files[f], Handle.version)
  <2>1. t \in Seq(Nat) /\ t \in Contents
    <3>1. cands[imp.cand].files[f] \in Seq(Nat)
      BY <1>5 DEF ReadChunk, ImportHolds, Copied
    <3> HIDE DEF f
    <3>2. t \in Seq(Nat)
      BY <1>3, <3>1
    <3> QED
      BY <3>2 DEF Contents
  <2>2. cands' = [cands EXCEPT ![imp.cand].files[f] = t]
    BY <1>1, <1>3, <1>5 DEF ImportTypes, Directories
  <2> HIDE DEF t
  <2>3. cands' \in [Cand -> Directories] /\ cands'[imp.cand].files[f] = t
    <3> HIDE DEF f
    <3>1. cands \in [Cand -> Directories]
      BY DEF ImportTypes
    <3> QED
      BY <1>1, <1>3, <2>1, <2>2, <3>1, FilesAreDirectories
  <2>4. Current' = Current
    BY <1>5 DEF Current
  <2>5. Copied' \in Seq(Nat)
    BY <1>5, <2>1, <2>3, <2>4 DEF Copied
  <2> QED
    BY <1>1, <1>5, <2>3, <2>5 DEF ImportTypes, ImportHolds
<1>6. CASE /\ imp' = [imp EXCEPT !.pc = "fstat"]
           /\ UNCHANGED <<cands, audit, faulted>>
  <2>1. imp' \in ImportRecords /\ imp'.pc = "fstat" /\ imp'.cand = imp.cand
        /\ imp'.copied = imp.copied /\ imp'.entries = imp.entries
    BY <1>6 DEF ImportTypes, ImportRecords, Filling
  <2> QED
    BY <1>1, <1>6, <2>1 DEF ImportTypes, ImportHolds, Filling
<1>7. CASE /\ FinishFile
           /\ imp' = [imp EXCEPT !.pc = "open", !.copied = @ + 1, !.bytes = @ + Current.size]
           /\ UNCHANGED <<cands, audit, faulted>>
  <2> DEFINE n == imp.copied + 1
             bytes == imp.bytes + Current.size
  <2>1. n \in Nat /\ n <= Len(imp.entries) /\ bytes \in Nat
    <3>1. Current.size \in Nat
      BY <1>3 DEF WalkedEntries
    <3>2. imp.bytes \in Nat /\ imp.copied \in Nat /\ Len(imp.entries) \in Nat
      BY DEF ImportTypes, ImportRecords
    <3> QED
      BY <1>1, <3>1, <3>2
  <2>2. imp' = [imp EXCEPT !.pc = "open", !.copied = n, !.bytes = bytes]
    BY <1>7 DEF ImportTypes, ImportRecords
  <2> HIDE DEF n, bytes
  <2>3. imp' \in ImportRecords /\ imp'.pc = "open" /\ imp'.cand = imp.cand
        /\ imp'.copied = n /\ imp'.entries = imp.entries
    BY <2>1, <2>2 DEF ImportTypes, ImportRecords, Filling
  <2> QED
    BY <1>1, <1>7, <2>1, <2>3 DEF ImportTypes, ImportHolds, Filling
<1>8. CASE OpenSource
  BY <1>2, <1>4, <1>8 DEF OpenSource
<1>9. CASE ReadChunk
  BY <1>2, <1>5, <1>6, <1>9, Zenon DEF ReadChunk
<1>10. CASE FinishFile
  BY <1>2, <1>7, <1>10 DEF FinishFile
<1> QED
  BY <1>8, <1>9, <1>10

LEMMA ImportKeepsTypes ==
  ASSUME ImportTypes, ImportHolds, ImportStep
  PROVE  ImportTypes' /\ ImportHolds'
<1> USE IngestionAssumption
<1>1. CASE \E f \in Package : EditFile(f) \/ ReplaceFile(f) \/ Walk(f)
  BY <1>1, UserKeepsTypes, WalkKeepsTypes
<1>2. CASE RefuseRoot
  <2>1. audit' \in Seq(Events)
    BY <1>2, RejectionIsTold, ImportEventsAppend DEF RefuseRoot, ImportTypes
  <2>2. UNCHANGED <<source, clock, imp, cands, faulted>>
    BY <1>2 DEF RefuseRoot
  <2> QED
    BY <2>1, <2>2 DEF ImportTypes, ImportHolds, Copied, Current
<1>3. CASE ReadDirectory
  <2> DEFINE todo == {f \in Package : source[f].kind # "none"}
  <2>1. imp' = [Idle EXCEPT !.pc = "walk", !.todo = todo] /\ todo \in SUBSET Package
    BY <1>3 DEF ReadDirectory
  <2> HIDE DEF todo
  <2>2. imp' \in ImportRecords /\ imp'.pc = "walk" /\ imp'.cand = None /\ imp'.copied = 0
        /\ Len(imp'.entries) = 0
    BY <2>1, IdleIsTyped DEF ImportRecords
  <2> QED
    BY <1>3, <2>2 DEF ReadDirectory, ImportTypes, ImportHolds, Filling
<1>4. CASE \E c \in Cand : CreateSnapshot(c)
  <2>1. PICK c \in Cand : CreateSnapshot(c)
    BY <1>4
  <2>2. imp' \in ImportRecords /\ imp'.pc = "open" /\ imp'.cand = c /\ imp'.copied = imp.copied
        /\ imp'.entries = imp.entries
    BY <2>1 DEF CreateSnapshot, ImportTypes, ImportRecords, Filling
  <2>3. cands' \in [Cand -> Directories]
    BY <2>1 DEF CreateSnapshot, ImportTypes, Directories
  <2> QED
    BY <2>1, <2>2, <2>3 DEF CreateSnapshot, ImportTypes, ImportHolds, Filling
<1>5. CASE OpenSource \/ ReadChunk \/ FinishFile
  BY <1>5, CopyKeepsTypes
<1>6. CASE Gate1
  <2>1. UNCHANGED <<source, clock>> /\ imp.pc = "open" /\ imp.cand \in Cand
    BY <1>6 DEF Gate1, ImportHolds, Filling
  <2>2. CASE Gate1Accepts(cands[imp.cand].files)
    <3>1. imp' = [imp EXCEPT !.pc = "accepted"] /\ UNCHANGED <<cands, audit, faulted>>
      BY <1>6, <2>2 DEF Gate1
    <3>2. imp' \in ImportRecords /\ imp'.pc = "accepted" /\ imp'.cand = imp.cand
          /\ imp'.copied = imp.copied /\ imp'.entries = imp.entries
      BY <3>1 DEF ImportTypes, ImportRecords, Filling
    <3> QED
      BY <2>1, <3>1, <3>2 DEF ImportTypes, ImportHolds, Filling
  <2>3. CASE ~Gate1Accepts(cands[imp.cand].files)
    <3>1. imp' = Idle /\ Audit([Imports("import-rejected") EXCEPT !.cand = imp.cand])
      BY <1>6, <2>3 DEF Gate1
    <3>2. audit' \in Seq(Events)
      BY <2>1, <3>1, RejectionIsTold, ImportEventsAppend DEF ImportTypes
    <3>3. PICK moved \in BOOLEAN :
            /\ cands' = [cands EXCEPT ![imp.cand].at = IF moved THEN "quarantine" ELSE @]
            /\ faulted' = (faulted \/ ~moved)
      BY <1>6, <2>3 DEF Gate1
    <3>4. cands' \in [Cand -> Directories] /\ faulted' \in BOOLEAN
      <4>1. PICK at \in {"none", "candidates", "quarantine", "removed"} :
              cands' = [cands EXCEPT ![imp.cand].at = at]
        BY <2>1, <3>3 DEF ImportTypes, Directories
      <4>2. cands \in [Cand -> Directories] /\ faulted \in BOOLEAN
        BY <2>1 DEF ImportTypes
      <4>3. \A d \in Directories : [d EXCEPT !.at = at] \in Directories
        BY DEF Directories
      <4>4. PICK d \in Directories : d = [cands[imp.cand] EXCEPT !.at = at]
        BY <2>1, <4>2, <4>3
      <4>5. cands' = [cands EXCEPT ![imp.cand] = d]
        BY <4>1, <4>4
      <4>6. cands' \in [Cand -> Directories]
        BY <4>2, <4>5
      <4> QED
        BY <3>3, <4>2, <4>6
    <3> QED
      BY <2>1, <3>1, <3>2, <3>4, IdleIsTyped DEF ImportTypes, ImportHolds, Filling
  <2> QED
    BY <2>2, <2>3
<1>7. CASE WriteMeta
  <2>1. imp' \in ImportRecords /\ imp'.pc = "written" /\ imp'.cand = imp.cand /\ imp.cand \in Cand
        /\ imp'.copied = imp.copied /\ imp'.entries = imp.entries
    BY <1>7 DEF WriteMeta, ImportTypes, ImportHolds, ImportRecords, Filling
  <2>2. <<0>> \in Contents /\ Meta \in Package
    BY DEF Contents, Package
  <2>3. cands' \in [Cand -> Directories]
    BY <1>7, <2>1, <2>2, FilesAreDirectories DEF WriteMeta, ImportTypes
  <2> QED
    BY <1>7, <2>1, <2>3 DEF WriteMeta, ImportTypes, ImportHolds, Filling
<1>8. CASE AuditImport
  <2>1. imp.cand \in Cand /\ imp' = Idle /\ UNCHANGED <<source, clock, cands, faulted>>
    BY <1>8 DEF AuditImport, ImportHolds, Filling
  <2>2. [event |-> "imported", name |-> NameOf[imp.cand], cand |-> imp.cand] \in Events
    BY <2>1 DEF Events, ImportEvents
  <2>3. audit' \in Seq(Events)
    BY <1>8, <2>2, ImportEventsAppend DEF AuditImport, ImportTypes
  <2> QED
    BY <2>1, <2>3, IdleIsTyped DEF ImportTypes, ImportHolds, Filling
<1>9. CASE ImportDies
  BY <1>9, IdleIsTyped DEF ImportDies, ImportTypes, ImportHolds, Filling
<1> QED
  BY <1>1, <1>2, <1>3, <1>4, <1>5, <1>6, <1>7, <1>8, <1>9 DEF ImportStep

------------------------------------------------------------------------------
(* Commands.                                                               *)

LEMMA LoadIsTyped ==
  ASSUME LTypes
  PROVE  /\ LoadRegistry \in Skills
         /\ \A n \in Names : LoadRegistry[n] # None =>
              /\ LoadRegistry[n] \in SkillRecords
              /\ LoadRegistry[n].cand \in Cand /\ LoadRegistry[n].hash \in Hashes
<1>1. LoadRegistry \in Skills
  BY DEF LTypes, LoadRegistry, Skills
<1>2. \A n \in Names : LoadRegistry[n] # None => LoadRegistry[n] \in SkillRecords
  BY <1>1 DEF Skills
<1>3. \A r \in SkillRecords : r.cand \in Cand /\ r.hash \in Hashes
  BY DEF SkillRecords
<1> QED
  BY <1>1, <1>2, <1>3

LEMMA HashIsTyped ==
  ASSUME ImportTypes, NEW c \in Cand
  PROVE  ContentHash(c) \in Hashes /\ ContentHash(c)[SkillMd] = cands[c].files[SkillMd]
  BY DEF ImportTypes, Directories, ContentHash, Hashes, Package, Manifest, SkillMd

LEMMA NoCommandHolds == Holds(NoCommand) /\ NoCommand.pc = "idle"
<1>1. None \in Contents /\ None \in {None} \cup Names /\ None \in {None} \cup Cand /\ None \in {None} \cup Skills
      /\ None \in {None} \cup CommandEvents /\ None \in {None} \cup Hashes
  BY DEF Contents
<1>2. NoCommand \in CommandRecords /\ NoCommand.pc = "idle"
  BY <1>1 DEF NoCommand, CommandRecords
<1> QED
  BY <1>2 DEF Holds

\* A step of one process changes what that process holds.
LEMMA OneMoves ==
  ASSUME LTypes, NEW p \in Procs, NEW c, Holds(c), cmd' = [cmd EXCEPT ![p] = c]
  PROVE  /\ cmd' \in [Procs -> CommandRecords]
         /\ \A q \in Procs : Holds(cmd'[q])
         /\ cmd'[p] = c /\ \A q \in Procs : q # p => cmd'[q] = cmd[q]
<1>1. cmd \in [Procs -> CommandRecords] /\ \A q \in Procs : Holds(cmd[q])
  BY DEF LTypes
<1>2. c \in CommandRecords
  BY DEF Holds
<1>3. cmd'[p] = c /\ \A q \in Procs : q # p => cmd'[q] = cmd[q]
  BY <1>1
<1> QED
  BY <1>1, <1>2, <1>3

LEMMA BeginKeepsTypes ==
  ASSUME LTypes, NEW p \in Procs, NEW c, Holds(c), Begin(p, c),
         UNCHANGED <<source, clock, imp, cands, audit, faulted, registry, envelopes>>
  PROVE  LTypes'
<1>1. cmd' = [cmd EXCEPT ![p] = c] /\ alone' \in BOOLEAN
  BY DEF Begin, LTypes
<1>2. cmd' \in [Procs -> CommandRecords] /\ \A q \in Procs : Holds(cmd'[q])
  BY <1>1, OneMoves
<1>3. ImportTypes' /\ ImportHolds'
  BY DEF LTypes, ImportTypes, ImportHolds, Copied, Current
<1> QED
  BY <1>1, <1>2, <1>3 DEF LTypes

LEMMA GoesToAudit ==
  ASSUME LTypes, NEW p \in Procs, cmd[p].pc \in {"hashed", "save"}, Goto(p, "audit")
  PROVE  /\ cmd' = [cmd EXCEPT ![p] = [cmd[p] EXCEPT !.pc = "audit"]]
         /\ Holds([cmd[p] EXCEPT !.pc = "audit"])
         /\ cmd'[p].pc = "audit" /\ cmd'[p].event = cmd[p].event
<1> DEFINE c == [cmd[p] EXCEPT !.pc = "audit"]
<1>1. cmd \in [Procs -> CommandRecords] /\ Holds(cmd[p])
  BY DEF LTypes
<1>2. cmd' = [cmd EXCEPT ![p] = c]
  BY DEF Goto
<1>3. cmd[p].event \in CommandEvents
  BY <1>1 DEF Holds, CommandEvents
<1>4. c \in CommandRecords /\ c.pc = "audit" /\ c.event = cmd[p].event
  BY <1>1 DEF CommandRecords
<1>5. Holds(c)
  BY <1>3, <1>4 DEF Holds
<1> QED
  BY <1>1, <1>2, <1>4, <1>5

\* What validate, promote, disable, rollback and the rendering begin with.
LEMMA ValidateBegins ==
  ASSUME LTypes, NEW p \in Procs, NEW c \in Cand, Validate(p, c)
  PROVE  \E new :
           /\ Holds(new) /\ new.pc = "hashed" /\ Begin(p, new)
           /\ new.cand = c /\ new.manifest = cands[c].files[Manifest] /\ new.manifest \notin {None, <<>>}
           /\ cands[c].at = "candidates" /\ ~CutShort(c)
<1> DEFINE m == cands[c].files[Manifest]
           h == ContentHash(c)
           e == [event |-> "evaluated", name |-> NameOf[c], cand |-> c, hash |-> h]
           new == [NoCommand EXCEPT !.pc = "hashed", !.cand = c, !.hash = h, !.manifest = m, !.event = e]
<1>1. ImportTypes
  BY DEF LTypes
<1>2. h \in Hashes
  BY <1>1, HashIsTyped
<1>3. m \in Seq(Nat)
  BY <1>1 DEF Validate, ReadsManifest, ImportTypes, Directories, Contents, Package
<1> HIDE DEF h, m
<1>4. e \in EvaluationEvents /\ e.cand = c /\ e.hash = h
  BY <1>2, IngestionAssumption DEF EvaluationEvents
<1>5. Begin(p, new)
  BY DEF Validate, h, m
<1> HIDE DEF e
<1>6. new = [NoCommand EXCEPT !.pc = "hashed", !.cand = c, !.hash = h, !.manifest = m, !.event = e]
  OBVIOUS
<1> HIDE DEF new
<1>7. m \in Contents /\ e \in {None} \cup CommandEvents
  BY <1>3, <1>4 DEF Contents, CommandEvents
<1>8. /\ new \in CommandRecords /\ new.pc = "hashed"
      /\ new.cand = c /\ new.hash = h /\ new.manifest = m /\ new.event = e
  BY <1>2, <1>6, <1>7, NoCommandHolds DEF Holds, CommandRecords
<1>9. Holds(new)
  BY <1>2, <1>3, <1>4, <1>8 DEF Holds
<1>10. m \notin {None, <<>>} /\ cands[c].at = "candidates" /\ ~CutShort(c)
  BY DEF Validate, ReadsManifest, m
<1>11. m = cands[c].files[Manifest]
  BY DEF m
<1> QED
  BY <1>5, <1>8, <1>9, <1>10, <1>11

LEMMA PromoteBegins ==
  ASSUME LTypes, NEW p \in Procs, NEW c \in Cand, Promote(p, c)
  PROVE  \E new :
           /\ Holds(new) /\ Begin(p, new)
           /\ cands[c].sha # None
           /\ new.pc = "save" /\ new.skills = Promoted(LoadRegistry, NameOf[c], c, cands[c].sha)
           /\ new.event.event = "promoted" /\ new.event.cand = c /\ new.event.hash = cands[c].sha
           /\ new.event.name = NameOf[c] /\ new.event.to = new.skills[NameOf[c]].version
<1> DEFINE h == cands[c].sha
           n == NameOf[c]
           skills == Promoted(LoadRegistry, n, c, h)
           to == skills[n].version
           e == [event |-> "promoted", name |-> n, cand |-> c, hash |-> h, to |-> to]
           new == [NoCommand EXCEPT !.pc = "save", !.skills = skills, !.event = e]
<1>1. h # None /\ h \in Hashes /\ n \in Names
  BY IngestionAssumption DEF Promote, LTypes, ImportTypes, Directories
<1>2. skills \in Skills /\ to \in Nat
  BY <1>1, LoadIsTyped, PromotedKeeps
<1>3. Begin(p, new)
  BY DEF Promote, Changes
<1> HIDE DEF h, n, skills, to
<1>4. e \in CommandEvents /\ e.event = "promoted" /\ e.cand = c /\ e.hash = h /\ e.name = n /\ e.to = to
  BY <1>1, <1>2 DEF CommandEvents, PromotionEvents
<1> HIDE DEF e
<1>5. new = [NoCommand EXCEPT !.pc = "save", !.skills = skills, !.event = e]
  OBVIOUS
<1> HIDE DEF new
<1>6. Holds(new) /\ new.pc = "save" /\ new.skills = skills /\ new.event = e
  <2>1. new \in CommandRecords /\ new.pc = "save" /\ new.skills = skills /\ new.event = e
    BY <1>2, <1>4, <1>5, NoCommandHolds DEF Holds, CommandRecords
  <2> QED
    BY <1>2, <1>4, <2>1 DEF Holds
<1> QED
  BY <1>1, <1>3, <1>4, <1>6 DEF skills, h, n, to

LEMMA DisableBegins ==
  ASSUME LTypes, NEW p \in Procs, NEW n \in Names, Disable(p, n)
  PROVE  \E new :
           /\ Holds(new) /\ Begin(p, new) /\ LoadRegistry[n] # None
           /\ new.pc = "save" /\ new.skills = Disabled(LoadRegistry, n)
           /\ new.event.event = "disabled" /\ new.event.name = n
<1> DEFINE c == LoadRegistry[n].cand
           skills == Disabled(LoadRegistry, n)
           e == [event |-> "disabled", name |-> n, cand |-> c]
           new == [NoCommand EXCEPT !.pc = "save", !.skills = skills, !.event = e]
<1>1. LoadRegistry[n] # None /\ c \in Cand
  BY LoadIsTyped DEF Disable
<1>2. skills \in Skills
  BY <1>1, LoadIsTyped, DisabledKeeps
<1>3. Begin(p, new)
  BY DEF Disable, Changes
<1> HIDE DEF c, skills
<1>4. e \in CommandEvents /\ e.event = "disabled" /\ e.name = n
  BY <1>1 DEF CommandEvents, DisabledEvents
<1> HIDE DEF e
<1>5. new = [NoCommand EXCEPT !.pc = "save", !.skills = skills, !.event = e]
  OBVIOUS
<1> HIDE DEF new
<1>6. Holds(new) /\ new.pc = "save" /\ new.skills = skills /\ new.event = e
  <2>1. new \in CommandRecords /\ new.pc = "save" /\ new.skills = skills /\ new.event = e
    BY <1>2, <1>4, <1>5, NoCommandHolds DEF Holds, CommandRecords
  <2> QED
    BY <1>2, <1>4, <2>1 DEF Holds
<1> QED
  BY <1>1, <1>3, <1>4, <1>6 DEF skills

LEMMA RollbackBegins ==
  ASSUME LTypes, NEW p \in Procs, NEW n \in Names, NEW v \in Nat, Rollback(p, n, v)
  PROVE  \E new :
           /\ Holds(new) /\ Begin(p, new)
           /\ LoadRegistry[n] # None /\ FirstWith(LoadRegistry[n], v) # 0
           /\ new.pc = "save" /\ new.skills = RolledBack(LoadRegistry, n, v)
           /\ new.event.event = "rolled-back" /\ new.event.name = n /\ new.event.to = v
<1> DEFINE skills == RolledBack(LoadRegistry, n, v)
           e == [event |-> "rolled-back", name |-> n, cand |-> None, to |-> v]
           new == [NoCommand EXCEPT !.pc = "save", !.skills = skills, !.event = e]
<1>1. LoadRegistry[n] # None /\ FirstWith(LoadRegistry[n], v) # 0
  BY DEF Rollback
<1>2. skills \in Skills
  BY <1>1, LoadIsTyped, RolledBackKeeps
<1>3. Begin(p, new)
  BY DEF Rollback, Changes
<1> HIDE DEF skills
<1>4. e \in CommandEvents /\ e.event = "rolled-back" /\ e.name = n /\ e.to = v
  BY DEF CommandEvents, RollbackEvents
<1> HIDE DEF e
<1>5. new = [NoCommand EXCEPT !.pc = "save", !.skills = skills, !.event = e]
  OBVIOUS
<1> HIDE DEF new
<1>6. Holds(new) /\ new.pc = "save" /\ new.skills = skills /\ new.event = e
  <2>1. new \in CommandRecords /\ new.pc = "save" /\ new.skills = skills /\ new.event = e
    BY <1>2, <1>4, <1>5, NoCommandHolds DEF Holds, CommandRecords
  <2> QED
    BY <1>2, <1>4, <2>1 DEF Holds
<1> QED
  BY <1>1, <1>3, <1>4, <1>6 DEF skills

LEMMA RenderingBegins ==
  ASSUME LTypes, NEW p \in Procs, NEW n \in Names, CheckHash(p, n)
  PROVE  \E new :
           /\ Holds(new) /\ Begin(p, new) /\ LoadRegistry[n] # None
           /\ new.pc = "render" /\ new.cand = LoadRegistry[n].cand /\ new.hash = LoadRegistry[n].hash
           /\ new.raced = (imp.cand = new.cand)
           /\ cands[new.cand].at = "candidates" /\ ContentHash(new.cand) = new.hash
<1> DEFINE c == LoadRegistry[n].cand
           h == LoadRegistry[n].hash
           b == imp.cand = LoadRegistry[n].cand
           new == [NoCommand EXCEPT !.pc = "render", !.name = n, !.cand = c, !.hash = h, !.raced = b]
<1>1. LoadRegistry[n] # None /\ c \in Cand /\ h \in Hashes /\ b \in BOOLEAN
  BY LoadIsTyped DEF CheckHash
<1>2. Begin(p, new)
  BY DEF CheckHash, BeginRendering
<1>3. cands[c].at = "candidates" /\ ContentHash(c) = h
  BY DEF CheckHash
<1>4. b = (imp.cand = c)
  OBVIOUS
<1> HIDE DEF c, h, b
<1>5. new = [NoCommand EXCEPT !.pc = "render", !.name = n, !.cand = c, !.hash = h, !.raced = b]
  OBVIOUS
<1> HIDE DEF new
<1>6. Holds(new) /\ new.pc = "render" /\ new.cand = c /\ new.hash = h /\ new.raced = b
  <2>1. new \in CommandRecords /\ new.pc = "render" /\ new.cand = c /\ new.hash = h /\ new.raced = b
    BY <1>1, <1>5, NoCommandHolds DEF Holds, CommandRecords
  <2> QED
    BY <1>1, <2>1 DEF Holds
<1> QED
  BY <1>1, <1>2, <1>3, <1>4, <1>6 DEF c, h

LEMMA ImportUntouched ==
  ASSUME LTypes, UNCHANGED <<source, clock, imp, cands, faulted>>, audit' \in Seq(Events)
  PROVE  ImportTypes' /\ ImportHolds'
  BY DEF LTypes, ImportTypes, ImportHolds, Copied, Current

LEMMA WriteHashKeepsTypes ==
  ASSUME LTypes, NEW p \in Procs, WriteHash(p)
  PROVE  /\ LTypes'
         /\ \A c \in Cand :
              /\ cands'[c].at = cands[c].at
              /\ cands'[c].files[SkillMd] = cands[c].files[SkillMd]
              /\ c # cmd[p].cand => cands'[c].sha = cands[c].sha
         /\ cands'[cmd[p].cand].sha = cmd[p].hash
         /\ cands'[cmd[p].cand].files[Manifest] = cmd[p].manifest
         /\ \A f \in Package : f # Manifest => cands'[cmd[p].cand].files[f] = cands[cmd[p].cand].files[f]
         /\ \A c \in Cand : c # cmd[p].cand => cands'[c] = cands[c]
<1> DEFINE c == cmd[p].cand
           h == cmd[p].hash
           m == cmd[p].manifest
           d == [cands[c] EXCEPT !.sha = h, !.files[Manifest] = m]
<1>1. ImportTypes /\ ImportHolds
  BY DEF LTypes
<1>2. c \in Cand /\ h \in Hashes /\ m \in Seq(Nat) /\ m \in Contents /\ cmd[p].pc = "hashed"
  BY DEF LTypes, Holds, WriteHash, Contents
<1>3. cands' = [cands EXCEPT ![c] = d]
  BY DEF WriteHash
<1> HIDE DEF c, h, m
<1>4. cands[c] \in Directories /\ Manifest \in Package /\ SkillMd \in Package /\ Manifest # SkillMd
  BY <1>1, <1>2 DEF ImportTypes, Package, Manifest, SkillMd
<1>5. /\ d \in Directories /\ d.sha = h /\ d.at = cands[c].at
      /\ d.files[Manifest] = m /\ \A f \in Package : f # Manifest => d.files[f] = cands[c].files[f]
  BY <1>2, <1>4 DEF Directories
<1> HIDE DEF d
<1>6. /\ cands' \in [Cand -> Directories] /\ cands'[c] = d
      /\ \A b \in Cand : b # c => cands'[b] = cands[b]
  BY <1>1, <1>2, <1>3, <1>5 DEF ImportTypes
<1>7. UNCHANGED <<source, clock, imp, audit, faulted, registry, envelopes, alone>> /\ Goto(p, "audit")
  BY DEF WriteHash
<1>8. ImportTypes'
  BY <1>1, <1>6, <1>7 DEF ImportTypes
<1>9. ImportHolds'
  <2>1. ASSUME imp.pc = "read" PROVE Copied' \in Seq(Nat)
    <3>1. Current' = Current /\ Current.file \in Package /\ imp.cand \in Cand
      BY <1>1, <1>7, <2>1, CurrentIsTyped DEF Current, ImportHolds, Filling
    <3>2. cands[imp.cand].files[Current.file] \in Seq(Nat)
      BY <1>1, <2>1 DEF ImportHolds, Copied
    <3>3. cands'[imp.cand].files[Current.file] \in Seq(Nat)
      BY <1>2, <1>5, <1>6, <3>1, <3>2
    <3> QED
      BY <1>7, <3>1, <3>3 DEF Copied
  <2> QED
    BY <1>1, <1>7, <2>1 DEF ImportHolds
<1>10. cmd' \in [Procs -> CommandRecords] /\ \A q \in Procs : Holds(cmd'[q])
  BY <1>2, <1>7, GoesToAudit, OneMoves
<1>11. LTypes'
  BY <1>7, <1>8, <1>9, <1>10 DEF LTypes
<1> QED
  BY <1>4, <1>5, <1>6, <1>11 DEF c, h, m

\* A death touches a candidate or the registry, but no content.
LEMMA CommandDiesKeepsTypes ==
  ASSUME LTypes, NEW p \in Procs, CommandDies(p)
  PROVE  /\ LTypes' /\ ~alone'
         /\ \A c \in Cand : cands'[c].at = cands[c].at /\ cands'[c].files = cands[c].files
<1>1. ImportTypes /\ ImportHolds
  BY DEF LTypes
<1>2. /\ cands' \in [Cand -> Directories]
      /\ \A c \in Cand : cands'[c].at = cands[c].at /\ cands'[c].files = cands[c].files
      /\ registry' \in [parses : BOOLEAN, skills : Skills]
  <2>1. CASE UNCHANGED <<cands, registry>>
    BY <1>1, <2>1 DEF LTypes, ImportTypes
  <2>2. CASE registry' = [parses |-> FALSE, skills |-> [n \in Names |-> None]] /\ UNCHANGED cands
    <3>1. [n \in Names |-> None] \in Skills
      BY DEF Skills
    <3> QED
      BY <1>1, <2>2, <3>1 DEF ImportTypes
  <2>3. CASE cmd[p].pc = "hashed" /\ cands' = [cands EXCEPT ![cmd[p].cand].torn = TRUE] /\ UNCHANGED registry
    <3>1. cmd[p].cand \in Cand /\ registry' \in [parses : BOOLEAN, skills : Skills]
      BY <2>3 DEF LTypes, Holds
    <3>2. PICK c \in Cand : cands' = [cands EXCEPT ![c].torn = TRUE]
      BY <2>3, <3>1
    <3>3. cands[c] \in Directories /\ cands \in [Cand -> Directories]
      BY <1>1 DEF ImportTypes
    <3>4. /\ [cands[c] EXCEPT !.torn = TRUE] \in Directories
          /\ [cands[c] EXCEPT !.torn = TRUE].at = cands[c].at
          /\ [cands[c] EXCEPT !.torn = TRUE].files = cands[c].files
      BY <3>3 DEF Directories
    <3> QED
      BY <3>1, <3>2, <3>3, <3>4
  <2> QED
    BY <2>1, <2>2, <2>3 DEF CommandDies
<1>3. UNCHANGED <<source, clock, imp, audit, faulted, envelopes>> /\ alone' = FALSE
  BY DEF CommandDies
<1>4. ImportTypes'
  BY <1>1, <1>2, <1>3 DEF ImportTypes
<1>5. ImportHolds'
  <2>1. ASSUME imp.pc = "read" PROVE Copied' = Copied
    BY <1>1, <1>2, <1>3, <2>1 DEF Copied, Current, ImportHolds, Filling
  <2> QED
    BY <1>1, <1>3, <2>1 DEF ImportHolds
<1>6. cmd' \in [Procs -> CommandRecords] /\ \A q \in Procs : Holds(cmd'[q])
  BY NoCommandHolds, OneMoves DEF CommandDies
<1> QED
  BY <1>2, <1>3, <1>4, <1>5, <1>6 DEF LTypes

\* A command ends, or goes on to its audit, without touching the candidates.
LEMMA LaterStepsKeepTypes ==
  ASSUME LTypes, NEW p \in Procs,
         WriteHashThrows(p) \/ SaveRegistry(p) \/ AuditCommand(p) \/ ReadSkillMd(p) \/ RendersNothing(p)
  PROVE  LTypes'
<1>1. cmd' \in [Procs -> CommandRecords] /\ \A q \in Procs : Holds(cmd'[q])
  <2>1. CASE SaveRegistry(p)
    BY <2>1, GoesToAudit, OneMoves DEF SaveRegistry
  <2>2. CASE cmd' = [cmd EXCEPT ![p] = NoCommand]
    BY <2>2, NoCommandHolds, OneMoves
  <2> QED
    BY <2>1, <2>2 DEF WriteHashThrows, AuditCommand, ReadSkillMd, RendersNothing
<1>2. audit' \in Seq(Events)
  <2>1. CASE AuditCommand(p)
    <3>1. cmd[p].event \in Events
      BY <2>1 DEF AuditCommand, LTypes, Holds, Events
    <3> QED
      BY <2>1, <3>1, ImportEventsAppend DEF AuditCommand, LTypes, ImportTypes
  <2>2. CASE ~AuditCommand(p)
    BY <2>2 DEF WriteHashThrows, SaveRegistry, ReadSkillMd, RendersNothing, ingestionVars, LTypes, ImportTypes
  <2> QED
    BY <2>1, <2>2
<1>3. UNCHANGED <<source, clock, imp, cands, faulted, alone>>
  BY DEF WriteHashThrows, SaveRegistry, AuditCommand, ReadSkillMd, RendersNothing, ingestionVars
<1>4. registry' \in [parses : BOOLEAN, skills : Skills]
  <2>1. CASE SaveRegistry(p)
    <3>1. cmd[p].skills \in Skills
      BY <2>1 DEF SaveRegistry, LTypes, Holds
    <3> QED
      BY <2>1, <3>1 DEF SaveRegistry
  <2>2. CASE ~SaveRegistry(p)
    BY <2>2 DEF WriteHashThrows, AuditCommand, ReadSkillMd, RendersNothing, LTypes
  <2> QED
    BY <2>1, <2>2
<1>5. envelopes' \subseteq [cand : Cand, hash : Hashes, raced : BOOLEAN, text : Contents]
  <2>1. CASE ReadSkillMd(p)
    <3>1. cmd[p].cand \in Cand /\ cmd[p].hash \in Hashes /\ cmd[p].raced \in BOOLEAN
      BY <2>1 DEF ReadSkillMd, LTypes, Holds, CommandRecords
    <3>2. cands[cmd[p].cand].files[SkillMd] \in Contents
      BY <3>1 DEF LTypes, ImportTypes, Directories, Package
    <3> QED
      BY <2>1, <3>1, <3>2 DEF ReadSkillMd, LTypes
  <2>2. CASE ~ReadSkillMd(p)
    BY <2>2 DEF WriteHashThrows, SaveRegistry, AuditCommand, RendersNothing, LTypes
  <2> QED
    BY <2>1, <2>2
<1>6. ImportTypes' /\ ImportHolds'
  BY <1>2, <1>3, ImportUntouched
<1> QED
  BY <1>1, <1>3, <1>4, <1>5, <1>6 DEF LTypes

\* An edit marks the renderings that it races with, and changes no other command.
LEMMA EditKeepsTypes ==
  ASSUME LTypes, NEW c \in Cand, NEW f \in Package, EditCandidate(c, f)
  PROVE  /\ LTypes'
         /\ \A b \in Cand : cands'[b].sha \in {cands[b].sha, None} /\ cands'[b].at = cands[b].at
         /\ \A b \in Cand : b # c => cands'[b] = cands[b]
         /\ cands'[c].files[f] = <<clock + 1>> /\ \A g \in Package : g # f => cands'[c].files[g] = cands[c].files[g]
         /\ \A q \in Procs :
              /\ cmd'[q].pc = cmd[q].pc /\ cmd'[q].cand = cmd[q].cand /\ cmd'[q].hash = cmd[q].hash
              /\ cmd'[q].event = cmd[q].event /\ cmd'[q].skills = cmd[q].skills /\ cmd'[q].manifest = cmd[q].manifest
              /\ cmd'[q].raced = (cmd[q].raced \/ (cmd[q].pc = "render" /\ cmd[q].cand = c))
<1>1. ImportTypes /\ ImportHolds /\ imp.cand # c /\ UNCHANGED <<source, imp, audit, faulted, registry, envelopes, alone>>
  BY DEF LTypes, EditCandidate
<1>2. PICK sha \in {cands[c].sha, None} :
        cands' = [cands EXCEPT ![c].files[f] = <<clock + 1>>, ![c].sha = sha]
  BY DEF EditCandidate
<1> DEFINE v == clock + 1
           t == <<v>>
           d == [cands[c] EXCEPT !.files[f] = t, !.sha = sha]
<1>3. v \in Nat /\ clock' = v /\ t \in Contents
  BY <1>1 DEF EditCandidate, ImportTypes, Contents
<1>4. cands' = [cands EXCEPT ![c] = d]
  BY <1>2
<1> HIDE DEF v, t
<1>5. cands[c] \in Directories /\ sha \in {None} \cup Hashes
  BY <1>1 DEF ImportTypes, Directories
<1>6. d \in Directories /\ d.sha = sha /\ d.at = cands[c].at
      /\ d.files[f] = t /\ \A g \in Package : g # f => d.files[g] = cands[c].files[g]
  BY <1>3, <1>5 DEF Directories
<1> HIDE DEF d
<1>7. /\ cands' \in [Cand -> Directories] /\ cands'[c] = d
      /\ \A b \in Cand : b # c => cands'[b] = cands[b]
  BY <1>1, <1>4, <1>6 DEF ImportTypes
<1>8. ImportTypes'
  BY <1>1, <1>3, <1>7 DEF ImportTypes
<1>9. ImportHolds'
  <2>1. ASSUME imp.pc = "read" PROVE Copied' = Copied
    BY <1>1, <1>7, <2>1 DEF Copied, Current, ImportHolds, Filling
  <2> QED
    BY <1>1, <2>1 DEF ImportHolds
<1>10. ASSUME NEW q \in Procs
       PROVE  /\ cmd'[q] \in CommandRecords /\ Holds(cmd'[q])
              /\ cmd'[q].pc = cmd[q].pc /\ cmd'[q].cand = cmd[q].cand /\ cmd'[q].hash = cmd[q].hash
              /\ cmd'[q].event = cmd[q].event /\ cmd'[q].skills = cmd[q].skills /\ cmd'[q].manifest = cmd[q].manifest
              /\ cmd'[q].raced = (cmd[q].raced \/ (cmd[q].pc = "render" /\ cmd[q].cand = c))
  <2> DEFINE b == cmd[q].raced \/ (cmd[q].pc = "render" /\ cmd[q].cand = c)
             new == [cmd[q] EXCEPT !.raced = b]
  <2>1. cmd'[q] = new
    BY DEF EditCandidate
  <2>2. Holds(cmd[q]) /\ cmd[q] \in CommandRecords
    BY DEF LTypes, Holds
  <2>3. b \in BOOLEAN
    BY <2>2 DEF CommandRecords
  <2> HIDE DEF b
  <2>4. /\ new \in CommandRecords
        /\ new.pc = cmd[q].pc /\ new.cand = cmd[q].cand /\ new.hash = cmd[q].hash
        /\ new.event = cmd[q].event /\ new.skills = cmd[q].skills /\ new.manifest = cmd[q].manifest
        /\ new.raced = b
    BY <2>2, <2>3 DEF CommandRecords
  <2> HIDE DEF new
  <2>5. Holds(new)
    BY <2>2, <2>4 DEF Holds
  <2> QED
    BY <2>1, <2>4, <2>5 DEF b
<1>11. cmd' \in [Procs -> CommandRecords]
  <2>1. cmd' = [q \in Procs |-> cmd'[q]]
    BY DEF EditCandidate
  <2> QED
    BY <1>10, <2>1
<1>12. LTypes'
  BY <1>1, <1>8, <1>9, <1>10, <1>11 DEF LTypes
<1> QED
  BY <1>6, <1>7, <1>10, <1>12 DEF t, v

LEMMA NextKeepsTypes ==
  ASSUME LTypes, [Next]_vars
  PROVE  LTypes'
<1>1. CASE ImportStep /\ UNCHANGED lifecycleVars
  <2>1. ImportTypes' /\ ImportHolds'
    BY <1>1, ImportKeepsTypes DEF LTypes
  <2> QED
    BY <1>1, <2>1 DEF LTypes, lifecycleVars
<1>2. CASE \E p \in Procs : CommandStep(p)
  <2>1. PICK p \in Procs : CommandStep(p)
    BY <1>2
  <2>2. CASE \E c \in Cand : Validate(p, c)
    BY <2>2, ValidateBegins, BeginKeepsTypes DEF Validate
  <2>3. CASE \E c \in Cand : Promote(p, c)
    <3>1. PICK c \in Cand : Promote(p, c)
      BY <2>3
    <3>2. PICK new : Holds(new) /\ Begin(p, new)
      BY <3>1, PromoteBegins
    <3> QED
      BY <3>1, <3>2, BeginKeepsTypes DEF Promote, Changes
  <2>4. CASE \E n \in Names : Disable(p, n)
    <3>1. PICK n \in Names : Disable(p, n)
      BY <2>4
    <3>2. PICK new : Holds(new) /\ Begin(p, new)
      BY <3>1, DisableBegins
    <3> QED
      BY <3>1, <3>2, BeginKeepsTypes DEF Disable, Changes
  <2>5. CASE \E n \in Names : CheckHash(p, n)
    BY <2>5, RenderingBegins, BeginKeepsTypes DEF CheckHash
  <2>6. CASE \E n \in Names, v \in 1..Len(audit) : Rollback(p, n, v)
    <3>1. PICK n \in Names, v \in 1..Len(audit) : Rollback(p, n, v)
      BY <2>6
    <3>2. v \in Nat
      BY DEF LTypes, ImportTypes
    <3> QED
      <4>1. PICK new : Holds(new) /\ Begin(p, new)
        BY <3>1, <3>2, RollbackBegins
      <4> QED
        BY <3>1, <4>1, BeginKeepsTypes DEF Rollback, Changes
  <2>7. CASE WriteHash(p)
    BY <2>7, WriteHashKeepsTypes
  <2>8. CASE CommandDies(p)
    BY <2>8, CommandDiesKeepsTypes
  <2> QED
    BY <2>1, <2>2, <2>3, <2>4, <2>5, <2>6, <2>7, <2>8, LaterStepsKeepTypes DEF CommandStep
<1>3. CASE \E c \in Cand, f \in Package : EditCandidate(c, f)
  BY <1>3, EditKeepsTypes
<1>4. CASE UNCHANGED vars
  BY <1>4 DEF vars, ingestionVars, lifecycleVars, LTypes, ImportTypes, ImportHolds, Copied, Current
<1> QED
  BY <1>1, <1>2, <1>3, <1>4 DEF Next

LEMMA InitTypes ==
  ASSUME Init
  PROVE  LTypes
<1>1. ImportTypes /\ ImportHolds
  BY InitImport DEF Init
<1>2. registry \in [parses : BOOLEAN, skills : Skills]
  <2>1. [n \in Names |-> None] \in Skills
    BY DEF Skills
  <2> QED
    BY <2>1 DEF Init
<1>3. cmd \in [Procs -> CommandRecords] /\ \A p \in Procs : Holds(cmd[p])
  BY NoCommandHolds DEF Init, Holds
<1> QED
  BY <1>1, <1>2, <1>3 DEF Init, LTypes

------------------------------------------------------------------------------
(* What is said in the audit log stays said.                               *)

LogGrows == audit' = audit \/ \E e \in Events : audit' = Append(audit, e)
ImportsAreTold == audit' = audit \/ \E e \in ImportEvents : audit' = Append(audit, e)

LEMMA LogKeeps ==
  ASSUME audit \in Seq(Events), LogGrows
  PROVE  \A c, h : (Evaluated(c, h) => Evaluated(c, h)') /\ (Validated(c, h) => Validated(c, h)')
<1>1. \A i \in DOMAIN audit : i \in DOMAIN audit' /\ audit'[i] = audit[i]
  BY DEF LogGrows
<1> QED
  BY <1>1 DEF Evaluated, Validated

LEMMA CommandAppends ==
  ASSUME LTypes, NEW p \in Procs, AuditCommand(p)
  PROVE  /\ LogGrows
         /\ \A c, h : Evaluating(p, c, h) => Evaluated(c, h)'
         /\ \A c, h : cmd[p].event.event = "promoted" /\ cmd[p].event.hash = h /\ cmd[p].event.cand = c
                      /\ Evaluated(c, h) => Validated(c, h)'
<1> DEFINE e == cmd[p].event
           n == Len(audit) + 1
<1>1. e \in Events /\ audit \in Seq(Events) /\ audit' = Append(audit, e)
  BY DEF AuditCommand, Audit, LTypes, Holds, Events, ImportTypes
<1> HIDE DEF e
<1>2. n \in DOMAIN audit' /\ audit'[n] = e /\ \A i \in DOMAIN audit : i < n /\ i \in DOMAIN audit' /\ audit'[i] = audit[i]
  BY <1>1
<1> HIDE DEF n
<1>3. \A c, h : Evaluating(p, c, h) => Evaluated(c, h)'
  BY <1>2 DEF Evaluating, Evaluated, e
<1>4. \A c, h : e.event = "promoted" /\ e.hash = h /\ e.cand = c /\ Evaluated(c, h) => Validated(c, h)'
  BY <1>2 DEF Evaluated, Validated
<1> QED
  BY <1>1, <1>3, <1>4 DEF LogGrows, e

LEMMA ImportAppends ==
  ASSUME LTypes, ImportStep
  PROVE  ImportsAreTold /\ LogGrows /\ \A c \in Cand : cands'[c].sha \in {cands[c].sha, None}
<1> SUFFICES ImportsAreTold /\ \A c \in Cand : cands'[c].sha \in {cands[c].sha, None}
  BY RejectionIsTold DEF ImportsAreTold, LogGrows
<1>1. cands \in [Cand -> Directories] /\ (imp.pc \in Filling <=> imp.cand \in Cand)
  BY DEF LTypes, ImportTypes, ImportHolds
<1>2. Removed.sha = None
  BY NoDirectoryIsTyped
<1>3. CASE RejectCopy /\ imp.cand \in Cand
  <2>1. ImportsAreTold
    BY <1>3, RejectionIsTold DEF RejectCopy, Audit, ImportsAreTold
  <2>2. PICK removed \in BOOLEAN : cands' = [cands EXCEPT ![imp.cand] = IF removed THEN Removed ELSE @]
    BY <1>3 DEF RejectCopy
  <2> QED
    BY <1>1, <1>2, <1>3, <2>1, <2>2
<1>4. CASE UNCHANGED <<cands, audit>>
  BY <1>4 DEF ImportsAreTold
<1>5. CASE \E f \in Package : EditFile(f) \/ ReplaceFile(f)
  BY <1>4, <1>5 DEF EditFile, ReplaceFile
<1>6. CASE \E f \in Package : Walk(f)
  BY <1>6, RejectionIsTold DEF Walk, Audit, ImportsAreTold
<1>7. CASE RefuseRoot
  BY <1>7, RejectionIsTold DEF RefuseRoot, Audit, ImportsAreTold
<1>8. CASE \E c \in Cand : CreateSnapshot(c)
  BY <1>1, <1>8 DEF CreateSnapshot, ImportsAreTold, Directories
<1>9. CASE \E f \in Package : \E t : cands' = [cands EXCEPT ![imp.cand].files[f] = t] /\ UNCHANGED audit
  BY <1>1, <1>9 DEF ImportsAreTold, Directories
<1>10. CASE OpenSource
  <2>1. Current.file \in Package /\ imp.cand \in Cand
    BY <1>1, <1>10, CurrentIsTyped DEF OpenSource, LTypes, Filling
  <2> QED
    BY <1>3, <1>9, <1>10, <2>1 DEF OpenSource
<1>11. CASE ReadChunk
  <2>1. Current.file \in Package /\ imp.cand \in Cand
    BY <1>1, <1>11, CurrentIsTyped DEF ReadChunk, LTypes, ImportHolds, Filling
  <2>2. CASE cands' = [cands EXCEPT ![imp.cand].files[Current.file] = Append(@, Handle.version)] /\ UNCHANGED audit
    BY <1>1, <2>1, <2>2 DEF ImportsAreTold, Directories
  <2> QED
    BY <1>3, <1>4, <1>11, <2>1, <2>2 DEF ReadChunk
<1>12. CASE FinishFile
  BY <1>1, <1>3, <1>4, <1>12 DEF FinishFile, Filling
<1>13. CASE Gate1
  <2>1. imp.cand \in Cand
    BY <1>1, <1>13 DEF Gate1, Filling
  <2>2. CASE ~UNCHANGED <<cands, audit>>
    <3>1. ImportsAreTold
      BY <1>13, <2>1, <2>2, RejectionIsTold DEF Gate1, Audit, ImportsAreTold
    <3>2. PICK moved \in BOOLEAN : cands' = [cands EXCEPT ![imp.cand].at = IF moved THEN "quarantine" ELSE @]
      BY <1>13, <2>2 DEF Gate1
    <3> QED
      BY <1>1, <2>1, <3>1, <3>2 DEF Directories
  <2> QED
    BY <1>4, <2>2
<1>14. CASE WriteMeta
  BY <1>9, <1>14 DEF WriteMeta, Package
<1>15. CASE AuditImport
  <2>1. imp.cand \in Cand
    BY <1>1, <1>15 DEF AuditImport, Filling
  <2>2. [event |-> "imported", name |-> NameOf[imp.cand], cand |-> imp.cand] \in ImportEvents
    BY <2>1, IngestionAssumption DEF ImportEvents
  <2> QED
    BY <1>15, <2>2 DEF AuditImport, Audit, ImportsAreTold
<1>16. CASE ReadDirectory \/ ImportDies
  BY <1>4, <1>16 DEF ReadDirectory, ImportDies
<1> QED
  BY <1>5, <1>6, <1>7, <1>8, <1>10, <1>11, <1>12, <1>13, <1>14, <1>15, <1>16 DEF ImportStep

------------------------------------------------------------------------------
(* Evidence is kept.                                                       *)

LEMMA VouchedStays ==
  ASSUME \A c, h : Vouched(c, h) => Vouched(c, h)', NEW skills, VouchedFor(skills)
  PROVE  VouchedFor(skills)'
  BY DEF VouchedFor, Versions, Archived

\* Nobody else is at work when a lone command begins: everything is in the log.
LEMMA AloneInTheLog ==
  ASSUME LTypes, Evidence, alone, \A q \in Procs : cmd[q].pc = "idle"
  PROVE  /\ \A c \in Cand : cands[c].sha # None => Evaluated(c, cands[c].sha)
         /\ \A n \in Names : LoadRegistry[n] # None =>
              \A e \in Versions(LoadRegistry[n]) : Validated(e.cand, e.hash)
         /\ \A c, h : Vouched(c, h) => Validated(c, h)
<1>1. \A c, h : Vouched(c, h) => Validated(c, h)
  BY DEF Vouched, Promoting
<1>2. \A c \in Cand : cands[c].sha # None => Evaluated(c, cands[c].sha)
  BY DEF Evidence, CandidatesShow, Evaluating
<1>3. \A n \in Names : LoadRegistry[n] # None => LoadRegistry[n] = registry.skills[n]
  BY DEF LoadRegistry
<1>4. VouchedFor(registry.skills)
  BY DEF Evidence
<1> QED
  BY <1>1, <1>2, <1>3, <1>4 DEF VouchedFor

LEMMA BeginShows ==
  ASSUME LTypes, Evidence, NEW p \in Procs, NEW new, Holds(new), Begin(p, new),
         UNCHANGED <<source, clock, imp, cands, audit, faulted, registry, envelopes>>,
         new.pc # "audit",
         alone' /\ new.pc = "save" => VouchedFor(new.skills)',
         alone' /\ new.pc = "render" => Validated(new.cand, new.hash)
  PROVE  Evidence'
<1> SUFFICES ASSUME alone' PROVE (CandidatesShow /\ VouchedFor(registry.skills) /\ CommandsShow /\ EnvelopesShow)'
  BY DEF Evidence
<1>1. alone /\ (\A q \in Procs : cmd[q].pc = "idle") /\ cmd' = [cmd EXCEPT ![p] = new]
  BY DEF Begin
<1>2. cmd'[p] = new /\ \A q \in Procs : q # p => cmd'[q] = cmd[q]
  BY <1>1, OneMoves
<1>3. \A c, h : (Evaluated(c, h) => Evaluated(c, h)') /\ (Validated(c, h) => Validated(c, h)')
  BY LogKeeps DEF LogGrows, LTypes, ImportTypes
<1>4. CandidatesShow'
  BY <1>1, <1>3, AloneInTheLog DEF CandidatesShow
<1>5. \A c, h : Vouched(c, h) => Vouched(c, h)'
  BY <1>1, <1>3, AloneInTheLog DEF Vouched
<1>6. VouchedFor(registry.skills)'
  BY <1>1, <1>5, VouchedStays DEF Evidence
<1>7. CommandsShow'
  BY <1>1, <1>2, <1>3 DEF CommandsShow
<1>8. EnvelopesShow'
  BY <1>1, <1>3 DEF Evidence, EnvelopesShow
<1> QED
  BY <1>4, <1>6, <1>7, <1>8

LEMMA BeginningsShow ==
  ASSUME LTypes, Evidence, NEW p \in Procs,
         \/ \E c \in Cand : Validate(p, c) \/ Promote(p, c)
         \/ \E n \in Names : \/ Disable(p, n) \/ CheckHash(p, n)
                             \/ \E v \in 1..Len(audit) : Rollback(p, n, v)
  PROVE  Evidence'
<1>1. CASE \E c \in Cand : Validate(p, c)
  BY <1>1, ValidateBegins, BeginShows DEF Validate
<1>2. CASE \E c \in Cand : Promote(p, c)
  <2>1. PICK c \in Cand : Promote(p, c)
    BY <1>2
  <2>2. PICK new : /\ Holds(new) /\ Begin(p, new)
                   /\ cands[c].sha # None
                   /\ new.pc = "save" /\ new.skills = Promoted(LoadRegistry, NameOf[c], c, cands[c].sha)
                   /\ new.event.event = "promoted" /\ new.event.cand = c /\ new.event.hash = cands[c].sha
    BY <2>1, PromoteBegins
  <2>3. UNCHANGED <<source, clock, imp, cands, audit, faulted, registry, envelopes>>
    BY <2>1 DEF Promote, Changes
  <2>4. ASSUME alone' PROVE VouchedFor(new.skills)'
    <3>1. alone /\ (\A q \in Procs : cmd[q].pc = "idle") /\ cmd'[p] = new
      BY <2>2, <2>4, OneMoves DEF Begin
    <3>2. \A c1, h1 : (Evaluated(c1, h1) => Evaluated(c1, h1)') /\ (Validated(c1, h1) => Validated(c1, h1)')
      BY <2>3, LogKeeps DEF LogGrows, LTypes, ImportTypes
    <3>3. Vouched(c, cands[c].sha)'
      BY <2>2, <2>3, <3>1, <3>2, AloneInTheLog DEF Vouched, Promoting
    <3>4. NameOf[c] \in Names /\ cands[c].sha \in Hashes
      BY <2>2, IngestionAssumption DEF LTypes, ImportTypes, Directories
    <3>5. ASSUME NEW n \in Names, new.skills[n] # None, NEW e \in Versions(new.skills[n])
          PROVE  Vouched(e.cand, e.hash)'
      <4>1. \/ e.cand = c /\ e.hash = cands[c].sha
            \/ LoadRegistry[n] # None /\ e \in Versions(LoadRegistry[n])
        BY <2>2, <3>4, <3>5, LoadIsTyped, PromotedKeeps
      <4>2. CASE e.cand = c /\ e.hash = cands[c].sha
        BY <2>3, <3>3, <4>2
      <4>3. CASE LoadRegistry[n] # None /\ e \in Versions(LoadRegistry[n])
        BY <3>1, <3>2, <4>3, AloneInTheLog DEF Vouched
      <4> QED
        BY <4>1, <4>2, <4>3
    <3> QED
      BY <3>5 DEF VouchedFor, Versions, Archived
  <2> QED
    BY <2>2, <2>3, <2>4, BeginShows
<1>3. ASSUME NEW new, Holds(new), Begin(p, new), new.pc = "save",
             UNCHANGED <<source, clock, imp, cands, audit, faulted, registry, envelopes>>,
             \A n \in Names : new.skills[n] # None =>
               LoadRegistry[n] # None /\ Versions(new.skills[n]) \subseteq Versions(LoadRegistry[n])
      PROVE  Evidence'
  <2>1. ASSUME alone' PROVE VouchedFor(new.skills)'
    <3>1. alone /\ \A q \in Procs : cmd[q].pc = "idle"
      BY <1>3, <2>1 DEF Begin
    <3>2. \A c, h : Validated(c, h) => Validated(c, h)'
      BY <1>3, LogKeeps DEF LogGrows, LTypes, ImportTypes
    <3>3. ASSUME NEW n \in Names, new.skills[n] # None, NEW e \in Versions(new.skills[n])
          PROVE  Vouched(e.cand, e.hash)'
      BY <1>3, <3>1, <3>2, <3>3, AloneInTheLog DEF Vouched
    <3> QED
      BY <3>3 DEF VouchedFor, Versions, Archived
  <2> QED
    BY <1>3, <2>1, BeginShows
<1>4. CASE \E n \in Names : Disable(p, n)
  <2>1. PICK n \in Names : Disable(p, n)
    BY <1>4
  <2>2. PICK new : /\ Holds(new) /\ Begin(p, new) /\ LoadRegistry[n] # None
                   /\ new.pc = "save" /\ new.skills = Disabled(LoadRegistry, n)
    BY <2>1, DisableBegins
  <2>3. UNCHANGED <<source, clock, imp, cands, audit, faulted, registry, envelopes>>
    BY <2>1 DEF Disable, Changes
  <2>4. \A m \in Names : new.skills[m] # None =>
          LoadRegistry[m] # None /\ Versions(new.skills[m]) \subseteq Versions(LoadRegistry[m])
    BY <2>2, LoadIsTyped, DisabledKeeps
  <2> QED
    BY <1>3, <2>2, <2>3, <2>4
<1>5. CASE \E n \in Names, v \in 1..Len(audit) : Rollback(p, n, v)
  <2>1. PICK n \in Names, v \in 1..Len(audit) : Rollback(p, n, v)
    BY <1>5
  <2>2. v \in Nat
    BY DEF LTypes, ImportTypes
  <2>3. PICK new : /\ Holds(new) /\ Begin(p, new)
                   /\ LoadRegistry[n] # None /\ FirstWith(LoadRegistry[n], v) # 0
                   /\ new.pc = "save" /\ new.skills = RolledBack(LoadRegistry, n, v)
    BY <2>1, <2>2, RollbackBegins
  <2>4. UNCHANGED <<source, clock, imp, cands, audit, faulted, registry, envelopes>>
    BY <2>1 DEF Rollback, Changes
  <2>5. \A m \in Names : new.skills[m] # None =>
          LoadRegistry[m] # None /\ Versions(new.skills[m]) \subseteq Versions(LoadRegistry[m])
    <3>1. LoadRegistry \in Skills
      BY LoadIsTyped
    <3>2. \A m \in Names : RolledBack(LoadRegistry, n, v)[m] # None =>
            LoadRegistry[m] # None /\ Versions(RolledBack(LoadRegistry, n, v)[m]) \subseteq Versions(LoadRegistry[m])
      BY <2>3, <3>1, RolledBackKeeps
    <3> QED
      BY <2>3, <3>2
  <2> QED
    BY <1>3, <2>3, <2>4, <2>5
<1>6. CASE \E n \in Names : CheckHash(p, n)
  <2>1. PICK n \in Names : CheckHash(p, n)
    BY <1>6
  <2>2. PICK new : /\ Holds(new) /\ Begin(p, new) /\ LoadRegistry[n] # None
                   /\ new.pc = "render" /\ new.cand = LoadRegistry[n].cand /\ new.hash = LoadRegistry[n].hash
    BY <2>1, RenderingBegins
  <2>3. UNCHANGED <<source, clock, imp, cands, audit, faulted, registry, envelopes>>
    BY <2>1 DEF CheckHash
  <2>4. ASSUME alone' PROVE Validated(new.cand, new.hash)
    <3>1. alone /\ \A q \in Procs : cmd[q].pc = "idle"
      BY <2>2, <2>4 DEF Begin
    <3>2. Archived(LoadRegistry[n]) \in Versions(LoadRegistry[n])
      BY DEF Versions
    <3>3. Archived(LoadRegistry[n]).cand = new.cand /\ Archived(LoadRegistry[n]).hash = new.hash
      BY <2>2 DEF Archived
    <3> QED
      BY <2>2, <3>1, <3>2, <3>3, AloneInTheLog
  <2> QED
    BY <2>2, <2>3, <2>4, BeginShows
<1> QED
  BY <1>1, <1>2, <1>4, <1>5, <1>6

\* A step that writes no log entry, begins nothing and touches no recorded hash.
LEMMA ImportShows ==
  ASSUME LTypes, Evidence, LogGrows, UNCHANGED <<registry, envelopes, alone>>,
         \A c \in Cand : cands'[c].sha \in {cands[c].sha, None},
         \A q \in Procs : /\ cmd'[q].pc = cmd[q].pc /\ cmd'[q].cand = cmd[q].cand
                          /\ cmd'[q].hash = cmd[q].hash /\ cmd'[q].event = cmd[q].event
                          /\ cmd'[q].skills = cmd[q].skills
  PROVE  Evidence'
<1> SUFFICES ASSUME alone' PROVE (CandidatesShow /\ VouchedFor(registry.skills) /\ CommandsShow /\ EnvelopesShow)'
  BY DEF Evidence
<1>1. \A c, h : (Evaluated(c, h) => Evaluated(c, h)') /\ (Validated(c, h) => Validated(c, h)')
  BY LogKeeps DEF LTypes, ImportTypes
<1>2. \A c, h : Vouched(c, h) => Vouched(c, h)'
  BY <1>1 DEF Vouched, Promoting
<1>3. CandidatesShow'
  BY <1>1 DEF Evidence, CandidatesShow, Evaluating
<1>4. VouchedFor(registry.skills)'
  BY <1>2, VouchedStays DEF Evidence
<1>5. CommandsShow'
  <2>1. ASSUME NEW q \in Procs, cmd'[q].pc = "save" PROVE VouchedFor(cmd[q].skills)'
    BY <2>1, <1>2 DEF Evidence, CommandsShow, VouchedFor, Versions, Archived
  <2> QED
    BY <1>1, <2>1 DEF Evidence, CommandsShow
<1>6. EnvelopesShow'
  BY <1>1 DEF Evidence, EnvelopesShow
<1> QED
  BY <1>3, <1>4, <1>5, <1>6

LEMMA LaterStepsShow ==
  ASSUME LTypes, Evidence, NEW p \in Procs,
         \/ WriteHash(p) \/ WriteHashThrows(p) \/ SaveRegistry(p) \/ AuditCommand(p)
         \/ ReadSkillMd(p) \/ RendersNothing(p)
  PROVE  Evidence'
<1> SUFFICES ASSUME alone' PROVE (CandidatesShow /\ VouchedFor(registry.skills) /\ CommandsShow /\ EnvelopesShow)'
  BY DEF Evidence
<1>1. alone' = alone
  BY DEF WriteHash, WriteHashThrows, SaveRegistry, AuditCommand, ReadSkillMd, RendersNothing
<1>2. LogGrows
  <2>1. CASE AuditCommand(p)
    BY <2>1, CommandAppends
  <2>2. CASE ~AuditCommand(p)
    BY <2>2 DEF WriteHash, WriteHashThrows, SaveRegistry, ReadSkillMd, RendersNothing, ingestionVars, LogGrows
  <2> QED
    BY <2>1, <2>2
<1>3. \A c, h : (Evaluated(c, h) => Evaluated(c, h)') /\ (Validated(c, h) => Validated(c, h)')
  BY <1>2, LogKeeps DEF LTypes, ImportTypes
<1>4. \A q \in Procs : q # p => cmd'[q] = cmd[q]
  <2>1. CASE cmd' = [cmd EXCEPT ![p] = NoCommand]
    BY <2>1, NoCommandHolds, OneMoves
  <2>2. CASE WriteHash(p) \/ SaveRegistry(p)
    BY <2>2, GoesToAudit, OneMoves DEF WriteHash, SaveRegistry
  <2> QED
    BY <2>1, <2>2 DEF WriteHashThrows, AuditCommand, ReadSkillMd, RendersNothing
<1>5. cmd'[p].pc \in {"idle", "audit"}
  <2>1. CASE cmd' = [cmd EXCEPT ![p] = NoCommand]
    BY <2>1, NoCommandHolds, OneMoves
  <2>2. CASE WriteHash(p) \/ SaveRegistry(p)
    BY <2>2, GoesToAudit DEF WriteHash, SaveRegistry
  <2> QED
    BY <2>1, <2>2 DEF WriteHashThrows, AuditCommand, ReadSkillMd, RendersNothing
<1>6. \A c, h : Promoting(p, c, h) => Validated(c, h)' \/ Promoting(p, c, h)'
  <2>1. CASE SaveRegistry(p)
    <3>1. cmd'[p].pc = "audit" /\ cmd'[p].event = cmd[p].event
      BY <2>1, GoesToAudit DEF SaveRegistry
    <3> QED
      BY <1>3, <3>1 DEF Promoting
  <2>2. CASE AuditCommand(p)
    BY <2>2, CommandAppends DEF Promoting
  <2>3. CASE cmd[p].pc \notin {"save", "audit"}
    BY <2>3 DEF Promoting
  <2> QED
    BY <2>1, <2>2, <2>3 DEF WriteHash, WriteHashThrows, ReadSkillMd, RendersNothing
<1>7. \A c, h : Vouched(c, h) => Vouched(c, h)'
  <2>1. ASSUME NEW c, NEW h, NEW q \in Procs, Promoting(q, c, h) PROVE Vouched(c, h)'
    BY <1>3, <1>4, <1>6, <2>1 DEF Vouched, Promoting
  <2> QED
    BY <1>3, <2>1 DEF Vouched
<1>8. CandidatesShow'
  <2>1. \A c, h : (\E q \in Procs : Evaluating(q, c, h)) =>
          Evaluated(c, h)' \/ \E q \in Procs : Evaluating(q, c, h)'
    <3>1. ASSUME NEW c, NEW h, NEW q \in Procs, Evaluating(q, c, h), q # p PROVE Evaluating(q, c, h)'
      BY <1>4, <3>1 DEF Evaluating
    <3>2. ASSUME NEW c, NEW h, Evaluating(p, c, h) PROVE Evaluated(c, h)'
      <4>1. AuditCommand(p)
        BY <3>2 DEF Evaluating, WriteHash, WriteHashThrows, SaveRegistry, ReadSkillMd, RendersNothing
      <4> QED
        BY <3>2, <4>1, CommandAppends
    <3> QED
      BY <3>1, <3>2
  <2>2. ASSUME NEW c \in Cand, NEW h, h # None, cands[c].sha = h
        PROVE  Evaluated(c, h)' \/ \E q \in Procs : Evaluating(q, c, h)'
    BY <1>1, <1>3, <2>1, <2>2 DEF Evidence, CandidatesShow
  <2>3. ASSUME NEW c \in Cand, NEW h, h # None, cands'[c].sha = h
        PROVE  Evaluated(c, h)' \/ \E q \in Procs : Evaluating(q, c, h)'
    <3>1. CASE cands'[c].sha = cands[c].sha
      BY <2>2, <2>3, <3>1
    <3>2. CASE cands'[c].sha # cands[c].sha
      <4>1. WriteHash(p)
        BY <3>2 DEF WriteHashThrows, SaveRegistry, AuditCommand, ReadSkillMd, RendersNothing, ingestionVars
      <4>2. c = cmd[p].cand /\ h = cmd[p].hash
        BY <2>3, <3>2, <4>1, WriteHashKeepsTypes
      <4>3. cmd'[p].pc = "audit" /\ cmd'[p].event = cmd[p].event
        BY <4>1, GoesToAudit DEF WriteHash
      <4>4. cmd[p].event.event = "evaluated" /\ cmd[p].event.cand = c /\ cmd[p].event.hash = h
        BY <4>1, <4>2 DEF WriteHash, LTypes, Holds, EvaluationEvents
      <4>5. Evaluating(p, c, h)'
        BY <4>3, <4>4 DEF Evaluating
      <4> QED
        BY <4>5
    <3> QED
      BY <3>1, <3>2
  <2> QED
    BY <2>3 DEF CandidatesShow
<1>9. VouchedFor(registry.skills)'
  <2>1. CASE SaveRegistry(p)
    <3>1. VouchedFor(cmd[p].skills)
      BY <1>1, <2>1 DEF Evidence, CommandsShow, SaveRegistry
    <3>2. registry'.skills = cmd[p].skills
      BY <2>1 DEF SaveRegistry
    <3> QED
      BY <1>7, <3>1, <3>2 DEF VouchedFor, Versions, Archived
  <2>2. CASE UNCHANGED registry
    BY <1>1, <1>7, <2>2 DEF Evidence, VouchedFor, Versions, Archived
  <2> QED
    BY <2>1, <2>2 DEF WriteHash, WriteHashThrows, AuditCommand, ReadSkillMd, RendersNothing
<1>10. CommandsShow'
  <2>1. ASSUME NEW q \in Procs, cmd'[q].pc \in {"save", "render"} PROVE q # p /\ cmd'[q] = cmd[q]
    BY <1>4, <1>5, <2>1
  <2>2. ASSUME NEW q \in Procs, NEW skills, cmd'[q].pc = "save", skills = cmd'[q].skills
        PROVE  VouchedFor(skills)'
    <3>1. VouchedFor(skills)
      BY <1>1, <2>1, <2>2 DEF Evidence, CommandsShow
    <3> QED
      BY <1>7, <3>1, VouchedStays
  <2>3. ASSUME NEW q \in Procs, NEW c, NEW h, cmd'[q].pc = "render", c = cmd'[q].cand, h = cmd'[q].hash
        PROVE  Validated(c, h)'
    BY <1>1, <1>3, <2>1, <2>3 DEF Evidence, CommandsShow
  <2> QED
    BY <2>2, <2>3 DEF CommandsShow
<1>11. EnvelopesShow'
  <2>1. CASE ReadSkillMd(p)
    BY <1>1, <1>3, <2>1 DEF ReadSkillMd, Evidence, EnvelopesShow, CommandsShow
  <2>2. CASE UNCHANGED envelopes
    BY <1>1, <1>3, <2>2 DEF Evidence, EnvelopesShow
  <2> QED
    BY <2>1, <2>2 DEF WriteHash, WriteHashThrows, SaveRegistry, AuditCommand, RendersNothing
<1> QED
  BY <1>8, <1>9, <1>10, <1>11

------------------------------------------------------------------------------
(* The text that is read is the one whose hash was compared.               *)

\* An import writes to no candidate but its own, and takes none that exists.
LEMMA ImportIsConfined ==
  ASSUME LTypes, ImportStep, NEW c \in Cand, imp.cand # c, cands[c].at # "none"
  PROVE  imp'.cand # c /\ cands'[c] = cands[c]
<1>1. cands \in [Cand -> Directories] /\ imp \in ImportRecords /\ None # c
      /\ Idle.cand = None /\ NoDirectory.at = "none"
  BY IngestionAssumption, IdleIsTyped DEF LTypes, ImportTypes, NoDirectory
<1>2. CASE RejectCopy
  BY <1>1, <1>2 DEF RejectCopy
<1>3. CASE \E f \in Package : EditFile(f) \/ ReplaceFile(f)
  BY <1>3 DEF EditFile, ReplaceFile
<1>4. CASE \E f \in Package : Walk(f)
  BY <1>1, <1>4 DEF Walk, ImportRecords
<1>5. CASE RefuseRoot \/ ReadDirectory
  BY <1>1, <1>5 DEF RefuseRoot, ReadDirectory, Idle
<1>6. CASE \E b \in Cand : CreateSnapshot(b)
  BY <1>1, <1>6 DEF CreateSnapshot, ImportRecords
<1>7. CASE OpenSource
  BY <1>1, <1>2, <1>7 DEF OpenSource, ImportRecords
<1>8. CASE ReadChunk
  BY <1>1, <1>2, <1>8 DEF ReadChunk, ImportRecords
<1>9. CASE FinishFile
  <2>1. imp'.cand = imp.cand \/ imp' = Idle
    BY <1>1, <1>9 DEF FinishFile, RejectCopy, ImportRecords
  <2> QED
    BY <1>1, <1>2, <1>9, <2>1 DEF FinishFile
<1>10. CASE Gate1
  BY <1>1, <1>10 DEF Gate1, ImportRecords
<1>11. CASE WriteMeta \/ AuditImport \/ ImportDies
  BY <1>1, <1>11 DEF WriteMeta, AuditImport, ImportDies, ImportRecords
<1> QED
  BY <1>3, <1>4, <1>5, <1>6, <1>7, <1>8, <1>9, <1>10, <1>11 DEF ImportStep

LEMMA ComparisonStays ==
  ASSUME LTypes, StillCompared, NEW q \in Procs, cmd[q].pc = "render", ~cmd[q].raced,
         cmd'[q].cand = cmd[q].cand, cmd'[q].hash = cmd[q].hash, NEW c, c = cmd[q].cand,
         imp'.cand # c, cands'[c].at # "none", cands'[c].files[SkillMd] = cands[c].files[SkillMd]
  PROVE  /\ imp'.cand # cmd'[q].cand /\ cands'[cmd'[q].cand].at # "none"
         /\ cands'[cmd'[q].cand].files[SkillMd] = cmd'[q].hash[SkillMd]
  BY DEF StillCompared

LEMMA NextCompares ==
  ASSUME LTypes, StillCompared, [Next]_vars
  PROVE  StillCompared'
<1> SUFFICES ASSUME NEW q \in Procs, cmd'[q].pc = "render", ~cmd'[q].raced
             PROVE  /\ imp'.cand # cmd'[q].cand /\ cands'[cmd'[q].cand].at # "none"
                    /\ cands'[cmd'[q].cand].files[SkillMd] = cmd'[q].hash[SkillMd]
  BY DEF StillCompared
<1> DEFINE c == cmd[q].cand
<1>1. cmd[q].pc = "render" => c \in Cand
  BY DEF LTypes, Holds
<1>2. CASE ImportStep /\ UNCHANGED lifecycleVars
  <2>1. cmd'[q] = cmd[q]
    BY <1>2 DEF lifecycleVars
  <2>2. imp.cand # c /\ cands[c].at # "none" /\ c \in Cand
    BY <1>1, <2>1 DEF StillCompared
  <2>3. imp'.cand # c /\ cands'[c] = cands[c]
    BY <1>2, <2>2, ImportIsConfined
  <2> QED
    BY <2>1, <2>2, <2>3, ComparisonStays
<1>3. CASE \E p \in Procs : CommandStep(p)
  <2>1. PICK p \in Procs : CommandStep(p)
    BY <1>3
  <2>2. CASE q # p /\ cmd'[q] = cmd[q] /\ imp' = imp
             /\ \A b \in Cand : cands'[b].at = cands[b].at
                                /\ cands'[b].files[SkillMd] = cands[b].files[SkillMd]
    <3>1. imp.cand # c /\ cands[c].at # "none" /\ c \in Cand
      BY <1>1, <2>2 DEF StillCompared
    <3> QED
      BY <2>2, <3>1, ComparisonStays
  <2>3. ASSUME NEW new, Holds(new), Begin(p, new), UNCHANGED <<imp, cands>>, q # p \/ new.pc # "render"
        PROVE  q # p /\ cmd'[q] = cmd[q] /\ imp' = imp
               /\ \A b \in Cand : cands'[b].at = cands[b].at
                                  /\ cands'[b].files[SkillMd] = cands[b].files[SkillMd]
    BY <2>3, OneMoves DEF Begin
  <2>4. CASE \E b \in Cand : Validate(p, b)
    <3>1. PICK b \in Cand : Validate(p, b)
      BY <2>4
    <3>2. PICK new : Holds(new) /\ Begin(p, new) /\ new.pc = "hashed"
      BY <3>1, ValidateBegins
    <3> QED
      BY <2>2, <2>3, <3>1, <3>2 DEF Validate
  <2>5. CASE \E b \in Cand : Promote(p, b)
    <3>1. PICK b \in Cand : Promote(p, b)
      BY <2>5
    <3>2. PICK new : Holds(new) /\ Begin(p, new) /\ new.pc = "save"
      BY <3>1, PromoteBegins
    <3> QED
      BY <2>2, <2>3, <3>1, <3>2 DEF Promote, Changes
  <2>6. CASE \E n \in Names : Disable(p, n)
    <3>1. PICK n \in Names : Disable(p, n)
      BY <2>6
    <3>2. PICK new : Holds(new) /\ Begin(p, new) /\ new.pc = "save"
      BY <3>1, DisableBegins
    <3> QED
      BY <2>2, <2>3, <3>1, <3>2 DEF Disable, Changes
  <2>7. CASE \E n \in Names, v \in 1..Len(audit) : Rollback(p, n, v)
    <3>1. PICK n \in Names, v \in 1..Len(audit) : Rollback(p, n, v)
      BY <2>7
    <3>2. v \in Nat
      BY DEF LTypes, ImportTypes
    <3> QED
      <4>1. PICK new : Holds(new) /\ Begin(p, new) /\ new.pc = "save"
        BY <3>1, <3>2, RollbackBegins
      <4> QED
        BY <2>2, <2>3, <3>1, <4>1 DEF Rollback, Changes
  <2>8. CASE \E n \in Names : CheckHash(p, n)
    <3>1. PICK n \in Names : CheckHash(p, n)
      BY <2>8
    <3>2. PICK new : /\ Holds(new) /\ Begin(p, new)
                     /\ new.pc = "render" /\ new.raced = (imp.cand = new.cand)
                     /\ cands[new.cand].at = "candidates" /\ ContentHash(new.cand) = new.hash
      BY <3>1, RenderingBegins
    <3>3. UNCHANGED <<imp, cands>>
      BY <3>1 DEF CheckHash
    <3>4. CASE q = p
      <4>1. cmd'[q] = new
        BY <3>2, <3>4, OneMoves DEF Begin
      <4>2. new.cand \in Cand
        BY <3>2 DEF Holds
      <4>3. cands[new.cand].files[SkillMd] = new.hash[SkillMd]
        BY <3>2, <4>2, HashIsTyped DEF LTypes
      <4> QED
        BY <3>2, <3>3, <4>1, <4>3
    <3>5. CASE q # p
      BY <2>2, <2>3, <3>2, <3>3, <3>5
    <3> QED
      BY <3>4, <3>5
  <2>9. CASE WriteHash(p)
    <3>1. cmd'[p].pc = "audit" /\ \A b \in Procs : b # p => cmd'[b] = cmd[b]
      BY <2>9, GoesToAudit, OneMoves DEF WriteHash
    <3>2. imp' = imp
      BY <2>9 DEF WriteHash
    <3> QED
      BY <2>2, <2>9, <3>1, <3>2, WriteHashKeepsTypes
  <2>10. CASE CommandDies(p)
    <3>1. cmd'[p].pc = "idle" /\ \A b \in Procs : b # p => cmd'[b] = cmd[b]
      BY <2>10, NoCommandHolds, OneMoves DEF CommandDies
    <3>2. imp' = imp
      BY <2>10 DEF CommandDies
    <3> QED
      BY <2>2, <2>10, <3>1, <3>2, CommandDiesKeepsTypes
  <2>11. CASE SaveRegistry(p)
    <3>1. cmd'[p].pc = "audit" /\ \A b \in Procs : b # p => cmd'[b] = cmd[b]
      BY <2>11, GoesToAudit, OneMoves DEF SaveRegistry
    <3> QED
      BY <2>2, <2>11, <3>1 DEF SaveRegistry, ingestionVars
  <2>12. CASE WriteHashThrows(p) \/ AuditCommand(p) \/ ReadSkillMd(p) \/ RendersNothing(p)
    <3>1. cmd'[p].pc = "idle" /\ \A b \in Procs : b # p => cmd'[b] = cmd[b]
      BY <2>12, NoCommandHolds, OneMoves DEF WriteHashThrows, AuditCommand, ReadSkillMd, RendersNothing
    <3>2. UNCHANGED <<imp, cands>>
      BY <2>12 DEF WriteHashThrows, AuditCommand, ReadSkillMd, RendersNothing, ingestionVars
    <3> QED
      BY <2>2, <3>1, <3>2
  <2> QED
    BY <2>1, <2>4, <2>5, <2>6, <2>7, <2>8, <2>9, <2>10, <2>11, <2>12 DEF CommandStep
<1>4. CASE \E b \in Cand, f \in Package : EditCandidate(b, f)
  <2>1. PICK b \in Cand, f \in Package : EditCandidate(b, f)
    BY <1>4
  <2>2. /\ cmd'[q].pc = cmd[q].pc /\ cmd'[q].cand = cmd[q].cand /\ cmd'[q].hash = cmd[q].hash
        /\ cmd'[q].raced = (cmd[q].raced \/ (cmd[q].pc = "render" /\ cmd[q].cand = b))
    BY <2>1, EditKeepsTypes
  <2>3. ~cmd[q].raced /\ cmd[q].pc = "render" /\ c # b /\ c \in Cand
    BY <1>1, <2>2
  <2>4. cands'[c] = cands[c] /\ imp' = imp
    BY <2>1, <2>3, EditKeepsTypes DEF EditCandidate
  <2>5. imp.cand # c /\ cands[c].at # "none"
    BY <2>3 DEF StillCompared
  <2> QED
    BY <2>2, <2>3, <2>4, <2>5, ComparisonStays
<1>5. CASE UNCHANGED vars
  BY <1>5 DEF vars, ingestionVars, lifecycleVars, StillCompared
<1> QED
  BY <1>2, <1>3, <1>4, <1>5 DEF Next

LEMMA NextReads ==
  ASSUME LTypes, StillCompared, UnracedIsCompared, [Next]_vars
  PROVE  UnracedIsCompared'
<1>1. CASE \E p \in Procs : ReadSkillMd(p)
  <2>1. PICK p \in Procs : ReadSkillMd(p)
    BY <1>1
  <2>2. ~cmd[p].raced => cands[cmd[p].cand].files[SkillMd] = cmd[p].hash[SkillMd]
    BY <2>1 DEF ReadSkillMd, StillCompared
  <2> QED
    BY <2>1, <2>2 DEF ReadSkillMd, UnracedIsCompared
<1>2. CASE UNCHANGED envelopes
  BY <1>2 DEF UnracedIsCompared
<1> QED
  BY <1>1, <1>2 DEF Next, CommandStep, Validate, WriteHash, WriteHashThrows, Promote, Disable, Rollback, Changes,
     SaveRegistry, AuditCommand, CommandDies, CheckHash, RendersNothing, EditCandidate, lifecycleVars, vars

------------------------------------------------------------------------------
(* The results.                                                            *)

LEMMA InitEvidence ==
  ASSUME Init
  PROVE  Evidence /\ StillCompared /\ UnracedIsCompared
<1>1. \A c \in Cand : cands[c].sha = None
  BY InitImport DEF Init
<1>2. /\ envelopes = {} /\ \A n \in Names : registry.skills[n] = None
      /\ \A p \in Procs : cmd[p].pc = "idle"
  BY NoCommandHolds DEF Init
<1> QED
  BY <1>1, <1>2 DEF Evidence, CandidatesShow, VouchedFor, CommandsShow, EnvelopesShow, StillCompared, UnracedIsCompared

LEMMA NextEvidence ==
  ASSUME LTypes, Evidence, [Next]_vars
  PROVE  Evidence'
<1>1. CASE ImportStep /\ UNCHANGED lifecycleVars
  BY <1>1, ImportAppends, ImportShows DEF lifecycleVars
<1>2. CASE \E p \in Procs : CommandStep(p)
  <2>1. PICK p \in Procs : CommandStep(p)
    BY <1>2
  <2>2. CASE CommandDies(p)
    BY <2>2, CommandDiesKeepsTypes DEF Evidence
  <2> QED
    BY <2>1, <2>2, BeginningsShow, LaterStepsShow DEF CommandStep
<1>3. CASE \E c \in Cand, f \in Package : EditCandidate(c, f)
  <2>1. PICK c \in Cand, f \in Package : EditCandidate(c, f)
    BY <1>3
  <2>2. LogGrows /\ UNCHANGED <<registry, envelopes, alone>>
    BY <2>1 DEF EditCandidate, LogGrows
  <2> QED
    BY <2>1, <2>2, EditKeepsTypes, ImportShows
<1>4. CASE UNCHANGED vars
  BY <1>4, ImportShows DEF vars, ingestionVars, lifecycleVars, LogGrows
<1> QED
  BY <1>1, <1>2, <1>3, <1>4 DEF Next

\* The invariant: types, evidence for every hash that somebody holds, and texts that are
\* still the ones whose hash was compared.
THEOREM Inductive == Spec => []LInv
<1>1. Init => LInv
  BY InitTypes, InitEvidence DEF LInv
<1>2. LInv /\ [Next]_vars => LInv'
  BY NextKeepsTypes, NextEvidence, NextCompares, NextReads DEF LInv
<1> QED
  BY <1>1, <1>2, PTL DEF Spec

\* Guidance is rendered (skill-envelope.ts:41) only from content that was validated and
\* promoted under its hash, and its text is of that content unless somebody wrote to the
\* candidate meanwhile.
THEOREM GuidanceWasValidated == Spec => []RenderedWasValidated
<1>1. LInv => RenderedWasValidated
  BY DEF LInv, Evidence, EnvelopesShow, Validated, UnracedIsCompared, RenderedWasValidated
<1> QED
  BY <1>1, Inductive, PTL

------------------------------------------------------------------------------
(* The log tells the registry.  A command that is alone holds a registry   *)
(* that is one event ahead of the log, or has saved one: Adds says what    *)
(* the log and that event tell together.                                   *)

\* Every archived version has a smaller number than the active one.
Rising(r) == Distinct(r) /\ \A i \in DOMAIN r.previous : r.previous[i].version < r.version

\* Numbers rise until the first rollback, and are distinct until a promote follows one.
Numbered(log, n, r) ==
  r # None =>
    /\ Places(log, n, {"rolled-back"}) = {} => Rising(r)
    /\ Forward(log, n) => Distinct(r)

\* The log, with one more event about a skill, tells its record.
Adds(log, e, r) ==
  LET n == e.name IN
  /\ r # None
  /\ e.event \in Moves => r.version = e.to
  /\ e.event \notin Moves => \E i \in DOMAIN log : Latest(i, Places(log, n, Moves)) /\ r.version = log[i].to
  /\ r.disabled = (e.event = "disabled")
  /\ e.event = "promoted" => Len(r.previous) = Cardinality(Places(log, n, {"promoted"}))
  /\ e.event # "promoted" => Len(r.previous) + 1 = Cardinality(Places(log, n, {"promoted"}))
  /\ e.event # "rolled-back" /\ Places(log, n, {"rolled-back"}) = {} => Rising(r)
  /\ Forward(log, n) /\ (e.event = "promoted" => Places(log, n, {"rolled-back"}) = {}) => Distinct(r)

\* A process has saved the registry, and its event about n is not in the log yet.
Pending(p, n) == cmd[p].pc = "audit" /\ cmd[p].event.event \in RegistryEvents /\ cmd[p].event.name = n

LogShows ==
  /\ registry.parses
  /\ \A n \in Names : (\A p \in Procs : ~Pending(p, n)) =>
       Tells(audit, n, registry.skills[n]) /\ Numbered(audit, n, registry.skills[n])
  /\ \A p \in Procs : \A n \in Names : Pending(p, n) => Adds(audit, cmd[p].event, registry.skills[n])
  /\ \A p \in Procs : cmd[p].pc = "save" =>
       LET e == cmd[p].event IN
       /\ e.event \in RegistryEvents
       /\ Adds(audit, e, cmd[p].skills[e.name])
       /\ \A n \in Names : n # e.name => cmd[p].skills[n] = registry.skills[n]

OneAtATime == \A p, q \in Procs : p # q => cmd[p].pc = "idle" \/ cmd[q].pc = "idle"

LogInv == alone => OneAtATime /\ LogShows

\* Places in a log to which an event is appended.
LEMMA LogIsRead ==
  ASSUME NEW log \in Seq(Events), NEW e \in Events
  PROVE  /\ Append(log, e) \in Seq(Events)
         /\ DOMAIN log = 1..Len(log) /\ Len(log) \in Nat
         /\ DOMAIN Append(log, e) = 1..(Len(log) + 1)
         /\ \A i \in DOMAIN log : Append(log, e)[i] = log[i] /\ i < Len(log) + 1
         /\ Append(log, e)[Len(log) + 1] = e
OBVIOUS

LEMMA PlacesAreFinite ==
  ASSUME NEW log \in Seq(Events), NEW n, NEW kinds
  PROVE  /\ IsFiniteSet(Places(log, n, kinds)) /\ Cardinality(Places(log, n, kinds)) \in Nat
         /\ \A i \in Places(log, n, kinds) : i \in Nat /\ i < Len(log) + 1
<1>1. Len(log) \in Nat /\ DOMAIN log = 1..Len(log)
  OBVIOUS
<1>2. Places(log, n, kinds) \subseteq 1..Len(log)
  BY <1>1 DEF Places
<1>3. IsFiniteSet(1..Len(log))
  BY <1>1, FS_Interval
<1> QED
  BY <1>1, <1>2, <1>3, FS_Subset, FS_CardinalityType

LEMMA PlacesStay ==
  ASSUME NEW log \in Seq(Events), NEW e \in Events, NEW n, NEW kinds, ~(e.event \in kinds /\ e.name = n)
  PROVE  Places(Append(log, e), n, kinds) = Places(log, n, kinds)
<1> DEFINE more == Append(log, e)
<1>1. DOMAIN log = 1..Len(log) /\ Len(log) \in Nat /\ DOMAIN more = 1..(Len(log) + 1)
      /\ (\A i \in DOMAIN log : more[i] = log[i]) /\ more[Len(log) + 1] = e
  BY LogIsRead
<1> HIDE DEF more
<1>2. \A i \in DOMAIN more : i \in DOMAIN log \/ i = Len(log) + 1
  BY <1>1
<1>3. DOMAIN log \subseteq DOMAIN more
  BY <1>1
<1>4. Places(more, n, kinds) = Places(log, n, kinds)
  BY <1>1, <1>2, <1>3 DEF Places
<1> QED
  BY <1>4 DEF more

LEMMA PlacesGrow ==
  ASSUME NEW log \in Seq(Events), NEW e \in Events, NEW kinds, e.event \in kinds
  PROVE  /\ Places(Append(log, e), e.name, kinds) = Places(log, e.name, kinds) \cup {Len(log) + 1}
         /\ Latest(Len(log) + 1, Places(Append(log, e), e.name, kinds))
         /\ Places(Append(log, e), e.name, kinds) # {}
<1> DEFINE more == Append(log, e)
           S == Places(log, e.name, kinds)
           l == Len(log) + 1
<1>1. DOMAIN log = 1..Len(log) /\ Len(log) \in Nat /\ DOMAIN more = 1..(Len(log) + 1)
      /\ (\A i \in DOMAIN log : more[i] = log[i]) /\ more[l] = e
  BY LogIsRead
<1>2. IsFiniteSet(S) /\ \A i \in S : i \in Nat /\ i < l
  BY PlacesAreFinite
<1>3. l \in Nat /\ l \notin S
  BY <1>1, <1>2
<1> HIDE DEF more
<1>4. (\A i \in DOMAIN more : i \in DOMAIN log \/ i = l) /\ l \in DOMAIN more /\ DOMAIN log \subseteq DOMAIN more
  BY <1>1
<1> HIDE DEF l
<1>5. Places(more, e.name, kinds) = S \cup {l}
  BY <1>1, <1>4 DEF Places
<1> HIDE DEF S
<1>7. Latest(l, S \cup {l})
  BY <1>2, <1>3 DEF Latest
<1> QED
  BY <1>5, <1>7 DEF more, S, l

\* An event about something else.
LEMMA TellsStays ==
  ASSUME NEW log \in Seq(Events), NEW e \in Events, NEW n, NEW r,
         e.event \notin RegistryEvents \/ e.name # n
  PROVE  /\ Tells(log, n, r) => Tells(Append(log, e), n, r)
         /\ Numbered(log, n, r) => Numbered(Append(log, e), n, r)
<1> DEFINE more == Append(log, e)
<1>1. /\ Places(more, n, RegistryEvents) = Places(log, n, RegistryEvents)
      /\ Places(more, n, Moves) = Places(log, n, Moves)
      /\ Places(more, n, {"promoted"}) = Places(log, n, {"promoted"})
      /\ Places(more, n, {"rolled-back"}) = Places(log, n, {"rolled-back"})
  BY PlacesStay DEF RegistryEvents, Moves
<1>2. \A i \in DOMAIN log : i \in DOMAIN more /\ more[i] = log[i]
  BY LogIsRead
<1> HIDE DEF more
<1>3. Tells(log, n, r) => Tells(more, n, r)
  BY <1>1, <1>2 DEF Tells
<1>4. Numbered(log, n, r) => Numbered(more, n, r)
  BY <1>1 DEF Numbered, Forward
<1> QED
  BY <1>3, <1>4 DEF more

LEMMA AddsStays ==
  ASSUME NEW log \in Seq(Events), NEW other \in Events, NEW e, NEW r,
         other.event \notin RegistryEvents, Adds(log, e, r)
  PROVE  Adds(Append(log, other), e, r)
<1> DEFINE more == Append(log, other)
           n == e.name
<1>1. /\ Places(more, n, Moves) = Places(log, n, Moves)
      /\ Places(more, n, {"promoted"}) = Places(log, n, {"promoted"})
      /\ Places(more, n, {"rolled-back"}) = Places(log, n, {"rolled-back"})
  BY PlacesStay DEF RegistryEvents, Moves
<1>2. \A i \in DOMAIN log : i \in DOMAIN more /\ more[i] = log[i]
  BY LogIsRead
<1> HIDE DEF more
<1>3. Adds(more, e, r)
  BY <1>1, <1>2 DEF Adds, Forward
<1> QED
  BY <1>3 DEF more

\* The event that was missing.
LEMMA AddedIsTold ==
  ASSUME NEW log \in Seq(Events), NEW e \in Events, NEW r \in SkillRecords, e.event \in RegistryEvents,
         Adds(log, e, r)
  PROVE  Tells(Append(log, e), e.name, r) /\ Numbered(Append(log, e), e.name, r)
<1> DEFINE more == Append(log, e)
           n == e.name
           l == Len(log) + 1
<1>1. l \in DOMAIN more /\ more[l] = e /\ \A i \in DOMAIN log : i \in DOMAIN more /\ more[i] = log[i]
  BY LogIsRead
<1>2. Latest(l, Places(more, n, RegistryEvents)) /\ Places(more, n, RegistryEvents) # {}
  BY PlacesGrow DEF RegistryEvents
<1> DEFINE promoted == Places(log, n, {"promoted"})
           back == Places(log, n, {"rolled-back"})
<1>3. /\ e.event = "promoted" => /\ Cardinality(Places(more, n, {"promoted"})) = Cardinality(promoted) + 1
                                 /\ Places(more, n, {"promoted"}) = promoted \cup {l}
      /\ e.event # "promoted" => Places(more, n, {"promoted"}) = promoted
  <2>1. CASE e.event = "promoted"
    <3>1. e.event \in {"promoted"}
      BY <2>1
    <3>2. Places(more, n, {"promoted"}) = promoted \cup {l}
      BY <3>1, PlacesGrow
    <3>3. IsFiniteSet(promoted) /\ l \notin promoted
      BY PlacesAreFinite
    <3> HIDE DEF promoted, l, more
    <3>4. Cardinality(promoted \cup {l}) = Cardinality(promoted) + 1
      BY <3>3, FS_AddElement
    <3> QED
      BY <2>1, <3>2, <3>4
  <2>2. CASE e.event # "promoted"
    BY <2>2, PlacesStay
  <2> QED
    BY <2>1, <2>2
<1>4. /\ e.event = "rolled-back" => Places(more, n, {"rolled-back"}) = back \cup {l}
      /\ e.event # "rolled-back" => Places(more, n, {"rolled-back"}) = back
  <2>1. CASE e.event = "rolled-back"
    <3>1. e.event \in {"rolled-back"}
      BY <2>1
    <3> QED
      BY <2>1, <3>1, PlacesGrow
  <2>2. CASE e.event # "rolled-back"
    BY <2>2, PlacesStay
  <2> QED
    BY <2>1, <2>2
<1>5. \A j \in back : j < l /\ j \in Nat
  BY PlacesAreFinite
<1>6. l \in Nat
  OBVIOUS
<1>7. \E i \in DOMAIN more : Latest(i, Places(more, n, Moves)) /\ r.version = more[i].to
  <2>1. CASE e.event \in Moves
    <3>1. Latest(l, Places(more, n, Moves))
      BY <2>1, PlacesGrow
    <3> HIDE DEF more, l
    <3> QED
      BY <1>1, <2>1, <3>1 DEF Adds
  <2>2. CASE e.event \notin Moves
    <3>1. Places(more, n, Moves) = Places(log, n, Moves)
      BY <2>2, PlacesStay
    <3> HIDE DEF more, l
    <3> QED
      BY <1>1, <2>2, <3>1 DEF Adds
  <2> QED
    BY <2>1, <2>2
<1> HIDE DEF more, l, back
<1>8. Len(r.previous) + 1 = Cardinality(Places(more, n, {"promoted"}))
  <2> HIDE DEF promoted
  <2> QED
    BY <1>3 DEF Adds, promoted
<1>9. Tells(more, n, r)
  <2>1. \E i \in DOMAIN more : Latest(i, Places(more, n, RegistryEvents)) /\ r.disabled = (more[i].event = "disabled")
    BY <1>1, <1>2 DEF Adds
  <2>2. r # None
    BY DEF Adds
  <2> QED
    BY <1>2, <1>7, <1>8, <2>1, <2>2 DEF Tells
<1>10. Forward(more, n) => Forward(log, n) /\ (e.event = "promoted" => back = {})
  <2> HIDE DEF promoted
  <2>1. Forward(log, n) = \A i \in promoted, j \in back : i < j
    BY DEF Forward, promoted, back
  <2>2. CASE e.event = "promoted"
    <3>1. Forward(more, n) = \A i \in promoted \cup {l}, j \in back : i < j
      BY <1>3, <1>4, <2>2 DEF Forward
    <3>2. ASSUME Forward(more, n), NEW j \in back PROVE FALSE
      <4>1. l < j
        BY <3>1, <3>2
      <4> QED
        BY <1>5, <1>6, <4>1
    <3> QED
      BY <2>1, <3>1, <3>2
  <2>3. CASE e.event # "promoted"
    BY <1>3, <1>4, <2>1, <2>3 DEF Forward
  <2> QED
    BY <2>2, <2>3
<1>11. Places(more, n, {"rolled-back"}) = {} => e.event # "rolled-back" /\ back = {}
  BY <1>4
<1>12. Numbered(more, n, r)
  BY <1>10, <1>11 DEF Numbered, Adds, back
<1> QED
  BY <1>9, <1>12 DEF more

\* What each command adds to the record that the log tells.
LEMMA PromotedAdds ==
  ASSUME NEW log \in Seq(Events), NEW skills \in Skills, NEW n \in Names, NEW c \in Cand, NEW h \in Hashes,
         Tells(log, n, skills[n]), Numbered(log, n, skills[n]),
         NEW e, e.event = "promoted", e.name = n, e.to = Promoted(skills, n, c, h)[n].version
  PROVE  /\ Adds(log, e, Promoted(skills, n, c, h)[n])
         /\ \A m \in Names : m # n => Promoted(skills, n, c, h)[m] = skills[m]
<1> DEFINE r == skills[n]
           new == Promoted(skills, n, c, h)[n]
           promoted == Places(log, n, {"promoted"})
<1>1. /\ \A m \in Names : m # n => Promoted(skills, n, c, h)[m] = skills[m]
      /\ new = IF r = None
               THEN Active([version |-> 1, cand |-> c, hash |-> h], <<>>)
               ELSE Active([version |-> r.version + 1, cand |-> c, hash |-> h],
                           Append(r.previous, Archived(r)))
  BY DEF Promoted, Skills
<1>2. new # None
  BY PromotedKeeps, RegistryAssumption
<1> HIDE DEF new
<1>3. CASE r = None
  <2>1. new.previous = <<>> /\ new.disabled = FALSE
    BY <1>1, <1>3 DEF Active
  <2>2. Places(log, n, RegistryEvents) = {}
    BY <1>3 DEF Tells
  <2>3. promoted = {}
    BY <2>2 DEF Places, RegistryEvents, Moves
  <2>4. Len(new.previous) = Cardinality(promoted)
    BY <2>1, <2>3, FS_EmptySet
  <2>5. Rising(new)
    BY <2>1 DEF Rising, Distinct
  <2> QED
    BY <1>1, <1>2, <2>1, <2>4, <2>5 DEF Adds, Rising, Moves, new
<1>4. CASE r # None
  <2>1. r \in SkillRecords
    BY <1>4 DEF Skills
  <2> DEFINE q == r.previous
             a == Archived(r)
             l == Len(q)
  <2>2. q \in Seq(VersionRecords) /\ a \in VersionRecords /\ a.version = r.version /\ r.version \in Nat
    BY <2>1 DEF SkillRecords, VersionRecords, Archived
  <2>3. new.previous = Append(q, a) /\ new.version = r.version + 1 /\ new.disabled = FALSE
    BY <1>1, <1>4 DEF Active
  <2>4. l + 1 = Cardinality(promoted)
    <3>1. Places(log, n, RegistryEvents) # {}
      BY <1>4 DEF Tells
    <3> QED
      BY <3>1 DEF Tells
  <2> HIDE DEF q, a
  <2>5. /\ l \in Nat /\ DOMAIN q = 1..l /\ DOMAIN Append(q, a) = 1..(l + 1)
        /\ \A i \in 1..l : Append(q, a)[i] = q[i] /\ q[i].version \in Nat
        /\ Append(q, a)[l + 1] = a /\ Len(Append(q, a)) = l + 1
    <3>1. \A i \in 1..Len(q) : q[i] \in VersionRecords
      BY <2>2
    <3>2. \A i \in 1..Len(q) : q[i].version \in Nat
      BY <3>1 DEF VersionRecords
    <3> QED
      BY <2>2, <3>2
  <2> DEFINE more == Append(q, a)
  <2>6. Places(log, n, {"rolled-back"}) = {} => Rising(new)
    <3>1. SUFFICES ASSUME Places(log, n, {"rolled-back"}) = {} PROVE Rising(new)
      OBVIOUS
    <3>2. Rising(r)
      BY <1>4, <3>1 DEF Numbered
    <3>3. \A i \in 1..l : q[i].version < r.version
      BY <2>5, <3>2 DEF Rising, q
    <3>4. \A i, j \in 1..l : i # j => q[i].version # q[j].version
      BY <2>5, <3>2 DEF Rising, Distinct, q
    <3> HIDE DEF l
    <3>5. \A i \in 1..(l + 1) : i \in 1..l \/ i = l + 1
      BY <2>5
    <3> HIDE DEF more
    <3>6. \A i \in 1..(l + 1) : more[i].version < r.version + 1
      BY <2>2, <2>5, <3>3, <3>5 DEF more
    <3>7. \A i, j \in 1..(l + 1) : i # j => more[i].version # more[j].version
      BY <2>2, <2>5, <3>3, <3>4, <3>5 DEF more
    <3>8. \A i \in 1..(l + 1) : more[i].version # r.version + 1
      BY <2>2, <2>5, <3>3, <3>5 DEF more
    <3>9. new.previous = more /\ DOMAIN more = 1..(l + 1)
      BY <2>3, <2>5 DEF more
    <3> QED
      BY <2>3, <3>6, <3>7, <3>8, <3>9 DEF Rising, Distinct
  <2> QED
    BY <1>1, <1>2, <2>3, <2>4, <2>5, <2>6 DEF Adds, Rising, Moves, new, promoted
<1> QED
  BY <1>1, <1>3, <1>4

LEMMA DisabledAdds ==
  ASSUME NEW log \in Seq(Events), NEW skills \in Skills, NEW n \in Names, skills[n] # None,
         Tells(log, n, skills[n]), Numbered(log, n, skills[n]),
         NEW e, e.event = "disabled", e.name = n
  PROVE  /\ Adds(log, e, Disabled(skills, n)[n])
         /\ \A m \in Names : m # n => Disabled(skills, n)[m] = skills[m]
<1> DEFINE r == skills[n]
           new == Disabled(skills, n)[n]
<1>1. /\ \A m \in Names : m # n => Disabled(skills, n)[m] = skills[m]
      /\ new = [r EXCEPT !.disabled = TRUE]
  BY DEF Disabled, Skills
<1>2. new # None
  BY DisabledKeeps, RegistryAssumption
<1>3. r \in SkillRecords
  BY DEF Skills
<1> HIDE DEF new
<1>4. new.version = r.version /\ new.previous = r.previous /\ new.disabled = TRUE
  BY <1>1, <1>3 DEF SkillRecords
<1>5. Places(log, n, RegistryEvents) # {}
  BY DEF Tells
<1>6. /\ \E i \in DOMAIN log : Latest(i, Places(log, n, Moves)) /\ r.version = log[i].to
      /\ Len(r.previous) + 1 = Cardinality(Places(log, n, {"promoted"}))
  BY <1>5 DEF Tells
<1>7. (Rising(r) => Rising(new)) /\ (Distinct(r) => Distinct(new))
  BY <1>4 DEF Rising, Distinct
<1>8. /\ Places(log, n, {"rolled-back"}) = {} => Rising(new)
      /\ Forward(log, n) => Distinct(new)
  BY <1>7 DEF Numbered
<1>9. e.event \notin Moves /\ e.event # "promoted"
  BY DEF Moves
<1>10. Adds(log, e, new)
  BY <1>2, <1>4, <1>6, <1>8, <1>9 DEF Adds
<1> QED
  BY <1>1, <1>10 DEF new

LEMMA RolledBackAdds ==
  ASSUME NEW log \in Seq(Events), NEW skills \in Skills, NEW n \in Names, NEW v,
         skills[n] # None, FirstWith(skills[n], v) # 0,
         Tells(log, n, skills[n]), Numbered(log, n, skills[n]),
         NEW e, e.event = "rolled-back", e.name = n, e.to = v
  PROVE  /\ Adds(log, e, RolledBack(skills, n, v)[n])
         /\ \A m \in Names : m # n => RolledBack(skills, n, v)[m] = skills[m]
<1> DEFINE r == skills[n]
           k == FirstWith(r, v)
           new == RolledBack(skills, n, v)[n]
           q == r.previous
           a == Archived(r)
           l == Len(q)
           rest == RemoveAt(q, k)
           more == Append(rest, a)
<1>1. /\ \A m \in Names : m # n => RolledBack(skills, n, v)[m] = skills[m]
      /\ new = Active(q[k], more)
  BY DEF RolledBack, Skills
<1>2. new # None
  BY RolledBackKeeps, RegistryAssumption
<1>3. r \in SkillRecords
  BY DEF Skills
<1>4. k \in DOMAIN q /\ q[k].version = v
  BY <1>3, FirstWithInRange
<1>5. q \in Seq(VersionRecords) /\ a \in VersionRecords /\ a.version = r.version
  BY <1>3 DEF SkillRecords, VersionRecords, Archived
<1> HIDE DEF k, q, a, new
<1>6. l \in Nat /\ k \in 1..l /\ DOMAIN q = 1..l
  BY <1>4, <1>5
<1>7. /\ Len(rest) = l - 1 /\ rest \in Seq(VersionRecords)
      /\ \A i \in 1..(l - 1) : rest[i] = IF i < k THEN q[i] ELSE q[i + 1]
  <2> DEFINE before == SubSeq(q, 1, k - 1)
             after == SubSeq(q, k + 1, Len(q))
  <2>1. before \in Seq(VersionRecords) /\ Len(before) = k - 1 /\ \A i \in 1..(k - 1) : before[i] = q[i]
    BY <1>5, <1>6
  <2>2. after \in Seq(VersionRecords) /\ Len(after) = l - k /\ \A i \in 1..(l - k) : after[i] = q[k + i]
    <3>1. k + 1 \in 1..(Len(q) + 1) /\ Len(q) \in Nat /\ k \in Nat /\ k <= Len(q)
      BY <1>6
    <3>2. /\ after \in Seq(VersionRecords)
          /\ Len(after) = IF k + 1 <= Len(q) THEN Len(q) - (k + 1) + 1 ELSE 0
          /\ \A i \in 1..(Len(q) - (k + 1) + 1) : after[i] = q[(k + 1) + i - 1]
      BY <1>5, <3>1, SubSeqProperties
    <3>3. Len(q) - (k + 1) + 1 = Len(q) - k /\ \A i \in Int : (k + 1) + i - 1 = k + i
      BY <3>1
    <3> HIDE DEF after
    <3>4. Len(after) = l - k
      BY <3>1, <3>2
    <3>5. ASSUME NEW i \in 1..(l - k) PROVE after[i] = q[k + i]
      <4>1. i \in 1..(Len(q) - (k + 1) + 1) /\ i \in Int
        BY <3>3, <3>5
      <4>2. after[i] = q[(k + 1) + i - 1]
        BY <3>2, <4>1
      <4> QED
        BY <3>3, <4>1, <4>2
    <3> QED
      BY <3>2, <3>4, <3>5
  <2>3. rest = before \o after
    BY DEF RemoveAt
  <2> HIDE DEF before, after, rest, l
  <2>4. Len(rest) = l - 1 /\ rest \in Seq(VersionRecords)
    <3>1. before \o after \in Seq(VersionRecords) /\ Len(before \o after) = Len(before) + Len(after)
      BY <2>1, <2>2, ConcatProperties
    <3> QED
      BY <1>6, <2>1, <2>2, <2>3, <3>1
  <2>6. \A i \in 1..(Len(before) + Len(after)) :
          rest[i] = IF i <= Len(before) THEN before[i] ELSE after[i - Len(before)]
    BY <2>1, <2>2, <2>3, ConcatProperties
  <2>5. ASSUME NEW i \in 1..(l - 1) PROVE rest[i] = IF i < k THEN q[i] ELSE q[i + 1]
    <3>1. CASE i < k
      BY <1>6, <2>1, <2>2, <2>6, <3>1
    <3>2. CASE ~(i < k)
      <4>1. rest[i] = after[i - (k - 1)]
        BY <1>6, <2>1, <2>2, <2>6, <3>2
      <4>2. i - (k - 1) \in 1..(l - k) /\ k + (i - (k - 1)) = i + 1
        BY <1>6, <3>2
      <4> QED
        BY <2>2, <3>2, <4>1, <4>2
    <3> QED
      BY <3>1, <3>2
  <2> QED
    BY <2>4, <2>5
<1> HIDE DEF rest, l
<1>8. /\ DOMAIN more = 1..l /\ Len(more) = l /\ more[l] = a
      /\ \A i \in 1..(l - 1) : more[i] = IF i < k THEN q[i] ELSE q[i + 1]
  BY <1>5, <1>6, <1>7
<1> HIDE DEF more
<1>9. new.version = v /\ new.previous = more /\ new.disabled = FALSE
  BY <1>1, <1>4 DEF Active
<1>10. Places(log, n, RegistryEvents) # {}
  BY DEF Tells
<1>11. l + 1 = Cardinality(Places(log, n, {"promoted"}))
  BY <1>10 DEF Tells, l, q
<1>12. Distinct(r) => Distinct(new)
  <2>1. SUFFICES ASSUME Distinct(r) PROVE Distinct(new)
    OBVIOUS
  <2>2. /\ \A i, j \in 1..l : i # j => q[i].version # q[j].version
        /\ \A i \in 1..l : q[i].version # a.version
    BY <1>5, <1>6, <2>1 DEF Distinct, q
  <2>3. \A i \in 1..(l - 1) : IF i < k THEN i \in 1..l /\ i # k ELSE i + 1 \in 1..l /\ i + 1 # k
    BY <1>6
  <2>4. \A i \in 1..l : more[i].version # v
    <3>1. \A i \in 1..(l - 1) : more[i].version # v
      BY <1>4, <1>6, <1>8, <2>2, <2>3
    <3>2. more[l].version # v
      BY <1>4, <1>6, <1>8, <2>2
    <3> QED
      BY <1>6, <3>1, <3>2
  <2>5. \A i, j \in 1..(l - 1) : i # j => more[i].version # more[j].version
    BY <1>6, <1>8, <2>2, <2>3
  <2>6. \A i \in 1..(l - 1) : more[i].version # more[l].version
    BY <1>6, <1>8, <2>2, <2>3
  <2>7. \A i \in 1..l : i = l \/ i \in 1..(l - 1)
    BY <1>6
  <2>8. \A i, j \in 1..l : i # j => more[i].version # more[j].version
    BY <2>5, <2>6, <2>7
  <2> QED
    BY <1>8, <1>9, <2>4, <2>8 DEF Distinct
<1>13. Forward(log, n) => Distinct(new)
  BY <1>12 DEF Numbered
<1> QED
  BY <1>1, <1>2, <1>8, <1>9, <1>11, <1>13 DEF Adds, Moves, new

\* No command saves or tells anything about the registry in this step.
LEMMA NothingIsTold ==
  ASSUME LTypes, LogInv, registry' = registry, alone' => alone /\ OneAtATime',
         audit' = audit \/ \E e \in Events : e.event \notin RegistryEvents /\ audit' = Append(audit, e),
         \A q \in Procs, n \in Names :
           Pending(q, n)' = Pending(q, n) /\ (Pending(q, n) => cmd'[q].event = cmd[q].event),
         \A q \in Procs : cmd'[q].pc = "save" =>
           cmd[q].pc = "save" /\ cmd'[q].event = cmd[q].event /\ cmd'[q].skills = cmd[q].skills
  PROVE  LogInv'
<1> SUFFICES ASSUME alone' PROVE LogShows'
  BY DEF LogInv
<1>1. LogShows /\ audit \in Seq(Events)
  BY DEF LogInv, LTypes, ImportTypes
<1>2. \A n, r : (Tells(audit, n, r) => Tells(audit', n, r)) /\ (Numbered(audit, n, r) => Numbered(audit', n, r))
  BY <1>1, TellsStays
<1>3. \A e, r : Adds(audit, e, r) => Adds(audit', e, r)
  BY <1>1, AddsStays
<1>4. ASSUME NEW n \in Names, \A q \in Procs : ~Pending(q, n)'
      PROVE  Tells(audit', n, registry'.skills[n]) /\ Numbered(audit', n, registry'.skills[n])
  BY <1>1, <1>2, <1>4 DEF LogShows
<1>5. ASSUME NEW q \in Procs, NEW n \in Names, Pending(q, n)'
      PROVE  Adds(audit', cmd'[q].event, registry'.skills[n])
  BY <1>1, <1>3, <1>5 DEF LogShows
<1>6. ASSUME NEW q \in Procs, cmd'[q].pc = "save"
      PROVE  LET e == cmd'[q].event IN
             /\ e.event \in RegistryEvents
             /\ Adds(audit', e, cmd'[q].skills[e.name])
             /\ \A n \in Names : n # e.name => cmd'[q].skills[n] = registry'.skills[n]
  BY <1>1, <1>3, <1>6 DEF LogShows
<1> QED
  BY <1>1, <1>4, <1>5, <1>6 DEF LogShows

\* A command that begins: it is the only one, or no longer alone.
LEMMA BeginTells ==
  ASSUME LTypes, LogInv, NEW p \in Procs, NEW new, Holds(new), Begin(p, new), new.pc # "audit",
         UNCHANGED <<audit, registry>>,
         alone' /\ new.pc = "save" =>
           LET e == new.event IN
           /\ e.event \in RegistryEvents
           /\ Adds(audit, e, new.skills[e.name])
           /\ \A n \in Names : n # e.name => new.skills[n] = registry.skills[n]
  PROVE  LogInv'
<1> SUFFICES ASSUME alone' PROVE OneAtATime' /\ LogShows'
  BY DEF LogInv
<1>1. alone /\ (\A q \in Procs : cmd[q].pc = "idle") /\ cmd' = [cmd EXCEPT ![p] = new]
  BY DEF Begin
<1>2. cmd'[p] = new /\ \A q \in Procs : q # p => cmd'[q] = cmd[q]
  BY <1>1, OneMoves
<1>3. OneAtATime'
  BY <1>1, <1>2 DEF OneAtATime
<1>4. \A q \in Procs : cmd[q].pc # "audit" /\ cmd'[q].pc # "audit"
  BY <1>1, <1>2
<1>5. \A q \in Procs, n \in Names : ~Pending(q, n) /\ ~Pending(q, n)'
  BY <1>4 DEF Pending
<1>6. LogShows
  BY <1>1 DEF LogInv
<1>7. \A q \in Procs : cmd'[q].pc = "save" => q = p
  BY <1>1, <1>2
<1> QED
  BY <1>2, <1>3, <1>5, <1>6, <1>7 DEF LogShows

\* What a lone command loads is what the log tells.
LEMMA LoneLoadIsTold ==
  ASSUME LTypes, LogInv, NEW p, NEW new, Begin(p, new), alone'
  PROVE  /\ LoadRegistry = registry.skills /\ LoadRegistry \in Skills /\ audit \in Seq(Events)
         /\ \A n \in Names : Tells(audit, n, LoadRegistry[n]) /\ Numbered(audit, n, LoadRegistry[n])
<1>1. alone /\ \A q \in Procs : cmd[q].pc = "idle"
  BY DEF Begin
<1>2. \A q \in Procs, n \in Names : ~Pending(q, n)
  BY <1>1 DEF Pending
<1>3. LogShows
  BY <1>1 DEF LogInv
<1>4. LoadRegistry = registry.skills
  BY <1>3 DEF LogShows, LoadRegistry
<1> QED
  BY <1>2, <1>3, <1>4, LoadIsTyped DEF LogShows, LTypes, ImportTypes

LEMMA BeginningsTell ==
  ASSUME LTypes, LogInv, NEW p \in Procs,
         \/ \E c \in Cand : Validate(p, c) \/ Promote(p, c)
         \/ \E n \in Names : \/ Disable(p, n) \/ CheckHash(p, n)
                             \/ \E v \in 1..Len(audit) : Rollback(p, n, v)
  PROVE  LogInv'
<1>1. CASE \E c \in Cand : Validate(p, c)
  BY <1>1, ValidateBegins, BeginTells DEF Validate
<1>2. CASE \E c \in Cand : Promote(p, c)
  <2>1. PICK c \in Cand : Promote(p, c)
    BY <1>2
  <2> DEFINE n == NameOf[c]
             h == cands[c].sha
  <2>2. PICK new : /\ Holds(new) /\ Begin(p, new)
                   /\ new.pc = "save" /\ new.skills = Promoted(LoadRegistry, n, c, h)
                   /\ new.event.event = "promoted" /\ new.event.name = n
                   /\ new.event.to = new.skills[n].version
    BY <2>1, PromoteBegins
  <2>3. UNCHANGED <<audit, registry>>
    BY <2>1 DEF Promote, Changes
  <2>4. n \in Names /\ h \in Hashes
    BY <2>1, IngestionAssumption DEF Promote, LTypes, ImportTypes, Directories
  <2> DEFINE e == new.event
  <2> HIDE DEF n, h
  <2>5. ASSUME alone' PROVE /\ Adds(audit, e, new.skills[n])
                            /\ \A m \in Names : m # n => new.skills[m] = registry.skills[m]
    <3>1. /\ LoadRegistry = registry.skills /\ LoadRegistry \in Skills /\ audit \in Seq(Events)
          /\ Tells(audit, n, LoadRegistry[n]) /\ Numbered(audit, n, LoadRegistry[n])
      BY <2>2, <2>4, <2>5, LoneLoadIsTold
    <3>2. e.event = "promoted" /\ e.name = n /\ e.to = Promoted(LoadRegistry, n, c, h)[n].version
      BY <2>2
    <3> HIDE DEF e
    <3>3. /\ Adds(audit, e, Promoted(LoadRegistry, n, c, h)[n])
          /\ \A m \in Names : m # n => Promoted(LoadRegistry, n, c, h)[m] = LoadRegistry[m]
      BY <2>4, <3>1, <3>2, PromotedAdds
    <3> QED
      BY <2>2, <3>1, <3>3
  <2> QED
    BY <2>2, <2>3, <2>5, BeginTells DEF RegistryEvents, Moves
<1>3. CASE \E n \in Names : Disable(p, n)
  <2>1. PICK n \in Names : Disable(p, n)
    BY <1>3
  <2>2. PICK new : /\ Holds(new) /\ Begin(p, new) /\ LoadRegistry[n] # None
                   /\ new.pc = "save" /\ new.skills = Disabled(LoadRegistry, n)
                   /\ new.event.event = "disabled" /\ new.event.name = n
    BY <2>1, DisableBegins
  <2>3. UNCHANGED <<audit, registry>>
    BY <2>1 DEF Disable, Changes
  <2> DEFINE e == new.event
  <2>5. ASSUME alone' PROVE /\ Adds(audit, e, new.skills[n])
                            /\ \A m \in Names : m # n => new.skills[m] = registry.skills[m]
    <3>1. /\ LoadRegistry = registry.skills /\ LoadRegistry \in Skills /\ audit \in Seq(Events)
          /\ Tells(audit, n, LoadRegistry[n]) /\ Numbered(audit, n, LoadRegistry[n])
      BY <2>2, <2>5, LoneLoadIsTold
    <3>2. e.event = "disabled" /\ e.name = n
      BY <2>2
    <3> HIDE DEF e
    <3>3. /\ Adds(audit, e, Disabled(LoadRegistry, n)[n])
          /\ \A m \in Names : m # n => Disabled(LoadRegistry, n)[m] = LoadRegistry[m]
      BY <2>2, <3>1, <3>2, DisabledAdds
    <3> QED
      BY <2>2, <3>1, <3>3
  <2> QED
    BY <2>2, <2>3, <2>5, BeginTells DEF RegistryEvents
<1>4. CASE \E n \in Names : \E v \in 1..Len(audit) : Rollback(p, n, v)
  <2>1. PICK n \in Names, v \in 1..Len(audit) : Rollback(p, n, v)
    BY <1>4
  <2>2. PICK new : /\ Holds(new) /\ Begin(p, new)
                   /\ LoadRegistry[n] # None /\ FirstWith(LoadRegistry[n], v) # 0
                   /\ new.pc = "save" /\ new.skills = RolledBack(LoadRegistry, n, v)
                   /\ new.event.event = "rolled-back" /\ new.event.name = n /\ new.event.to = v
    <3>1. v \in Nat
      OBVIOUS
    <3> QED
      BY <2>1, <3>1, RollbackBegins
  <2>3. UNCHANGED <<audit, registry>>
    BY <2>1 DEF Rollback, Changes
  <2> DEFINE e == new.event
  <2>5. ASSUME alone' PROVE /\ Adds(audit, e, new.skills[n])
                            /\ \A m \in Names : m # n => new.skills[m] = registry.skills[m]
    <3>1. /\ LoadRegistry = registry.skills /\ LoadRegistry \in Skills /\ audit \in Seq(Events)
          /\ Tells(audit, n, LoadRegistry[n]) /\ Numbered(audit, n, LoadRegistry[n])
      BY <2>2, <2>5, LoneLoadIsTold
    <3>2. e.event = "rolled-back" /\ e.name = n /\ e.to = v
      BY <2>2
    <3> HIDE DEF e
    <3>3. /\ Adds(audit, e, RolledBack(LoadRegistry, n, v)[n])
          /\ \A m \in Names : m # n => RolledBack(LoadRegistry, n, v)[m] = LoadRegistry[m]
      BY <2>2, <3>1, <3>2, RolledBackAdds
    <3> QED
      BY <2>2, <3>1, <3>3
  <2> QED
    BY <2>2, <2>3, <2>5, BeginTells DEF RegistryEvents, Moves
<1>5. CASE \E n \in Names : CheckHash(p, n)
  <2>1. PICK n \in Names : CheckHash(p, n)
    BY <1>5
  <2>2. PICK new : Holds(new) /\ Begin(p, new) /\ new.pc = "render"
    BY <2>1, RenderingBegins
  <2> QED
    BY <2>1, <2>2, BeginTells DEF CheckHash
<1> QED
  BY <1>1, <1>2, <1>3, <1>4, <1>5

LEMMA SaveTells ==
  ASSUME LTypes, LogInv, NEW p \in Procs, SaveRegistry(p)
  PROVE  LogInv'
<1> SUFFICES ASSUME alone' PROVE OneAtATime' /\ LogShows'
  BY DEF LogInv
<1> DEFINE e == cmd[p].event
           skills == cmd[p].skills
<1>1. /\ alone /\ audit' = audit /\ cmd[p].pc = "save"
      /\ registry' = [parses |-> TRUE, skills |-> skills]
  BY DEF SaveRegistry, ingestionVars
<1>2. /\ cmd'[p].pc = "audit" /\ cmd'[p].event = e
      /\ \A q \in Procs : q # p => cmd'[q] = cmd[q]
  BY GoesToAudit, OneMoves DEF SaveRegistry
<1>3. LogShows /\ \A q \in Procs : q # p => cmd[q].pc = "idle"
  BY <1>1 DEF LogInv, OneAtATime
<1>4. /\ e.event \in RegistryEvents /\ Adds(audit, e, skills[e.name])
      /\ \A n \in Names : n # e.name => skills[n] = registry.skills[n]
  BY <1>1, <1>3 DEF LogShows
<1> HIDE DEF e, skills
<1>5. OneAtATime'
  BY <1>2, <1>3 DEF OneAtATime
<1>6. \A q \in Procs, n \in Names : /\ ~Pending(q, n)
                                    /\ Pending(q, n)' <=> q = p /\ n = e.name
  BY <1>1, <1>2, <1>3, <1>4 DEF Pending
<1>7. registry'.parses /\ registry'.skills = skills
  BY <1>1
<1>8. ASSUME NEW n \in Names, \A q \in Procs : ~Pending(q, n)'
      PROVE  Tells(audit, n, registry'.skills[n]) /\ Numbered(audit, n, registry'.skills[n])
  <2>1. n # e.name
    BY <1>6, <1>8
  <2> QED
    BY <1>3, <1>4, <1>6, <1>7, <2>1 DEF LogShows
<1>9. ASSUME NEW q \in Procs, NEW n \in Names, Pending(q, n)'
      PROVE  Adds(audit, cmd'[q].event, registry'.skills[n])
  BY <1>2, <1>4, <1>6, <1>7, <1>9
<1>10. \A q \in Procs : cmd'[q].pc # "save"
  BY <1>2, <1>3
<1> QED
  BY <1>1, <1>5, <1>7, <1>8, <1>9, <1>10 DEF LogShows

LEMMA AuditTells ==
  ASSUME LTypes, LogInv, NEW p \in Procs, AuditCommand(p), cmd[p].event.event \in RegistryEvents
  PROVE  LogInv'
<1> SUFFICES ASSUME alone' PROVE OneAtATime' /\ LogShows'
  BY DEF LogInv
<1> DEFINE e == cmd[p].event
<1>1. alone /\ registry' = registry /\ cmd[p].pc = "audit" /\ audit' = Append(audit, e)
  BY DEF AuditCommand, Audit
<1>2. cmd'[p].pc = "idle" /\ \A q \in Procs : q # p => cmd'[q] = cmd[q]
  BY NoCommandHolds, OneMoves DEF AuditCommand
<1>3. LogShows /\ \A q \in Procs : q # p => cmd[q].pc = "idle"
  BY <1>1 DEF LogInv, OneAtATime
<1>4. \A q \in Procs : cmd'[q].pc = "idle"
  BY <1>2, <1>3
<1>5. e \in Events /\ audit \in Seq(Events) /\ e.name \in Names /\ e.event \in RegistryEvents
  <2>1. e \in CommandEvents
    BY <1>1 DEF LTypes, Holds
  <2> QED
    BY <2>1 DEF CommandEvents, EvaluationEvents, PromotionEvents, DisabledEvents, RollbackEvents, Events,
       LTypes, ImportTypes
<1>6. \A n \in Names : n # e.name => \A q \in Procs : ~Pending(q, n)
  BY <1>3 DEF Pending
<1>7. Pending(p, e.name)
  BY <1>1, <1>5 DEF Pending
<1> HIDE DEF e
<1>8. Adds(audit, e, registry.skills[e.name])
  BY <1>3, <1>5, <1>7 DEF LogShows, e
<1>9. registry.skills[e.name] \in SkillRecords
  <2>1. registry.skills \in Skills /\ registry.skills[e.name] # None
    BY <1>8 DEF LTypes, Adds
  <2> QED
    BY <1>5, <2>1 DEF Skills
<1>10. Tells(audit', e.name, registry.skills[e.name]) /\ Numbered(audit', e.name, registry.skills[e.name])
  BY <1>1, <1>5, <1>8, <1>9, AddedIsTold
<1>11. ASSUME NEW n \in Names, n # e.name
       PROVE  Tells(audit', n, registry.skills[n]) /\ Numbered(audit', n, registry.skills[n])
  <2>1. Tells(audit, n, registry.skills[n]) /\ Numbered(audit, n, registry.skills[n])
    BY <1>3, <1>6, <1>11 DEF LogShows
  <2> QED
    BY <1>1, <1>5, <1>11, <2>1, TellsStays
<1>12. \A q \in Procs, n \in Names : ~Pending(q, n)'
  BY <1>4 DEF Pending
<1>13. registry.parses
  BY <1>3 DEF LogShows
<1> QED
  BY <1>1, <1>4, <1>10, <1>11, <1>12, <1>13 DEF LogShows, OneAtATime

\* The steps that end a command, or tell of a validation.
LEMMA LaterStepsTell ==
  ASSUME LTypes, LogInv, NEW p \in Procs,
         \/ WriteHash(p) \/ WriteHashThrows(p) \/ SaveRegistry(p) \/ AuditCommand(p)
         \/ ReadSkillMd(p) \/ RendersNothing(p)
  PROVE  LogInv'
<1>1. CASE SaveRegistry(p)
  BY <1>1, SaveTells
<1>2. CASE AuditCommand(p) /\ cmd[p].event.event \in RegistryEvents
  BY <1>2, AuditTells
<1>3. CASE /\ cmd' = [cmd EXCEPT ![p] = NoCommand] /\ registry' = registry /\ alone' = alone
           /\ cmd[p].pc # "idle"
           /\ \/ audit' = audit /\ cmd[p].pc # "audit"
              \/ audit' = Append(audit, cmd[p].event) /\ cmd[p].event.event \notin RegistryEvents
                 /\ cmd[p].pc = "audit"
  <2>1. cmd'[p].pc = "idle" /\ \A q \in Procs : q # p => cmd'[q] = cmd[q]
    BY <1>3, NoCommandHolds, OneMoves
  <2>2. alone' => alone /\ OneAtATime'
    BY <1>3, <2>1 DEF LogInv, OneAtATime
  <2>3. \A q \in Procs, n \in Names :
          Pending(q, n)' = Pending(q, n) /\ (Pending(q, n) => cmd'[q].event = cmd[q].event)
    BY <1>3, <2>1 DEF Pending
  <2>4. audit' = audit \/ \E e \in Events : e.event \notin RegistryEvents /\ audit' = Append(audit, e)
    BY <1>3 DEF LTypes, Holds, Events
  <2>5. \A q \in Procs : cmd'[q].pc = "save" =>
          cmd[q].pc = "save" /\ cmd'[q].event = cmd[q].event /\ cmd'[q].skills = cmd[q].skills
    BY <2>1
  <2> QED
    BY <1>3, <2>2, <2>3, <2>4, <2>5, NothingIsTold
<1>4. CASE WriteHash(p)
  <2>1. cmd[p].pc = "hashed" /\ UNCHANGED <<registry, audit, alone>>
    BY <1>4 DEF WriteHash
  <2>2. /\ cmd'[p].pc = "audit" /\ cmd'[p].event = cmd[p].event
        /\ \A q \in Procs : q # p => cmd'[q] = cmd[q]
    BY <1>4, GoesToAudit, OneMoves DEF WriteHash
  <2>3. cmd[p].event.event \notin RegistryEvents
    BY <2>1 DEF LTypes, Holds, EvaluationEvents, RegistryEvents, Moves
  <2>4. alone' => alone /\ OneAtATime'
    BY <2>1, <2>2 DEF LogInv, OneAtATime
  <2>5. \A q \in Procs, n \in Names :
          Pending(q, n)' = Pending(q, n) /\ (Pending(q, n) => cmd'[q].event = cmd[q].event)
    BY <2>1, <2>2, <2>3 DEF Pending
  <2>6. \A q \in Procs : cmd'[q].pc = "save" =>
          cmd[q].pc = "save" /\ cmd'[q].event = cmd[q].event /\ cmd'[q].skills = cmd[q].skills
    BY <2>2
  <2> QED
    BY <2>1, <2>4, <2>5, <2>6, NothingIsTold
<1>5. CASE WriteHashThrows(p) \/ ReadSkillMd(p) \/ RendersNothing(p)
  BY <1>3, <1>5 DEF WriteHashThrows, ReadSkillMd, RendersNothing, ingestionVars
<1>6. CASE AuditCommand(p) /\ cmd[p].event.event \notin RegistryEvents
  BY <1>3, <1>6 DEF AuditCommand, Audit
<1> QED
  BY <1>1, <1>2, <1>4, <1>5, <1>6

LEMMA NextTells ==
  ASSUME LTypes, LogInv, [Next]_vars
  PROVE  LogInv'
<1>1. CASE /\ UNCHANGED <<registry, alone>>
           /\ audit' = audit \/ \E e \in ImportEvents : audit' = Append(audit, e)
           /\ \A q \in Procs : /\ cmd'[q].pc = cmd[q].pc /\ cmd'[q].event = cmd[q].event
                               /\ cmd'[q].skills = cmd[q].skills
  <2>1. audit' = audit \/ \E e \in Events : e.event \notin RegistryEvents /\ audit' = Append(audit, e)
    BY <1>1 DEF Events, ImportEvents, RegistryEvents, Moves
  <2>2. alone' => alone /\ OneAtATime'
    BY <1>1 DEF LogInv, OneAtATime
  <2>3. \A q \in Procs, n \in Names :
          Pending(q, n)' = Pending(q, n) /\ (Pending(q, n) => cmd'[q].event = cmd[q].event)
    BY <1>1 DEF Pending
  <2> QED
    BY <1>1, <2>1, <2>2, <2>3, NothingIsTold
<1>2. CASE ImportStep /\ UNCHANGED lifecycleVars
  BY <1>1, <1>2, ImportAppends DEF lifecycleVars, ImportsAreTold
<1>3. CASE \E p \in Procs : CommandStep(p)
  <2>1. PICK p \in Procs : CommandStep(p)
    BY <1>3
  <2>2. CASE CommandDies(p)
    BY <2>2 DEF CommandDies, LogInv
  <2> QED
    BY <2>1, <2>2, BeginningsTell, LaterStepsTell DEF CommandStep
<1>4. CASE \E c \in Cand, f \in Package : EditCandidate(c, f)
  <2>1. PICK c \in Cand, f \in Package : EditCandidate(c, f)
    BY <1>4
  <2>2. UNCHANGED <<audit, registry, alone>>
    BY <2>1 DEF EditCandidate
  <2> QED
    BY <1>1, <2>1, <2>2, EditKeepsTypes
<1>5. CASE UNCHANGED vars
  BY <1>1, <1>5 DEF vars, ingestionVars, lifecycleVars
<1> QED
  BY <1>2, <1>3, <1>4, <1>5 DEF Next

LEMMA InitTells ==
  ASSUME Init
  PROVE  LogInv
<1>1. /\ registry.parses /\ \A n \in Names : registry.skills[n] = None
      /\ \A p \in Procs : cmd[p].pc = "idle"
  BY NoCommandHolds DEF Init
<1>2. \A i \in DOMAIN audit : audit[i].event = "imported"
  BY InitImport DEF Init
<1>3. \A n \in Names : Places(audit, n, RegistryEvents) = {}
  BY <1>2 DEF Places, RegistryEvents, Moves
<1>4. \A n \in Names : Tells(audit, n, None) /\ Numbered(audit, n, None)
  BY <1>3 DEF Tells, Numbered
<1> QED
  BY <1>1, <1>4 DEF LogInv, OneAtATime, LogShows, Pending

\* The invariant of the log: a lone command's copy of the registry is one event ahead.
THEOREM LogIsKept == Spec => []LogInv
<1>1. Init => LogInv
  BY InitTells
<1>2. LInv /\ LogInv /\ [Next]_vars => LogInv'
  BY NextTells DEF LInv
<1> QED
  BY <1>1, <1>2, Inductive, PTL DEF Spec

LEMMA NobodyIsPending ==
  ASSUME Quiet
  PROVE  \A p \in Procs, n \in Names : ~Pending(p, n)
  BY DEF Quiet, Pending

\* While commands run one after the other and none dies, the audit log tells which
\* version of every skill is active, whether it is disabled, and how many versions there
\* are (promoteSkill, disableSkill, rollbackSkill: save, then append).
THEOREM LogTellsRegistry == Spec => []AuditTellsRegistry
<1>1. LogInv => AuditTellsRegistry
  BY NobodyIsPending DEF LogInv, LogShows, AuditTellsRegistry
<1> QED
  BY <1>1, LogIsKept, PTL

\* Version numbers of a skill stay distinct as long as no promotion follows a rollback
\* (promoteSkill numbers from the active version, skill-lifecycle.ts).
THEOREM NumbersAreDistinct == Spec => []VersionsDistinct
<1>1. LogInv => VersionsDistinct
  BY NobodyIsPending DEF LogInv, LogShows, Numbered, VersionsDistinct
<1> QED
  BY <1>1, LogIsKept, PTL

------------------------------------------------------------------------------
(* Imported files are whole.  The walk knows every entry's size; a copy in *)
(* progress is of one version as long as the source still has the version  *)
(* that the walk saw; and a manifest that validate holds is the one that   *)
(* is there, or one that was whole when it was read.                       *)

Texts == {SkillMd, Manifest}

OfOneVersion(s) == \A i, j \in DOMAIN s : s[i] = s[j]

Whole(s, k) == s \in Seq(Nat) /\ s # <<>> /\ Len(s) <= k /\ OfOneVersion(s)

WalkTold ==
  /\ \A f \in Package : source[f].version <= clock
  /\ \A i \in DOMAIN imp.entries :
       LET e == imp.entries[i] IN
       /\ e.file \notin imp.todo /\ e.version <= clock
       /\ e.size <= MaxFileSize /\ e.size <= imp.size
  /\ \A i, j \in DOMAIN imp.entries : i # j =>
       /\ imp.entries[i].file # imp.entries[j].file
       /\ imp.entries[i].size + imp.entries[j].size <= imp.size
  /\ imp.size <= MaxTotalSize /\ Len(imp.entries) <= MaxFileCount
  /\ imp.pc = "walk" => imp.copied = 0

\* The copy of an entry is there, and what it holds of the entry.
CopiedAt(i) == i <= imp.copied \/ (i = imp.copied + 1 /\ imp.pc \in {"read", "fstat"})

CopyOf(i, s) ==
  LET e == imp.entries[i] IN
  /\ s \in Seq(Nat) /\ Len(s) <= e.size
  /\ i <= imp.copied \/ source[e.file].version = e.version => \A j \in DOMAIN s : s[j] = e.version

CopyTold ==
  imp.pc \in Filling =>
    LET c == imp.cand IN
    /\ cands[c].at = "candidates" /\ ~Imported(c)
    /\ \A f \in Texts : cands[c].files[f] # None =>
         \E i \in DOMAIN imp.entries : imp.entries[i].file = f /\ CopiedAt(i)
    /\ \A i \in DOMAIN imp.entries : imp.entries[i].file \in Texts /\ CopiedAt(i) =>
         CopyOf(i, cands[c].files[imp.entries[i].file])
    /\ imp.pc \in {"accepted", "written"} =>
         /\ imp.copied = Len(imp.entries)
         /\ cands[c].files[SkillMd] \notin {None, <<>>}
         /\ cands[c].files[Manifest] # None => cands[c].files[Manifest] # <<>>

\* validate's copy of a manifest.
HeldTold ==
  \A p \in Procs : cmd[p].pc = "hashed" =>
    /\ cands[cmd[p].cand].at # "none" /\ cmd[p].manifest \notin {None, <<>>}
    /\ imp.cand = cmd[p].cand =>
         cmd[p].manifest = cands[imp.cand].files[Manifest] /\ ~CutShort(imp.cand)

Within(c, a, b) ==
  /\ a + b <= MaxTotalSize
  /\ Whole(cands[c].files[SkillMd], a)
  /\ cands[c].files[Manifest] # None => Whole(cands[c].files[Manifest], b) /\ MaxFileCount >= 2
  /\ \A p \in Procs : cmd[p].pc = "hashed" /\ cmd[p].cand = c => Whole(cmd[p].manifest, b) /\ MaxFileCount >= 2

ImportedTold ==
  \A c \in Cand : Imported(c) =>
    /\ cands[c].at # "none" /\ imp.cand # c
    /\ \E a, b \in 0..MaxFileSize : Within(c, a, b)

FileInv == WalkTold /\ CopyTold /\ HeldTold /\ ImportedTold

NoImportIsTold == audit' = audit \/ \E e \in Events : e.event # "imported" /\ audit' = Append(audit, e)

LEMMA ImportedStays ==
  ASSUME audit \in Seq(Events), NoImportIsTold
  PROVE  \A c : Imported(c)' <=> Imported(c)
<1>1. CASE audit' = audit
  BY <1>1 DEF Imported
<1>2. CASE \E e \in Events : e.event # "imported" /\ audit' = Append(audit, e)
  <2>1. PICK e \in Events : e.event # "imported" /\ audit' = Append(audit, e)
    BY <1>2
  <2>2. /\ DOMAIN audit = 1..Len(audit) /\ Len(audit) \in Nat
        /\ DOMAIN audit' = 1..(Len(audit) + 1)
        /\ \A i \in DOMAIN audit : audit'[i] = audit[i]
        /\ audit'[Len(audit) + 1] = e
    BY <2>1, LogIsRead
  <2>3. (\A i \in DOMAIN audit' : i \in DOMAIN audit \/ i = Len(audit) + 1) /\ DOMAIN audit \subseteq DOMAIN audit'
    BY <2>2
  <2> QED
    BY <2>1, <2>2, <2>3 DEF Imported
<1> QED
  BY <1>1, <1>2 DEF NoImportIsTold

\* No file of a candidate is written, and validate reads no manifest.
LEMMA FilesStay ==
  ASSUME LTypes, FileInv, UNCHANGED <<source, clock, imp>>, NoImportIsTold,
         \A c \in Cand : cands'[c].at = cands[c].at /\ cands'[c].files = cands[c].files,
         \A q \in Procs : cmd'[q].pc = "hashed" =>
           cmd[q].pc = "hashed" /\ cmd'[q].cand = cmd[q].cand /\ cmd'[q].manifest = cmd[q].manifest
  PROVE  FileInv'
<1>1. /\ \A c : Imported(c)' <=> Imported(c)
      /\ imp.pc \in Filling <=> imp.cand \in Cand
      /\ \A q \in Procs : cmd[q].pc = "hashed" => cmd[q].cand \in Cand
  BY ImportedStays DEF LTypes, ImportTypes, ImportHolds, Holds
<1>2. WalkTold'
  BY DEF FileInv, WalkTold
<1>3. CopyTold'
  <2>1. SUFFICES ASSUME imp.pc \in Filling PROVE CopyTold'
    BY DEF CopyTold
  <2> DEFINE c == imp.cand
  <2>2. imp' = imp /\ source' = source /\ c \in Cand
    BY <1>1, <2>1
  <2>3. cands'[c].at = cands[c].at /\ cands'[c].files = cands[c].files /\ (Imported(c)' <=> Imported(c))
    BY <1>1, <2>2
  <2>4. CopyTold
    BY DEF FileInv
  <2>5. \A i \in DOMAIN imp.entries : /\ CopiedAt(i)' <=> CopiedAt(i)
                                      /\ \A t : CopyOf(i, t)' <=> CopyOf(i, t)
    BY <2>2 DEF CopiedAt, CopyOf
  <2> QED
    BY <2>1, <2>2, <2>3, <2>4, <2>5 DEF CopyTold
<1>4. HeldTold'
  <2>1. imp.cand \in Cand => (CutShort(imp.cand)' <=> CutShort(imp.cand))
    BY DEF CutShort, Current, Copied
  <2> QED
    BY <1>1, <2>1 DEF FileInv, HeldTold
<1>5. ASSUME NEW c \in Cand, NEW a, NEW b, Within(c, a, b) PROVE Within(c, a, b)'
  <2>1. cands'[c].files = cands[c].files
    OBVIOUS
  <2> QED
    BY <1>5, <2>1 DEF Within
<1>6. ImportedTold'
  BY <1>1, <1>5 DEF FileInv, ImportedTold
<1> QED
  BY <1>2, <1>3, <1>4, <1>6 DEF FileInv

\* An import that ends without its event.
LEMMA ImportEnds ==
  ASSUME LTypes, FileInv, imp' = Idle, UNCHANGED <<source, clock, cmd>>, NoImportIsTold,
         \A c \in Cand : c # imp.cand => cands'[c] = cands[c],
         \A c \in Cand : cands[c].at # "none" => cands'[c].at # "none"
  PROVE  FileInv'
<1>1. /\ \A c : Imported(c)' <=> Imported(c)
      /\ \A q \in Procs : cmd[q].pc = "hashed" => cmd[q].cand \in Cand
  BY ImportedStays DEF LTypes, ImportTypes, Holds
<1>2. imp'.pc = "idle" /\ imp'.cand = None /\ imp'.entries = <<>> /\ imp'.size = 0
  BY DEF Idle
<1>3. WalkTold'
  <2>1. 0 <= MaxTotalSize /\ 0 <= MaxFileCount /\ DOMAIN imp'.entries = {} /\ Len(imp'.entries) = 0
    BY <1>2, IngestionAssumption
  <2> QED
    BY <1>2, <2>1 DEF FileInv, WalkTold
<1>4. CopyTold'
  BY <1>2 DEF CopyTold, Filling
<1>5. None \notin Cand
  BY IngestionAssumption
<1>6. HeldTold'
  <2>1. ASSUME NEW q \in Procs, cmd'[q].pc = "hashed"
        PROVE  /\ cands'[cmd'[q].cand].at # "none" /\ cmd'[q].manifest \notin {None, <<>>} /\ imp'.cand # cmd'[q].cand
    <3>1. cmd' = cmd /\ cmd[q].pc = "hashed" /\ cmd[q].cand \in Cand
      BY <1>1, <2>1
    <3>2. cands[cmd[q].cand].at # "none" /\ cmd[q].manifest \notin {None, <<>>}
      BY <3>1 DEF FileInv, HeldTold
    <3> QED
      BY <1>2, <1>5, <3>1, <3>2
  <2> QED
    BY <2>1 DEF HeldTold
<1>7. ASSUME NEW c \in Cand, NEW a, NEW b, c # imp.cand, Within(c, a, b) PROVE Within(c, a, b)'
  <2>1. cands'[c] = cands[c] /\ cmd' = cmd
    BY <1>7
  <2> QED
    BY <1>7, <2>1 DEF Within, Whole, OfOneVersion
<1>8. ImportedTold'
  <2>1. ASSUME NEW c \in Cand, Imported(c)'
        PROVE  cands'[c].at # "none" /\ imp'.cand # c /\ \E a, b \in 0..MaxFileSize : Within(c, a, b)'
    <3>1. cands[c].at # "none" /\ imp.cand # c /\ \E a, b \in 0..MaxFileSize : Within(c, a, b)
      BY <1>1, <2>1 DEF FileInv, ImportedTold
    <3> QED
      BY <1>2, <1>5, <1>7, <3>1
  <2> QED
    BY <2>1 DEF ImportedTold
<1> QED
  BY <1>3, <1>4, <1>6, <1>8 DEF FileInv

\* The entries of the walk.
LEMMA EntriesAreTyped ==
  ASSUME LTypes
  PROVE  /\ DOMAIN imp.entries = 1..Len(imp.entries) /\ Len(imp.entries) \in Nat
         /\ \A i \in DOMAIN imp.entries :
              /\ imp.entries[i].file \in Package
              /\ imp.entries[i].version \in Nat /\ imp.entries[i].size \in Nat
         /\ imp.copied \in Nat /\ imp.size \in Nat /\ clock \in Nat
         /\ \A f \in Package : source[f].version \in Nat /\ source[f].size \in Nat
         /\ imp.pc \in Filling <=> imp.cand \in Cand
<1>1. /\ imp.entries \in Seq(WalkedEntries) /\ imp.copied \in Nat /\ imp.size \in Nat /\ clock \in Nat
      /\ source \in [Package -> SourceEntries]
      /\ imp.pc \in Filling <=> imp.cand \in Cand
  BY DEF LTypes, ImportTypes, ImportHolds, ImportRecords
<1>2. \A e \in WalkedEntries : e.file \in Package /\ e.version \in Nat /\ e.size \in Nat
  BY DEF WalkedEntries
<1>3. \A f \in Package : source[f].version \in Nat /\ source[f].size \in Nat
  BY <1>1 DEF SourceEntries
<1> QED
  BY <1>1, <1>2, <1>3

LEMMA UserTells ==
  ASSUME LTypes, FileInv, NEW f \in Package, EditFile(f) \/ ReplaceFile(f), UNCHANGED cmd
  PROVE  FileInv'
<1>1. /\ imp' = imp /\ cands' = cands /\ audit' = audit /\ cmd' = cmd /\ clock' = clock + 1
      /\ \A g \in Package : source'[g].version = source[g].version \/ source'[g].version = clock + 1
  <2>1. source \in [Package -> SourceEntries]
    BY DEF LTypes, ImportTypes
  <2>2. CASE EditFile(f)
    <3>1. PICK z \in 0..MaxFileSize + 1 : source' = [source EXCEPT ![f].version = clock + 1, ![f].size = z]
      BY <2>2 DEF EditFile
    <3> DEFINE v == clock + 1
    <3>2. source' = [source EXCEPT ![f].version = v, ![f].size = z]
      BY <3>1
    <3> HIDE DEF v
    <3>3. source'[f].version = v /\ \A g \in Package : g # f => source'[g] = source[g]
      BY <2>1, <3>2 DEF SourceEntries
    <3> QED
      BY <2>2, <3>3 DEF EditFile, v
  <2>3. CASE ReplaceFile(f)
    <3>1. PICK k \in Kinds : source' = [source EXCEPT ![f] = Entry(k, clock + 1, 1)]
      BY <2>3 DEF ReplaceFile
    <3>2. Entry(k, clock + 1, 1).version = clock + 1
      BY DEF Entry
    <3>3. source'[f] = Entry(k, clock + 1, 1) /\ \A g \in Package : g # f => source'[g] = source[g]
      BY <2>1, <3>1
    <3> QED
      BY <2>3, <3>2, <3>3 DEF ReplaceFile
  <2> QED
    BY <2>2, <2>3
<1>2. /\ clock \in Nat /\ \A g \in Package : source[g].version \in Nat
      /\ \A i \in DOMAIN imp.entries : imp.entries[i].file \in Package /\ imp.entries[i].version \in Nat
  BY EntriesAreTyped
<1>3. WalkTold'
  <2>1. \A g \in Package : source'[g].version <= clock + 1
    BY <1>1, <1>2 DEF FileInv, WalkTold
  <2>2. \A i \in DOMAIN imp.entries : imp.entries[i].version <= clock + 1
    BY <1>2 DEF FileInv, WalkTold
  <2> QED
    BY <1>1, <2>1, <2>2 DEF FileInv, WalkTold
<1>4. \A i \in DOMAIN imp.entries :
        LET e == imp.entries[i] IN source'[e.file].version = e.version => source[e.file].version = e.version
  <2>1. ASSUME NEW i \in DOMAIN imp.entries, source'[imp.entries[i].file].version = imp.entries[i].version
        PROVE  source[imp.entries[i].file].version = imp.entries[i].version
    <3>1. imp.entries[i].version <= clock
      BY DEF FileInv, WalkTold
    <3>2. imp.entries[i].version # clock + 1
      BY <1>2, <3>1
    <3> QED
      BY <1>1, <1>2, <2>1, <3>2
  <2> QED
    BY <2>1
<1>5. \A i \in DOMAIN imp.entries : \A t : CopyOf(i, t) => CopyOf(i, t)'
  BY <1>1, <1>4 DEF CopyOf
<1>6. CopyTold'
  BY <1>1, <1>5 DEF FileInv, CopyTold, CopiedAt, Imported
<1>7. HeldTold' /\ ImportedTold'
  BY <1>1 DEF FileInv, HeldTold, CutShort, Current, Copied, ImportedTold, Imported, Within
<1> QED
  BY <1>3, <1>6, <1>7 DEF FileInv

LEMMA WalkTells ==
  ASSUME LTypes, FileInv, NEW f \in Package, Walk(f), UNCHANGED cmd
  PROVE  FileInv'
<1>1. UNCHANGED <<source, clock, cands, cmd>> /\ imp.pc = "walk" /\ imp.cand \notin Cand /\ f \in imp.todo
  BY EntriesAreTyped DEF Walk, Filling
<1>2. CASE ~WalkAccepts(f)
  <2>1. imp' = Idle /\ NoImportIsTold
    <3>1. Imports("import-rejected") \in Events /\ Imports("import-rejected").event # "imported"
      BY RejectionIsTold DEF Imports
    <3> QED
      BY <1>2, <3>1 DEF Walk, Audit, NoImportIsTold
  <2> QED
    BY <1>1, <2>1, ImportEnds
<1>3. CASE WalkAccepts(f)
  <2> DEFINE w == Walked(f)
             l == Len(imp.entries)
             size == imp.size + source[f].size
  <2>1. /\ w \in WalkedEntries /\ w.file = f /\ w.version = source[f].version /\ w.size = source[f].size
    <3>1. source[f] \in SourceEntries
      BY DEF LTypes, ImportTypes
    <3> QED
      BY <3>1 DEF Walked, WalkedEntries, SourceEntries
  <2>2. /\ imp.entries \in Seq(WalkedEntries) /\ imp \in ImportRecords /\ imp.size \in Nat /\ clock \in Nat
        /\ source[f].size \in Nat /\ source[f].version \in Nat /\ size \in Nat
    BY EntriesAreTyped DEF LTypes, ImportTypes, ImportRecords
  <2>3. imp' = [imp EXCEPT !.todo = imp.todo \ {f}, !.entries = Append(imp.entries, w), !.size = size]
        /\ audit' = audit
    BY <1>3, Zenon DEF Walk
  <2>4. source[f].size <= MaxFileSize /\ l < MaxFileCount /\ size <= MaxTotalSize
    BY <1>3 DEF WalkAccepts
  <2>5. source[f].version <= clock
    BY DEF FileInv, WalkTold
  <2> HIDE DEF w, size
  <2>6. /\ DOMAIN imp.entries = 1..l /\ l \in Nat /\ DOMAIN Append(imp.entries, w) = 1..(l + 1)
        /\ Len(Append(imp.entries, w)) = l + 1
        /\ \A i \in 1..l : Append(imp.entries, w)[i] = imp.entries[i]
        /\ Append(imp.entries, w)[l + 1] = w
    BY <2>1, <2>2
  <2>7. /\ imp'.pc = "walk" /\ imp'.cand = imp.cand /\ imp'.todo = imp.todo \ {f} /\ imp'.size = size
        /\ imp'.copied = imp.copied
        /\ imp'.entries = Append(imp.entries, w)
    BY <1>1, <2>2, <2>3 DEF ImportRecords
  <2> DEFINE more == imp'.entries
  <2> HIDE DEF l
  <2>8. /\ DOMAIN more = 1..(l + 1) /\ Len(more) = l + 1 /\ more[l + 1] = w
        /\ \A i \in 1..l : more[i] = imp.entries[i]
        /\ \A i \in 1..(l + 1) : i \in 1..l \/ i = l + 1
    BY <2>6, <2>7
  <2>9. /\ \A i \in 1..l : imp.entries[i].size \in Nat
        /\ imp.size <= size /\ source[f].size <= size
    <3>1. size = imp.size + source[f].size
      BY DEF size
    <3>2. \A i \in 1..l : imp.entries[i].size \in Nat
      BY <2>6, EntriesAreTyped
    <3>3. imp.size <= size /\ source[f].size <= size
      BY <2>2, <3>1
    <3> QED
      BY <3>2, <3>3
  <2>10. \A i \in 1..l : /\ imp.entries[i].file # f /\ imp.entries[i].file \notin imp.todo
                         /\ imp.entries[i].version <= clock
                         /\ imp.entries[i].size <= MaxFileSize /\ imp.entries[i].size <= imp.size
    BY <1>1, <2>6 DEF FileInv, WalkTold
  <2>11. /\ \A i \in 1..l : /\ imp.entries[i].size <= size
                            /\ imp.entries[i].size + source[f].size <= size
                            /\ source[f].size + imp.entries[i].size <= size
    <3>1. size = imp.size + source[f].size
      BY DEF size
    <3> QED
      BY <2>2, <2>9, <2>10, <3>1
  <2>12. \A i, j \in 1..l : i # j => /\ imp.entries[i].file # imp.entries[j].file
                                   /\ imp.entries[i].size + imp.entries[j].size <= size
    <3>1. \A i, j \in 1..l : i # j => /\ imp.entries[i].file # imp.entries[j].file
                                    /\ imp.entries[i].size + imp.entries[j].size <= imp.size
      BY <2>6 DEF FileInv, WalkTold
    <3> QED
      BY <2>2, <2>9, <3>1
  <2> HIDE DEF more
  <2>13. \A i \in DOMAIN more : /\ more[i].file \notin imp.todo \ {f} /\ more[i].version <= clock
                               /\ more[i].size <= MaxFileSize /\ more[i].size <= size
    BY <2>1, <2>4, <2>5, <2>8, <2>9, <2>10, <2>11
  <2>14. \A i, j \in DOMAIN more : i # j => more[i].file # more[j].file /\ more[i].size + more[j].size <= size
    BY <2>1, <2>8, <2>10, <2>11, <2>12
  <2>15. Len(more) <= MaxFileCount
    BY <2>4, <2>6, <2>8, IngestionAssumption
  <2>16. WalkTold'
    <3>1. imp.copied = 0 /\ \A g \in Package : source'[g].version <= clock'
      BY <1>1 DEF FileInv, WalkTold
    <3> QED
      BY <1>1, <2>4, <2>7, <2>13, <2>14, <2>15, <3>1 DEF WalkTold, more
  <2>17. CopyTold'
    BY <2>7 DEF CopyTold, Filling
  <2>18. /\ \A q \in Procs : cmd[q].pc = "hashed" => cmd[q].cand \in Cand
    BY DEF LTypes, Holds
  <2>19. HeldTold'
    BY <1>1, <2>7, <2>18 DEF FileInv, HeldTold
  <2>20. ImportedTold'
    BY <1>1, <2>3, <2>7 DEF FileInv, ImportedTold, Imported, Within
  <2> QED
    BY <2>16, <2>17, <2>19, <2>20 DEF FileInv
<1> QED
  BY <1>2, <1>3

\* A candidate that is made is new: no file, no event and no command of it.
LEMMA CreateTells ==
  ASSUME LTypes, FileInv, NEW c \in Cand, CreateSnapshot(c), UNCHANGED cmd
  PROVE  FileInv'
<1>1. /\ UNCHANGED <<source, clock, audit, cmd>> /\ imp.pc = "walk" /\ cands[c] = NoDirectory
      /\ imp' = [imp EXCEPT !.pc = "open", !.cand = c]
      /\ cands' = [cands EXCEPT ![c].at = "candidates"]
  BY DEF CreateSnapshot
<1>2. /\ imp'.pc = "open" /\ imp'.cand = c
      /\ imp'.entries = imp.entries /\ imp'.todo = imp.todo /\ imp'.size = imp.size /\ imp'.copied = imp.copied
  BY <1>1 DEF LTypes, ImportTypes, ImportRecords
<1>3. /\ cands'[c].at = "candidates" /\ \A f \in Package : cands'[c].files[f] = None
      /\ \A b \in Cand : b # c => cands'[b] = cands[b]
  <2>1. cands \in [Cand -> Directories]
    BY DEF LTypes, ImportTypes
  <2>2. cands[c].files = [f \in Package |-> None]
    BY <1>1 DEF NoDirectory
  <2>3. cands'[c].at = "candidates" /\ cands'[c].files = cands[c].files /\ \A b \in Cand : b # c => cands'[b] = cands[b]
    BY <1>1, <2>1 DEF Directories
  <2> QED
    BY <2>2, <2>3
<1>4. cands[c].at = "none"
  BY <1>1 DEF NoDirectory
<1>5. /\ \A q \in Procs : cmd[q].pc = "hashed" => cmd[q].cand \in Cand /\ cmd[q].cand # c
      /\ ~Imported(c)
  BY <1>4 DEF LTypes, Holds, FileInv, HeldTold, ImportedTold
<1>6. WalkTold'
  BY <1>1, <1>2 DEF FileInv, WalkTold
<1>7. CopyTold'
  <2>1. Texts \subseteq Package
    BY DEF Texts, Package
  <2>2. imp.copied = 0
    BY <1>1 DEF FileInv, WalkTold
  <2>3. \A i \in DOMAIN imp.entries : ~CopiedAt(i)'
    BY <1>2, <2>2, EntriesAreTyped DEF CopiedAt
  <2>4. ~Imported(c)'
    BY <1>1, <1>5 DEF Imported
  <2> QED
    BY <1>2, <1>3, <2>1, <2>3, <2>4 DEF CopyTold
<1>8. HeldTold'
  BY <1>1, <1>2, <1>3, <1>5 DEF FileInv, HeldTold
<1>9. ImportedTold'
  BY <1>1, <1>2, <1>3, <1>5 DEF FileInv, ImportedTold, Imported, Within
<1> QED
  BY <1>6, <1>7, <1>8, <1>9 DEF FileInv

LEMMA ReadDirectoryTells ==
  ASSUME LTypes, FileInv, ReadDirectory, UNCHANGED cmd
  PROVE  FileInv'
<1> DEFINE todo == {f \in Package : source[f].kind # "none"}
<1>1. /\ UNCHANGED <<source, clock, cands, audit, cmd>>
      /\ imp' = [Idle EXCEPT !.pc = "walk", !.todo = todo]
  BY DEF ReadDirectory
<1> HIDE DEF todo
<1>2. /\ imp'.pc = "walk" /\ imp'.cand = None /\ imp'.entries = <<>> /\ imp'.size = 0 /\ imp'.copied = 0
  BY <1>1 DEF Idle
<1>3. WalkTold'
  <2>1. 0 <= MaxTotalSize /\ 0 <= MaxFileCount /\ DOMAIN imp'.entries = {} /\ Len(imp'.entries) = 0
    BY <1>2, IngestionAssumption
  <2> QED
    BY <1>1, <1>2, <2>1 DEF FileInv, WalkTold
<1>4. CopyTold'
  BY <1>2 DEF CopyTold, Filling
<1>5. /\ None \notin Cand
      /\ \A q \in Procs : cmd[q].pc = "hashed" => cmd[q].cand \in Cand
  BY IngestionAssumption DEF LTypes, Holds
<1>6. HeldTold'
  BY <1>1, <1>2, <1>5 DEF FileInv, HeldTold
<1>7. ImportedTold'
  BY <1>1, <1>2, <1>5 DEF FileInv, ImportedTold, Imported, Within
<1> QED
  BY <1>3, <1>4, <1>6, <1>7 DEF FileInv

LEMMA RejectTells ==
  ASSUME LTypes, FileInv, RejectCopy, imp.cand \in Cand, UNCHANGED <<source, clock, cmd>>
  PROVE  FileInv'
<1>1. NoImportIsTold /\ imp' = Idle
  <2>1. Imports("import-rejected") \in Events /\ Imports("import-rejected").event # "imported"
    BY RejectionIsTold DEF Imports
  <2> QED
    BY <2>1 DEF RejectCopy, Audit, NoImportIsTold
<1>2. PICK removed \in BOOLEAN : cands' = [cands EXCEPT ![imp.cand] = IF removed THEN Removed ELSE @]
  BY DEF RejectCopy
<1>3. cands \in [Cand -> Directories] /\ Removed.at # "none"
  BY DEF LTypes, ImportTypes, Removed
<1>4. /\ \A c \in Cand : c # imp.cand => cands'[c] = cands[c]
      /\ \A c \in Cand : cands[c].at # "none" => cands'[c].at # "none"
  BY <1>2, <1>3
<1> QED
  BY <1>1, <1>4, ImportEnds

\* The copy is at an entry: a step writes to its file alone, and leaves the walk.
LEMMA FileWritten ==
  ASSUME LTypes, FileInv, imp.pc \in {"open", "read"}, imp.copied < Len(imp.entries),
         imp'.pc = "read", imp'.cand = imp.cand, imp'.entries = imp.entries, imp'.todo = imp.todo,
         imp'.size = imp.size, imp'.copied = imp.copied,
         NEW t, Current.file \in Texts => CopyOf(imp.copied + 1, t), cands' = [cands EXCEPT ![imp.cand].files[Current.file] = t],
         \A q \in Procs : cmd[q].pc = "hashed" /\ cmd[q].cand = imp.cand => Current.file # Manifest,
         UNCHANGED <<source, clock, audit, cmd>>
  PROVE  FileInv'
<1> DEFINE c == imp.cand
           k == imp.copied + 1
           f == Current.file
<1>1. /\ k \in DOMAIN imp.entries /\ imp.copied \in Nat /\ f = imp.entries[k].file /\ f \in Package /\ c \in Cand
      /\ DOMAIN imp.entries \subseteq Nat
  BY EntriesAreTyped DEF Filling, Current
<1>2. /\ cands'[c].at = cands[c].at /\ cands'[c].files[f] = t
      /\ \A g \in Package : g # f => cands'[c].files[g] = cands[c].files[g]
      /\ \A b \in Cand : b # c => cands'[b] = cands[b]
  <2>1. cands \in [Cand -> Directories]
    BY DEF LTypes, ImportTypes
  <2> HIDE DEF c, f
  <2>2. cands' = [cands EXCEPT ![c].files[f] = t]
    BY DEF c, f
  <2> QED
    BY <1>1, <2>1, <2>2 DEF Directories
<1> HIDE DEF c, k, f
<1>3. \A i \in DOMAIN imp.entries : i # k => imp.entries[i].file # f
  BY <1>1 DEF FileInv, WalkTold
<1>4. \A i \in DOMAIN imp.entries : CopiedAt(i)' <=> i <= imp.copied \/ i = k
  BY DEF CopiedAt, k
<1>5. \A i \in DOMAIN imp.entries : CopiedAt(i) => CopiedAt(i)'
  BY <1>4 DEF CopiedAt, k
<1>6. WalkTold'
  BY DEF FileInv, WalkTold
<1>7. Texts \subseteq Package
  BY DEF Texts, Package
<1>8. imp.pc \in Filling /\ CopyTold
  BY DEF Filling, FileInv
<1>9. CopyTold'
  <2>1. cands'[c].at = "candidates" /\ ~Imported(c)'
    BY <1>2, <1>8 DEF CopyTold, Imported, c
  <2>2. ASSUME NEW g \in Texts, cands'[c].files[g] # None
        PROVE  \E i \in DOMAIN imp.entries : imp.entries[i].file = g /\ CopiedAt(i)'
    <3>1. CASE g = f
      BY <1>1, <1>4, <3>1
    <3>2. CASE g # f
      <4>1. cands[c].files[g] # None
        BY <1>2, <1>7, <2>2, <3>2
      <4> QED
        BY <1>5, <1>8, <4>1 DEF CopyTold, c
    <3> QED
      BY <3>1, <3>2
  <2>3. \A i \in DOMAIN imp.entries : \A z : CopyOf(i, z)' <=> CopyOf(i, z)
    BY DEF CopyOf
  <2>4. ASSUME NEW i \in DOMAIN imp.entries, imp.entries[i].file \in Texts, CopiedAt(i)'
        PROVE  CopyOf(i, cands'[c].files[imp.entries[i].file])
    <3>1. CASE i = k
      BY <1>1, <1>2, <2>4, <3>1 DEF k, f
    <3>2. CASE i # k
      <4>1. imp.entries[i].file # f /\ CopiedAt(i)
        BY <1>3, <1>4, <2>4, <3>2 DEF CopiedAt
      <4>2. cands'[c].files[imp.entries[i].file] = cands[c].files[imp.entries[i].file]
        BY <1>2, <1>7, <2>4, <4>1
      <4> QED
        BY <1>8, <2>4, <4>1, <4>2 DEF CopyTold, c
    <3> QED
      BY <3>1, <3>2
  <2> QED
    BY <2>1, <2>2, <2>3, <2>4 DEF CopyTold, c
<1>10. HeldTold'
  <2>1. ASSUME NEW q \in Procs, cmd[q].pc = "hashed"
        PROVE  /\ cands'[cmd[q].cand].at # "none" /\ cmd[q].manifest \notin {None, <<>>}
               /\ c = cmd[q].cand => cmd[q].manifest = cands'[c].files[Manifest] /\ f # Manifest
    <3>1. /\ cands[cmd[q].cand].at # "none" /\ cmd[q].manifest \notin {None, <<>>}
          /\ c = cmd[q].cand => cmd[q].manifest = cands[c].files[Manifest]
      BY <2>1 DEF FileInv, HeldTold, c
    <3>2. cmd[q].cand \in Cand /\ Manifest \in Package
      BY <2>1 DEF LTypes, Holds, Package
    <3>3. c = cmd[q].cand => f # Manifest
      BY <2>1 DEF c, f
    <3> QED
      BY <1>1, <1>2, <3>1, <3>2, <3>3
  <2>2. f # Manifest => ~CutShort(c)'
    BY DEF CutShort, Current, f
  <2> QED
    BY <2>1, <2>2 DEF HeldTold, c
<1>11. ImportedTold'
  <2>1. ASSUME NEW b \in Cand, Imported(b)'
        PROVE  cands'[b].at # "none" /\ c # b /\ \E x, y \in 0..MaxFileSize : Within(b, x, y)'
    <3>1. Imported(b) /\ c # b
      BY <1>8, <2>1 DEF Imported, CopyTold, c
    <3>2. cands[b].at # "none" /\ \E x, y \in 0..MaxFileSize : Within(b, x, y)
      BY <3>1 DEF FileInv, ImportedTold
    <3>3. ASSUME NEW x, NEW y, Within(b, x, y) PROVE Within(b, x, y)'
      <4>1. cands'[b] = cands[b]
        BY <1>2, <3>1
      <4> QED
        BY <3>3, <4>1 DEF Within
    <3> QED
      BY <1>2, <3>1, <3>2, <3>3
  <2> QED
    BY <2>1 DEF ImportedTold, c
<1> QED
  BY <1>6, <1>9, <1>10, <1>11 DEF FileInv

LEMMA OpenTells ==
  ASSUME LTypes, FileInv, OpenSource, UNCHANGED cmd
  PROVE  FileInv'
<1>1. UNCHANGED <<source, clock, cmd>> /\ imp.pc = "open" /\ imp.copied < Len(imp.entries) /\ imp.cand \in Cand
  BY EntriesAreTyped DEF OpenSource, Filling
<1>2. CASE RejectCopy
  BY <1>1, <1>2, RejectTells
<1>3. CASE /\ imp' = [imp EXCEPT !.pc = "read"]
           /\ cands' = [cands EXCEPT ![imp.cand].files[Current.file] = <<>>]
           /\ UNCHANGED <<audit, faulted>>
  <2>1. /\ imp'.pc = "read" /\ imp'.cand = imp.cand /\ imp'.entries = imp.entries /\ imp'.todo = imp.todo
        /\ imp'.size = imp.size /\ imp'.copied = imp.copied
    BY <1>3 DEF LTypes, ImportTypes, ImportRecords
  <2> DEFINE k == imp.copied + 1
  <2>2. k \in DOMAIN imp.entries /\ Current = imp.entries[k] /\ imp.entries[k].size \in Nat /\ imp.copied \in Nat
    BY <1>1, EntriesAreTyped DEF Current
  <2>3. CopyOf(k, <<>>)
    BY <2>2 DEF CopyOf
  <2>4. ASSUME NEW q \in Procs, cmd[q].pc = "hashed", cmd[q].cand = imp.cand PROVE Current.file # Manifest
    <3>1. cands[imp.cand].files[Manifest] # None
      BY <2>4 DEF FileInv, HeldTold
    <3>2. PICK i \in DOMAIN imp.entries : imp.entries[i].file = Manifest /\ CopiedAt(i)
      BY <1>1, <3>1 DEF FileInv, CopyTold, Texts, Filling
    <3>3. i # k
      BY <1>1, <2>2, <3>2 DEF CopiedAt
    <3> QED
      BY <2>2, <3>2, <3>3 DEF FileInv, WalkTold
  <2> QED
    BY <1>1, <1>3, <2>1, <2>3, <2>4, FileWritten
<1> QED
  BY <1>2, <1>3 DEF OpenSource

\* The place of the copy changes, and what is copied does not.
LEMMA CopyMovesOn ==
  ASSUME LTypes, FileInv, imp.pc \in Filling, imp'.pc \in Filling \ {"read"},
         imp'.cand = imp.cand, imp'.entries = imp.entries, imp'.todo = imp.todo, imp'.size = imp.size,
         UNCHANGED <<source, clock, audit, cmd>>,
         \A i \in DOMAIN imp.entries : CopiedAt(i)' <=> CopiedAt(i),
         \A i \in DOMAIN imp.entries :
           i <= imp'.copied /\ ~(i <= imp.copied) => source[imp.entries[i].file].version = imp.entries[i].version,
         imp'.pc \in {"accepted", "written"} =>
           /\ imp'.copied = Len(imp.entries)
           /\ cands[imp.cand].files[SkillMd] \notin {None, <<>>}
           /\ cands[imp.cand].files[Manifest] # None => cands[imp.cand].files[Manifest] # <<>>,
         \A c \in Cand : cands'[c].at = cands[c].at /\ \A f \in Texts : cands'[c].files[f] = cands[c].files[f]
  PROVE  FileInv'
<1>1. /\ imp.cand \in Cand /\ SkillMd \in Texts /\ Manifest \in Texts
      /\ imp.copied \in Nat /\ DOMAIN imp.entries \subseteq Nat
      /\ \A q \in Procs : cmd[q].pc = "hashed" => cmd[q].cand \in Cand
  BY EntriesAreTyped DEF Texts, LTypes, Holds
<1>2. WalkTold'
  BY DEF FileInv, WalkTold, Filling
<1>3. \A i \in DOMAIN imp.entries : \A t : CopiedAt(i) /\ CopyOf(i, t) => CopyOf(i, t)'
  <2>1. ASSUME NEW i \in DOMAIN imp.entries, NEW t, CopiedAt(i), CopyOf(i, t) PROVE CopyOf(i, t)'
    <3> DEFINE e == imp.entries[i]
    <3>1. imp'.entries[i] = e /\ t \in Seq(Nat) /\ Len(t) <= e.size
      BY <2>1 DEF CopyOf
    <3>2. ASSUME i <= imp'.copied \/ source[e.file].version = e.version
          PROVE  \A j \in DOMAIN t : t[j] = e.version
      <4>1. i <= imp.copied \/ source[e.file].version = e.version
        BY <3>2
      <4> QED
        BY <2>1, <4>1 DEF CopyOf
    <3> QED
      BY <3>1, <3>2 DEF CopyOf
  <2> QED
    BY <2>1
<1>4. CopyTold'
  <2>1. CopyTold
    BY DEF FileInv
  <2> DEFINE c == imp.cand
  <2>2. cands'[c].at = "candidates" /\ ~Imported(c)'
    BY <1>1, <2>1 DEF CopyTold, Imported
  <2>3. \A g \in Texts : cands'[c].files[g] # None =>
          \E i \in DOMAIN imp.entries : imp.entries[i].file = g /\ CopiedAt(i)'
    BY <1>1, <2>1 DEF CopyTold
  <2>4. ASSUME NEW i \in DOMAIN imp.entries, imp.entries[i].file \in Texts, CopiedAt(i)'
        PROVE  CopyOf(i, cands[imp.cand].files[imp.entries[i].file])'
    <3>1. PICK t : t = cands[c].files[imp.entries[i].file]
      OBVIOUS
    <3>2. CopiedAt(i) /\ CopyOf(i, t)
      BY <2>1, <2>4, <3>1 DEF CopyTold
    <3>3. CopyOf(i, t)'
      BY <1>3, <3>2
    <3>4. t = cands'[imp'.cand].files[imp'.entries[i].file]
      BY <1>1, <2>4, <3>1
    <3> QED
      BY <3>3, <3>4 DEF CopyOf
  <2> QED
    BY <1>1, <2>1, <2>2, <2>3, <2>4 DEF CopyTold
<1>5. HeldTold'
  <2>1. ~CutShort(imp.cand)'
    BY DEF CutShort
  <2> QED
    BY <1>1, <2>1 DEF FileInv, HeldTold
<1>6. ImportedTold'
  BY <1>1 DEF FileInv, ImportedTold, Imported, Within
<1> QED
  BY <1>2, <1>4, <1>5, <1>6 DEF FileInv

LEMMA ReadTells ==
  ASSUME LTypes, FileInv, ReadChunk, UNCHANGED cmd
  PROVE  FileInv'
<1>1. /\ UNCHANGED <<source, clock, cmd>> /\ imp.pc = "read" /\ imp.copied < Len(imp.entries) /\ imp.cand \in Cand
      /\ Copied \in Seq(Nat)
  BY EntriesAreTyped DEF ReadChunk, Filling, LTypes, ImportHolds
<1> DEFINE k == imp.copied + 1
           n == Len(Copied)
<1>2. /\ k \in DOMAIN imp.entries /\ Current = imp.entries[k] /\ imp.copied \in Nat
      /\ Current.size \in Nat /\ Current.version \in Nat /\ CopiedAt(k)
  BY <1>1, EntriesAreTyped DEF Current, CopiedAt
<1>3. CASE RejectCopy
  BY <1>1, <1>3, RejectTells
<1>4. CASE imp' = [imp EXCEPT !.pc = "fstat"] /\ UNCHANGED <<cands, audit, faulted>>
  <2>1. /\ imp'.pc = "fstat" /\ imp'.cand = imp.cand /\ imp'.entries = imp.entries /\ imp'.todo = imp.todo
        /\ imp'.size = imp.size /\ imp'.copied = imp.copied
    BY <1>4 DEF LTypes, ImportTypes, ImportRecords
  <2>2. \A i \in DOMAIN imp.entries : CopiedAt(i)' <=> CopiedAt(i)
    BY <1>1, <2>1 DEF CopiedAt
  <2>3. imp.pc \in Filling /\ imp'.pc \in Filling \ {"read"} /\ imp'.pc \notin {"accepted", "written"}
    BY <1>1, <2>1 DEF Filling
  <2> QED
    BY <1>1, <1>4, <2>1, <2>2, <2>3, CopyMovesOn
<1>5. CASE /\ n + 1 <= Current.size
           /\ cands' = [cands EXCEPT ![imp.cand].files[Current.file] = Append(@, Handle.version)]
           /\ UNCHANGED <<imp, audit, faulted>>
  <2> DEFINE s == Copied
             v == Handle.version
             t == Append(s, v)
  <2>1. v \in Nat /\ Current.file \in Package
    BY <1>1, CurrentIsTyped DEF LTypes
  <2>2. cands' = [cands EXCEPT ![imp.cand].files[Current.file] = t]
    <3>1. cands \in [Cand -> Directories]
      BY DEF LTypes, ImportTypes
    <3> QED
      BY <1>1, <1>5, <2>1, <3>1 DEF Copied, Directories
  <2>3. source[Current.file].version = Current.version => v = Current.version
    BY DEF Handle, CurrentSource
  <2>4. Current.file \in Texts => CopyOf(k, s)
    BY <1>1, <1>2 DEF FileInv, CopyTold, Copied, Filling
  <2> HIDE DEF s, v
  <2>5. s \in Seq(Nat) /\ n = Len(s)
    BY <1>1 DEF s
  <2>6. /\ t \in Seq(Nat) /\ Len(t) = Len(s) + 1 /\ DOMAIN t = 1..(Len(s) + 1) /\ Len(s) \in Nat
        /\ DOMAIN s = 1..Len(s) /\ (\A j \in 1..Len(s) : t[j] = s[j]) /\ t[Len(s) + 1] = v
    BY <2>1, <2>5
  <2> HIDE DEF t
  <2>7. Current.file \in Texts => CopyOf(k, t)
    <3>1. Len(t) <= Current.size
      BY <1>5, <2>5, <2>6
    <3>2. ~(k <= imp.copied)
      BY <1>2
    <3>3. ASSUME Current.file \in Texts, source[Current.file].version = Current.version
          PROVE  \A j \in DOMAIN t : t[j] = Current.version
      <4>1. \A j \in 1..Len(s) : s[j] = Current.version
        BY <1>2, <2>4, <2>6, <3>3 DEF CopyOf
      <4>2. \A j \in DOMAIN t : j \in 1..Len(s) \/ j = Len(s) + 1
        BY <2>6
      <4> QED
        BY <2>3, <2>6, <3>3, <4>1, <4>2
    <3> HIDE DEF k
    <3> QED
      BY <1>2, <2>6, <3>1, <3>2, <3>3 DEF CopyOf
  <2>8. ASSUME NEW q \in Procs, cmd[q].pc = "hashed", cmd[q].cand = imp.cand PROVE Current.file # Manifest
    <3>1. ~CutShort(imp.cand)
      BY <2>8 DEF FileInv, HeldTold
    <3>2. Current.file = Manifest => ~(n < Current.size)
      BY <1>1, <3>1 DEF CutShort
    <3>3. n < Current.size
      <4>1. n + 1 <= Current.size
        BY <1>5
      <4>2. n \in Nat
        BY <1>1
      <4> HIDE DEF n
      <4> QED
        BY <1>2, <4>1, <4>2
    <3> QED
      BY <3>2, <3>3
  <2>9. imp' = imp /\ audit' = audit
    BY <1>5
  <2> QED
    BY <1>1, <2>2, <2>7, <2>8, <2>9, FileWritten
<1> QED
  BY <1>3, <1>4, <1>5 DEF ReadChunk

LEMMA FinishTells ==
  ASSUME LTypes, FileInv, FinishFile, UNCHANGED cmd
  PROVE  FileInv'
<1>1. /\ UNCHANGED <<source, clock, cmd>> /\ imp.pc = "fstat" /\ imp.copied < Len(imp.entries) /\ imp.cand \in Cand
  BY EntriesAreTyped DEF FinishFile, Filling, LTypes, ImportHolds
<1> DEFINE k == imp.copied + 1
           bytes == imp.bytes + Current.size
<1>2. /\ k \in DOMAIN imp.entries /\ Current = imp.entries[k] /\ imp.copied \in Nat
      /\ DOMAIN imp.entries \subseteq Nat
  BY <1>1, EntriesAreTyped DEF Current
<1>3. CASE RejectCopy
  BY <1>1, <1>3, RejectTells
<1>4. CASE /\ CurrentSource.version = Current.version
           /\ imp' = [imp EXCEPT !.pc = "open", !.copied = @ + 1, !.bytes = @ + Current.size]
           /\ UNCHANGED <<cands, audit, faulted>>
  <2>1. imp' = [imp EXCEPT !.pc = "open", !.copied = k, !.bytes = bytes]
    BY <1>4 DEF LTypes, ImportTypes, ImportRecords
  <2>2. imp \in ImportRecords
    BY DEF LTypes, ImportTypes
  <2>3. \A i \in DOMAIN imp.entries : i <= k <=> i <= imp.copied \/ i = k
    BY <1>2
  <2>4. source[Current.file].version = Current.version
    BY <1>4 DEF CurrentSource
  <2>5. \A i \in DOMAIN imp.entries : CopiedAt(i) <=> i <= imp.copied \/ i = k
    BY <1>1 DEF CopiedAt
  <2> HIDE DEF k, bytes
  <2>6. /\ imp'.pc = "open" /\ imp'.cand = imp.cand /\ imp'.entries = imp.entries /\ imp'.todo = imp.todo
        /\ imp'.size = imp.size /\ imp'.copied = k
    BY <2>1, <2>2 DEF ImportRecords
  <2>7. \A i \in DOMAIN imp.entries : CopiedAt(i)' <=> CopiedAt(i)
    BY <2>3, <2>5, <2>6 DEF CopiedAt
  <2>8. \A i \in DOMAIN imp.entries :
          i <= imp'.copied /\ ~(i <= imp.copied) => source[imp.entries[i].file].version = imp.entries[i].version
    BY <1>2, <2>3, <2>4, <2>6
  <2>9. imp.pc \in Filling /\ imp'.pc \in Filling \ {"read"} /\ imp'.pc \notin {"accepted", "written"}
    BY <1>1, <2>6 DEF Filling
  <2>10. /\ UNCHANGED <<source, clock, audit, cmd>>
         /\ \A c \in Cand : cands'[c].at = cands[c].at /\ \A f \in Texts : cands'[c].files[f] = cands[c].files[f]
    BY <1>1, <1>4
  <2> QED
    BY <2>6, <2>7, <2>8, <2>9, <2>10, CopyMovesOn
<1> QED
  BY <1>3, <1>4 DEF FinishFile

LEMMA Gate1Tells ==
  ASSUME LTypes, FileInv, Gate1, UNCHANGED cmd
  PROVE  FileInv'
<1>1. UNCHANGED <<source, clock, cmd>> /\ imp.pc = "open" /\ imp.cand \in Cand /\ imp.copied = Len(imp.entries)
  BY EntriesAreTyped DEF Gate1, Filling
<1> DEFINE files == cands[imp.cand].files
<1>2. CASE Gate1Accepts(files)
  <2>1. imp' = [imp EXCEPT !.pc = "accepted"] /\ UNCHANGED <<cands, audit>>
    BY <1>2 DEF Gate1
  <2>2. /\ imp'.pc = "accepted" /\ imp'.cand = imp.cand /\ imp'.entries = imp.entries /\ imp'.todo = imp.todo
        /\ imp'.size = imp.size /\ imp'.copied = imp.copied
    BY <2>1 DEF LTypes, ImportTypes, ImportRecords
  <2>3. files[SkillMd] \notin {None, <<>>} /\ (files[Manifest] # None => files[Manifest] # <<>>)
    BY <1>2 DEF Gate1Accepts
  <2>4. \A i \in DOMAIN imp.entries : CopiedAt(i)' <=> CopiedAt(i)
    BY <1>1, <2>2 DEF CopiedAt
  <2>5. imp.pc \in Filling /\ imp'.pc \in Filling \ {"read"}
    BY <1>1, <2>2 DEF Filling
  <2> QED
    BY <1>1, <2>1, <2>2, <2>3, <2>4, <2>5, CopyMovesOn
<1>3. CASE ~Gate1Accepts(files)
  <2>1. imp' = Idle /\ Audit([Imports("import-rejected") EXCEPT !.cand = imp.cand])
    BY <1>3 DEF Gate1
  <2>2. PICK moved \in BOOLEAN : cands' = [cands EXCEPT ![imp.cand].at = IF moved THEN "quarantine" ELSE @]
    BY <1>3 DEF Gate1
  <2>3. NoImportIsTold
    <3>1. /\ [Imports("import-rejected") EXCEPT !.cand = imp.cand] \in Events
          /\ [Imports("import-rejected") EXCEPT !.cand = imp.cand].event # "imported"
      BY <1>1, RejectionIsTold DEF Imports
    <3> QED
      BY <2>1, <3>1 DEF Audit, NoImportIsTold
  <2>4. /\ \A c \in Cand : c # imp.cand => cands'[c] = cands[c]
        /\ \A c \in Cand : cands[c].at # "none" => cands'[c].at # "none"
    BY <2>2 DEF LTypes, ImportTypes, Directories
  <2> QED
    BY <1>1, <2>1, <2>3, <2>4, ImportEnds
<1> QED
  BY <1>2, <1>3

LEMMA WriteMetaTells ==
  ASSUME LTypes, FileInv, WriteMeta, UNCHANGED cmd
  PROVE  FileInv'
<1>1. /\ UNCHANGED <<source, clock, audit, cmd>> /\ imp.pc = "accepted" /\ imp.cand \in Cand
      /\ imp' = [imp EXCEPT !.pc = "written"] /\ cands' = [cands EXCEPT ![imp.cand].files[Meta] = <<0>>]
  BY EntriesAreTyped DEF WriteMeta, Filling
<1>2. /\ imp'.pc = "written" /\ imp'.cand = imp.cand /\ imp'.entries = imp.entries /\ imp'.todo = imp.todo
      /\ imp'.size = imp.size /\ imp'.copied = imp.copied
  BY <1>1 DEF LTypes, ImportTypes, ImportRecords
<1>3. \A c \in Cand : cands'[c].at = cands[c].at /\ \A f \in Texts : cands'[c].files[f] = cands[c].files[f]
  <2>1. cands \in [Cand -> Directories] /\ Texts \subseteq Package /\ Meta \notin Texts
    BY DEF LTypes, ImportTypes, Texts, Package, Meta, SkillMd, Manifest
  <2> QED
    BY <1>1, <2>1 DEF Directories
<1>4. \A i \in DOMAIN imp.entries : CopiedAt(i)' <=> CopiedAt(i)
  BY <1>1, <1>2 DEF CopiedAt
<1>5. imp.pc \in Filling /\ imp'.pc \in Filling \ {"read"}
  BY <1>1, <1>2 DEF Filling
<1>6. /\ imp.copied = Len(imp.entries)
      /\ cands[imp.cand].files[SkillMd] \notin {None, <<>>}
      /\ cands[imp.cand].files[Manifest] # None => cands[imp.cand].files[Manifest] # <<>>
  BY <1>1, <1>5 DEF FileInv, CopyTold
<1> QED
  BY <1>1, <1>2, <1>3, <1>4, <1>5, <1>6, CopyMovesOn

\* The event: what the copy promised holds from now on.
LEMMA AuditImportTells ==
  ASSUME LTypes, FileInv, AuditImport, UNCHANGED cmd
  PROVE  FileInv'
<1> DEFINE c == imp.cand
           e == [event |-> "imported", name |-> NameOf[c], cand |-> c]
           md == cands[c].files[SkillMd]
           mf == cands[c].files[Manifest]
<1>1. /\ UNCHANGED <<source, clock, cands, cmd>> /\ imp.pc = "written" /\ c \in Cand /\ imp' = Idle
      /\ audit' = Append(audit, e)
  BY EntriesAreTyped DEF AuditImport, Audit, Filling
<1>2. /\ c \in Cand /\ e \in Events /\ e.cand = c /\ audit \in Seq(Events)
  BY <1>1, IngestionAssumption DEF Events, ImportEvents, LTypes, ImportTypes
<1>3. \A b \in Cand : b # c => (Imported(b)' <=> Imported(b))
  <2>1. /\ DOMAIN audit = 1..Len(audit) /\ Len(audit) \in Nat
        /\ DOMAIN audit' = 1..(Len(audit) + 1)
        /\ \A i \in DOMAIN audit : audit'[i] = audit[i]
        /\ audit'[Len(audit) + 1] = e
    BY <1>1, <1>2, LogIsRead
  <2> HIDE DEF e
  <2>2. (\A i \in DOMAIN audit' : i \in DOMAIN audit \/ i = Len(audit) + 1) /\ DOMAIN audit \subseteq DOMAIN audit'
    BY <2>1
  <2> QED
    BY <1>2, <2>1, <2>2 DEF Imported
<1> HIDE DEF e
<1>4. /\ imp'.pc = "idle" /\ imp'.cand = None /\ imp'.entries = <<>> /\ imp'.size = 0
  BY <1>1 DEF Idle
<1>5. /\ None \notin Cand
      /\ \A q \in Procs : cmd[q].pc = "hashed" => cmd[q].cand \in Cand
  BY IngestionAssumption DEF LTypes, Holds
<1>6. WalkTold'
  <2>1. 0 <= MaxTotalSize /\ 0 <= MaxFileCount /\ DOMAIN imp'.entries = {} /\ Len(imp'.entries) = 0
    BY <1>4, IngestionAssumption
  <2> QED
    BY <1>1, <1>4, <2>1 DEF FileInv, WalkTold
<1>7. CopyTold'
  BY <1>4 DEF CopyTold, Filling
<1>8. HeldTold'
  BY <1>1, <1>4, <1>5 DEF FileInv, HeldTold
<1>9. cands[c].at = "candidates" /\ CopyTold /\ imp.pc \in Filling
      /\ imp.copied = Len(imp.entries) /\ md \notin {None, <<>>} /\ (mf # None => mf # <<>>)
  BY <1>1 DEF FileInv, CopyTold, Filling
<1>10. ASSUME NEW f \in Texts, cands[c].files[f] # None
       PROVE  \E i \in DOMAIN imp.entries :
                /\ imp.entries[i].file = f /\ imp.entries[i].size \in Nat
                /\ cands[c].files[f] \in Seq(Nat) /\ Len(cands[c].files[f]) <= imp.entries[i].size
                /\ OfOneVersion(cands[c].files[f])
  <2>1. PICK i \in DOMAIN imp.entries : imp.entries[i].file = f /\ CopiedAt(i)
    BY <1>9, <1>10 DEF CopyTold
  <2>2. CopyOf(i, cands[c].files[f]) /\ i <= imp.copied
    BY <1>9, <1>10, <2>1, EntriesAreTyped DEF CopyTold
  <2> QED
    BY <2>1, <2>2, EntriesAreTyped DEF CopyOf, OfOneVersion
<1>11. PICK i \in DOMAIN imp.entries :
         /\ imp.entries[i].file = SkillMd /\ imp.entries[i].size \in Nat
         /\ Whole(md, imp.entries[i].size)
  BY <1>9, <1>10 DEF Texts, Whole
<1>12. \A j \in DOMAIN imp.entries : imp.entries[j].size \in Nat /\ imp.entries[j].size <= MaxFileSize
       /\ imp.entries[j].size <= imp.size
  BY EntriesAreTyped DEF FileInv, WalkTold
<1>13. MaxFileSize \in Nat /\ MaxTotalSize \in Nat /\ MaxFileCount \in Nat /\ imp.size \in Nat
       /\ imp.size <= MaxTotalSize /\ Len(imp.entries) <= MaxFileCount /\ Len(imp.entries) \in Nat
       /\ DOMAIN imp.entries = 1..Len(imp.entries)
  BY EntriesAreTyped, IngestionAssumption DEF FileInv, WalkTold
<1>14. ASSUME NEW q \in Procs, cmd[q].pc = "hashed", cmd[q].cand = c PROVE cmd[q].manifest = mf /\ mf # None
  BY <1>14 DEF FileInv, HeldTold
<1>15. \E a, b \in 0..MaxFileSize : Within(c, a, b)
  <2> DEFINE a == imp.entries[i].size
  <2>1. a \in 0..MaxFileSize /\ a + 0 <= MaxTotalSize /\ 0 \in 0..MaxFileSize
    BY <1>11, <1>12, <1>13
  <2>2. CASE mf = None
    BY <1>11, <1>14, <2>1, <2>2 DEF Within
  <2>3. CASE mf # None
    <3>1. PICK j \in DOMAIN imp.entries :
            /\ imp.entries[j].file = Manifest /\ Whole(mf, imp.entries[j].size)
      BY <1>9, <1>10, <2>3 DEF Texts, Whole
    <3> DEFINE b == imp.entries[j].size
    <3>2. i # j
      BY <1>11, <3>1 DEF SkillMd, Manifest
    <3>3. a + b <= imp.size
      BY <3>2 DEF FileInv, WalkTold
    <3>4. b \in 0..MaxFileSize /\ a + b <= MaxTotalSize
      BY <1>12, <1>13, <3>3
    <3>5. MaxFileCount >= 2
      BY <1>13, <3>2
    <3> HIDE DEF b
    <3> HIDE DEF a
    <3>6. Within(c, a, b)
      BY <1>11, <1>14, <3>1, <3>4, <3>5 DEF Within, a, b
    <3> QED
      BY <2>1, <3>4, <3>6
  <2> QED
    BY <2>2, <2>3
<1> HIDE DEF md, mf
<1>16. ImportedTold'
  <2>1. ASSUME NEW b \in Cand, Imported(b)'
        PROVE  cands[b].at # "none" /\ None # b /\ \E x, y \in 0..MaxFileSize : Within(b, x, y)
    <3>1. CASE b = c
      BY <1>2, <1>5, <1>9, <1>15, <3>1
    <3>2. CASE b # c
      BY <1>3, <1>5, <2>1, <3>2 DEF FileInv, ImportedTold
    <3> QED
      BY <3>1, <3>2
  <2> QED
    BY <1>1, <1>4, <2>1 DEF ImportedTold, Within
<1> QED
  BY <1>6, <1>7, <1>8, <1>16 DEF FileInv

LEMMA ImportStepTells ==
  ASSUME LTypes, FileInv, ImportStep, UNCHANGED lifecycleVars
  PROVE  FileInv'
<1>1. cmd' = cmd
  BY DEF lifecycleVars
<1>2. CASE RefuseRoot
  <2>1. Imports("import-rejected") \in Events /\ Imports("import-rejected").event # "imported"
    BY RejectionIsTold DEF Imports
  <2>2. UNCHANGED <<source, clock, imp, cands>> /\ NoImportIsTold
    BY <1>2, <2>1 DEF RefuseRoot, Audit, NoImportIsTold
  <2> QED
    BY <1>1, <2>2, FilesStay
<1>3. CASE ImportDies
  <2>1. imp' = Idle /\ UNCHANGED <<source, clock, cands, audit>>
    BY <1>3 DEF ImportDies
  <2> QED
    BY <1>1, <2>1, ImportEnds DEF NoImportIsTold
<1> QED
  BY <1>1, <1>2, <1>3, UserTells, WalkTells, CreateTells, ReadDirectoryTells, OpenTells, ReadTells, FinishTells,
     Gate1Tells, WriteMetaTells, AuditImportTells DEF ImportStep

\* Somebody writes to a candidate that nobody imports.
LEMMA OtherWritten ==
  ASSUME LTypes, FileInv, NEW c \in Cand, imp.cand # c,
         UNCHANGED <<source, imp, audit>>, clock' \in Nat, clock <= clock',
         \A b \in Cand : cands'[b].at = cands[b].at,
         \A b \in Cand : b # c => cands'[b] = cands[b],
         \A q \in Procs : cmd'[q].pc = "hashed" =>
           cmd[q].pc = "hashed" /\ cmd'[q].cand = cmd[q].cand /\ cmd'[q].manifest = cmd[q].manifest,
         \A a, b \in 0..MaxFileSize : Within(c, a, b) => Within(c, a, b)'
  PROVE  FileInv'
<1>1. /\ \A b : Imported(b)' <=> Imported(b)
      /\ imp.pc \in Filling <=> imp.cand \in Cand
      /\ \A q \in Procs : cmd[q].pc = "hashed" => cmd[q].cand \in Cand
  BY EntriesAreTyped DEF Imported, LTypes, Holds
<1>2. WalkTold'
  <2>1. /\ clock \in Nat /\ \A g \in Package : source[g].version \in Nat /\ source[g].version <= clock
        /\ \A i \in DOMAIN imp.entries : imp.entries[i].version \in Nat /\ imp.entries[i].version <= clock
    BY EntriesAreTyped DEF FileInv, WalkTold
  <2>2. /\ \A g \in Package : source[g].version <= clock'
        /\ \A i \in DOMAIN imp.entries : imp.entries[i].version <= clock'
    BY <2>1
  <2> QED
    BY <2>2 DEF FileInv, WalkTold
<1>3. CopyTold'
  <2>1. SUFFICES ASSUME imp.pc \in Filling PROVE CopyTold'
    BY DEF CopyTold
  <2>2. cands'[imp.cand] = cands[imp.cand] /\ CopyTold
    BY <1>1, <2>1 DEF FileInv
  <2>3. \A i \in DOMAIN imp.entries : /\ CopiedAt(i)' <=> CopiedAt(i)
                                      /\ \A t : CopyOf(i, t)' <=> CopyOf(i, t)
    BY DEF CopiedAt, CopyOf
  <2> QED
    BY <1>1, <2>1, <2>2, <2>3 DEF CopyTold
<1>4. HeldTold'
  <2>1. imp.cand \in Cand => cands'[imp.cand] = cands[imp.cand] /\ (CutShort(imp.cand)' <=> CutShort(imp.cand))
    BY DEF CutShort, Current, Copied
  <2> QED
    BY <1>1, <2>1 DEF FileInv, HeldTold
<1>5. ASSUME NEW b \in Cand, NEW x, NEW y, b # c, Within(b, x, y) PROVE Within(b, x, y)'
  <2>1. cands'[b] = cands[b]
    BY <1>5
  <2> QED
    BY <1>5, <2>1 DEF Within
<1>6. ImportedTold'
  <2>1. ASSUME NEW b \in Cand, Imported(b)'
        PROVE  cands'[b].at # "none" /\ imp.cand # b /\ \E x, y \in 0..MaxFileSize : Within(b, x, y)'
    <3>1. cands[b].at # "none" /\ imp.cand # b /\ \E x, y \in 0..MaxFileSize : Within(b, x, y)
      BY <1>1, <2>1 DEF FileInv, ImportedTold
    <3> QED
      BY <1>5, <3>1
  <2> QED
    BY <2>1 DEF ImportedTold
<1> QED
  BY <1>2, <1>3, <1>4, <1>6 DEF FileInv

LEMMA ValidateTells ==
  ASSUME LTypes, FileInv, NEW p \in Procs, NEW c \in Cand, Validate(p, c)
  PROVE  FileInv'
<1>1. PICK new : /\ Holds(new) /\ new.pc = "hashed" /\ Begin(p, new)
                 /\ new.cand = c /\ new.manifest = cands[c].files[Manifest] /\ new.manifest \notin {None, <<>>}
                 /\ cands[c].at = "candidates" /\ ~CutShort(c)
  BY ValidateBegins
<1>2. UNCHANGED <<source, clock, imp, cands, audit>>
  BY DEF Validate
<1>3. cmd'[p] = new /\ \A q \in Procs : q # p => cmd'[q] = cmd[q]
  BY <1>1, OneMoves DEF Begin
<1>4. WalkTold' /\ CopyTold'
  <2>1. \A i \in DOMAIN imp.entries : /\ CopiedAt(i)' <=> CopiedAt(i)
                                      /\ \A t : CopyOf(i, t)' <=> CopyOf(i, t)
    BY <1>2 DEF CopiedAt, CopyOf
  <2>2. CopyTold'
    BY <1>2, <2>1 DEF FileInv, CopyTold, Imported
  <2> QED
    BY <1>2, <2>2 DEF FileInv, WalkTold
<1>5. HeldTold'
  <2>1. CutShort(imp.cand)' <=> CutShort(imp.cand)
    BY <1>2 DEF CutShort, Current, Copied
  <2> QED
    BY <1>1, <1>2, <1>3, <2>1 DEF FileInv, HeldTold
<1>6. \A b \in Cand : \A x, y : Within(b, x, y) => Within(b, x, y)'
  BY <1>1, <1>2, <1>3 DEF Within
<1>7. ImportedTold'
  BY <1>2, <1>6 DEF FileInv, ImportedTold, Imported
<1> QED
  BY <1>4, <1>5, <1>7 DEF FileInv

LEMMA WriteHashTells ==
  ASSUME LTypes, FileInv, NEW p \in Procs, WriteHash(p)
  PROVE  FileInv'
<1>0. PICK c, m : c = cmd[p].cand /\ m = cmd[p].manifest
  OBVIOUS
<1>1. /\ UNCHANGED <<source, clock, imp, audit>> /\ cmd[p].pc = "hashed" /\ c \in Cand /\ clock \in Nat
  BY <1>0, EntriesAreTyped DEF WriteHash, LTypes, Holds
<1>2. /\ LTypes' /\ \A b \in Cand : cands'[b].at = cands[b].at
      /\ \A b \in Cand : b # c => cands'[b] = cands[b]
      /\ cands'[c].files[Manifest] = m
      /\ \A f \in Package : f # Manifest => cands'[c].files[f] = cands[c].files[f]
  BY <1>0, WriteHashKeepsTypes
<1>3. \A q \in Procs : cmd'[q].pc = "hashed" =>
        cmd[q].pc = "hashed" /\ cmd'[q].cand = cmd[q].cand /\ cmd'[q].manifest = cmd[q].manifest
  <2>1. cmd'[p].pc = "audit" /\ \A q \in Procs : q # p => cmd'[q] = cmd[q]
    BY GoesToAudit, OneMoves DEF WriteHash
  <2> QED
    BY <2>1
<1>4. CASE imp.cand = c
  <2>1. m = cands[c].files[Manifest]
    BY <1>0, <1>1, <1>4 DEF FileInv, HeldTold
  <2>2. /\ cands[c].files \in [Package -> Contents] /\ cands'[c].files \in [Package -> Contents]
    BY <1>1, <1>2 DEF LTypes, ImportTypes, Directories
  <2>3. \A f \in Package : cands'[c].files[f] = cands[c].files[f]
    BY <1>2, <2>1
  <2>4. cands'[c].files = cands[c].files
    BY <2>2, <2>3
  <2>5. \A b \in Cand : cands'[b].at = cands[b].at /\ cands'[b].files = cands[b].files
    BY <1>2, <2>4
  <2> QED
    BY <1>1, <1>3, <2>5, FilesStay DEF NoImportIsTold
<1>5. CASE imp.cand # c
  <2>1. ASSUME NEW x \in 0..MaxFileSize, NEW y \in 0..MaxFileSize, Within(c, x, y) PROVE Within(c, x, y)'
    <3>1. Whole(m, y) /\ MaxFileCount >= 2
      BY <1>0, <1>1, <2>1 DEF Within
    <3>2. cands'[c].files[SkillMd] = cands[c].files[SkillMd]
      BY <1>2 DEF SkillMd, Manifest, Package
    <3> QED
      BY <1>2, <1>3, <2>1, <3>1, <3>2 DEF Within
  <2> QED
    BY <1>1, <1>2, <1>3, <1>5, <2>1, OtherWritten
<1> QED
  BY <1>4, <1>5

LEMMA EditTells ==
  ASSUME LTypes, FileInv, NEW c \in Cand, NEW f \in Package, EditCandidate(c, f)
  PROVE  FileInv'
<1>1. /\ UNCHANGED <<source, imp, audit>> /\ imp.cand # c
      /\ f \in Texts /\ cands[c].files[f] # None /\ clock \in Nat /\ clock' = clock + 1
  BY EntriesAreTyped DEF EditCandidate, Texts, Package
<1>2. /\ \A b \in Cand : cands'[b].at = cands[b].at
      /\ \A b \in Cand : b # c => cands'[b] = cands[b]
      /\ cands'[c].files[f] = <<clock + 1>> /\ \A g \in Package : g # f => cands'[c].files[g] = cands[c].files[g]
      /\ \A q \in Procs :
           cmd'[q].pc = cmd[q].pc /\ cmd'[q].cand = cmd[q].cand /\ cmd'[q].manifest = cmd[q].manifest
  BY EditKeepsTypes
<1>3. ASSUME NEW k \in Nat, NEW g \in Texts, Whole(cands[c].files[g], k)
      PROVE  Whole(cands'[c].files[g], k)
  <2>1. CASE g = f
    <3>1. PICK v \in Nat : v = clock + 1
      BY <1>1
    <3>2. 1 <= k
      BY <1>3 DEF Whole
    <3>3. <<v>> \in Seq(Nat) /\ Len(<<v>>) = 1 /\ <<v>> # <<>> /\ OfOneVersion(<<v>>)
      BY DEF OfOneVersion
    <3> QED
      BY <1>2, <2>1, <3>1, <3>2, <3>3 DEF Whole
  <2>2. CASE g # f
    BY <1>2, <1>3, <2>2 DEF Texts, Package
  <2> QED
    BY <2>1, <2>2
<1>4. /\ SkillMd \in Texts /\ Manifest \in Texts
      /\ cands'[c].files[Manifest] # None => cands[c].files[Manifest] # None
  BY <1>1, <1>2 DEF Texts, Package
<1>5. ASSUME NEW x \in 0..MaxFileSize, NEW y \in 0..MaxFileSize, Within(c, x, y) PROVE Within(c, x, y)'
  <2>1. x \in Nat /\ y \in Nat
    OBVIOUS
  <2>2. /\ Whole(cands'[c].files[SkillMd], x)
        /\ cands'[c].files[Manifest] # None => Whole(cands'[c].files[Manifest], y) /\ MaxFileCount >= 2
    BY <1>3, <1>4, <1>5, <2>1 DEF Within
  <2> QED
    BY <1>2, <1>5, <2>2 DEF Within, Whole
<1>6. clock' \in Nat /\ clock <= clock'
  BY <1>1
<1> QED
  BY <1>1, <1>2, <1>5, <1>6, OtherWritten

\* A command that is not a validate begins, goes on or ends.
LEMMA OtherCommandsTell ==
  ASSUME LTypes, FileInv, NEW p \in Procs, NEW new,
         cmd' = [cmd EXCEPT ![p] = new], Holds(new), new.pc # "hashed",
         UNCHANGED <<source, clock, imp>>, NoImportIsTold,
         \A c \in Cand : cands'[c].at = cands[c].at /\ cands'[c].files = cands[c].files
  PROVE  FileInv'
<1>1. cmd'[p].pc # "hashed" /\ \A q \in Procs : q # p => cmd'[q] = cmd[q]
  BY OneMoves
<1>2. \A q \in Procs : cmd'[q].pc = "hashed" =>
        cmd[q].pc = "hashed" /\ cmd'[q].cand = cmd[q].cand /\ cmd'[q].manifest = cmd[q].manifest
  BY <1>1
<1> QED
  BY <1>2, FilesStay

LEMMA CommandStepTells ==
  ASSUME LTypes, FileInv, NEW p \in Procs, CommandStep(p)
  PROVE  FileInv'
<1>1. ASSUME NEW new, Begin(p, new), Holds(new), new.pc # "hashed",
             UNCHANGED <<source, clock, imp, cands, audit>>
      PROVE  FileInv'
  BY <1>1, OtherCommandsTell DEF Begin, NoImportIsTold
<1>2. CASE \E c \in Cand : Validate(p, c)
  BY <1>2, ValidateTells
<1>3. CASE \E c \in Cand : Promote(p, c)
  <2>1. PICK c \in Cand : Promote(p, c)
    BY <1>3
  <2>2. PICK new : Holds(new) /\ Begin(p, new) /\ new.pc = "save"
    BY <2>1, PromoteBegins
  <2> QED
    BY <1>1, <2>1, <2>2 DEF Promote, Changes
<1>4. CASE \E n \in Names : Disable(p, n)
  <2>1. PICK n \in Names : Disable(p, n)
    BY <1>4
  <2>2. PICK new : Holds(new) /\ Begin(p, new) /\ new.pc = "save"
    BY <2>1, DisableBegins
  <2> QED
    BY <1>1, <2>1, <2>2 DEF Disable, Changes
<1>5. CASE \E n \in Names, v \in 1..Len(audit) : Rollback(p, n, v)
  <2>1. PICK n \in Names, v \in 1..Len(audit) : Rollback(p, n, v)
    BY <1>5
  <2>2. v \in Nat
    BY DEF LTypes, ImportTypes
  <2>3. PICK new : Holds(new) /\ Begin(p, new) /\ new.pc = "save"
    BY <2>1, <2>2, RollbackBegins
  <2> QED
    BY <1>1, <2>1, <2>3 DEF Rollback, Changes
<1>6. CASE \E n \in Names : CheckHash(p, n)
  <2>1. PICK n \in Names : CheckHash(p, n)
    BY <1>6
  <2>2. PICK new : Holds(new) /\ Begin(p, new) /\ new.pc = "render"
    BY <2>1, RenderingBegins
  <2> QED
    BY <1>1, <2>1, <2>2 DEF CheckHash
<1>7. CASE WriteHash(p)
  BY <1>7, WriteHashTells
<1>8. CASE SaveRegistry(p)
  <2>1. PICK new : new = [cmd[p] EXCEPT !.pc = "audit"]
    OBVIOUS
  <2>2. cmd' = [cmd EXCEPT ![p] = new] /\ Holds(new)
    BY <1>8, <2>1, GoesToAudit DEF SaveRegistry
  <2>3. cmd'[p].pc = "audit" /\ cmd'[p] = new
    BY <1>8, <2>2, GoesToAudit, OneMoves DEF SaveRegistry
  <2>4. UNCHANGED <<source, clock, imp, cands, audit>>
    BY <1>8 DEF SaveRegistry, ingestionVars
  <2> QED
    BY <2>2, <2>3, <2>4, OtherCommandsTell DEF NoImportIsTold
<1>9. CASE WriteHashThrows(p) \/ ReadSkillMd(p) \/ RendersNothing(p)
  BY <1>9, NoCommandHolds, OtherCommandsTell
     DEF WriteHashThrows, ReadSkillMd, RendersNothing, ingestionVars, NoImportIsTold
<1>10. CASE AuditCommand(p)
  <2>1. cmd[p].event \in Events /\ cmd[p].event.event # "imported"
    <3>1. cmd[p].event \in CommandEvents
      BY <1>10 DEF AuditCommand, LTypes, Holds
    <3> QED
      BY <3>1 DEF Events, CommandEvents, EvaluationEvents, PromotionEvents, DisabledEvents, RollbackEvents
  <2>2. NoImportIsTold
    BY <1>10, <2>1 DEF AuditCommand, Audit, NoImportIsTold
  <2> QED
    BY <1>10, <2>2, NoCommandHolds, OtherCommandsTell DEF AuditCommand
<1>11. CASE CommandDies(p)
  <2>1. \A c \in Cand : cands'[c].at = cands[c].at /\ cands'[c].files = cands[c].files
    BY <1>11, CommandDiesKeepsTypes
  <2> QED
    BY <1>11, <2>1, NoCommandHolds, OtherCommandsTell DEF CommandDies, NoImportIsTold
<1> QED
  BY <1>2, <1>3, <1>4, <1>5, <1>6, <1>7, <1>8, <1>9, <1>10, <1>11 DEF CommandStep

LEMMA NextFiles ==
  ASSUME LTypes, FileInv, [Next]_vars
  PROVE  FileInv'
<1>1. CASE UNCHANGED vars
  BY <1>1, FilesStay DEF vars, ingestionVars, lifecycleVars, NoImportIsTold
<1> QED
  BY <1>1, ImportStepTells, CommandStepTells, EditTells DEF Next

LEMMA InitFiles ==
  ASSUME Init
  PROVE  FileInv
<1>1. /\ imp = Idle /\ \A f \in Package : source[f].version <= clock
      /\ \A i \in DOMAIN audit : cands[audit[i].cand] = Ready /\ 2 <= MaxTotalSize /\ 2 <= MaxFileCount
  BY InitImport DEF Init
<1>2. \A p \in Procs : cmd[p].pc = "idle"
  BY NoCommandHolds DEF Init
<1>3. /\ imp.pc = "idle" /\ imp.cand = None /\ imp.entries = <<>> /\ imp.size = 0
      /\ MaxFileSize \in Nat /\ 1 <= MaxFileSize /\ MaxTotalSize \in Nat /\ MaxFileCount \in Nat /\ None \notin Cand
  BY <1>1, IngestionAssumption DEF Idle
<1>4. WalkTold
  <2>1. DOMAIN imp.entries = {} /\ Len(imp.entries) = 0 /\ 0 <= MaxTotalSize /\ 0 <= MaxFileCount
    BY <1>3
  <2> QED
    BY <1>1, <1>3, <2>1 DEF WalkTold
<1>5. CopyTold /\ HeldTold
  BY <1>2, <1>3 DEF CopyTold, Filling, HeldTold
<1>6. ASSUME NEW c \in Cand, Imported(c)
      PROVE  cands[c].at # "none" /\ imp.cand # c /\ \E a, b \in 0..MaxFileSize : Within(c, a, b)
  <2>1. cands[c] = Ready /\ 2 <= MaxTotalSize /\ 2 <= MaxFileCount
    BY <1>1, <1>6 DEF Imported
  <2>2. /\ Ready.at = "candidates" /\ Ready.files[SkillMd] = <<1>> /\ Ready.files[Manifest] = <<1>>
    BY DEF Ready, Package, SkillMd, Manifest, Meta
  <2>3. Whole(<<1>>, 1)
    BY DEF Whole, OfOneVersion
  <2>4. Within(c, 1, 1)
    BY <1>2, <1>3, <2>1, <2>2, <2>3 DEF Within
  <2>5. 1 \in 0..MaxFileSize
    BY <1>3
  <2> QED
    BY <1>3, <2>1, <2>2, <2>4, <2>5
<1>7. ImportedTold
  BY <1>6 DEF ImportedTold
<1> QED
  BY <1>4, <1>5, <1>7 DEF FileInv

\* The invariant of the files: what the walk saw bounds what the copy holds, and what the
\* copy holds of a file is of one version when its last fstat has been passed.
THEOREM FilesAreKept == Spec => []FileInv
<1>1. Init => FileInv
  BY InitFiles
<1>2. LInv /\ FileInv /\ [Next]_vars => FileInv'
  BY NextFiles DEF LInv
<1> QED
  BY <1>1, <1>2, Inductive, PTL DEF Spec

\* Whatever happens to a package while it is imported, an imported candidate holds whole
\* files of one version each, within the limits of Gate 0, and so does one that was edited
\* or validated later (copyFileSecure, skill-ingestion.ts).
THEOREM ImportedFilesAreWhole == Spec => []WholeFilesWithinLimits
<1>1. ASSUME LTypes, FileInv PROVE WholeFilesWithinLimits
  <2>1. SUFFICES ASSUME NEW c \in Cand, Imported(c)
        PROVE  LET files == cands[c].files
                   held  == {f \in {SkillMd, Manifest} : files[f] # None}
                   Size(f) == IF files[f] = None THEN 0 ELSE Len(files[f])
               IN  /\ \A f \in held : \A i, j \in DOMAIN files[f] : files[f][i] = files[f][j]
                   /\ \A f \in held : Size(f) <= MaxFileSize
                   /\ Size(SkillMd) + Size(Manifest) <= MaxTotalSize
                   /\ Cardinality(held) <= MaxFileCount
    BY DEF WholeFilesWithinLimits
  <2> DEFINE files == cands[c].files
             held  == {f \in {SkillMd, Manifest} : files[f] # None}
             Size(f) == IF files[f] = None THEN 0 ELSE Len(files[f])
  <2>2. PICK a, b \in 0..MaxFileSize : Within(c, a, b)
    BY <1>1, <2>1 DEF FileInv, ImportedTold
  <2>3. /\ a + b <= MaxTotalSize /\ Whole(files[SkillMd], a)
        /\ files[Manifest] # None => Whole(files[Manifest], b) /\ MaxFileCount >= 2
    BY <2>2 DEF Within
  <2>4. MaxFileSize \in Nat /\ MaxTotalSize \in Nat /\ MaxFileCount \in Nat \ {0}
    BY IngestionAssumption
  <2> HIDE DEF files
  <2>5. \A f \in held : \A i, j \in DOMAIN files[f] : files[f][i] = files[f][j]
    BY <2>3 DEF Whole, OfOneVersion
  <2>6. Size(SkillMd) \in 0..a /\ Size(Manifest) \in 0..b
    BY <2>2, <2>3, <2>4 DEF Whole
  <2>7. Size(SkillMd) <= MaxFileSize /\ Size(Manifest) <= MaxFileSize
        /\ Size(SkillMd) + Size(Manifest) <= MaxTotalSize
    <3> HIDE DEF Size
    <3> QED
      BY <2>2, <2>3, <2>4, <2>6
  <2>8. Cardinality(held) <= MaxFileCount
    <3>1. Cardinality({SkillMd}) = 1 /\ IsFiniteSet({SkillMd}) /\ Manifest \notin {SkillMd}
      BY FS_Singleton DEF SkillMd, Manifest
    <3>2. Cardinality({SkillMd} \cup {Manifest}) = 2 /\ IsFiniteSet({SkillMd} \cup {Manifest})
      BY <3>1, FS_AddElement
    <3>3. CASE files[Manifest] = None
      <4>1. held \subseteq {SkillMd}
        BY <3>3
      <4> HIDE DEF held
      <4>2. Cardinality(held) <= Cardinality({SkillMd}) /\ Cardinality(held) \in Nat
        BY <3>1, <4>1, FS_Subset, FS_CardinalityType
      <4> QED
        BY <2>4, <3>1, <4>2
    <3>4. CASE files[Manifest] # None
      <4>1. held \subseteq {SkillMd} \cup {Manifest}
        OBVIOUS
      <4> HIDE DEF held
      <4>2. Cardinality(held) <= Cardinality({SkillMd} \cup {Manifest}) /\ Cardinality(held) \in Nat
        BY <3>2, <4>1, FS_Subset, FS_CardinalityType
      <4> QED
        BY <2>3, <2>4, <3>2, <3>4, <4>2
    <3> QED
      BY <3>3, <3>4
  <2>9. \A f \in held : Size(f) <= MaxFileSize
    BY <2>7
  <2> QED
    BY <2>5, <2>7, <2>8, <2>9 DEF files
<1> QED
  BY <1>1, FilesAreKept, Inductive, PTL DEF LInv

================================================================================
