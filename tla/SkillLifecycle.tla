----------------------------- MODULE SkillLifecycle -----------------------------
(***************************************************************************)
(* The registry of promoted skills (src/src/skills/skill-lifecycle.ts,     *)
(* skill-envelope.ts, skill-audit.ts): validate, promote, disable,         *)
(* rollback and the rendering of a prompt envelope, on the candidates that *)
(* SkillIngestion imports.                                                 *)
(*                                                                         *)
(* Each command is a process of its own.  It reads, and later writes the   *)
(* whole of the file it read and appends to the audit log: commands        *)
(* overlap, candidates are edited and processes die in between.            *)
(***************************************************************************)
EXTENDS SkillIngestion

CONSTANT Procs

\* What a candidate's file holds, the hash of its contents, and what a registry records.
Contents == {None} \cup Seq(Nat)
Hashes == [Package \ {Manifest} -> Contents]
VersionRecords == [version : Nat, cand : Cand, hash : Hashes]
SkillRecords == [version : Nat, cand : Cand, hash : Hashes, disabled : BOOLEAN,
                 previous : Seq(VersionRecords)]

\* A skill without an entry is told from one with any entry.
ASSUME RegistryAssumption == None \notin SkillRecords

VARIABLES
  registry,   \* skill-registry.json: whether it parses, and its skills
  cmd,        \* the command each process runs
  envelopes,  \* the envelopes rendered
  alone       \* history: no two commands have overlapped, none died half-way

lifecycleVars == <<registry, cmd, envelopes, alone>>
vars == <<ingestionVars, lifecycleVars>>

NoCommand == [pc |-> "idle", name |-> None, cand |-> None, skills |-> None, event |-> None,
              hash |-> None, manifest |-> None, raced |-> FALSE]

Init ==
  /\ IngestionInit
  /\ registry = [parses |-> TRUE, skills |-> [n \in Names |-> None]]
  /\ cmd = [p \in Procs |-> NoCommand]
  /\ envelopes = {}
  /\ alone = TRUE

\* loadRegistry: a registry that does not parse is an empty one.
LoadRegistry == IF registry.parses THEN registry.skills ELSE [n \in Names |-> None]

\* computeSkillContentHash: of every file but manifest.json.
ContentHash(c) == [f \in Package \ {Manifest} |-> cands[c].files[f]]

\* The import has not copied the whole of c's manifest.json yet.
CutShort(c) ==
  imp.cand = c /\ imp.pc = "read" /\ Current.file = Manifest /\ Len(Copied) < Current.size

\* readCandidateManifest: only manifest.json, never .powerplant-meta.json, and only one
\* that parses.
ReadsManifest(c) ==
  /\ cands[c].at = "candidates" /\ ~cands[c].torn /\ ~CutShort(c)
  /\ cands[c].files[Manifest] \notin {None, <<>>}
  /\ Head(cands[c].files[Manifest]) \notin Malformed

\* A process begins a command; the history notes whether another one is under way.
Begin(p, c) ==
  /\ cmd[p].pc = "idle" /\ Spend("commands")
  /\ cmd' = [cmd EXCEPT ![p] = c]
  /\ alone' = (alone /\ \A q \in Procs : cmd[q].pc = "idle")

Goto(p, l) == cmd' = [cmd EXCEPT ![p].pc = l]

------------------------------------------------------------------------------
(* validateSkill.                                                          *)

Validate(p, c) ==
  /\ ReadsManifest(c) /\ cands[c].sha = None
  /\ Begin(p, [NoCommand EXCEPT !.pc = "hashed", !.cand = c, !.hash = ContentHash(c),
                                !.manifest = cands[c].files[Manifest],
                                !.event = [event |-> "evaluated", name |-> NameOf[c], cand |-> c,
                                           hash |-> ContentHash(c)]])
  /\ UNCHANGED <<source, clock, imp, cands, audit, faulted, registry, envelopes>>

\* The directory may be gone by now: the import that was filling it was rejected.
WriteHash(p) ==
  /\ cmd[p].pc = "hashed" /\ cands[cmd[p].cand].at = "candidates"
  /\ cands' = [cands EXCEPT ![cmd[p].cand].sha = cmd[p].hash,
                           ![cmd[p].cand].files[Manifest] = cmd[p].manifest]
  /\ Goto(p, "audit")
  /\ UNCHANGED <<source, clock, imp, audit, budget, faulted, registry, envelopes, alone>>

WriteHashThrows(p) ==
  /\ cmd[p].pc = "hashed" /\ cands[cmd[p].cand].at # "candidates"
  /\ cmd' = [cmd EXCEPT ![p] = NoCommand]
  /\ UNCHANGED <<ingestionVars, registry, envelopes, alone>>

------------------------------------------------------------------------------
(* promoteSkill, disableSkill, rollbackSkill: load, change, save, audit.   *)

\* The active entry of a record, as previousVersions archives it.
Archived(r) == [version |-> r.version, cand |-> r.cand, hash |-> r.hash]

Active(e, previous) ==
  [version |-> e.version, cand |-> e.cand, hash |-> e.hash, disabled |-> FALSE, previous |-> previous]

Promoted_StaysDisabled(skills, n, c, hash) ==
  LET r == skills[n] IN
  [skills EXCEPT ![n] =
     IF r = None
     THEN Active([version |-> 1, cand |-> c, hash |-> hash], <<>>)
     ELSE [r EXCEPT !.version = @ + 1, !.cand = c, !.hash = hash,
                    !.previous = Append(@, Archived(r))]]

Promoted(skills, n, c, hash) ==
  LET r == skills[n] IN
  [skills EXCEPT ![n] =
     IF r = None
     THEN Active([version |-> 1, cand |-> c, hash |-> hash], <<>>)
     ELSE Active([version |-> r.version + 1, cand |-> c, hash |-> hash],
                 Append(r.previous, Archived(r)))]

Disabled(skills, n) == [skills EXCEPT ![n].disabled = TRUE]

\* findIndex takes the first entry with that version number.
FirstWith(r, v) == SelectInSeq(r.previous, LAMBDA e : e.version = v)

RolledBack_Keeps(skills, n, v) ==
  LET r == skills[n] IN
  [skills EXCEPT ![n] = Active(r.previous[FirstWith(r, v)], Append(r.previous, Archived(r)))]

RolledBack(skills, n, v) ==
  LET r == skills[n] IN
  [skills EXCEPT ![n] = Active(r.previous[FirstWith(r, v)],
                               Append(RemoveAt(r.previous, FirstWith(r, v)), Archived(r)))]

\* The command holds a copy of the registry, changed, and the event it will append.
Changes(p, skills, e) ==
  /\ Begin(p, [NoCommand EXCEPT !.pc = "save", !.skills = skills, !.event = e])
  /\ UNCHANGED <<source, clock, imp, cands, audit, faulted, registry, envelopes>>

\* promote binds to the hash that validate recorded, whatever the files hold now.
Promote(p, c) ==
  /\ ReadsManifest(c) /\ cands[c].sha # None
  /\ Changes(p, Promoted(LoadRegistry, NameOf[c], c, cands[c].sha),
             [event |-> "promoted", name |-> NameOf[c], cand |-> c, hash |-> cands[c].sha,
              to |-> Promoted(LoadRegistry, NameOf[c], c, cands[c].sha)[NameOf[c]].version])

Disable(p, n) ==
  /\ LoadRegistry[n] # None /\ ~LoadRegistry[n].disabled
  /\ Changes(p, Disabled(LoadRegistry, n),
             [event |-> "disabled", name |-> n, cand |-> LoadRegistry[n].cand])

Rollback(p, n, v) ==
  /\ LoadRegistry[n] # None
  /\ FirstWith(LoadRegistry[n], v) # 0
  /\ Changes(p, RolledBack(LoadRegistry, n, v),
             [event |-> "rolled-back", name |-> n, cand |-> None, to |-> v])

SaveRegistry(p) ==
  /\ cmd[p].pc = "save"
  /\ registry' = [parses |-> TRUE, skills |-> cmd[p].skills]
  /\ Goto(p, "audit")
  /\ UNCHANGED <<ingestionVars, envelopes, alone>>

AuditCommand(p) ==
  /\ cmd[p].pc = "audit"
  /\ Audit(cmd[p].event)
  /\ cmd' = [cmd EXCEPT ![p] = NoCommand]
  /\ UNCHANGED <<source, clock, imp, cands, budget, faulted, registry, envelopes, alone>>

\* A process dies.  In the middle of a write the file may be left cut short.
CommandDies(p) ==
  /\ cmd[p].pc # "idle"
  /\ cmd' = [cmd EXCEPT ![p] = NoCommand]
  /\ alone' = FALSE
  /\ \/ UNCHANGED <<cands, registry>>
     \/ /\ cmd[p].pc = "save"
        /\ registry' = [parses |-> FALSE, skills |-> [n \in Names |-> None]]
        /\ UNCHANGED cands
     \/ /\ cmd[p].pc = "hashed" /\ cands[cmd[p].cand].at = "candidates"
        /\ cands' = [cands EXCEPT ![cmd[p].cand].torn = TRUE]
        /\ UNCHANGED registry
  /\ UNCHANGED <<source, clock, imp, audit, budget, faulted, envelopes>>

------------------------------------------------------------------------------
(* renderPromptEnvelope: the hash is compared, then SKILL.md is read.      *)

\* The history notes whether the candidate is still being imported.
BeginRendering(p, n) ==
  LET e == LoadRegistry[n] IN
  Begin(p, [NoCommand EXCEPT !.pc = "render", !.name = n, !.cand = e.cand, !.hash = e.hash,
                             !.raced = (imp.cand = e.cand)])

CheckHash_Trusted(p, n) ==
  /\ LoadRegistry[n] # None /\ ~LoadRegistry[n].disabled
  /\ BeginRendering(p, n)
  /\ UNCHANGED <<source, clock, imp, cands, audit, faulted, registry, envelopes>>

CheckHash(p, n) ==
  /\ LoadRegistry[n] # None /\ ~LoadRegistry[n].disabled
  /\ cands[LoadRegistry[n].cand].at = "candidates"
  /\ ContentHash(LoadRegistry[n].cand) = LoadRegistry[n].hash
  /\ BeginRendering(p, n)
  /\ UNCHANGED <<source, clock, imp, cands, audit, faulted, registry, envelopes>>

ReadSkillMd(p) ==
  /\ cmd[p].pc = "render"
  /\ cands[cmd[p].cand].at = "candidates" /\ cands[cmd[p].cand].files[SkillMd] # None
  /\ envelopes' = envelopes \cup
       {[cand |-> cmd[p].cand, hash |-> cmd[p].hash, raced |-> cmd[p].raced,
        text |-> cands[cmd[p].cand].files[SkillMd]]}
  /\ cmd' = [cmd EXCEPT ![p] = NoCommand]
  /\ UNCHANGED <<ingestionVars, registry, alone>>

\* No SKILL.md to read, or no candidate any more: there is no envelope.
RendersNothing(p) ==
  /\ cmd[p].pc = "render"
  /\ cands[cmd[p].cand].at # "candidates" \/ cands[cmd[p].cand].files[SkillMd] = None
  /\ cmd' = [cmd EXCEPT ![p] = NoCommand]
  /\ UNCHANGED <<ingestionVars, registry, envelopes, alone>>

------------------------------------------------------------------------------

\* Somebody edits a candidate in place; an edited manifest may have lost its hash.
EditCandidate(c, f) ==
  /\ Spend("edits")
  /\ imp.cand # c /\ f # Meta
  /\ cands[c].at = "candidates" /\ cands[c].files[f] # None
  /\ \E sha \in {cands[c].sha} \cup (IF f = Manifest THEN {None} ELSE {}) :
       cands' = [cands EXCEPT ![c].files[f] = <<clock + 1>>, ![c].sha = sha]
  /\ clock' = clock + 1
  /\ cmd' = [p \in Procs |-> [cmd[p] EXCEPT !.raced = @ \/ (cmd[p].pc = "render" /\ cmd[p].cand = c)]]
  /\ UNCHANGED <<source, imp, audit, faulted, registry, envelopes, alone>>

CommandStep(p) ==
  \/ \E c \in Cand : Validate(p, c) \/ Promote(p, c)
  \/ \E n \in Names : \/ Disable(p, n) \/ CheckHash(p, n)
                      \/ \E v \in 1..Len(audit) : Rollback(p, n, v)
  \/ WriteHash(p) \/ WriteHashThrows(p) \/ SaveRegistry(p) \/ AuditCommand(p)
  \/ ReadSkillMd(p) \/ RendersNothing(p) \/ CommandDies(p)

Next ==
  \/ ImportStep /\ UNCHANGED lifecycleVars
  \/ \E p \in Procs : CommandStep(p)
  \/ \E c \in Cand, f \in Package : EditCandidate(c, f)

Spec == Init /\ [][Next]_vars

------------------------------------------------------------------------------
(* What the registry promises.                                             *)

Quiet == \A p \in Procs : cmd[p].pc = "idle"

\* The places in a log of the events of these kinds about a skill.
Places(log, n, kinds) == {i \in DOMAIN log : log[i].event \in kinds /\ log[i].name = n}

Moves          == {"promoted", "rolled-back"}
RegistryEvents == Moves \cup {"disabled"}

Latest(i, S) == i \in S /\ \A j \in S : j <= i

\* The log tells a skill's record.
Tells(log, n, r) ==
  IF Places(log, n, RegistryEvents) = {} THEN r = None
  ELSE /\ r # None
       /\ \E i \in DOMAIN log : Latest(i, Places(log, n, Moves)) /\ r.version = log[i].to
       /\ \E i \in DOMAIN log : /\ Latest(i, Places(log, n, RegistryEvents))
                              /\ r.disabled = (log[i].event = "disabled")
       /\ Len(r.previous) + 1 = Cardinality(Places(log, n, {"promoted"}))

\* No promotion of the skill follows a rollback.
Forward(log, n) ==
  \A i \in Places(log, n, {"promoted"}), j \in Places(log, n, {"rolled-back"}) : i < j

\* No two versions of a record, the archived ones and the active one, have one number.
Distinct(r) ==
  /\ \A i, j \in DOMAIN r.previous : i # j => r.previous[i].version # r.previous[j].version
  /\ \A i \in DOMAIN r.previous : r.previous[i].version # r.version

\* While commands run one after the other and none dies, the audit log tells the whole
\* registry: which version is active, whether it is disabled, and that no version
\* promoted has been forgotten.
AuditTellsRegistry ==
  alone /\ Quiet => \A n \in Names : Tells(audit, n, registry.skills[n])

\* A version number names one promotion as long as no promotion follows a rollback.
\* (After one, promote takes a number that an archived version has already, see README.md.)
VersionsDistinct ==
  alone /\ Quiet => \A n \in Names :
    Forward(audit, n) /\ registry.skills[n] # None => Distinct(registry.skills[n])

\* The guidance an agent is given is the SKILL.md of the content that was validated and
\* promoted under that hash, also after edits, rollbacks and a lost registry, unless it
\* was edited between the comparison of the hashes and the reading of the file, or was
\* still being imported then (validate and promote do not wait for the gates).
RenderedWasValidated ==
  \A e \in envelopes :
    /\ ~e.raced => e.text = e.hash[SkillMd]
    /\ alone => \E i, j \in DOMAIN audit :
         /\ i < j
         /\ audit[i].event = "evaluated" /\ audit[i].hash = e.hash /\ audit[i].cand = e.cand
         /\ audit[j].event = "promoted" /\ audit[j].hash = e.hash /\ audit[j].cand = e.cand

\* "Restore a previously promoted exact version" (skill-lifecycle.ts:338): the number that
\* rollback is given names one candidate, among the archived versions and the active one.
VersionNamesOneCandidate ==
  \A n \in Names :
    LET r == registry.skills[n] IN
    r # None =>
      LET versions == Append(r.previous, Archived(r)) IN
      \A i, j \in DOMAIN versions :
        versions[i].version = versions[j].version => versions[i] = versions[j]
================================================================================
