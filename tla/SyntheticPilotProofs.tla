-------------------------- MODULE SyntheticPilotProofs --------------------------
(***************************************************************************)
(* Proofs about SyntheticPilot: what a batch exposes is what the audit     *)
(* file tells and, skill by skill, what was asked for, however many skills *)
(* there are and whoever changes them between two readings of the          *)
(* registry.                                                               *)
(***************************************************************************)
EXTENDS SyntheticPilot, SequenceTheorems, FiniteSetTheorems, TLAPS

Entries == [hash : Hashes, live : Hashes, disabled : BOOLEAN]
Envelopes == [skill : Skills, hash : Hashes, text : Hashes]
BatchPlaces == {"idle", "check", "render", "read", "audited", "exposed", "threw"}

BatchRecords ==
  [pc : BatchPlaces, requests : Seq(Skills), listed : {<<>>} \cup [Skills -> Entries], todo : Seq(Skills),
   hash : Hashes, collected : Seq(Envelopes), budget : {0, 5}, touched : SUBSET Skills,
   exposed : Seq(Envelopes)]

BatchTypes ==
  /\ shelf \in [Skills -> Entries]
  /\ batch \in BatchRecords
  /\ ~BatchAt("idle") => batch.listed \in [Skills -> Entries]

FileLines ==
  {CutShort, Garbled} \cup
  [phase : {"synthetic"}, eligible : {FALSE}, skills : Seq(Envelopes),
   outcome : {"SYNTHETIC_BUDGET_EXCEEDED", "COMPLETED"}]

\* Without a torn append no line of the file is cut short.
WholeFile ==
  /\ torn \in BOOLEAN /\ invocations \in Seq(FileLines)
  /\ ~torn => \A i \in 1..Len(invocations) : invocations[i] # CutShort

\* The requests are the skills collected so far, and then those still to do.
OneByOne ==
  LET c == Len(batch.collected) IN
  /\ BatchAt("idle") => batch.requests = <<>>
  /\ batch.pc # "threw" =>
       /\ Len(batch.requests) = c + Len(batch.todo)
       /\ \A i \in 1..c : batch.collected[i].skill = batch.requests[i]
       /\ \A i \in 1..Len(batch.todo) : batch.todo[i] = batch.requests[c + i]
  /\ batch.pc \in {"render", "read"} => batch.todo # <<>>
  /\ batch.pc \in {"audited", "exposed"} => batch.todo = <<>>

\* A skill that nobody changed is as it was listed, and is collected as it was asked for.
Unchanged ==
  /\ ~BatchAt("idle") => \A s \in Skills \ batch.touched : shelf[s] = batch.listed[s]
  /\ BatchAt("render") => batch.listed[Head(batch.todo)].hash = Expected
  /\ BatchAt("read") =>
       LET s == Head(batch.todo) IN
       s \notin batch.touched => batch.hash = Expected /\ shelf[s].live = Expected
  /\ \A i \in 1..Len(batch.collected) :
       batch.collected[i].skill \notin batch.touched =>
         batch.collected[i].text = Expected /\ batch.collected[i].hash = Expected

Audited ==
  /\ batch.pc \in {"audited", "exposed"} /\ ~torn =>
       \E i \in 1..Len(invocations) : invocations[i] = Invocation
  /\ BatchAt("exposed") => batch.exposed = batch.collected

BatchInv == BatchTypes /\ WholeFile /\ OneByOne /\ Unchanged /\ Audited

------------------------------------------------------------------------------
(* The audit file.                                                         *)

LEMMA AppendedIsFile ==
  ASSUME WholeFile, NEW line \in FileLines
  PROVE  /\ Appended(line) \in Seq(FileLines)
         /\ ~torn /\ line # CutShort =>
              /\ Len(Appended(line)) = Len(invocations) + 1 /\ Appended(line)[Len(invocations) + 1] = line
              /\ \A i \in 1..Len(invocations) : Appended(line)[i] = invocations[i]
<1> DEFINE l == IF line = CutShort THEN CutShort ELSE Garbled
<1>1. l \in FileLines /\ invocations \in Seq(FileLines)
  BY DEF FileLines, WholeFile
<1>2. invocations # <<>> => Len(invocations) \in 1..Len(invocations)
  BY <1>1
<1>3. CASE invocations # <<>> /\ invocations[Len(invocations)] = CutShort
  <2>1. torn
    BY <1>2, <1>3 DEF WholeFile
  <2> HIDE DEF l
  <2>2. [invocations EXCEPT ![Len(invocations)] = l] \in Seq(FileLines)
    BY <1>1, <1>2, <1>3, ExceptSeq
  <2> QED
    BY <1>3, <2>1, <2>2 DEF Appended, l
<1>4. CASE ~(invocations # <<>> /\ invocations[Len(invocations)] = CutShort)
  <2>1. Appended(line) = Append(invocations, line)
    BY <1>4 DEF Appended
  <2> QED
    BY <1>1, <2>1, AppendProperties
<1> QED
  BY <1>3, <1>4

LEMMA InvocationIsLine ==
  ASSUME BatchTypes
  PROVE  Invocation \in FileLines /\ Invocation # CutShort /\ CutShort \in FileLines
BY DEF BatchTypes, BatchRecords, Invocation, FileLines, CutShort, Own

LEMMA FailedAppend ==
  ASSUME WholeFile, AppendFails
  PROVE  WholeFile' /\ (~torn' => UNCHANGED <<invocations, torn>>)
<1>1. CutShort \in FileLines
  BY DEF FileLines
<1> QED
  BY <1>1, AppendedIsFile DEF AppendFails, WholeFile

------------------------------------------------------------------------------
(* The batch.                                                              *)

LEMMA RequestsAreSequences == Requests \subseteq Seq(Skills)
<1>1. Cardinality(Skills) \in Nat
  BY SyntheticAssumption, FS_CardinalityType
<1> QED
  BY <1>1 DEF Requests, SeqOf

LEMMA BatchStarts == SyntheticInit /\ invocations = <<>> /\ torn = FALSE => BatchInv
<1> SUFFICES ASSUME SyntheticInit, invocations = <<>>, torn = FALSE PROVE BatchInv
  OBVIOUS
<1>1. batch = BatchIdle /\ shelf \in [Skills -> Entries]
  BY DEF SyntheticInit, Entries
<1>2. BatchIdle \in BatchRecords
  BY PilotAssumption DEF BatchIdle, BatchRecords, BatchPlaces
<1> QED
  <2>1. BatchTypes
    BY <1>1, <1>2 DEF BatchIdle, BatchTypes, BatchAt
  <2>2. WholeFile
    <3>1. <<>> \in Seq(FileLines)
      OBVIOUS
    <3>2. \A i \in 1..Len(<<>>) : FALSE
      OBVIOUS
    <3>3. torn \in BOOLEAN /\ invocations \in Seq(FileLines)
      BY <3>1
    <3>4. \A i \in 1..Len(invocations) : FALSE
      BY <3>2
    <3> QED
      BY <3>3, <3>4 DEF WholeFile
  <2>3. OneByOne /\ Unchanged /\ Audited
    BY <1>1 DEF BatchIdle, OneByOne, Unchanged, Audited, BatchAt
  <2> QED
    BY <2>1, <2>2, <2>3 DEF BatchInv

\* A batch that throws says nothing more.
LEMMA ThrowsKeeps ==
  ASSUME BatchInv, BatchThrows, ~BatchAt("idle"), WholeFile', UNCHANGED shelf
  PROVE  BatchInv'
BY DEF BatchThrows, BatchInv, BatchTypes, BatchRecords, BatchPlaces, OneByOne, Unchanged, Audited, BatchAt

LEMMA BatchKeeps == BatchInv /\ [SyntheticNext]_syntheticVars => BatchInv'
<1> SUFFICES ASSUME BatchInv, [SyntheticNext]_syntheticVars PROVE BatchInv'
  OBVIOUS
<1> BatchTypes /\ WholeFile /\ OneByOne /\ Unchanged /\ Audited
  BY DEF BatchInv
<1>0. UNCHANGED <<invocations, torn>> => WholeFile'
  BY DEF WholeFile
<1>1. CASE ListSkills
  <2>1. PICK q \in Requests, b \in {0, 5} :
          batch' = [batch EXCEPT !.pc = IF q = <<>> THEN "threw" ELSE "check",
                                 !.requests = q, !.todo = q, !.listed = shelf, !.budget = b]
    BY <1>1 DEF ListSkills
  <2>2. q \in Seq(Skills) /\ BatchAt("idle") /\ UNCHANGED <<shelf, invocations, torn>>
    BY <1>1, RequestsAreSequences DEF ListSkills
  <2> DEFINE l == IF q = <<>> THEN "threw" ELSE "check"
  <2>3. l \in {"threw", "check"}
    OBVIOUS
  <2> HIDE DEF l
  <2>4. batch' = [batch EXCEPT !.pc = l, !.requests = q, !.todo = q, !.listed = shelf, !.budget = b]
    BY <2>1 DEF l
  <2>5. /\ batch' \in BatchRecords /\ batch'.pc = l /\ batch'.requests = q /\ batch'.todo = q
        /\ batch'.listed = shelf /\ batch'.collected = batch.collected
    BY <2>2, <2>3, <2>4 DEF BatchTypes, BatchRecords, BatchPlaces
  <2>6. Len(batch.collected) = 0 /\ batch.collected = <<>>
    BY <2>2 DEF OneByOne, BatchAt, BatchTypes, BatchRecords
  <2> QED
    BY <1>0, <2>2, <2>3, <2>5, <2>6 DEF BatchInv, BatchTypes, OneByOne, Unchanged, Audited, BatchAt
<1>2. CASE CheckRequest
  <2>1. /\ BatchAt("check") /\ batch.todo # <<>> /\ UNCHANGED <<shelf, invocations, torn>>
    BY <1>2 DEF CheckRequest
  <2>2. CASE BatchThrows
    BY <1>0, <2>1, <2>2, ThrowsKeeps DEF BatchAt
  <2>3. CASE ~BatchThrows
    <3>1. batch.listed[Head(batch.todo)].hash = Expected /\ batch' = [batch EXCEPT !.pc = "render"]
      BY <1>2, <2>3 DEF CheckRequest
    <3> QED
      BY <1>0, <2>1, <3>1 DEF BatchInv, BatchTypes, BatchRecords, BatchPlaces, OneByOne, Unchanged, Audited, BatchAt
  <2> QED
    BY <2>2, <2>3
<1>3. CASE VerifyLiveHash
  <2> DEFINE s == Head(batch.todo)
  <2>1. /\ BatchAt("render") /\ UNCHANGED <<shelf, invocations, torn>>
    BY <1>3 DEF VerifyLiveHash
  <2>2. CASE BatchThrows
    BY <1>0, <2>1, <2>2, ThrowsKeeps DEF BatchAt
  <2>3. CASE ~BatchThrows
    <3>1. shelf[s].live = shelf[s].hash /\ batch' = [batch EXCEPT !.pc = "read", !.hash = shelf[s].hash]
      BY <1>3, <2>3 DEF VerifyLiveHash
    <3>2. s \in Skills
      BY <2>1 DEF OneByOne, BatchTypes, BatchRecords, BatchAt
    <3>3. shelf[s].hash \in Hashes
      BY <3>2 DEF BatchTypes, Entries
    <3>4. s \notin batch.touched => shelf[s].hash = Expected
      BY <2>1, <3>2 DEF Unchanged, BatchAt
    <3> QED
      BY <1>0, <2>1, <3>1, <3>3, <3>4
      DEF BatchInv, BatchTypes, BatchRecords, BatchPlaces, OneByOne, Unchanged, Audited, BatchAt
  <2> QED
    BY <2>2, <2>3
<1>4. CASE ReadGuidance
  <2> DEFINE s == Head(batch.todo)
             e == Envelope(s, batch.hash, shelf[s].live)
             t == Tail(batch.todo)
             c == Append(batch.collected, e)
  <2>1. /\ BatchAt("read") /\ UNCHANGED <<shelf, invocations, torn>>
    BY <1>4 DEF ReadGuidance
  <2>2. CASE BatchThrows
    BY <1>0, <2>1, <2>2, ThrowsKeeps DEF BatchAt
  <2>3. CASE ~BatchThrows
    <3>1. batch' = [batch EXCEPT !.pc = "check", !.todo = t, !.collected = c]
      BY <1>4, <2>3 DEF ReadGuidance
    <3>2. batch.todo \in Seq(Skills) /\ batch.todo # <<>> /\ batch.collected \in Seq(Envelopes)
      BY <2>1 DEF OneByOne, BatchTypes, BatchRecords, BatchAt
    <3>3. /\ s \in Skills /\ t \in Seq(Skills) /\ Len(t) = Len(batch.todo) - 1 /\ s = batch.todo[1]
          /\ \A i \in 1..Len(t) : t[i] = batch.todo[i + 1]
      BY <3>2, HeadTailProperties
    <3>4. e \in Envelopes /\ e.skill = s /\ e.hash = batch.hash /\ e.text = shelf[s].live
      BY <3>3 DEF Envelope, Envelopes, BatchTypes, BatchRecords, Entries
    <3> HIDE DEF e, s, t
    <3>5. /\ c \in Seq(Envelopes) /\ Len(c) = Len(batch.collected) + 1 /\ c[Len(batch.collected) + 1] = e
          /\ \A i \in 1..Len(batch.collected) : c[i] = batch.collected[i]
      BY <3>2, <3>4, AppendProperties
    <3>6. s \notin batch.touched => e.text = Expected /\ e.hash = Expected
      BY <2>1, <3>4 DEF Unchanged, BatchAt, s
    <3> HIDE DEF c
    <3>7. /\ batch' \in BatchRecords /\ batch'.pc = "check" /\ batch'.todo = t /\ batch'.collected = c
          /\ batch'.requests = batch.requests /\ batch'.listed = batch.listed /\ batch'.touched = batch.touched
      BY <3>1, <3>3, <3>5 DEF BatchTypes, BatchRecords, BatchPlaces
    <3>8. OneByOne'
      <4>1. /\ Len(batch.requests) = Len(batch.collected) + Len(batch.todo)
            /\ \A i \in 1..Len(batch.collected) : batch.collected[i].skill = batch.requests[i]
            /\ \A i \in 1..Len(batch.todo) : batch.todo[i] = batch.requests[Len(batch.collected) + i]
        BY <2>1 DEF OneByOne, BatchAt
      <4> DEFINE m == Len(batch.collected)
                 n == Len(batch.todo)
      <4>2. m \in Nat /\ n \in Nat /\ n >= 1
        BY <3>2, EmptySeq
      <4>3. Len(c) = m + 1 /\ Len(t) = n - 1 /\ Len(batch.requests) = m + n
        BY <3>3, <3>5, <4>1
      <4> HIDE DEF m, n
      <4>4. Len(batch.requests) = Len(c) + Len(t)
        BY <4>2, <4>3
      <4>5. \A i \in 1..(m + 1) : c[i].skill = batch.requests[i]
        <5>1. \A i \in 1..m : c[i].skill = batch.requests[i]
          BY <3>5, <4>1 DEF m
        <5>2. c[m + 1].skill = batch.requests[m + 1]
          <6>1. batch.todo[1] = batch.requests[m + 1]
            BY <4>1, <4>2 DEF m, n
          <6> QED
            BY <3>3, <3>4, <3>5, <6>1 DEF m
        <5> QED
          BY <4>2, <5>1, <5>2
      <4>6. \A i \in 1..(n - 1) : t[i] = batch.requests[(m + 1) + i]
        <5>1. SUFFICES ASSUME NEW i \in 1..(n - 1) PROVE t[i] = batch.requests[(m + 1) + i]
          OBVIOUS
        <5>2. i + 1 \in 1..n /\ m + (i + 1) = (m + 1) + i
          BY <4>2
        <5>3. t[i] = batch.todo[i + 1]
          BY <3>3, <4>3
        <5>4. batch.todo[i + 1] = batch.requests[m + (i + 1)]
          BY <4>1, <5>2 DEF m, n
        <5> QED
          BY <5>2, <5>3, <5>4
      <4> QED
        BY <3>7, <4>3, <4>4, <4>5, <4>6 DEF OneByOne, BatchAt
    <3>9. Unchanged'
      <4>1. \A i \in 1..Len(c) : c[i].skill \notin batch.touched => c[i].text = Expected /\ c[i].hash = Expected
        BY <3>2, <3>4, <3>5, <3>6 DEF Unchanged
      <4> QED
        BY <2>1, <3>7, <4>1 DEF Unchanged, BatchAt
    <3> QED
      BY <1>0, <2>1, <3>7, <3>8, <3>9 DEF BatchInv, BatchTypes, Audited, BatchAt
  <2> QED
    BY <2>2, <2>3
<1>5. CASE OpenInvocation
  <2>1. BatchAt("check") /\ batch.todo = <<>> /\ UNCHANGED shelf
    BY <1>5 DEF OpenInvocation, Checked
  <2>2. CASE AppendFails /\ BatchThrows
    BY <2>1, <2>2, FailedAppend, ThrowsKeeps DEF BatchAt
  <2>3. CASE ~(AppendFails /\ BatchThrows)
    <3> DEFINE l == IF batch.budget <= 0 THEN "threw" ELSE "audited"
    <3>1. invocations' = Appended(Invocation) /\ batch' = [batch EXCEPT !.pc = l] /\ UNCHANGED torn
      BY <1>5, <2>3 DEF OpenInvocation
    <3>2. l \in {"threw", "audited"}
      OBVIOUS
    <3> HIDE DEF l
    <3>3. BatchTypes' /\ OneByOne' /\ Unchanged' /\ batch'.pc # "exposed"
      BY <2>1, <3>1, <3>2 DEF BatchTypes, BatchRecords, BatchPlaces, OneByOne, Unchanged, BatchAt
    <3>4. Invocation' = Invocation
      BY <3>1 DEF Invocation, BatchTypes, BatchRecords
    <3>5. Invocation \in FileLines /\ Invocation # CutShort
      BY InvocationIsLine
    <3>6. WholeFile' /\ (~torn => \E i \in 1..Len(invocations') : invocations'[i] = Invocation)
      <4>1. /\ invocations' \in Seq(FileLines)
            /\ ~torn =>
                 /\ Len(invocations') = Len(invocations) + 1 /\ invocations'[Len(invocations) + 1] = Invocation
                 /\ \A i \in 1..Len(invocations) : invocations'[i] = invocations[i]
        BY <3>1, <3>5, AppendedIsFile
      <4>2. Len(invocations) \in Nat
        BY DEF WholeFile
      <4>3. torn' = torn
        BY <3>1
      <4> QED
        BY <3>5, <4>1, <4>2, <4>3 DEF WholeFile
    <3> QED
      BY <3>1, <3>3, <3>4, <3>6 DEF BatchInv, Audited, BatchAt
  <2> QED
    BY <2>2, <2>3
<1>6. CASE Expose
  <2>1. /\ BatchAt("audited") /\ UNCHANGED <<shelf, invocations, torn>>
        /\ batch' = [batch EXCEPT !.pc = "exposed", !.exposed = batch.collected]
    BY <1>6 DEF Expose
  <2>2. Invocation' = Invocation
    BY <2>1 DEF Invocation, BatchTypes, BatchRecords
  <2> QED
    BY <1>0, <2>1, <2>2 DEF BatchInv, BatchTypes, BatchRecords, BatchPlaces, OneByOne, Unchanged, Audited, BatchAt
<1>7. CASE ChangeShelf
  <2>1. PICK s \in Skills :
          /\ \E n \in Entries : shelf' = [shelf EXCEPT ![s] = n]
          /\ batch' = [batch EXCEPT !.touched = @ \cup {s}]
    <3>1. PICK s \in ToSet(batch.todo) \ batch.touched :
            /\ \/ \E h \in Hashes : shelf' = [shelf EXCEPT ![s] = [hash |-> h, live |-> h, disabled |-> FALSE]]
               \/ shelf' = [shelf EXCEPT ![s].disabled = TRUE]
               \/ \E h \in Hashes : shelf' = [shelf EXCEPT ![s].live = h]
            /\ batch' = [batch EXCEPT !.touched = @ \cup {s}]
      BY <1>7 DEF ChangeShelf
    <3>2. s \in Skills
      BY DEF ToSet, BatchTypes, BatchRecords
    <3>3. shelf[s] \in Entries
      BY <3>2 DEF BatchTypes
    <3>4. CASE \E h \in Hashes : shelf' = [shelf EXCEPT ![s] = [hash |-> h, live |-> h, disabled |-> FALSE]]
      <4>1. \A h \in Hashes : [hash |-> h, live |-> h, disabled |-> FALSE] \in Entries
        BY DEF Entries
      <4> QED
        BY <3>1, <3>2, <3>4, <4>1
    <3>5. CASE shelf' = [shelf EXCEPT ![s].disabled = TRUE]
      <4>1. [shelf[s] EXCEPT !.disabled = TRUE] \in Entries
        BY <3>3 DEF Entries
      <4> QED
        BY <3>1, <3>2, <3>5, <4>1
    <3>6. CASE \E h \in Hashes : shelf' = [shelf EXCEPT ![s].live = h]
      <4>1. \A h \in Hashes : [shelf[s] EXCEPT !.live = h] \in Entries
        BY <3>3 DEF Entries
      <4> QED
        BY <3>1, <3>2, <3>6, <4>1
    <3> QED
      BY <3>1, <3>4, <3>5, <3>6
  <2>2. batch.pc \in {"check", "render", "read"} /\ UNCHANGED <<invocations, torn>>
    BY <1>7 DEF ChangeShelf
  <2>3. shelf' \in [Skills -> Entries] /\ \A o \in Skills \ {s} : shelf'[o] = shelf[o]
    BY <2>1 DEF BatchTypes
  <2>4. /\ batch' \in BatchRecords /\ batch'.touched = batch.touched \cup {s}
        /\ batch'.pc = batch.pc /\ batch'.requests = batch.requests /\ batch'.listed = batch.listed
        /\ batch'.todo = batch.todo /\ batch'.hash = batch.hash /\ batch'.collected = batch.collected
    BY <2>1 DEF BatchTypes, BatchRecords
  <2>5. batch.pc \in {"render", "read"} => Head(batch.todo) \in Skills
    BY DEF OneByOne, BatchTypes, BatchRecords
  <2>6. \A i \in 1..Len(batch.collected) : batch.collected[i].skill \in Skills
    <3>1. batch.collected \in Seq(Envelopes)
      BY DEF BatchTypes, BatchRecords
    <3>2. \A i \in 1..Len(batch.collected) : batch.collected[i] \in Envelopes
      BY <3>1
    <3> QED
      BY <3>2 DEF Envelopes
  <2>7. Unchanged'
    BY <2>2, <2>3, <2>4, <2>5, <2>6 DEF Unchanged, BatchAt
  <2> QED
    BY <1>0, <2>2, <2>3, <2>4, <2>7 DEF BatchInv, BatchTypes, OneByOne, Audited, BatchAt
<1>8. CASE OtherInvocationDies
  <2>1. /\ invocations' = Appended(CutShort) /\ torn' = TRUE /\ UNCHANGED <<shelf, batch>>
    BY <1>8 DEF OtherInvocationDies
  <2>2. WholeFile'
    BY <2>1, AppendedIsFile, InvocationIsLine DEF WholeFile
  <2> QED
    BY <2>1, <2>2 DEF BatchInv, BatchTypes, OneByOne, Unchanged, Audited, BatchAt
<1>9. CASE UNCHANGED syntheticVars
  BY <1>0, <1>9 DEF syntheticVars, BatchInv, BatchTypes, OneByOne, Unchanged, Audited, BatchAt, Invocation
<1> QED
  BY <1>1, <1>2, <1>3, <1>4, <1>5, <1>6, <1>7, <1>8, <1>9 DEF SyntheticNext, SyntheticStep

LEMMA BatchExposes == BatchInv => ExposedIsAudited
<1> SUFFICES ASSUME BatchInv, BatchAt("exposed") PROVE ExposedIsAudited
  BY DEF ExposedIsAudited
<1>1. batch.exposed = batch.collected /\ batch.collected \in Seq(Envelopes) /\ batch.todo = <<>>
  BY DEF BatchInv, Audited, OneByOne, BatchAt, BatchTypes, BatchRecords
<1>2. ~torn => Contains(invocations, Invocation) /\ Invocation.skills = batch.exposed
  BY <1>1 DEF BatchInv, Audited, BatchAt, Contains, Invocation
<1>3. [i \in DOMAIN batch.exposed |-> batch.exposed[i].skill] = batch.requests
  <2>1. batch.requests \in Seq(Skills) /\ Len(batch.requests) = Len(batch.collected)
    BY <1>1 DEF BatchInv, OneByOne, BatchAt, BatchTypes, BatchRecords
  <2>2. \A i \in 1..Len(batch.collected) : batch.collected[i].skill = batch.requests[i]
    BY DEF BatchInv, OneByOne, BatchAt
  <2> QED
    BY <1>1, <2>1, <2>2
<1>4. \A i \in DOMAIN batch.exposed :
        batch.exposed[i].skill \notin batch.touched =>
          batch.exposed[i].text = Expected /\ batch.exposed[i].hash = Expected
  BY <1>1 DEF BatchInv, Unchanged
<1> QED
  BY <1>2, <1>3, <1>4 DEF ExposedIsAudited

\* What a batch exposes is one envelope per requested skill, with the text and the hash
\* of the request unless that skill was changed meanwhile, and the audit file says so.
THEOREM ExposureIsAudited == SyntheticSpec => []ExposedIsAudited
<1> QED
  BY BatchStarts, BatchKeeps, BatchExposes, PTL DEF SyntheticSpec
=================================================================================
