-------------------------------- MODULE L1Proofs --------------------------------
(***************************************************************************)
(* Proofs about the L1 harness and what runs inside it: the capsule, the   *)
(* skill-guided pilot, and the harness over both, for any limits, any      *)
(* hashes, and any number of disturbances.                                 *)
(***************************************************************************)
EXTENDS L1Runner, SequenceTheorems, FiniteSetTheorems, WellFoundedInduction, TLAPS

------------------------------------------------------------------------------
(* The capsule.                                                            *)

CapsuleRecords ==
  [pc : {"idle", "running", "judge", "cleanup", "ended"}, timer : {"off", "armed", "spent"},
   timedOut : BOOLEAN, capped : BOOLEAN, read : Nat, sentinel : Results \cup {"none"},
   status : Verdicts \cup {"ERROR", "TIMEOUT", "OUTPUT_CAPPED"},
   thrown : BOOLEAN, cleaned : BOOLEAN, missed : BOOLEAN]

OracleRecords ==
  [finds : Verdicts, at : {"tests", "printed", "wrote"}, file : Results \cup {"none", "torn"},
   pipe : Seq(Results \cup {"text"}), chunks : Nat, last : Results \cup {"none"}, foreign : BOOLEAN]

CapsuleTypes ==
  /\ capsule \in CapsuleRecords
  /\ docker \in [client : {"none", "starting", "attached", "closed"},
                 container : {"none", "running", "gone"}]
  /\ oracle \in OracleRecords

\* The last result printed is the last one in the pipe, or has been read.
OnItsWay(pipe, before, last) ==
  \/ before = last /\ \A i \in 1..Len(pipe) : pipe[i] = "text"
  \/ \E i \in 1..Len(pipe) : pipe[i] = last /\ \A j \in (i + 1)..Len(pipe) : pipe[j] = "text"

\* Without a result of the candidate's, those there are are the one the oracle found.
FoundOrForeign ==
  ~oracle.foreign => /\ oracle.file \in {"none", "torn", oracle.finds}
                     /\ oracle.last \in {"none", oracle.finds}

\* Nothing comes from a container that never ran, and only an attached client has one
\* that still runs.
ContainerIsAttached ==
  /\ docker.container = "none" =>
       /\ oracle.file = "none" /\ oracle.pipe = <<>> /\ oracle.last = "none"
       /\ capsule.sentinel = "none"
  /\ docker.container = "running" => docker.client = "attached"
  /\ docker.client \in {"none", "starting"} => docker.container = "none"
  /\ CapsuleAt("idle") <=> docker.client = "none" /\ ~capsule.thrown

\* The evaluator judges after the client's end, when there is nothing more to read.
JudgesAtTheEnd ==
  /\ capsule.read > MaxOutputChunks => capsule.capped
  /\ capsule.pc \in {"judge", "cleanup", "ended"} /\ ~capsule.thrown =>
       docker.client = "closed" /\ docker.container # "running" /\ oracle.pipe = <<>>
  /\ CapsuleAt("running") => docker.client \in {"starting", "attached"}
  /\ capsule.thrown => docker.client = "none" /\ capsule.pc \in {"cleanup", "ended"}
  /\ capsule.pc \in {"cleanup", "ended"} /\ ~capsule.thrown =>
       capsule.status = Judged(capsule, oracle.file)

LastIsOnItsWay == OnItsWay(oracle.pipe, capsule.sentinel, oracle.last)

CapsuleInv == CapsuleTypes /\ LastIsOnItsWay /\ FoundOrForeign /\ ContainerIsAttached /\ JudgesAtTheEnd

\* A chunk that is printed, and one that is read.
LEMMA TextIsPrinted ==
  ASSUME NEW pipe \in Seq(Results \cup {"text"}), NEW before, NEW last, OnItsWay(pipe, before, last)
  PROVE  OnItsWay(Append(pipe, "text"), before, last)
BY DEF OnItsWay

LEMMA ResultIsPrinted ==
  ASSUME NEW pipe \in Seq(Results \cup {"text"}), NEW before, NEW r \in Results
  PROVE  OnItsWay(Append(pipe, r), before, r)
BY DEF OnItsWay

LEMMA ChunkIsRead ==
  ASSUME NEW pipe \in Seq(Results \cup {"text"}), pipe # <<>>, NEW before,
         NEW last \in Results \cup {"none"}, OnItsWay(pipe, before, last)
  PROVE  OnItsWay(Tail(pipe), LastResult(before, Head(pipe)), last)
<1>1. /\ Len(pipe) \in Nat \ {0} /\ Len(Tail(pipe)) = Len(pipe) - 1 /\ Head(pipe) = pipe[1]
      /\ \A i \in 1..Len(Tail(pipe)) : Tail(pipe)[i] = pipe[i + 1]
  OBVIOUS
<1>2. last # "text"
  BY DEF Results, Verdicts
<1>3. CASE before = last /\ \A i \in 1..Len(pipe) : pipe[i] = "text"
  BY <1>1, <1>3 DEF OnItsWay, LastResult
<1>4. CASE \E i \in 1..Len(pipe) : pipe[i] = last /\ \A j \in (i + 1)..Len(pipe) : pipe[j] = "text"
  <2>1. PICK i \in 1..Len(pipe) : pipe[i] = last /\ \A j \in (i + 1)..Len(pipe) : pipe[j] = "text"
    BY <1>4
  <2>2. CASE i = 1
    BY <1>1, <1>2, <2>1, <2>2 DEF OnItsWay, LastResult
  <2>3. CASE i # 1
    <3>1. i - 1 \in 1..Len(Tail(pipe)) /\ Tail(pipe)[i - 1] = last
      BY <1>1, <2>1, <2>3
    <3>2. \A j \in (i - 1 + 1)..Len(Tail(pipe)) : Tail(pipe)[j] = "text"
      BY <1>1, <2>1, <2>3
    <3> QED
      BY <3>1, <3>2 DEF OnItsWay
  <2> QED
    BY <2>2, <2>3
<1> QED
  BY <1>3, <1>4 DEF OnItsWay

LEMMA CapsuleStarts == CapsuleInit => CapsuleInv
BY CapsuleAssumption DEF CapsuleInit, CapsuleIdle, CapsuleInv, CapsuleTypes, CapsuleRecords, OracleRecords, LastIsOnItsWay, OnItsWay,
   FoundOrForeign, ContainerIsAttached, JudgesAtTheEnd, CapsuleAt, Results, Verdicts

\* docker kill changes nothing that the evaluator has read.
KillTells(flagged) ==
  /\ capsule' \in CapsuleRecords
  /\ capsule'.pc = flagged.pc /\ capsule'.read = flagged.read /\ capsule'.capped = flagged.capped
  /\ capsule'.thrown = flagged.thrown /\ capsule'.sentinel = flagged.sentinel
  /\ \/ docker' = docker
     \/ docker.container = "running" /\ docker' = [docker EXCEPT !.container = "gone"]

LEMMA KillOutcome ==
  ASSUME NEW flagged \in CapsuleRecords, Kill(flagged)
  PROVE  KillTells(flagged)
BY DEF Kill, KillTells, CapsuleRecords

\* Something is printed: text, or a result of the oracle's or the candidate's.
Printed(c, last, foreign) ==
  /\ oracle' \in OracleRecords /\ oracle'.finds = oracle.finds /\ oracle'.file = oracle.file
  /\ oracle'.pipe = Append(oracle.pipe, c) /\ oracle'.last = last /\ oracle'.foreign = foreign

LEMMA PrintKeeps ==
  ASSUME CapsuleInv, docker.container = "running", UNCHANGED <<capsule, docker>>,
         NEW c \in Results \cup {"text"}, NEW last, NEW foreign,
         Printed(c, last, foreign),
         \/ c = "text" /\ last = oracle.last /\ foreign = oracle.foreign
         \/ /\ c \in Results /\ last = c
            /\ (foreign = TRUE) \/ (c = oracle.finds /\ foreign = oracle.foreign)
  PROVE  CapsuleInv'
<1> USE DEF CapsuleInv
<1>1. OnItsWay(Append(oracle.pipe, c), capsule.sentinel, last)
  BY TextIsPrinted, ResultIsPrinted DEF LastIsOnItsWay, CapsuleTypes, OracleRecords
<1>2. CapsuleTypes' /\ LastIsOnItsWay'
  BY <1>1 DEF CapsuleTypes, LastIsOnItsWay, Printed
<1>3. FoundOrForeign'
  BY DEF FoundOrForeign, Printed
<1>4. ContainerIsAttached' /\ JudgesAtTheEnd'
  BY DEF ContainerIsAttached, JudgesAtTheEnd, CapsuleAt, Printed
<1> QED
  BY <1>2, <1>3, <1>4

LEMMA PrintedIs ==
  ASSUME CapsuleTypes, NEW c \in Results \cup {"text"}, NEW last \in Results \cup {"none"},
         NEW foreign \in BOOLEAN, NEW n \in Nat, NEW at \in {"tests", "printed", "wrote"},
         oracle' = [oracle EXCEPT !.pipe = Append(oracle.pipe, c), !.chunks = n, !.at = at,
                                  !.last = last, !.foreign = foreign]
  PROVE  Printed(c, last, foreign)
<1>1. PICK pipe : pipe = Append(oracle.pipe, c)
  OBVIOUS
<1>2. pipe \in Seq(Results \cup {"text"})
  BY <1>1 DEF CapsuleTypes, OracleRecords
<1>3. oracle' = [oracle EXCEPT !.pipe = pipe, !.chunks = n, !.at = at, !.last = last, !.foreign = foreign]
  BY <1>1
<1>5. oracle' \in OracleRecords
  BY <1>2, <1>3 DEF CapsuleTypes, OracleRecords
<1>4. /\ oracle'.finds = oracle.finds /\ oracle'.file = oracle.file
      /\ oracle'.pipe = pipe /\ oracle'.last = last /\ oracle'.foreign = foreign
  BY <1>2, <1>3 DEF CapsuleTypes, OracleRecords
<1> QED
  BY <1>1, <1>4, <1>5 DEF Printed

\* Every step of the evaluator, of docker and of the oracle keeps it.
LEMMA CapsuleKeeps == CapsuleInv /\ [CapsuleNext]_capsuleVars => CapsuleInv'
<1> SUFFICES ASSUME CapsuleInv, [CapsuleNext]_capsuleVars PROVE CapsuleInv'
  OBVIOUS
<1> USE DEF CapsuleInv
<1>0. /\ CapsuleTypes /\ LastIsOnItsWay /\ FoundOrForeign /\ ContainerIsAttached /\ JudgesAtTheEnd
  OBVIOUS
<1>1. CASE RefuseImage
  BY <1>1 DEF RefuseImage, CapsuleTypes, CapsuleRecords, OracleRecords, LastIsOnItsWay, FoundOrForeign, ContainerIsAttached, JudgesAtTheEnd, CapsuleAt
<1>2. CASE PrepareAndSpawn
  <2>0. capsule' \in CapsuleRecords
    <3>1. CASE capsule' = [capsule EXCEPT !.pc = "running", !.timer = "armed"]
      BY <3>1 DEF CapsuleTypes, CapsuleRecords
    <3>2. CASE capsule' = [capsule EXCEPT !.pc = "cleanup", !.thrown = TRUE]
      BY <3>2 DEF CapsuleTypes, CapsuleRecords
    <3> QED
      BY <1>2, <3>1, <3>2 DEF PrepareAndSpawn
  <2>1. CASE UNCHANGED <<docker, oracle>>
    <3>1. CapsuleTypes'
      BY <2>0, <2>1 DEF CapsuleTypes
    <3>5. capsule' = [capsule EXCEPT !.pc = "cleanup", !.thrown = TRUE] /\ docker.client = "none"
      BY <1>2, <2>1 DEF PrepareAndSpawn, CapsuleTypes, ContainerIsAttached
    <3>6. /\ capsule'.sentinel = capsule.sentinel /\ capsule'.pc = "cleanup" /\ capsule'.thrown = TRUE
          /\ capsule'.read = capsule.read /\ capsule'.capped = capsule.capped
      BY <3>5 DEF CapsuleTypes, CapsuleRecords
    <3>2. LastIsOnItsWay' /\ FoundOrForeign'
      BY <2>1, <3>6 DEF LastIsOnItsWay, FoundOrForeign
    <3>3. ContainerIsAttached'
      BY <2>1, <3>5, <3>6 DEF ContainerIsAttached, CapsuleAt
    <3>4. JudgesAtTheEnd'
      BY <2>1, <3>5, <3>6 DEF JudgesAtTheEnd, CapsuleAt
    <3> QED
      BY <3>1, <3>2, <3>3, <3>4
  <2>2. CASE ~UNCHANGED <<docker, oracle>>
    <3>1. PICK v \in Verdicts :
            /\ CapsuleAt("idle") /\ capsule' = [capsule EXCEPT !.pc = "running", !.timer = "armed"]
            /\ docker' = [docker EXCEPT !.client = "starting"]
            /\ oracle' = [oracle EXCEPT !.finds = v]
      BY <1>2, <2>2 DEF PrepareAndSpawn
    <3>2. CapsuleTypes'
      BY <3>1 DEF CapsuleTypes, CapsuleRecords, OracleRecords
    <3>3. oracle.file = "none" /\ oracle.pipe = <<>> /\ capsule.sentinel = "none" /\ ~capsule.thrown
      BY <3>1 DEF ContainerIsAttached
    <3>4. LastIsOnItsWay' /\ FoundOrForeign'
      BY <3>1, <3>3 DEF LastIsOnItsWay, OnItsWay, FoundOrForeign, CapsuleTypes, CapsuleRecords, OracleRecords
    <3>5. ContainerIsAttached' /\ JudgesAtTheEnd'
      BY <3>1, <3>3 DEF ContainerIsAttached, JudgesAtTheEnd, CapsuleTypes, CapsuleRecords, OracleRecords, CapsuleAt
    <3> QED
      BY <3>2, <3>4, <3>5
  <2> QED
    BY <2>1, <2>2
<1>3. CASE Docker
  BY <1>3 DEF Docker, ContainerStarts, ContainerFails, CapsuleTypes, CapsuleRecords, OracleRecords, LastIsOnItsWay, FoundOrForeign, ContainerIsAttached,
              JudgesAtTheEnd, CapsuleAt
<1>4. CASE PrintText
  <2>1. /\ docker.container = "running" /\ UNCHANGED <<capsule, docker>>
        /\ oracle' = [oracle EXCEPT !.pipe = Append(oracle.pipe, "text"), !.chunks = (oracle.chunks + 1), !.at = oracle.at,
                                   !.last = oracle.last, !.foreign = oracle.foreign]
    BY <1>4 DEF PrintText, CapsuleTypes, OracleRecords
  <2>2. Printed("text", oracle.last, oracle.foreign)
    <3>1. (oracle.chunks + 1) \in Nat /\ "text" \in Results \cup {"text"} /\ oracle.at \in {"tests", "printed", "wrote"}
          /\ oracle.last \in Results \cup {"none"}
      BY DEF CapsuleTypes, OracleRecords, Results, Verdicts
    <3>2. oracle.foreign \in BOOLEAN
      BY DEF CapsuleTypes, OracleRecords
    <3> QED
      BY <2>1, <3>1, <3>2, PrintedIs
  <2> QED
    BY <2>1, <2>2, PrintKeeps DEF CapsuleTypes, OracleRecords, Results, Verdicts
<1>5. CASE OraclePrints
  <2>1. /\ docker.container = "running" /\ UNCHANGED <<capsule, docker>>
        /\ oracle' = [oracle EXCEPT !.pipe = Append(oracle.pipe, oracle.finds), !.chunks = oracle.chunks, !.at = "printed",
                                   !.last = oracle.finds, !.foreign = oracle.foreign]
    BY <1>5 DEF OraclePrints, CapsuleTypes, OracleRecords
  <2>2. Printed(oracle.finds, oracle.finds, oracle.foreign)
    <3>1. oracle.chunks \in Nat /\ oracle.finds \in Results \cup {"text"} /\ "printed" \in {"tests", "printed", "wrote"}
          /\ oracle.finds \in Results \cup {"none"}
      BY DEF CapsuleTypes, OracleRecords, Results, Verdicts
    <3>2. oracle.foreign \in BOOLEAN
      BY DEF CapsuleTypes, OracleRecords
    <3> QED
      BY <2>1, <3>1, <3>2, PrintedIs
  <2> QED
    BY <2>1, <2>2, PrintKeeps DEF CapsuleTypes, OracleRecords, Results, Verdicts
<1>6. CASE CandidatePrints
  <2>1. PICK r \in Results : /\ docker.container = "running" /\ UNCHANGED <<capsule, docker>>
        /\ oracle' = [oracle EXCEPT !.pipe = Append(oracle.pipe, r), !.chunks = (oracle.chunks + 1), !.at = oracle.at,
                                   !.last = r, !.foreign = TRUE]
    <3>1. PICK r \in Results : oracle' = [oracle EXCEPT !.pipe = Append(oracle.pipe, r),
                 !.chunks = (oracle.chunks + 1), !.last = r, !.foreign = TRUE]
      BY <1>6 DEF CandidatePrints, CapsuleTypes, OracleRecords
    <3>2. oracle' = [oracle EXCEPT !.pipe = Append(oracle.pipe, r), !.chunks = (oracle.chunks + 1),
                       !.at = oracle.at, !.last = r, !.foreign = TRUE]
      BY <3>1 DEF CapsuleTypes, OracleRecords
    <3> QED
      BY <1>6, <3>2 DEF CandidatePrints
  <2>2. Printed(r, r, TRUE)
    <3>1. (oracle.chunks + 1) \in Nat /\ r \in Results \cup {"text"} /\ oracle.at \in {"tests", "printed", "wrote"}
          /\ r \in Results \cup {"none"}
      BY DEF CapsuleTypes, OracleRecords, Results, Verdicts
    <3>2. TRUE \in BOOLEAN
      BY DEF CapsuleTypes, OracleRecords
    <3> QED
      BY <2>1, <3>1, <3>2, PrintedIs
  <2> QED
    BY <2>1, <2>2, PrintKeeps DEF CapsuleTypes, OracleRecords, Results, Verdicts
<1>11. CASE OracleWrites \/ CandidateWrites
  <2>1. /\ docker.container = "running" /\ UNCHANGED <<capsule, docker>>
        /\ oracle' \in OracleRecords /\ oracle'.finds = oracle.finds
        /\ oracle'.pipe = oracle.pipe /\ oracle'.last = oracle.last
        /\ \/ oracle'.foreign
           \/ oracle'.foreign = oracle.foreign /\ oracle'.file \in {oracle.finds, oracle.file, "torn"}
    <3>1. CASE OracleWrites
      BY <3>1 DEF OracleWrites, CapsuleTypes, OracleRecords, Results
    <3>2. CASE CandidateWrites
      BY <3>2 DEF CandidateWrites, CapsuleTypes, OracleRecords
    <3> QED
      BY <1>11, <3>1, <3>2
  <2>3. CapsuleTypes' /\ LastIsOnItsWay' /\ FoundOrForeign'
    BY <2>1 DEF CapsuleTypes, LastIsOnItsWay, FoundOrForeign
  <2>4. ContainerIsAttached' /\ JudgesAtTheEnd'
    BY <2>1 DEF ContainerIsAttached, JudgesAtTheEnd, CapsuleAt
  <2> QED
    BY <2>3, <2>4
<1>7. CASE ContainerExits
  BY <1>7 DEF ContainerExits, CapsuleTypes, CapsuleRecords, OracleRecords, LastIsOnItsWay, FoundOrForeign, ContainerIsAttached, JudgesAtTheEnd, CapsuleAt
<1>8. CASE OnTimeout
  <2> DEFINE flagged == [capsule EXCEPT !.timer = "spent", !.timedOut = TRUE]
  <2>1. CapsuleAt("running") /\ UNCHANGED oracle /\ Kill(flagged)
    BY <1>8 DEF OnTimeout
  <2>2. flagged \in CapsuleRecords
    BY DEF CapsuleTypes, CapsuleRecords
  <2>3. /\ capsule' \in CapsuleRecords /\ capsule'.pc = "running" /\ capsule'.read = capsule.read
        /\ capsule'.capped = capsule.capped /\ capsule'.thrown = capsule.thrown
        /\ capsule'.sentinel = capsule.sentinel
    BY <2>1, <2>2, KillOutcome DEF KillTells, CapsuleTypes, CapsuleRecords, CapsuleAt
  <2>4. KillTells(flagged)
    BY <2>1, <2>2, KillOutcome
  <2> HIDE DEF flagged
  <2> QED
    BY <2>1, <2>3, <2>4
    DEF KillTells, CapsuleTypes, CapsuleRecords, OracleRecords, LastIsOnItsWay, FoundOrForeign, ContainerIsAttached, JudgesAtTheEnd, CapsuleAt
<1>9. CASE OnData
  <2> DEFINE chunk == Head(oracle.pipe)
             seen == [capsule EXCEPT !.read = @ + 1, !.sentinel = LastResult(@, chunk)]
             flagged == [seen EXCEPT !.capped = TRUE]
  <2>1. /\ CapsuleAt("running") /\ oracle.pipe # <<>> /\ oracle' = [oracle EXCEPT !.pipe = Tail(@)]
        /\ IF seen.read > MaxOutputChunks /\ ~seen.capped
           THEN Kill(flagged) ELSE capsule' = seen /\ UNCHANGED docker
    BY <1>9 DEF OnData
  <2>2. chunk \in Results \cup {"text"} /\ Tail(oracle.pipe) \in Seq(Results \cup {"text"})
    BY <2>1 DEF CapsuleTypes, OracleRecords
  <2>3. LastResult(capsule.sentinel, chunk) \in Results \cup {"none"}
    BY <2>2 DEF LastResult, CapsuleTypes, CapsuleRecords
  <2>4. /\ oracle' \in OracleRecords /\ oracle'.finds = oracle.finds /\ oracle'.file = oracle.file
        /\ oracle'.pipe = Tail(oracle.pipe) /\ oracle'.last = oracle.last /\ oracle'.foreign = oracle.foreign
    BY <2>1, <2>2 DEF CapsuleTypes, OracleRecords
  <2>5. /\ seen \in CapsuleRecords /\ seen.read = capsule.read + 1 /\ seen.pc = capsule.pc
        /\ seen.thrown = capsule.thrown /\ seen.capped = capsule.capped
        /\ seen.sentinel = LastResult(capsule.sentinel, chunk)
    <3> DEFINE result == LastResult(capsule.sentinel, chunk)
               more == capsule.read + 1
    <3>1. /\ result \in Results \cup {"none"} /\ more \in Nat
          /\ seen = [capsule EXCEPT !.read = more, !.sentinel = result]
      BY <2>3 DEF CapsuleTypes, CapsuleRecords
    <3> HIDE DEF result, more, seen
    <3>2. /\ seen \in CapsuleRecords /\ seen.read = more /\ seen.pc = capsule.pc
          /\ seen.thrown = capsule.thrown /\ seen.capped = capsule.capped
          /\ seen.sentinel = result
      BY <3>1 DEF CapsuleTypes, CapsuleRecords
    <3> QED
      BY <3>2 DEF result, more
  <2>6. /\ flagged \in CapsuleRecords /\ flagged.read = seen.read /\ flagged.pc = seen.pc
        /\ flagged.thrown = seen.thrown /\ flagged.capped /\ flagged.sentinel = seen.sentinel
    BY <2>5 DEF CapsuleRecords
  <2> HIDE DEF seen, flagged, chunk
  <2>7. /\ capsule' \in CapsuleRecords /\ capsule'.read = seen.read /\ capsule'.pc = seen.pc
        /\ capsule'.thrown = seen.thrown /\ capsule'.sentinel = seen.sentinel
        /\ seen.read > MaxOutputChunks => capsule'.capped
        /\ \/ docker' = docker
           \/ docker.container = "running" /\ docker' = [docker EXCEPT !.container = "gone"]
    <3>1. CASE seen.read > MaxOutputChunks /\ ~seen.capped
      <4>1. Kill(flagged)
        BY <2>1, <3>1
      <4>2. KillTells(flagged)
        BY <4>1, <2>6, KillOutcome
      <4> QED
        BY <4>2, <2>6 DEF KillTells
    <3>2. CASE ~(seen.read > MaxOutputChunks /\ ~seen.capped)
      BY <2>1, <2>5, <3>2
    <3> QED
      BY <3>1, <3>2
  <2>8. docker.container # "none"
    BY <2>1 DEF ContainerIsAttached
  <2>9. CapsuleTypes' /\ LastIsOnItsWay' /\ FoundOrForeign'
    <3>1. OnItsWay(Tail(oracle.pipe), LastResult(capsule.sentinel, chunk), oracle.last)
      BY <2>1, ChunkIsRead DEF LastIsOnItsWay, CapsuleTypes, OracleRecords, chunk
    <3>2. LastIsOnItsWay'
      BY <2>4, <2>5, <2>7, <3>1 DEF LastIsOnItsWay
    <3> QED
      BY <2>4, <2>7, <3>2 DEF CapsuleTypes, FoundOrForeign
  <2>10. ContainerIsAttached' /\ JudgesAtTheEnd'
    BY <2>1, <2>4, <2>5, <2>7, <2>8 DEF ContainerIsAttached, JudgesAtTheEnd, CapsuleTypes, CapsuleRecords, OracleRecords, CapsuleAt
  <2> QED
    BY <2>9, <2>10
<1>10. CASE OnClose \/ OnError
  <2>1. /\ CapsuleAt("running") /\ docker.container # "running" /\ oracle.pipe = <<>> /\ UNCHANGED oracle
        /\ docker' = [docker EXCEPT !.client = "closed"]
        /\ capsule' = [capsule EXCEPT !.pc = "judge", !.timer = "off"]
    BY <1>10 DEF OnClose, OnError, ContainerIsAttached
  <2>2. CapsuleTypes'
    BY <2>1 DEF CapsuleTypes, CapsuleRecords
  <2>3. capsule'.sentinel = capsule.sentinel /\ capsule'.pc = "judge" /\ docker'.container = docker.container
    BY <2>1 DEF CapsuleTypes, CapsuleRecords
  <2>4. LastIsOnItsWay' /\ FoundOrForeign'
    BY <2>1, <2>3 DEF LastIsOnItsWay, FoundOrForeign
  <2>5. ContainerIsAttached' /\ JudgesAtTheEnd'
    BY <2>1 DEF CapsuleTypes, CapsuleRecords, ContainerIsAttached, JudgesAtTheEnd, CapsuleAt
  <2> QED
    BY <2>2, <2>4, <2>5
<1>12. CASE Judge
  <2>1. Judged(capsule, oracle.file) \in Verdicts \cup {"ERROR", "TIMEOUT", "OUTPUT_CAPPED"}
    BY DEF Judged, FromFile, Results, Verdicts, CapsuleTypes, CapsuleRecords
  <2>2. CapsuleAt("judge") /\ UNCHANGED <<docker, oracle>>
        /\ capsule' = [capsule EXCEPT !.pc = "cleanup", !.status = Judged(capsule, oracle.file)]
    BY <1>12 DEF Judge
  <2>3. CapsuleTypes'
    <3>1. PICK verdict \in Verdicts \cup {"ERROR", "TIMEOUT", "OUTPUT_CAPPED"} :
            verdict = Judged(capsule, oracle.file)
      BY <2>1
    <3>2. capsule' = [capsule EXCEPT !.pc = "cleanup", !.status = verdict] /\ UNCHANGED <<docker, oracle>>
      BY <2>2, <3>1
    <3> QED
      BY <3>2 DEF CapsuleTypes, CapsuleRecords
  <2>4. Judged(capsule, oracle.file)' = Judged(capsule, oracle.file)
    BY <2>2 DEF Judged, CapsuleTypes, CapsuleRecords, OracleRecords
  <2>5. LastIsOnItsWay' /\ FoundOrForeign' /\ ContainerIsAttached' /\ JudgesAtTheEnd'
    BY <2>2, <2>4 DEF CapsuleTypes, CapsuleRecords, OracleRecords, LastIsOnItsWay, FoundOrForeign, ContainerIsAttached, JudgesAtTheEnd, CapsuleAt
  <2> QED
    BY <2>3, <2>5
<1>13. CASE CleanUp
  <2>1. PICK done \in BOOLEAN : /\ CapsuleAt("cleanup") /\ UNCHANGED <<docker, oracle>>
                                /\ capsule' = [capsule EXCEPT !.pc = "ended", !.cleaned = done]
    BY <1>13 DEF CleanUp
  <2>2. Judged(capsule, oracle.file)' = Judged(capsule, oracle.file)
    BY <2>1 DEF Judged, CapsuleTypes, CapsuleRecords, OracleRecords
  <2>3. CapsuleTypes'
    BY <2>1 DEF CapsuleTypes, CapsuleRecords
  <2>4. LastIsOnItsWay' /\ FoundOrForeign'
    BY <2>1 DEF CapsuleTypes, CapsuleRecords, LastIsOnItsWay, FoundOrForeign
  <2>5. ContainerIsAttached' /\ JudgesAtTheEnd'
    BY <2>1, <2>2 DEF CapsuleTypes, CapsuleRecords, OracleRecords, ContainerIsAttached, JudgesAtTheEnd, CapsuleAt
  <2> QED
    BY <2>3, <2>4, <2>5
<1>14. CASE UNCHANGED capsuleVars
  BY <1>14 DEF capsuleVars, Judged, CapsuleTypes, CapsuleRecords, OracleRecords, LastIsOnItsWay, FoundOrForeign, ContainerIsAttached, JudgesAtTheEnd, CapsuleAt
<1> QED
  BY <1>1, <1>2, <1>3, <1>4, <1>5, <1>6, <1>7, <1>8, <1>9, <1>10, <1>11, <1>12, <1>13, <1>14
  DEF CapsuleNext, CapsuleLoop, Oracle

LEMMA CapsuleVerdict == CapsuleInv => VerdictIsOfAWholeRun
<1> SUFFICES ASSUME CapsuleInv, HasReceipt, capsule.status \in Verdicts PROVE VerdictIsOfAWholeRun
  BY DEF VerdictIsOfAWholeRun
<1>1. /\ docker.client = "closed" /\ docker.container # "running" /\ oracle.pipe = <<>>
      /\ capsule.status = Judged(capsule, oracle.file)
  BY DEF CapsuleInv, JudgesAtTheEnd, HasReceipt, CapsuleAt
<1>2. ~capsule.timedOut /\ ~capsule.capped
  BY <1>1 DEF Judged, Verdicts, CapsuleInv, CapsuleTypes, CapsuleRecords, OracleRecords
<1>3. capsule.sentinel = oracle.last
  BY <1>1 DEF CapsuleInv, LastIsOnItsWay, OnItsWay
<1>4. capsule.status = IF oracle.last \in {"none", "null"} THEN oracle.file ELSE oracle.last
  BY <1>1, <1>2, <1>3 DEF Judged, FromFile, Verdicts
<1>5. docker.container # "none" /\ (~oracle.foreign => capsule.status = oracle.finds)
  BY <1>4 DEF Verdicts, CapsuleInv, CapsuleTypes, OracleRecords, FoundOrForeign, ContainerIsAttached
<1> QED
  BY <1>1, <1>2, <1>4, <1>5, CapsuleAssumption DEF VerdictIsOfAWholeRun, CapsuleInv, CapsuleTypes, CapsuleRecords, JudgesAtTheEnd

\* A receipt that says PASS or FAIL is of a run that neither the timer nor the output
\* limit cut short; it says the last result printed, or what the file holds if there is
\* none, and what the oracle found unless the candidate printed or wrote one itself.
THEOREM CapsuleVerdictIsWhole == CapsuleSpec => []VerdictIsOfAWholeRun
<1> QED
  BY CapsuleStarts, CapsuleKeeps, CapsuleVerdict, PTL DEF CapsuleSpec

------------------------------------------------------------------------------
(* The pilot.                                                              *)

Outcomes == {"none", "COMPLETED", "FAILED_INCOMPLETE_AGENT_RUN", "FAILED_TOOL_BUDGET_EXHAUSTED",
             "BROKER_SESSION_EXCEPTION", "FAILED_INVOCATION_AUDIT_PERSISTENCE"}

PilotResults == [eligible : BOOLEAN, accepted : BOOLEAN, reason : Outcomes, outcome : Outcomes,
            unmodified : BOOLEAN, builtins : Nat]

PilotPlaces == {"idle", "found", "rendered", "captured", "audited", "starting", "ran", "verified",
                "released", "threw"}

AuditLines == [phase : {"A", "B", "cut", "garbled"}, eligible : BOOLEAN]

PilotTypes ==
  /\ skill \in [hash : Hashes, live : Hashes, disabled : BOOLEAN]
  /\ invocations \in Seq(AuditLines)
  /\ torn \in BOOLEAN
  /\ project \in [source : Nat, workspace : Nat]
  /\ wallClock \in Nat
  /\ pilot \in [pc : PilotPlaces, ts : Nat, start : Nat, guidance : Hashes, captured : Nat,
                reread : BOOLEAN, broker : PilotResults, returned : BOOLEAN, result : PilotResults]

\* Without a torn append every line of the file is whole, and stays.
WholeLines == ~torn => \A i \in DOMAIN invocations : invocations[i] # CutShort

HasA == \E i \in DOMAIN invocations : invocations[i].phase = "A"
HasPair(eligible) ==
  \E i, j \in DOMAIN invocations :
    i < j /\ invocations[i].phase = "A" /\ invocations[j] = Own("B", eligible)

\* What is known of the run at each of its places.
PilotKnows ==
  /\ PilotAt("found") => skill.hash = Expected \/ pilot.reread
  /\ pilot.guidance = Expected \/ pilot.reread
  /\ pilot.pc \in {"audited", "starting", "ran", "verified"} /\ ~torn => HasA
  /\ pilot.pc \in {"starting", "ran", "verified", "released"} => pilot.start > pilot.ts
  /\ PilotAt("ran") /\ pilot.broker.eligible => pilot.broker.accepted
  /\ pilot.pc \in {"verified", "released"} /\ pilot.result.eligible =>
       pilot.result.accepted /\ pilot.result.unmodified
  /\ PilotAt("released") /\ pilot.result.eligible /\ ~torn => HasPair(TRUE)

PilotInv == PilotTypes /\ WholeLines /\ PilotKnows

\* What the audit file is after an append.
LEMMA LinesAreLines ==
  /\ CutShort \in AuditLines /\ Garbled \in AuditLines
  /\ \A phase \in {"A", "B"}, e \in BOOLEAN :
       Own(phase, e) \in AuditLines /\ Own(phase, e) # CutShort /\ Own(phase, e).phase = phase
BY DEF Own, CutShort, Garbled, AuditLines

LEMMA AppendedType ==
  ASSUME invocations \in Seq(AuditLines), NEW line \in AuditLines
  PROVE  Appended(line) \in Seq(AuditLines)
<1> DEFINE l == IF line = CutShort THEN CutShort ELSE Garbled
<1>1. l \in AuditLines
  BY LinesAreLines
<1>2. CASE invocations # <<>>
  <2>1. Len(invocations) \in DOMAIN invocations
    BY <1>2
  <2> HIDE DEF l
  <2>2. [invocations EXCEPT ![Len(invocations)] = l] \in Seq(AuditLines)
    BY <1>1, <2>1, ExceptSeq
  <2> QED
    BY <1>1, <2>2 DEF Appended, l
<1>3. CASE invocations = <<>>
  BY <1>3 DEF Appended
<1> QED
  BY <1>2, <1>3

LEMMA AppendedWhole ==
  ASSUME PilotTypes, WholeLines, ~torn, NEW line \in AuditLines, line # CutShort,
         invocations' = Appended(line)
  PROVE  /\ Len(invocations') = Len(invocations) + 1 /\ invocations'[Len(invocations) + 1] = line
         /\ \A i \in DOMAIN invocations : i \in DOMAIN invocations' /\ invocations'[i] = invocations[i]
         /\ \A i \in DOMAIN invocations' : invocations'[i] # CutShort
<1>1. invocations \in Seq(AuditLines)
  BY DEF PilotTypes
<1>2. invocations # <<>> => Len(invocations) \in DOMAIN invocations
  BY <1>1
<1>3. invocations' = Append(invocations, line)
  BY <1>2 DEF Appended, WholeLines
<1> QED
  BY <1>1, <1>3 DEF WholeLines

LEMMA AppendFailsKeeps ==
  ASSUME PilotTypes, WholeLines, AppendFails
  PROVE  /\ invocations' \in Seq(AuditLines) /\ torn' \in BOOLEAN
         /\ WholeLines'
         /\ torn' \/ (UNCHANGED invocations /\ ~torn)
BY AppendedType, LinesAreLines DEF AppendFails, PilotTypes, WholeLines

\* What a broker session's evidence makes of the result.
LEMMA DerivedResult ==
  ASSUME NEW e \in Evidence
  PROVE  Derived(e) \in PilotResults /\ (Derived(e).eligible => Derived(e).accepted)
<1>1. /\ e.patchPackagePresent \in BOOLEAN /\ e.builtInToolUseCount \in Nat
      /\ FinalVerificationPassed(e) \in BOOLEAN
      /\ FinalVerificationPassed(e) => e.patchPackagePresent
  BY DEF Evidence, FinalVerificationPassed
<1> QED
  BY <1>1 DEF Derived, DerivedReason, NoResult, PilotResults, Outcomes

LEMMA NoResultType ==
  /\ NoResult \in PilotResults /\ ~NoResult.eligible
  /\ \A b \in Nat : Refused(b) \in PilotResults /\ ~Refused(b).eligible
BY DEF NoResult, Refused, PilotResults, Outcomes

------------------------------------------------------------------------------
LEMMA PilotStarts == PilotInit => PilotInv
<1> SUFFICES ASSUME PilotInit PROVE PilotInv
  OBVIOUS
<1>1. PilotTypes
  <2>1. skill \in [hash : Hashes, live : Hashes, disabled : BOOLEAN]
    BY DEF PilotInit
  <2>2. NoResult \in PilotResults
    BY NoResultType
  <2>3. pilot \in [pc : PilotPlaces, ts : Nat, start : Nat, guidance : Hashes, captured : Nat,
                  reread : BOOLEAN, broker : PilotResults, returned : BOOLEAN, result : PilotResults]
    BY <2>2, PilotAssumption DEF PilotInit, PilotIdle, PilotPlaces
  <2>4. /\ invocations \in Seq(AuditLines) /\ torn \in BOOLEAN
        /\ project \in [source : Nat, workspace : Nat] /\ wallClock \in Nat
    <3>1. /\ invocations = <<>> /\ torn = FALSE /\ project = [source |-> 0, workspace |-> 0]
          /\ wallClock = 0
      BY DEF PilotInit
    <3>2. <<>> \in Seq(AuditLines)
      OBVIOUS
    <3>3. [source |-> 0, workspace |-> 0] \in [source : Nat, workspace : Nat]
      OBVIOUS
    <3> QED
      BY <3>1, <3>2, <3>3
  <2> QED
    BY <2>1, <2>3, <2>4 DEF PilotTypes
<1>2. WholeLines /\ PilotKnows
  BY DEF PilotInit, PilotIdle, WholeLines, PilotKnows, PilotAt
<1> QED
  BY <1>1, <1>2 DEF PilotInv

LEMMA PilotKeeps == PilotInv /\ [PilotNext]_pilotVars => PilotInv'
<1> SUFFICES ASSUME PilotInv, [PilotNext]_pilotVars PROVE PilotInv'
  OBVIOUS
<1> USE DEF PilotInv
<1>0. UNCHANGED <<invocations, torn>> =>
        WholeLines' /\ (HasA' <=> HasA) /\ (HasPair(TRUE)' <=> HasPair(TRUE))
  BY DEF WholeLines, HasA, HasPair
<1>1. CASE LookUp
  <2>1. PilotAt("idle") /\ UNCHANGED <<skill, invocations, torn, project, wallClock>>
    BY <1>1 DEF LookUp
  <2>2. CASE pilot' = [pilot EXCEPT !.pc = "threw", !.ts = wallClock]
    BY <1>0, <2>1, <2>2 DEF PilotTypes, PilotPlaces, PilotKnows, PilotAt
  <2>3. CASE skill.hash = Expected /\ pilot' = [pilot EXCEPT !.pc = "found", !.ts = wallClock]
    BY <1>0, <2>1, <2>3 DEF PilotTypes, PilotPlaces, PilotKnows, PilotAt
  <2> QED
    BY <1>1, <2>2, <2>3 DEF LookUp
<1>2. CASE Render
  <2>1. PilotAt("found") /\ UNCHANGED <<skill, invocations, torn, project, wallClock>>
    BY <1>2 DEF Render
  <2>2. CASE pilot' = [pilot EXCEPT !.pc = "threw"]
    BY <1>0, <2>1, <2>2 DEF PilotTypes, PilotPlaces, PilotKnows, PilotAt
  <2>3. CASE pilot' = [pilot EXCEPT !.pc = "rendered", !.guidance = skill.hash]
    BY <1>0, <2>1, <2>3 DEF PilotTypes, PilotPlaces, PilotKnows, PilotAt
  <2> QED
    BY <1>2, <2>2, <2>3 DEF Render, Throw
<1>3. CASE Capture
  <2>1. PilotAt("rendered") /\ UNCHANGED <<skill, invocations, torn, project, wallClock>>
    BY <1>3 DEF Capture
  <2>2. CASE pilot' = [pilot EXCEPT !.pc = "threw"]
    BY <1>0, <2>1, <2>2 DEF PilotTypes, PilotPlaces, PilotKnows, PilotAt
  <2>3. CASE pilot' = [pilot EXCEPT !.pc = "captured", !.captured = project.source]
    BY <1>0, <2>1, <2>3 DEF PilotTypes, PilotPlaces, PilotKnows, PilotAt
  <2> QED
    BY <1>3, <2>2, <2>3 DEF Capture, Throw
<1>4. CASE AppendPhaseA
  <2>1. CASE invocations' = Appended(Own("A", FALSE)) /\ pilot' = [pilot EXCEPT !.pc = "audited"] /\ UNCHANGED torn
    <3>1. PilotTypes'
      BY <1>4, <2>1, AppendedType, LinesAreLines DEF AppendPhaseA, PilotTypes, PilotPlaces
    <3>2. ~torn => WholeLines' /\ HasA'
      <4>1. Own("A", FALSE) \in AuditLines /\ Own("A", FALSE) # CutShort /\ Own("A", FALSE).phase = "A"
        BY LinesAreLines
      <4>2. ASSUME ~torn PROVE WholeLines' /\ HasA'
        <5>1. /\ Len(invocations') = Len(invocations) + 1
              /\ invocations'[Len(invocations) + 1] = Own("A", FALSE)
              /\ \A i \in DOMAIN invocations' : invocations'[i] # CutShort
          BY <2>1, <4>1, <4>2, AppendedWhole
        <5>2. Len(invocations) + 1 \in DOMAIN invocations'
          BY <3>1, <5>1 DEF PilotTypes
        <5> QED
          BY <4>1, <5>1, <5>2 DEF WholeLines, HasA
      <4> QED
        BY <4>2
    <3> QED
      BY <1>4, <2>1, <3>1, <3>2 DEF AppendPhaseA, PilotKnows, WholeLines, PilotAt, PilotTypes, PilotPlaces
  <2>2. CASE AppendFails /\ Throw
    BY <1>4, <2>2, AppendFailsKeeps
    DEF AppendPhaseA, Throw, PilotTypes, PilotPlaces, PilotKnows, PilotAt
  <2> QED
    BY <1>4, <2>1, <2>2 DEF AppendPhaseA
<1>5. CASE AwaitStrictlyAfter
  <2>1. PilotAt("audited") /\ UNCHANGED <<skill, invocations, torn, project, wallClock>>
    BY <1>5 DEF AwaitStrictlyAfter
  <2>2. CASE wallClock > pilot.ts /\ pilot' = [pilot EXCEPT !.pc = "starting", !.start = wallClock]
    BY <1>0, <2>1, <2>2 DEF PilotTypes, PilotPlaces, PilotKnows, PilotAt
  <2>3. CASE Throw
    BY <1>0, <2>1, <2>3 DEF Throw, PilotTypes, PilotPlaces, PilotKnows, PilotAt
  <2> QED
    BY <1>5, <2>2, <2>3 DEF AwaitStrictlyAfter
<1>6. CASE BrokerSession
  <2>1. PilotAt("starting") /\ UNCHANGED <<skill, invocations, torn, wallClock>>
        /\ project' \in [source : Nat, workspace : Nat]
    <3>1. PICK w \in {0, 1} : project' = [project EXCEPT !.workspace = w]
      BY <1>6 DEF BrokerSession
    <3>2. w \in Nat
      OBVIOUS
    <3> QED
      BY <1>6, <3>1, <3>2 DEF BrokerSession, PilotTypes
  <2>2. CASE \E e \in Evidence : pilot' = [pilot EXCEPT !.pc = "ran", !.returned = TRUE, !.broker = Derived(e)]
    <3>1. PICK e \in Evidence : pilot' = [pilot EXCEPT !.pc = "ran", !.returned = TRUE, !.broker = Derived(e)]
      BY <2>2
    <3> DEFINE result == Derived(e)
    <3>2. result \in PilotResults /\ (result.eligible => result.accepted)
      BY DerivedResult
    <3>3. pilot' = [pilot EXCEPT !.pc = "ran", !.returned = TRUE, !.broker = result]
      BY <3>1
    <3> HIDE DEF result
    <3> QED
      BY <1>0, <2>1, <3>2, <3>3 DEF PilotTypes, PilotPlaces, PilotKnows, PilotAt
  <2>3. CASE \E r \in {"FAILED_TOOL_BUDGET_EXHAUSTED", "BROKER_SESSION_EXCEPTION"} :
               pilot' = [pilot EXCEPT !.pc = "verified", !.returned = FALSE,
                                      !.result = [NoResult EXCEPT !.reason = r, !.outcome = r]]
    <3>1. PICK r \in {"FAILED_TOOL_BUDGET_EXHAUSTED", "BROKER_SESSION_EXCEPTION"} :
               pilot' = [pilot EXCEPT !.pc = "verified", !.returned = FALSE,
                                      !.result = [NoResult EXCEPT !.reason = r, !.outcome = r]]
      BY <2>3
    <3> DEFINE result == [NoResult EXCEPT !.reason = r, !.outcome = r]
    <3>2. result \in PilotResults /\ ~result.eligible
      BY DEF NoResult, PilotResults, Outcomes
    <3> HIDE DEF result
    <3>3. pilot' = [pilot EXCEPT !.pc = "verified", !.returned = FALSE, !.result = result]
      BY <3>1 DEF result
    <3> QED
      BY <1>0, <2>1, <3>2, <3>3 DEF PilotTypes, PilotPlaces, PilotKnows, PilotAt
  <2> QED
    BY <1>6, <2>2, <2>3 DEF BrokerSession
<1>7. CASE VerifySource
  <2>1. PilotAt("ran") /\ UNCHANGED <<skill, invocations, torn, project, wallClock>>
    BY <1>7 DEF VerifySource
  <2>2. CASE Throw
    BY <1>0, <2>1, <2>2 DEF Throw, PilotTypes, PilotPlaces, PilotKnows, PilotAt
  <2>3. CASE ~Throw
    <3> DEFINE same == project.source = pilot.captured
               result == [pilot.broker EXCEPT !.eligible = @ /\ same, !.unmodified = same]
    <3>1. pilot' = [pilot EXCEPT !.pc = "verified", !.result = result]
      BY <1>7, <2>3 DEF VerifySource
    <3>2. same \in BOOLEAN /\ pilot.broker \in PilotResults
      BY DEF PilotTypes
    <3> HIDE DEF same
    <3>3. /\ result \in PilotResults /\ result.accepted = pilot.broker.accepted
          /\ result.eligible => pilot.broker.eligible /\ result.unmodified
      BY <3>2 DEF PilotResults
    <3> HIDE DEF result
    <3> QED
      BY <1>0, <2>1, <3>1, <3>3 DEF PilotTypes, PilotPlaces, PilotKnows, PilotAt
  <2> QED
    BY <2>2, <2>3
<1>8. CASE AppendPhaseB
  <2>1. PilotAt("verified") /\ UNCHANGED <<skill, project, wallClock>> /\ pilot.result \in PilotResults
    BY <1>8 DEF AppendPhaseB, PilotTypes
  <2>2. CASE /\ invocations' = Appended(Own("B", pilot.result.eligible))
             /\ pilot' = [pilot EXCEPT !.pc = "released"] /\ UNCHANGED torn
    <3> DEFINE line == Own("B", pilot.result.eligible)
    <3>1. line \in AuditLines /\ line # CutShort /\ invocations' = Appended(line)
      BY <2>1, <2>2, LinesAreLines DEF PilotResults
    <3> HIDE DEF line
    <3>2. PilotTypes'
      BY <2>1, <2>2, <3>1, AppendedType DEF PilotTypes, PilotPlaces
    <3>3. ASSUME ~torn PROVE WholeLines' /\ HasPair(pilot.result.eligible)'
      <4>1. PICK i \in DOMAIN invocations : invocations[i].phase = "A"
        BY <2>1, <3>3 DEF PilotKnows, HasA, PilotAt
      <4>2. /\ Len(invocations') = Len(invocations) + 1 /\ invocations'[Len(invocations) + 1] = line
            /\ \A k \in DOMAIN invocations : k \in DOMAIN invocations' /\ invocations'[k] = invocations[k]
            /\ \A k \in DOMAIN invocations' : invocations'[k] # CutShort
        BY <3>1, <3>3, AppendedWhole
      <4>3. Len(invocations) + 1 \in DOMAIN invocations' /\ i < Len(invocations) + 1
        BY SMTT(30), <3>2, <4>2 DEF PilotTypes
      <4>4. pilot'.result = pilot.result
        BY <2>2 DEF PilotTypes
      <4> QED
        BY <4>1, <4>2, <4>3, <4>4 DEF WholeLines, HasPair, line
    <3> QED
      BY <2>1, <2>2, <3>2, <3>3 DEF PilotKnows, WholeLines, PilotAt, PilotTypes, PilotPlaces, PilotResults
  <2>3. CASE /\ AppendFails
             /\ pilot' = [pilot EXCEPT !.pc = "released",
                                       !.result = Refused(IF pilot.returned THEN pilot.broker.builtins ELSE 1)]
    <3> DEFINE b == IF pilot.returned THEN pilot.broker.builtins ELSE 1
               result == Refused(b)
    <3>1. b \in Nat
      BY DEF PilotTypes, PilotResults
    <3> HIDE DEF b
    <3>2. result \in PilotResults /\ ~result.eligible
      BY <3>1, NoResultType
    <3>3. pilot' = [pilot EXCEPT !.pc = "released", !.result = result]
      BY <2>3 DEF b
    <3> HIDE DEF result
    <3> QED
      BY <2>1, <2>3, <3>2, <3>3, AppendFailsKeeps DEF PilotTypes, PilotPlaces, PilotKnows, PilotAt
  <2> QED
    BY <1>8, <2>2, <2>3 DEF AppendPhaseB
<1>9. CASE ChangeSkill
  <2>1. /\ skill' \in [hash : Hashes, live : Hashes, disabled : BOOLEAN]
        /\ pilot' = [pilot EXCEPT !.reread = @ \/ PilotAt("found")]
        /\ UNCHANGED <<invocations, torn, project, wallClock>>
    BY <1>9 DEF ChangeSkill, PilotTypes
  <2>2. PICK again \in BOOLEAN : /\ pilot' = [pilot EXCEPT !.reread = again]
                                 /\ pilot.reread \/ PilotAt("found") => again
    BY <2>1 DEF PilotTypes
  <2> QED
    BY <1>0, <2>1, <2>2 DEF PilotTypes, PilotKnows, PilotAt
<1>10. CASE EditSource
  <2> DEFINE more == project.source + 1
  <2>1. more \in Nat /\ project' = [project EXCEPT !.source = more]
        /\ UNCHANGED <<skill, invocations, torn, wallClock, pilot>>
    BY <1>10 DEF EditSource, PilotTypes
  <2> HIDE DEF more
  <2> QED
    BY <1>0, <2>1 DEF PilotTypes, PilotKnows, PilotAt
<1>11. CASE OtherAppendDies
  BY <1>11, AppendedType, LinesAreLines
  DEF OtherAppendDies, PilotTypes, WholeLines, PilotKnows, PilotAt
<1>12. CASE SetClock
  <2>1. wallClock' \in Nat /\ UNCHANGED <<skill, invocations, torn, project, pilot>>
    BY <1>12, PilotAssumption DEF SetClock
  <2> QED
    BY <1>0, <2>1 DEF PilotTypes, PilotKnows, PilotAt
<1>13. CASE UNCHANGED pilotVars
  BY <1>0, <1>13 DEF pilotVars, PilotTypes, PilotKnows, PilotAt
<1> QED
  BY <1>1, <1>2, <1>3, <1>4, <1>5, <1>6, <1>7, <1>8, <1>9, <1>10, <1>11, <1>12, <1>13 DEF PilotNext, PilotStep

LEMMA PilotEligible == PilotInv => EligibleIsAudited
<1> SUFFICES ASSUME PilotInv, PilotAt("released"), pilot.result.eligible PROVE EligibleIsAudited
  BY DEF EligibleIsAudited
<1>1. ~torn => \E i \in Lines("A"), j \in Lines("B") : i < j /\ invocations[j].eligible
  BY DEF PilotInv, PilotKnows, HasPair, Lines, Own
<1> QED
  BY <1>1 DEF PilotInv, PilotKnows, PilotAt, EligibleIsAudited

\* What the pilot releases as eligible, the audit file tells, after the phase A of the
\* same run; the source was unmodified, the guidance the one that was asked for.
THEOREM PilotEligibleIsAudited == PilotSpec => []EligibleIsAudited
<1> QED
  BY PilotStarts, PilotKeeps, PilotEligible, PTL DEF PilotSpec

------------------------------------------------------------------------------
(* The harness.                                                            *)

Stages == {"pilot", "rehash", "records", "workspace", "bundle", "capsule"}
HarnessPlaces == {"idle", "receipt", "fixture", "oracle", "done"} \cup Stages

HarnessTypes ==
  /\ harness \in [pc : HarnessPlaces, root : Nat, oracle : Nat, bundled : Nat, payload : Nat,
                  verdict : {"none", "L1_CANDIDATE_PASS", "L1_HARNESS_FAILED", "L1_HARNESS_BLOCKED"}]
  /\ stateRoot \in [version : Nat, at : SUBSET HarnessPlaces]
  /\ oracleFile \in [version : Nat, at : SUBSET HarnessPlaces]
  /\ disturbances \in Nat

\* The hash of the state root tells whether it has changed since, and where.
RootKnown ==
  /\ harness.pc \in Stages =>
       /\ stateRoot.version >= harness.root
       /\ stateRoot.version = harness.root => stateRoot.at \cap Stages = {}
  /\ harness.pc \in {"idle", "receipt", "fixture", "oracle"} => stateRoot.at \cap Stages = {}
  /\ harness.pc \in Stages \ {"pilot"} => "pilot" \notin stateRoot.at
  /\ harness.pc \in Stages \ {"capsule"} => "capsule" \notin stateRoot.at

\* The oracle is the one that was hashed, or was edited where the harness does not look.
OracleKnown ==
  LET edited == oracleFile.at \cap {"records", "workspace", "bundle"} # {} IN
  /\ harness.pc \in {"records", "workspace", "bundle"} => oracleFile.version = harness.oracle \/ edited
  /\ HarnessAt("capsule") => harness.bundled = harness.oracle \/ edited

\* What was found of the pilot's run stays as it was found.
RunKnown ==
  /\ harness.pc \in Stages \ {"pilot"} => PilotAt("released")
  /\ harness.pc \in Stages \ {"pilot", "rehash"} => pilot.result.builtins = 0
  /\ harness.pc \in {"workspace", "bundle", "capsule"} => HasPair(pilot.result.eligible)
  /\ harness.pc \in {"bundle", "capsule"} => harness.payload = project.workspace
  /\ ~HarnessAt("done") => harness.verdict = "none"

HarnessInv ==
  /\ HarnessTypes /\ RootKnown /\ OracleKnown /\ RunKnown
  /\ CandidatePassIsEarned /\ MutationIsBlocked

L1Inv == CapsuleInv /\ PilotInv /\ HarnessInv

\* The harness leaves the pilot and the capsule to their own steps.
LEMMA L1Projects ==
  ASSUME [L1Next]_l1Vars
  PROVE  [PilotNext]_pilotVars /\ [CapsuleNext]_capsuleVars
BY DEF L1Next, l1Vars, HarnessStep, LoadReceipt, CheckFixture, HashOracle, HashStateRoot, RunPilot, PilotThrew,
       PilotReturned, RehashOracle, CheckRecords, ReadWorkspace, BundleOracle, RunCapsule, Judgement, Beside,
       Disturb, PassTime, PilotNext, pilotVars, capsuleVars, harnessVars

\* A phase that the audit file has at all has a last line.
LEMMA LastLineIsLine ==
  ASSUME PilotTypes, NEW phase, Lines(phase) # {}
  PROVE  LastLine(phase) \in Lines(phase)
<1> DEFINE n == Len(invocations)
           T == {n - i : i \in Lines(phase)}
<1>1. n \in Nat /\ Lines(phase) \subseteq 1..n
  BY DEF PilotTypes, Lines
<1> HIDE DEF n
<1>2. T \subseteq Nat /\ T # {}
  BY <1>1
<1>3. PICK m \in T : \A k \in T : ~(<<k, m>> \in OpToRel(<, Nat))
  BY <1>2, NatLessThanWellFounded, WFMin
<1>4. PICK i \in Lines(phase) : m = n - i
  BY <1>3
<1>5. ASSUME NEW j \in Lines(phase) PROVE j <= i
  <2>1. n - j \in T /\ n - j \in Nat /\ m \in Nat
    BY <1>2, <1>3
  <2>2. ~(n - j < m)
    BY <1>3, <2>1 DEF OpToRel
  <2> QED
    BY <1>1, <1>4, <2>2
<1> QED
  BY <1>5 DEF LastLine

LEMMA L1Starts == L1Init => L1Inv
<1> SUFFICES ASSUME L1Init PROVE L1Inv
  OBVIOUS
<1>1. CapsuleInv /\ PilotInv
  BY CapsuleStarts, PilotStarts DEF L1Init
<1>2. HarnessInv
  BY DEF L1Init, HarnessInit, HarnessIdle, Untouched, HarnessInv, HarnessTypes, HarnessPlaces, Stages,
         RootKnown, OracleKnown, RunKnown, HarnessAt, CandidatePassIsEarned, MutationIsBlocked
<1> QED
  BY <1>1, <1>2 DEF L1Inv

\* The harness has not ended, so nothing is said yet of its verdict.
LEMMA NotYetDone ==
  ASSUME harness'.pc # "done", harness'.verdict = "none"
  PROVE  CandidatePassIsEarned' /\ MutationIsBlocked'
BY DEF CandidatePassIsEarned, MutationIsBlocked, HarnessAt

\* A step of the harness itself, by which it goes on to the next place.
LEMMA GoesOn ==
  ASSUME HarnessInv, NEW l \in HarnessPlaces \ {"done"}, Beside, ~HarnessAt("done"),
         NEW h, h \in [pc : HarnessPlaces, root : Nat, oracle : Nat, bundled : Nat, payload : Nat,
                       verdict : {"none"}],
         h.pc = l, harness' = h, RootKnown', OracleKnown', RunKnown'
  PROVE  HarnessInv'
BY NotYetDone DEF HarnessInv, HarnessTypes, Beside

\* A step by which it ends without having passed the candidate.
LEMMA EndsUnpassed ==
  ASSUME HarnessInv, Beside, NEW verdict \in {"none", "L1_HARNESS_FAILED", "L1_HARNESS_BLOCKED"},
         Conclude(verdict),
         verdict = "L1_HARNESS_BLOCKED" \/ stateRoot.at \cap {"pilot", "capsule"} = {}
  PROVE  HarnessInv'
BY DEF HarnessInv, HarnessTypes, HarnessPlaces, Stages, Conclude, Beside, RootKnown, OracleKnown, RunKnown,
       HarnessAt, CandidatePassIsEarned, MutationIsBlocked

LEMMA HarnessKeeps ==
  ASSUME L1Inv, HarnessStep, ~RunPilot, ~RunCapsule
  PROVE  HarnessInv'
<1> USE DEF L1Inv
<1> HarnessInv /\ HarnessTypes /\ RootKnown /\ OracleKnown /\ RunKnown
  BY DEF HarnessInv
<1>0. CASE Beside /\ Blocked
  BY <1>0, EndsUnpassed DEF Blocked
<1>1. CASE LoadReceipt
  <2>1. CASE Conclude("none")
    BY <1>1, <2>1, EndsUnpassed DEF LoadReceipt, RootKnown, HarnessAt, Stages
  <2>2. CASE Proceed("receipt")
    BY <1>1, <2>2, NotYetDone DEF LoadReceipt, Proceed, Beside, HarnessInv, HarnessTypes, HarnessPlaces, Stages,
       RootKnown, OracleKnown, RunKnown, HarnessAt
  <2> QED
    BY <1>1, <2>1, <2>2 DEF LoadReceipt
<1>2. CASE CheckFixture
  BY <1>0, <1>2, NotYetDone DEF CheckFixture, Proceed, Beside, HarnessInv, HarnessTypes, HarnessPlaces, Stages,
     RootKnown, OracleKnown, RunKnown, HarnessAt
<1>3. CASE HashOracle
  <2>1. CASE Blocked
    BY <1>0, <1>3, <2>1 DEF HashOracle
  <2>2. CASE harness' = [harness EXCEPT !.pc = "oracle", !.oracle = oracleFile.version]
    BY <1>3, <2>2, NotYetDone DEF HashOracle, Beside, HarnessInv, HarnessTypes, HarnessPlaces, Stages,
       RootKnown, OracleKnown, RunKnown, HarnessAt
  <2> QED
    BY <1>3, <2>1, <2>2 DEF HashOracle
<1>4. CASE HashStateRoot
  <2>1. /\ HarnessAt("oracle") /\ Beside
        /\ harness' = [harness EXCEPT !.pc = "pilot", !.root = stateRoot.version]
    BY <1>4 DEF HashStateRoot
  <2>2. /\ harness' \in [pc : HarnessPlaces, root : Nat, oracle : Nat, bundled : Nat, payload : Nat,
                        verdict : {"none"}]
        /\ harness'.pc = "pilot" /\ harness'.root = stateRoot.version
    BY <2>1 DEF HarnessTypes, HarnessPlaces, Stages, RunKnown, HarnessAt
  <2>3. RootKnown' /\ OracleKnown' /\ RunKnown'
    BY <2>1, <2>2 DEF Beside, HarnessTypes, Stages, RootKnown, OracleKnown, RunKnown, HarnessAt
  <2> QED
    BY <2>1, <2>2, <2>3, GoesOn DEF HarnessAt, HarnessPlaces, Stages
<1>5. CASE PilotThrew
  <2>1. CASE stateRoot.version # harness.root
    BY <1>0, <1>5, <2>1 DEF PilotThrew
  <2>2. CASE stateRoot.version = harness.root
    BY <1>5, <2>2, EndsUnpassed DEF PilotThrew, Failed, RootKnown, HarnessAt, Stages
  <2> QED
    BY <2>1, <2>2
<1>6. CASE PilotReturned
  <2>1. CASE stateRoot.version # harness.root
    BY <1>0, <1>6, <2>1 DEF PilotReturned
  <2>2. CASE stateRoot.version = harness.root
    <3>1. stateRoot.at \cap Stages = {} /\ Proceed("rehash") /\ Beside /\ HarnessAt("pilot") /\ PilotAt("released")
      BY <1>6, <2>2 DEF PilotReturned, RootKnown, HarnessAt, Stages
    <3> QED
      BY <3>1, NotYetDone DEF Proceed, Beside, HarnessInv, HarnessTypes, HarnessPlaces, Stages,
         RootKnown, OracleKnown, RunKnown, HarnessAt, PilotAt, pilotVars
  <2> QED
    BY <2>1, <2>2
<1>7. CASE RehashOracle
  <2>1. CASE ~Blocked /\ pilot.result.builtins # 0
    BY <1>7, <2>1, EndsUnpassed DEF RehashOracle, Failed, RootKnown, HarnessAt, Stages
  <2>2. CASE ~Blocked /\ pilot.result.builtins = 0
    BY <1>7, <2>2, NotYetDone DEF RehashOracle, Proceed, Beside, HarnessInv, HarnessTypes, HarnessPlaces, Stages,
       RootKnown, OracleKnown, RunKnown, HarnessAt, PilotAt, pilotVars
  <2> QED
    BY <1>0, <1>7, <2>1, <2>2 DEF RehashOracle
<1>8. CASE CheckRecords
  <2> DEFINE a == LastLine("A")
             b == LastLine("B")
  <2>1. CASE Failed
    BY <1>8, <2>1, EndsUnpassed DEF CheckRecords, Failed, RootKnown, HarnessAt, Stages
  <2>2. CASE ~Failed
    <3>1. /\ a # 0 /\ a < b /\ invocations[b].eligible = pilot.result.eligible
          /\ HarnessAt("records") /\ Proceed("workspace") /\ Beside
      BY <1>8, <2>2 DEF CheckRecords
    <3>2. Lines("A") # {} /\ a \in Lines("A") /\ a \in Nat
      BY <3>1, LastLineIsLine DEF LastLine, PilotInv, Lines, PilotTypes
    <3>3. Lines("B") # {} /\ b \in Lines("B")
      BY <3>1, <3>2, LastLineIsLine DEF LastLine, PilotInv
    <3> HIDE DEF a, b
    <3>4. invocations[b] = Own("B", pilot.result.eligible)
      <4>1. invocations[b] \in AuditLines /\ invocations[b].phase = "B"
        BY <3>3 DEF Lines, PilotInv, PilotTypes
      <4> QED
        BY <3>1, <4>1 DEF AuditLines, Own
    <3>5. HasPair(pilot.result.eligible)
      BY <3>1, <3>2, <3>3, <3>4 DEF HasPair, Lines
    <3>6. RunKnown'
      BY <3>1, <3>5 DEF RunKnown, Proceed, Beside, HarnessTypes, HarnessAt, Stages, PilotAt, pilotVars, HasPair
    <3> QED
      BY <3>1, <3>6, NotYetDone DEF Proceed, Beside, HarnessInv, HarnessTypes, HarnessPlaces, Stages,
         RootKnown, OracleKnown, RunKnown, HarnessAt
  <2> QED
    BY <2>1, <2>2
<1>9. CASE ReadWorkspace
  <2>1. RunKnown'
    BY <1>9 DEF ReadWorkspace, RunKnown, Beside, HarnessTypes, HarnessAt, Stages, PilotAt, pilotVars, HasPair
  <2>2. project.workspace \in Nat
    BY DEF PilotInv, PilotTypes
  <2> QED
    BY <1>9, <2>1, <2>2, NotYetDone DEF ReadWorkspace, Beside, HarnessInv, HarnessTypes, HarnessPlaces, Stages,
       RootKnown, OracleKnown, RunKnown, HarnessAt
<1>10. CASE BundleOracle
  <2>1. CASE harness' = [harness EXCEPT !.pc = "capsule", !.bundled = oracleFile.version]
    <3>1. RunKnown'
      BY <1>10, <2>1 DEF BundleOracle, RunKnown, Beside, HarnessTypes, HarnessAt, Stages, PilotAt, pilotVars, HasPair
    <3>2. RootKnown' /\ OracleKnown'
      BY <1>10, <2>1 DEF BundleOracle, Beside, HarnessTypes, Stages, RootKnown, OracleKnown, HarnessAt
    <3>3. harness' \in [pc : HarnessPlaces, root : Nat, oracle : Nat, bundled : Nat, payload : Nat,
                        verdict : {"none"}] /\ harness'.pc = "capsule"
      BY <1>10, <2>1 DEF BundleOracle, HarnessTypes, HarnessPlaces, Stages, RunKnown, HarnessAt
    <3> QED
      BY <1>10, <3>1, <3>2, <3>3, GoesOn DEF BundleOracle, HarnessAt, HarnessPlaces, Stages
  <2>2. CASE stateRoot.version = harness.root /\ Failed
    BY <1>10, <2>2, EndsUnpassed DEF BundleOracle, Failed, RootKnown, HarnessAt, Stages
  <2> QED
    BY <1>0, <1>10, <2>1, <2>2 DEF BundleOracle
<1>11. CASE Judgement
  <2>1. CASE stateRoot.version # harness.root
    BY <1>0, <1>11, <2>1 DEF Judgement
  <2>2. CASE stateRoot.version = harness.root /\ Failed
    BY <1>11, <2>2, EndsUnpassed DEF Judgement, Failed, RootKnown, HarnessAt, Stages
  <2>3. CASE stateRoot.version = harness.root /\ ~Failed
    <3>1. /\ HarnessAt("capsule") /\ CapsuleAt("ended") /\ Beside /\ Conclude("L1_CANDIDATE_PASS")
          /\ ~capsule.thrown /\ capsule.cleaned /\ capsule.status = "PASS"
      BY <1>11, <2>3 DEF Judgement
    <3>2. HasReceipt /\ (oracle.foreign \/ oracle.finds = "PASS")
      BY <3>1, CapsuleVerdict DEF HasReceipt, VerdictIsOfAWholeRun, Verdicts
    <3>3. /\ PilotAt("released") /\ pilot.result.builtins = 0 /\ HasPair(pilot.result.eligible)
          /\ harness.payload = project.workspace
      BY <3>1 DEF RunKnown, HarnessAt, Stages
    <3>4. \E i \in Lines("A"), j \in Lines("B") : i < j /\ invocations[j].eligible = pilot.result.eligible
      BY <3>3 DEF HasPair, Lines, Own
    <3>5. stateRoot.at \cap Stages = {}
      BY <2>3, <3>1 DEF RootKnown, HarnessAt, Stages
    <3>6. harness.bundled = harness.oracle \/ oracleFile.at \cap {"records", "workspace", "bundle"} # {}
      BY <3>1 DEF OracleKnown, HarnessAt
    <3>7. CandidatePassIsEarned
      BY <3>1, <3>2, <3>3, <3>4, <3>5, <3>6 DEF CandidatePassIsEarned, Stages
    <3>8. CandidatePassIsEarned' /\ MutationIsBlocked'
      BY <3>1, <3>2, <3>3, <3>4, <3>5, <3>6
      DEF CandidatePassIsEarned, MutationIsBlocked, Conclude, Beside, HarnessTypes, Stages, pilotVars, capsuleVars,
          Lines, HasReceipt, CapsuleAt
    <3> QED
      BY <3>1, <3>8 DEF Conclude, Beside, HarnessInv, HarnessTypes, HarnessPlaces, Stages,
         RootKnown, OracleKnown, RunKnown, HarnessAt
  <2> QED
    BY <2>1, <2>2, <2>3
<1> QED
  BY <1>1, <1>2, <1>3, <1>4, <1>5, <1>6, <1>7, <1>8, <1>9, <1>10, <1>11 DEF HarnessStep

\* While the pilot or the capsule takes its steps the harness waits; what it knows of
\* the other one stays.
LEMMA WaitingKeeps ==
  ASSUME L1Inv, RunPilot \/ RunCapsule \/ PassTime
  PROVE  HarnessInv'
<1>1. UNCHANGED harnessVars /\ HarnessInv /\ ~HarnessAt("done")
  BY DEF RunPilot, RunCapsule, PassTime, L1Inv, HarnessAt
<1>2. harness.verdict = "none"
  BY <1>1 DEF HarnessInv, RunKnown
<1>3. RunKnown'
  BY <1>1 DEF RunPilot, RunCapsule, PassTime, HarnessInv, RunKnown, HarnessAt, harnessVars, pilotVars, PilotAt,
     HasPair, Stages
<1> QED
  BY <1>1, <1>2, <1>3, NotYetDone DEF HarnessInv, HarnessTypes, RootKnown, OracleKnown, HarnessAt, harnessVars

LEMMA DisturbKeeps ==
  ASSUME L1Inv, Disturb
  PROVE  HarnessInv'
<1>1. HarnessInv /\ HarnessTypes /\ UNCHANGED harness /\ harness.verdict = "none" /\ harness.pc # "done"
  BY DEF L1Inv, HarnessInv, Disturb, RunKnown, HarnessAt
<1>2. disturbances' \in Nat
  BY <1>1 DEF Disturb, HarnessTypes
<1>3. RunKnown'
  <2>1. CASE PilotRuns
    BY <1>1, <2>1 DEF HarnessInv, RunKnown, HarnessAt, PilotRuns, PilotAt, Stages, HarnessTypes, HarnessPlaces
  <2>2. CASE UNCHANGED pilotVars
    BY <1>1, <2>2 DEF HarnessInv, RunKnown, HarnessAt, pilotVars, PilotAt, HasPair
  <2> QED
    BY <2>1, <2>2 DEF Disturb
<1>4. CASE UNCHANGED <<stateRoot, oracleFile>>
  BY <1>1, <1>2, <1>3, <1>4, NotYetDone DEF HarnessInv, HarnessTypes, RootKnown, OracleKnown, HarnessAt
<1>5. ASSUME NEW f, f \in [version : Nat, at : SUBSET HarnessPlaces]
      PROVE  /\ Changed(f) \in [version : Nat, at : SUBSET HarnessPlaces]
             /\ Changed(f).version = f.version + 1 /\ Changed(f).at = f.at \cup {harness.pc}
  BY <1>1, <1>5 DEF Changed, HarnessTypes
<1>6. CASE stateRoot' = Changed(stateRoot) /\ UNCHANGED oracleFile
  <2>1. /\ stateRoot' \in [version : Nat, at : SUBSET HarnessPlaces]
        /\ stateRoot'.version = stateRoot.version + 1 /\ stateRoot'.at = stateRoot.at \cup {harness.pc}
    BY <1>1, <1>5, <1>6 DEF HarnessTypes
  <2>2. RootKnown'
    BY <1>1, <2>1 DEF HarnessInv, HarnessTypes, RootKnown, Stages
  <2> QED
    BY <1>1, <1>2, <1>3, <1>6, <2>1, <2>2, NotYetDone DEF HarnessInv, HarnessTypes, OracleKnown, HarnessAt
<1>7. CASE oracleFile' = Changed(oracleFile) /\ UNCHANGED stateRoot
  <2>1. /\ oracleFile' \in [version : Nat, at : SUBSET HarnessPlaces]
        /\ oracleFile'.at = oracleFile.at \cup {harness.pc}
    BY <1>1, <1>5, <1>7 DEF HarnessTypes
  <2>2. OracleKnown'
    BY <1>1, <2>1 DEF HarnessInv, OracleKnown, HarnessAt
  <2> QED
    BY <1>1, <1>2, <1>3, <1>7, <2>1, <2>2, NotYetDone DEF HarnessInv, HarnessTypes, RootKnown
<1> QED
  BY <1>4, <1>6, <1>7 DEF Disturb

LEMMA L1Keeps == L1Inv /\ [L1Next]_l1Vars => L1Inv'
<1> SUFFICES ASSUME L1Inv, [L1Next]_l1Vars PROVE L1Inv'
  OBVIOUS
<1>1. CapsuleInv' /\ PilotInv'
  BY L1Projects, CapsuleKeeps, PilotKeeps DEF L1Inv
<1>2. HarnessInv'
  <2>1. CASE UNCHANGED l1Vars
    BY <2>1 DEF L1Inv, HarnessInv, HarnessTypes, RootKnown, OracleKnown, RunKnown, HarnessAt, PilotAt, HasPair,
       CandidatePassIsEarned, MutationIsBlocked, Lines, HasReceipt, CapsuleAt,
       l1Vars, pilotVars, capsuleVars, harnessVars
  <2> QED
    BY <2>1, HarnessKeeps, WaitingKeeps, DisturbKeeps DEF L1Next
<1> QED
  BY <1>1, <1>2 DEF L1Inv

\* Whatever the harness, the pilot, the capsule and the others do, each of the three
\* knows at its place what its invariant says.
THEOREM L1Inductive == L1Spec => []L1Inv
<1> QED
  BY L1Starts, L1Keeps, PTL DEF L1Spec

\* Inside the harness too, a verdict of the capsule is of a whole run and is the last
\* result printed, and a released result is in the audit file.
THEOREM InsideTheHarness == L1Spec => [](VerdictIsOfAWholeRun /\ EligibleIsAudited)
<1>1. L1Inv => VerdictIsOfAWholeRun /\ EligibleIsAudited
  BY CapsuleVerdict, PilotEligible DEF L1Inv
<1> QED
  BY <1>1, L1Inductive, PTL

\* The harness passes a candidate only on two records in order that agree with the
\* result, no built-in tool, an unchanged state root, and a whole run in the capsule on
\* the workspace that was read, where the oracle found PASS or the candidate printed or
\* wrote a result.
THEOREM PassIsEarned == L1Spec => []CandidatePassIsEarned
<1>1. L1Inv => CandidatePassIsEarned
  BY DEF L1Inv, HarnessInv
<1> QED
  BY <1>1, L1Inductive, PTL

\* A state root that changed while the pilot or the capsule ran is BLOCKED, by whatever
\* way the harness ends.
THEOREM MutationBlocks == L1Spec => []MutationIsBlocked
<1>1. L1Inv => MutationIsBlocked
  BY DEF L1Inv, HarnessInv
<1> QED
  BY <1>1, L1Inductive, PTL
================================================================================
