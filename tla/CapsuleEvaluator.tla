---------------------------- MODULE CapsuleEvaluator ----------------------------
(***************************************************************************)
(* One evaluation of a patched workspace by the oracle in a docker         *)
(* container (src/src/preflight/capsule-evaluator.ts, oracle-bundle.ts).   *)
(* Four parties run concurrently: the event loop of the evaluator (timer,  *)
(* data, close and error callbacks), the docker client, the container, and *)
(* the process in it.  There the oracle (tests/oracle/                     *)
(* operator-task-oracle.mjs) imports the candidate, tests it, prints the   *)
(* result, writes it to a file and exits.  The candidate's code runs in    *)
(* that same process: what it prints and writes is arbitrary, results      *)
(* included.  Output is counted in chunks; a chunk is text or a result.    *)
(*                                                                         *)
(* A definition Name_Variant is a mutant of Name: no action uses it.       *)
(***************************************************************************)
EXTENDS Naturals, Sequences

CONSTANTS MaxOutputChunks,   \* maxOutputBytes
          MaxChunks          \* bound: chunks printed besides the oracle's result

ASSUME CapsuleAssumption == MaxOutputChunks \in Nat /\ MaxChunks \in Nat

VARIABLES
  capsule,     \* the evaluator: its place, timer, flags and what it has read
  docker,      \* the docker client and the container
  oracle       \* what the oracle finds; the result file and the pipe; and, as history,
               \* the last result printed and whether the candidate made any of them

capsuleVars == <<capsule, docker, oracle>>

Verdicts == {"PASS", "FAIL"}

\* What a result line or a result file may hold: any other value than the two is an
\* error, and a result line that holds null is as good as none.
Results == Verdicts \cup {"ERROR", "null"}

CapsuleIdle == [pc |-> "idle", timer |-> "off", timedOut |-> FALSE, capped |-> FALSE,
                read |-> 0, sentinel |-> "none", status |-> "ERROR",
                thrown |-> FALSE, cleaned |-> FALSE, missed |-> FALSE]

CapsuleInit ==
  /\ capsule = CapsuleIdle
  /\ docker = [client |-> "none", container |-> "none"]
  /\ oracle = [finds |-> "FAIL", at |-> "tests", file |-> "none", pipe |-> <<>>, chunks |-> 0,
               last |-> "none", foreign |-> FALSE]

CapsuleAt(l) == capsule.pc = l

\* The image's digest is looked up before anything is made: an image that is not
\* the approved one is refused.
RefuseImage ==
  /\ CapsuleAt("idle")
  /\ capsule' = [capsule EXCEPT !.pc = "ended", !.thrown = TRUE]
  /\ UNCHANGED <<docker, oracle>>

\* The run directory is made, then docker run is spawned and the timer set.  A
\* failure of the file system leaves through finally.
PrepareAndSpawn ==
  /\ CapsuleAt("idle")
  /\ \/ /\ capsule' = [capsule EXCEPT !.pc = "running", !.timer = "armed"]
        /\ docker' = [docker EXCEPT !.client = "starting"]
        /\ \E v \in Verdicts : oracle' = [oracle EXCEPT !.finds = v]
     \/ /\ capsule' = [capsule EXCEPT !.pc = "cleanup", !.thrown = TRUE]
        /\ UNCHANGED <<docker, oracle>>

------------------------------------------------------------------------------
(* docker, and the oracle in the container.                                *)

ContainerStarts ==
  /\ docker.client = "starting"
  /\ docker' = [client |-> "attached", container |-> "running"]
  /\ UNCHANGED <<capsule, oracle>>

\* docker cannot create the container: the client ends on its own.
ContainerFails ==
  /\ docker.client = "starting"
  /\ docker' = [client |-> "attached", container |-> "gone"]
  /\ UNCHANGED <<capsule, oracle>>

PrintText ==
  /\ docker.container = "running" /\ oracle.chunks < MaxChunks
  /\ oracle' = [oracle EXCEPT !.pipe = Append(@, "text"), !.chunks = @ + 1]
  /\ UNCHANGED <<capsule, docker>>

\* The oracle's own result: printed first, then written, where the file may keep what
\* it held, or hold a part, if the write fails.
OraclePrints ==
  /\ docker.container = "running" /\ oracle.at = "tests"
  /\ oracle' = [oracle EXCEPT !.pipe = Append(@, oracle.finds), !.last = oracle.finds, !.at = "printed"]
  /\ UNCHANGED <<capsule, docker>>

OracleWrites ==
  /\ docker.container = "running" /\ oracle.at = "printed"
  /\ \E f \in {oracle.finds, oracle.file, "torn"} : oracle' = [oracle EXCEPT !.file = f, !.at = "wrote"]
  /\ UNCHANGED <<capsule, docker>>

\* A result that the candidate's code printed, or made the oracle print.
CandidatePrints ==
  /\ docker.container = "running" /\ oracle.chunks < MaxChunks
  /\ \E r \in Results :
       oracle' = [oracle EXCEPT !.pipe = Append(@, r), !.chunks = @ + 1, !.last = r, !.foreign = TRUE]
  /\ UNCHANGED <<capsule, docker>>

CandidateWrites ==
  /\ docker.container = "running"
  /\ \E f \in Results \cup {"torn"} : oracle' = [oracle EXCEPT !.file = f, !.foreign = TRUE]
  /\ UNCHANGED <<capsule, docker>>

\* The process ends, crashes, or is ended by the memory limit.
ContainerExits ==
  /\ docker.container = "running"
  /\ docker' = [docker EXCEPT !.container = "gone"]
  /\ UNCHANGED <<capsule, oracle>>

------------------------------------------------------------------------------
(* The callbacks of spawnCapsule.                                          *)

\* docker kill finds the container only once it runs, and is given up after 3 s.
Kill(flagged) ==
  \/ /\ docker.container = "running"
     /\ docker' = [docker EXCEPT !.container = "gone"]
     /\ capsule' = flagged
  \/ /\ docker.container = "running" \/ docker.client = "starting"
     /\ capsule' = [flagged EXCEPT !.missed = TRUE]
     /\ UNCHANGED docker
  \/ /\ docker.container = "gone"
     /\ capsule' = flagged
     /\ UNCHANGED docker

OnTimeout_Forgets ==
  /\ CapsuleAt("running") /\ capsule.timer = "armed"
  /\ capsule' = [capsule EXCEPT !.timer = "spent", !.timedOut = TRUE]
  /\ UNCHANGED <<docker, oracle>>

OnTimeout ==
  /\ CapsuleAt("running") /\ capsule.timer = "armed"
  /\ Kill([capsule EXCEPT !.timer = "spent", !.timedOut = TRUE])
  /\ UNCHANGED oracle

\* The last result that was printed.
LastResult(before, chunk) == IF chunk = "text" THEN before ELSE chunk

OnData ==
  /\ CapsuleAt("running") /\ oracle.pipe # <<>>
  /\ oracle' = [oracle EXCEPT !.pipe = Tail(@)]
  /\ LET chunk == Head(oracle.pipe)
         seen == [capsule EXCEPT !.read = @ + 1,
                                 !.sentinel = LastResult(@, chunk)]
     IN IF seen.read > MaxOutputChunks /\ ~seen.capped
        THEN Kill([seen EXCEPT !.capped = TRUE])
        ELSE capsule' = seen /\ UNCHANGED docker

\* close comes after the client ended and its output was read.
OnClose ==
  /\ CapsuleAt("running")
  /\ docker.client = "attached" /\ docker.container = "gone" /\ oracle.pipe = <<>>
  /\ docker' = [docker EXCEPT !.client = "closed"]
  /\ capsule' = [capsule EXCEPT !.pc = "judge", !.timer = "off"]
  /\ UNCHANGED oracle

\* docker could not be spawned at all.
OnError ==
  /\ CapsuleAt("running") /\ docker.client = "starting"
  /\ docker' = [docker EXCEPT !.client = "closed"]
  /\ capsule' = [capsule EXCEPT !.pc = "judge", !.timer = "off"]
  /\ UNCHANGED oracle

------------------------------------------------------------------------------

FromFile(file) == IF file \in Verdicts THEN file ELSE "ERROR"

Judged_SentinelFirst(c, file) ==
  CASE c.sentinel \in Results \ {"null"} -> c.sentinel
    [] c.timedOut                       -> "TIMEOUT"
    [] c.capped                         -> "OUTPUT_CAPPED"
    [] OTHER                            -> FromFile(file)

\* The limits come first, then the last result printed, then the result file.
Judged(c, file) ==
  IF c.timedOut THEN "TIMEOUT"
  ELSE IF c.capped THEN "OUTPUT_CAPPED"
  ELSE IF c.sentinel \in {"none", "null"} THEN FromFile(file) ELSE c.sentinel

Judge ==
  /\ CapsuleAt("judge")
  /\ capsule' = [capsule EXCEPT !.pc = "cleanup", !.status = Judged(capsule, oracle.file)]
  /\ UNCHANGED <<docker, oracle>>

\* finally: the run directory is removed, or not.  The receipt says which; its own
\* file is written at best.
CleanUp ==
  /\ CapsuleAt("cleanup")
  /\ \E done \in BOOLEAN : capsule' = [capsule EXCEPT !.pc = "ended", !.cleaned = done]
  /\ UNCHANGED <<docker, oracle>>

CapsuleLoop == OnTimeout \/ OnData \/ OnClose \/ OnError \/ Judge \/ CleanUp
Docker == ContainerStarts \/ ContainerFails
Oracle == PrintText \/ OraclePrints \/ OracleWrites \/ CandidatePrints \/ CandidateWrites \/ ContainerExits

CapsuleNext == RefuseImage \/ PrepareAndSpawn \/ CapsuleLoop \/ Docker \/ Oracle

\* The event loop runs its callbacks, the timer expires and docker answers its
\* client.  Nothing is assumed of the oracle: it may never end.
CapsuleFairness == /\ WF_capsuleVars(CapsuleLoop) /\ WF_capsuleVars(Docker)
                   /\ WF_capsuleVars(OnTimeout)

CapsuleSpec == CapsuleInit /\ [][CapsuleNext]_capsuleVars /\ CapsuleFairness

------------------------------------------------------------------------------

HasReceipt == CapsuleAt("ended") /\ ~capsule.thrown

\* A receipt says PASS or FAIL only for a run that neither the timer nor the output
\* limit cut short, and then says the last result that was printed, or what the file
\* holds if there is none: the races of the timer, the cap, the kill and the last
\* output never turn a partial run into a verdict.  It is what the oracle found
\* unless the candidate, in the same process, printed or wrote a result itself.
VerdictIsOfAWholeRun ==
  HasReceipt /\ capsule.status \in Verdicts =>
    /\ ~capsule.timedOut /\ capsule.read <= MaxOutputChunks
    /\ docker.container = "gone" /\ oracle.pipe = <<>>
    /\ capsule.status = IF oracle.last \in {"none", "null"} THEN oracle.file ELSE oracle.last
    /\ ~oracle.foreign => capsule.status = oracle.finds

\* An evaluation ends, whatever the oracle does, unless a kill was missed: the timer
\* fires once, so a container that was being created then, or whose kill was given
\* up, is waited for as long as it likes.
CapsuleSettles ==
  CapsuleAt("running") ~> (CapsuleAt("ended") \/ capsule.missed)
================================================================================
