----------------------------- MODULE ApprovalProbe -----------------------------
(***************************************************************************)
(* One probe session with an agent whose tools are confirmed, or always    *)
(* allowed (src/src/approvals/*.ts, sessions/run-sdk-approval-*.ts,        *)
(* run-ant-always-ask-diagnostic.ts, run-isolated-write-path-diagnostic.ts,*)
(* run-cloud-output-*-smoke.ts, run-always-allow-session.ts, worker/*.ts,  *)
(* outputs/*.ts).  The probe reads the session's event stream and posts    *)
(* confirmations; a worker of the SDK probes claims sessions from the      *)
(* environment's queue and runs their tools in the probe's directory (the  *)
(* container worker of the ant probes has a directory per session); the    *)
(* service and other operators of the environment are external.            *)
(*                                                                         *)
(* A tool use is "good" when it is what the probe asked for, else "bad": it *)
(* then leaves something else, and the good one's file as it is.           *)
(***************************************************************************)
EXTENDS Naturals, Sequences, FiniteSets

CONSTANTS MaxUses,             \* bound: tool uses of the agent
          MaxClosedReconnects  \* of runAlwaysAllowSession (8)

ASSUME ProbeAssumption == {MaxUses, MaxClosedReconnects} \subseteq Nat

SdkKinds   == {"allow", "deny", "write"}
CloudKinds == {"smoke allow", "smoke deny"}
AntKinds   == {"ant allow", "ant deny"}
ProbeKinds == SdkKinds \cup CloudKinds \cup AntKinds \cup {"always"}
TurnKinds  == SdkKinds \cup CloudKinds

VARIABLES
  probe,     \* the driver
  stream,    \* the open event stream: events not read yet
  session,   \* the service's session: its status and its tool uses
  queue,     \* sessions that wait for a worker
  worker,    \* the probe's worker
  written      \* what the tools have written: target -> the session it was for

probeVars == <<probe, stream, session, queue, worker, written>>

\* The directory that the tools write to is new: its path holds the time of the run.
ProbeInit ==
  /\ \E k \in ProbeKinds :
       probe = [kind |-> k, pc |-> "idle", turn |-> <<>>, asked |-> FALSE, confirmed |-> FALSE,
                early |-> FALSE, text |-> FALSE, lists |-> 0, reconnects |-> 0, status |-> "none"]
  /\ stream = [open |-> FALSE, events |-> <<>>]
  /\ session = [status |-> "none", uses |-> <<>>]
  /\ queue = {}
  /\ worker = [pc |-> "none", claims |-> <<>>, runs |-> 0]
  /\ written = [t \in {"good", "bad"} |-> "none"]

ProbeAt(l) == probe.pc = l
ProbeGoes(l) == probe' = [probe EXCEPT !.pc = l]
EndProbe(s) == probe' = [probe EXCEPT !.pc = "done", !.status = s]

\* An event reaches an open stream and is lost otherwise.
StreamEvent(type, use) == [type |-> type, use |-> use]
Delivered(type, use) ==
  IF stream.open THEN [stream EXCEPT !.events = Append(@, StreamEvent(type, use))] ELSE stream

OpenStream == [open |-> TRUE, events |-> <<>>]

------------------------------------------------------------------------------
(* The probe, until the session has its message.                           *)

\* requireQueueDrained: another session in the queue ends the probe.
RequireQueueDrained ==
  /\ ProbeAt("idle")
  /\ IF probe.kind \in SdkKinds /\ queue # {} THEN EndProbe("ERROR") ELSE ProbeGoes("create")
  /\ UNCHANGED <<stream, session, queue, worker, written>>

\* The session is created, then the worker is started beside the driver.
CreateSession ==
  /\ ProbeAt("create")
  /\ ProbeGoes("open")
  /\ session' = [session EXCEPT !.status = "new"]
  /\ IF probe.kind \in SdkKinds
     THEN queue' = queue \cup {"own"} /\ worker' = [worker EXCEPT !.pc = "polling"]
     ELSE UNCHANGED <<queue, worker>>
  /\ UNCHANGED <<stream, written>>

\* Stream first, then the user's message.
SendMessage ==
  /\ ProbeAt("open")
  /\ ProbeGoes("listen")
  /\ stream' = OpenStream
  /\ session' = [session EXCEPT !.status = "running"]
  /\ UNCHANGED <<queue, worker, written>>

------------------------------------------------------------------------------
(* The session, at the service.                                            *)

\* Bound: what the service does after the probe has its result is not followed; the
\* tools' steps are.
Watched == probe.pc \notin {"stopped", "done"}

AgentUsesTool ==
  /\ Watched /\ session.status = "running" /\ Len(session.uses) < MaxUses
  /\ \E w \in {"good", "bad"} :
       session' = [session EXCEPT !.uses = Append(@, [what |-> w, ok |-> probe.kind = "always",
                     state |-> IF probe.kind = "always" THEN "allowed" ELSE "pending"])]
  /\ stream' = Delivered("use", Len(session.uses) + 1)
  /\ UNCHANGED <<probe, queue, worker, written>>

Pending == {i \in DOMAIN session.uses : session.uses[i].state = "pending"}

Unread(type) == \E i \in DOMAIN stream.events : stream.events[i].type = type

\* The session goes idle to ask for what is pending, or asks once more; with tools that
\* are always allowed it does so now and then, any number of times.  Bound: it repeats
\* itself only in a stream that holds no such event unread.
SessionAsks ==
  /\ Watched
  /\ \/ /\ session.status = "running" /\ Pending # {}
        /\ session' = [session EXCEPT !.status = "asking"]
     \/ /\ session.status = "asking" \/ (session.status = "running" /\ probe.kind = "always")
        /\ stream.open /\ ~Unread("asks")
        /\ UNCHANGED session
  /\ stream' = Delivered("asks", 0)
  /\ UNCHANGED <<probe, queue, worker, written>>

SessionEnds ==
  /\ Watched /\ session.status \in {"running", "asking"}
  /\ \/ /\ session.status = "running" /\ Pending = {}
        /\ session' = [session EXCEPT !.status = "over"]
        /\ stream' = Delivered("end_turn", 0)
     \/ /\ session' = [session EXCEPT !.status = "over"]
        /\ stream' = Delivered("terminated", 0)
  /\ UNCHANGED <<probe, queue, worker, written>>

\* The server closes the stream: after the session's end, or when it was idle too long.
StreamCloses ==
  /\ Watched /\ stream.open /\ ~Unread("closed")
  /\ stream' = Delivered("closed", 0)
  /\ UNCHANGED <<probe, session, queue, worker, written>>

\* Another operator's session waits in the queue of the environment.
OtherSession ==
  /\ Watched /\ probe.kind \in SdkKinds
  /\ queue' = queue \cup {"other"} /\ queue' # queue
  /\ "other" \notin {worker.claims[i] : i \in DOMAIN worker.claims}
  /\ UNCHANGED <<probe, stream, session, worker, written>>

------------------------------------------------------------------------------
(* The worker, and the tools.                                              *)

WorkerClaims ==
  /\ worker.pc = "polling"
  /\ \E s \in queue :
       /\ worker' = [worker EXCEPT !.pc = "working", !.claims = Append(@, s)]
       /\ queue' = queue \ {s}
  /\ UNCHANGED <<probe, stream, session, written>>

Current == worker.claims[Len(worker.claims)]

\* A tool of the probe's session starts once it is allowed; a worker that does not wait
\* starts it at once.
ToolStarts ==
  /\ probe.kind \in SdkKinds => worker.pc = "working" /\ Current = "own"
  /\ worker.runs = 0
  /\ \E i \in DOMAIN session.uses :
       /\ session.uses[i].state \in {"pending", "allowed"}
       /\ worker' = [worker EXCEPT !.runs = i]
       /\ session' = [session EXCEPT !.uses[i].state = "runs"]
  /\ UNCHANGED <<probe, stream, queue, written>>

ToolFinishes ==
  /\ worker.runs # 0
  /\ worker' = [worker EXCEPT !.runs = 0]
  /\ session' = [session EXCEPT !.uses[worker.runs].state = "ran"]
  /\ written' = [written EXCEPT ![session.uses[worker.runs].what] = "own"]
  /\ UNCHANGED <<probe, stream, queue>>

\* The other session is a run of the same probe, and does as it is asked.
ForeignToolRuns ==
  /\ worker.pc = "working" /\ Current = "other"
  /\ written' = [written EXCEPT !["good"] = "other"]
  /\ UNCHANGED <<probe, stream, session, queue, worker>>

WorkerReleases ==
  /\ worker.pc = "working" /\ worker.runs = 0
  /\ Current = "own" => session.status = "over"
  /\ worker' = [worker EXCEPT !.pc = "polling"]
  /\ UNCHANGED <<probe, stream, session, queue, written>>

------------------------------------------------------------------------------
(* runWithConfirmation: events, one decision per turn, the next turn.      *)

Decision_First(kind, turn) ==
  CASE kind \in {"allow", "write"}        -> TRUE
    [] kind \in {"deny", "smoke deny"}    -> FALSE
    [] kind = "smoke allow"               -> Len(turn) > 0 /\ session.uses[turn[1]].what = "good"

\* The write policies accept exactly one tool use; two of the probes allow or deny all.
Decision(kind, turn) ==
  CASE kind \in {"allow", "write"}        -> TRUE
    [] kind \in {"deny", "smoke deny"}    -> FALSE
    [] kind = "smoke allow"               -> Len(turn) = 1 /\ session.uses[turn[1]].what = "good"

NextEvent == Head(stream.events).type
Rest == [stream EXCEPT !.events = Tail(@)]
ReadsStream(kinds) == ProbeAt("listen") /\ probe.kind \in kinds /\ stream.events # <<>>

OnToolUse ==
  /\ ReadsStream(ProbeKinds) /\ NextEvent = "use"
  /\ stream' = Rest
  /\ probe' = [probe EXCEPT !.turn = Append(@, Head(stream.events).use)]
  /\ UNCHANGED <<session, queue, worker, written>>

\* break leaves the stream: what it still holds, and what comes until the next one is
\* opened, is not read.
OnAsks ==
  /\ ReadsStream(TurnKinds) /\ NextEvent = "asks"
  /\ stream' = [open |-> FALSE, events |-> <<>>]
  /\ probe' = [probe EXCEPT !.pc = "decided", !.asked = TRUE,
                            !.confirmed = Decision(probe.kind, probe.turn)]
  /\ UNCHANGED <<session, queue, worker, written>>

Reopen ==
  /\ ProbeAt("decided")
  /\ ProbeGoes("post")
  /\ stream' = OpenStream
  /\ UNCHANGED <<session, queue, worker, written>>

\* The confirmations of the turn, in one call.  The service refuses it when a tool use
\* is no longer pending, and an empty call perhaps: the probe then fails, and leaves its
\* worker running.
PostConfirmations ==
  /\ ProbeAt("post")
  /\ IF \A i \in DOMAIN probe.turn : probe.turn[i] \in Pending
     THEN /\ session' = [session EXCEPT !.status = IF @ = "asking" /\ probe.turn # <<>> THEN "running" ELSE @,
                !.uses = [i \in DOMAIN @ |->
                            IF \E j \in DOMAIN probe.turn : probe.turn[j] = i
                            THEN [@[i] EXCEPT !.state = IF probe.confirmed THEN "allowed" ELSE "denied",
                                              !.ok = probe.confirmed]
                            ELSE @[i]]]
          /\ probe' = [probe EXCEPT !.pc = "listen", !.turn = <<>>]
     ELSE EndProbe("ERROR") /\ UNCHANGED session
  /\ UNCHANGED <<stream, queue, worker, written>>

EmptyCallRefused ==
  /\ ProbeAt("post") /\ probe.turn = <<>>
  /\ EndProbe("ERROR")
  /\ UNCHANGED <<stream, session, queue, worker, written>>

\* end_turn, terminated, or the end of the stream; the agent's final words came before
\* it, or not, which only the allow smoke looks at.
OnEnd ==
  /\ ReadsStream(ProbeKinds \ {"always"}) /\ NextEvent \in {"end_turn", "terminated", "closed"}
  /\ \E t \in {TRUE, probe.kind # "smoke allow"} :
       probe' = [probe EXCEPT !.pc = "returned", !.text = t]
  /\ stream' = [open |-> FALSE, events |-> <<>>]
  /\ UNCHANGED <<session, queue, worker, written>>

------------------------------------------------------------------------------
(* runAntAlwaysAskDiagnostic: one confirmation, of the last tool use, in   *)
(* the stream that goes on being read.                                     *)

OnAntAsks ==
  /\ ReadsStream(AntKinds) /\ NextEvent = "asks"
  /\ stream' = Rest
  /\ probe' = IF probe.turn # <<>> /\ ~probe.confirmed
              THEN [probe EXCEPT !.pc = "confirm", !.asked = TRUE, !.early = written["good"] # "none"]
              ELSE [probe EXCEPT !.asked = TRUE]
  /\ UNCHANGED <<session, queue, worker, written>>

ConfirmLast ==
  /\ ProbeAt("confirm")
  /\ LET last == probe.turn[Len(probe.turn)]
         allow == probe.kind = "ant allow"
     IN IF last \in Pending
        THEN /\ session' = [session EXCEPT !.status = IF @ = "asking" THEN "running" ELSE @,
                  !.uses[last].state = IF allow THEN "allowed" ELSE "denied",
                  !.uses[last].ok = allow]
             /\ probe' = [probe EXCEPT !.pc = "listen", !.confirmed = TRUE]
        ELSE EndProbe("ERROR") /\ UNCHANGED session
  /\ UNCHANGED <<stream, queue, worker, written>>

\* classifyAlwaysAskConformance.
AntStatus ==
  CASE probe.early                                                  -> "ANOMALY"
    [] probe.asked /\ ~probe.early /\ probe.kind = "ant allow"
         /\ written["good"] # "none"                                -> "CONFORMANT"
    [] OTHER                                                        -> "INCONCLUSIVE"

JudgeAnt ==
  /\ ProbeAt("returned") /\ probe.kind \in AntKinds
  /\ EndProbe(AntStatus)
  /\ UNCHANGED <<stream, session, queue, worker, written>>

------------------------------------------------------------------------------
(* runAlwaysAllowSession: no confirmation is ever posted.                  *)

\* The next stream is opened before the old one is left.
OnArtifact ==
  /\ ReadsStream({"always"}) /\ NextEvent = "asks"
  /\ stream' = OpenStream
  /\ UNCHANGED <<probe, session, queue, worker, written>>

OnClosed_Forever ==
  /\ ReadsStream({"always"}) /\ NextEvent = "closed"
  /\ stream' = OpenStream
  /\ UNCHANGED <<probe, session, queue, worker, written>>

\* A stream that the server closed is reopened, MaxClosedReconnects times.
OnClosed ==
  /\ ReadsStream({"always"}) /\ NextEvent = "closed"
  /\ \/ /\ probe.reconnects < MaxClosedReconnects
        /\ probe' = [probe EXCEPT !.reconnects = @ + 1]
        /\ stream' = OpenStream
     \/ /\ probe.reconnects >= MaxClosedReconnects
        /\ EndProbe("returned") /\ stream' = Rest
  /\ UNCHANGED <<session, queue, worker, written>>

OnTerminal ==
  /\ ReadsStream({"always"}) /\ NextEvent \in {"end_turn", "terminated"}
  /\ EndProbe("returned") /\ stream' = Rest
  /\ UNCHANGED <<session, queue, worker, written>>

------------------------------------------------------------------------------
(* After the session.                                                      *)

StopWorker_NoWait ==
  /\ ProbeAt("returned") /\ probe.kind \in SdkKinds
  /\ ProbeGoes("stopped")
  /\ worker' = [worker EXCEPT !.pc = "stopped"]
  /\ UNCHANGED <<stream, session, queue, written>>

\* The worker is aborted, and waited for: a tool that runs finishes, or is killed.
StopWorker ==
  /\ ProbeAt("returned") /\ probe.kind \in SdkKinds
  /\ ProbeGoes("stopped")
  /\ worker' = [worker EXCEPT !.pc = "stopped", !.runs = 0]
  /\ IF worker.runs = 0 THEN UNCHANGED <<session, written>>
     ELSE LET what == session.uses[worker.runs].what IN
          \/ /\ session' = [session EXCEPT !.uses[worker.runs].state = "ran"]
             /\ written' = [written EXCEPT ![what] = "own"]
          \/ /\ session' = [session EXCEPT !.uses[worker.runs].state = "killed"]
             /\ UNCHANGED written
  /\ UNCHANGED <<stream, queue>>

\* The first claim is the one that was recorded.  A probe without one goes on.
SessionMismatch == worker.claims # <<>> /\ worker.claims[1] # "own"

Found(t) == written[t] # "none"

AllowStatus ==
  CASE probe.asked /\ Found("good") /\ ~SessionMismatch -> "CONFORMANT"
    [] ~probe.asked \/ SessionMismatch                  -> "ANOMALY"
    [] OTHER                                            -> "INCONCLUSIVE"

DenyStatus ==
  IF probe.asked /\ ~Found("good") /\ ~SessionMismatch THEN "CONFORMANT" ELSE "ANOMALY"

\* One of the two files is enough.
WriteStatus ==
  CASE SessionMismatch                                          -> "ANOMALY"
    [] ~SessionMismatch /\ (Found("good") \/ Found("bad"))      -> "CONFORMANT"
    [] ~SessionMismatch /\ ~Found("good") /\ ~Found("bad")      -> "INCONCLUSIVE"

JudgeProbe ==
  /\ ProbeAt("stopped")
  /\ EndProbe(CASE probe.kind = "allow" -> AllowStatus
                [] probe.kind = "deny"  -> DenyStatus
                [] probe.kind = "write" -> WriteStatus)
  /\ UNCHANGED <<stream, session, queue, worker, written>>

\* validateOutputFile.
ValidOutput(seen) == seen = {"good"}

AllowSmokePassed(seen) == probe.confirmed /\ probe.text /\ ValidOutput(seen)
DenySmokePassed(seen) == ~probe.confirmed /\ seen = {}

\* The allow smoke looks at the outputs of a confirmed write with the agreed answer only.
Lists == probe.kind = "smoke allow" => probe.confirmed /\ probe.text

\* listSessionOutputs: up to three listings, until one is not empty; a file may be
\* listed some time after it was written.
ListOutputs ==
  /\ ProbeAt("returned") /\ probe.kind \in CloudKinds
  /\ IF ~Lists THEN EndProbe("failed")
     ELSE \E seen \in SUBSET {t \in DOMAIN written : Found(t)} :
            CASE seen = {} /\ probe.lists < 2 -> probe' = [probe EXCEPT !.lists = @ + 1]
              [] OTHER -> EndProbe(IF IF probe.kind = "smoke allow" THEN AllowSmokePassed(seen)
                                                                    ELSE DenySmokePassed(seen)
                                   THEN "passed" ELSE "failed")
  /\ UNCHANGED <<stream, session, queue, worker, written>>

------------------------------------------------------------------------------

Driver ==
  \/ RequireQueueDrained \/ CreateSession \/ SendMessage
  \/ OnToolUse \/ OnAsks \/ Reopen \/ PostConfirmations \/ EmptyCallRefused \/ OnEnd
  \/ OnAntAsks \/ ConfirmLast \/ JudgeAnt
  \/ OnArtifact \/ OnClosed \/ OnTerminal
  \/ StopWorker \/ JudgeProbe \/ ListOutputs

Service == AgentUsesTool \/ SessionAsks \/ SessionEnds \/ StreamCloses \/ OtherSession

Tools == WorkerClaims \/ ToolStarts \/ ToolFinishes \/ ForeignToolRuns \/ WorkerReleases

ProbeNext == Driver \/ Service \/ Tools

\* The driver runs its callbacks, and the server closes a stream sooner or later.
ProbeFairness == WF_probeVars(Driver) /\ WF_probeVars(StreamCloses)

ProbeSpec == ProbeInit /\ [][ProbeNext]_probeVars /\ ProbeFairness

------------------------------------------------------------------------------

Ran(t) == \E i \in DOMAIN session.uses : session.uses[i].what = t /\ session.uses[i].state = "ran"

\* A CONFORMANT finding tells what happened.  Of a deny: what was denied did not run,
\* and will not, also when the worker does not wait for a confirmation and was at it
\* when the session ended.  (Another use of bash may have run.)  Of
\* the other probes: a tool ran for the probe's own session, or the worker had claimed
\* a second session, whose claim is not recorded.
ConformantIsTrue ==
  probe.status = "CONFORMANT" =>
    CASE probe.kind = "deny"  -> ~Ran("good")
      [] probe.kind = "allow" -> Ran("good") \/ Len(worker.claims) > 1
      [] probe.kind = "write" -> Ran("good") \/ Ran("bad") \/ Len(worker.claims) > 1
      [] OTHER                -> probe.kind = "ant allow" /\ Ran("good")

\* One decision is posted for all tool uses of a turn, and the allow smoke never lets
\* another write than the expected one through with it; if it passes, it allowed one.
\* The deny probes let nothing through, the ant probe at most one tool use.
AllowedAsAsked ==
  LET allowed == {i \in DOMAIN session.uses : session.uses[i].ok} IN
  /\ probe.kind = "smoke allow" => /\ \A i \in allowed : session.uses[i].what = "good"
                                   /\ probe.status = "passed" => allowed # {}
  /\ probe.kind \in {"deny", "smoke deny", "ant deny"} => allowed = {}
  /\ probe.kind = "ant allow" => Cardinality(allowed) <= 1

\* runAlwaysAllowSession returns, also when a terminal event was lost between two
\* streams, unless the session asks again and again for ever: "Guard against infinite
\* reconnect loops (stream repeatedly closing before terminal event)"
\* (run-always-allow-session.ts:39) counts the closed streams only, and a requires_action
\* reopens without counting.
AlwaysAllowReturns ==
  \/ []<><<OnArtifact>>_probeVars
  \/ probe.kind = "always" /\ ProbeAt("listen") ~> ProbeAt("done")
================================================================================
