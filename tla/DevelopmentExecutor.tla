------------------------- MODULE DevelopmentExecutor -------------------------
(***************************************************************************)
(* The deterministic executor that stands in for reqwest in development     *)
(* builds: a queue of scripted outcomes and a repeating one, the captures,  *)
(* and an observer that hears once per execution what became of the request *)
(* body.  Executions run concurrently; a scripted response body is read     *)
(* through gates that a test releases from another thread.                  *)
(*                                                                          *)
(* A gate has one place for a waker, and cloning a response, which a        *)
(* repeating script does, shares its gates: of two bodies that wait at one  *)
(* gate, release() wakes the one that polled it last.                       *)
(***************************************************************************)
EXTENDS Integers, Sequences, SequencesExt, FiniteSets

CONSTANTS
  Kind,         \* DeterministicExecutionKind of the executor
  Execs,        \* executions
  Readers,      \* tasks that poll response bodies
  Gates,        \* DeterministicBodyGate values
  Requests,     \* [context, placed, frames]: what an execution is given
  Outcomes,     \* ScriptedOutcome values
  MaxScripts,   \* bound on the outcomes that a test scripts
  None

Option(S) == S \cup {None}
Bytes == Seq(0 .. 255)

\* What a request body and a scripted response body consist of
RequestFrame == [t : {"data"}, data : Bytes] \cup [t : {"trailers", "error"}]
ScriptedBodyStep ==
  [t : {"Chunk"}, data : Bytes] \cup [t : {"Gate"}, gate : Gates] \cup [t : {"Trailers", "Failure"}]

SyntheticExecutionFailure == {"Timeout", "Connect", "Request", "Body"}

\* exact are the expected bytes of the request body, if any; gate is the initial one.
ScriptedOutcome ==
  [t : {"Response"}, placement : BOOLEAN, exact : Option(Bytes),
   steps : Seq(ScriptedBodyStep), gate : Option(Gates)]
  \cup [t : {"Failure"}, failure : SyntheticExecutionFailure, after : BOOLEAN,
        placement : BOOLEAN, exact : Option(Bytes)]

ASSUME RequestsAssumption ==
  Requests \subseteq [context : BOOLEAN, placed : BOOLEAN, frames : Option(Seq(RequestFrame))]
ASSUME OutcomesAssumption == Outcomes \subseteq ScriptedOutcome
ASSUME ExecutorConstants ==
  /\ MaxScripts \in Nat
  /\ None \notin Readers /\ None \notin Gates /\ None \notin Outcomes
  /\ None \notin Bytes /\ None \notin Seq(RequestFrame)

VARIABLES
  installed,   \* the execution channel that the executor serves
  scripts, repeating, captures, unexpected, observed,
  scripted,    \* number of outcomes scripted so far
  exec,        \* what each execution is doing
  reports,     \* what the body observer was told, per execution
  gate,        \* state of each gate
  last,        \* ghost: the body that registered at each gate last
  waking,      \* wakers taken out of a gate, not yet woken
  notifying,   \* gates entered whose condvar is not yet notified
  tester       \* per gate: the thread in wait_until_entered

vars == <<installed, scripts, repeating, captures, unexpected, observed, scripted,
          exec, reports, gate, last, waking, notifying, tester>>

gateVars == <<gate, last, waking, notifying, tester>>
scriptVars == <<scripts, repeating, scripted, observed>>

Kinds == {"Application", "Provider"}

Init ==
  /\ installed = None
  /\ scripts = <<>> /\ repeating = None /\ scripted = 0
  /\ captures = {} /\ unexpected = 0 /\ observed = FALSE
  /\ exec = [e \in Execs |-> [pc |-> "new"]]
  /\ reports = [e \in Execs |-> <<>>]
  /\ gate = [g \in Gates |-> [entered |-> FALSE, released |-> FALSE, waker |-> None]]
  /\ last = [g \in Gates |-> None]
  /\ waking = {} /\ notifying = {}
  /\ tester = [g \in Gates |-> "away"]

(* -------------------------- what the test prepares ----------------------- *)

\* configure_application_executor, configure_provider_executor.
Install(channel) ==
  /\ installed = None /\ Kind = channel
  /\ installed' = channel
  /\ UNCHANGED <<scriptVars, captures, unexpected, exec, reports, gateVars>>

\* script_response, script_failure, script_failure_after_request_body.
Script(outcome) ==
  /\ scripted < MaxScripts
  /\ scripts' = Append(scripts, outcome)
  /\ scripted' = scripted + 1
  /\ UNCHANGED <<installed, repeating, observed, captures, unexpected, exec, reports, gateVars>>

\* script_repeating_response and the two repeating failures.
ScriptRepeating(outcome) ==
  /\ scripted < MaxScripts
  /\ repeating' = outcome
  /\ scripted' = scripted + 1
  /\ UNCHANGED <<installed, scripts, observed, captures, unexpected, exec, reports, gateVars>>

SetBodyObserver ==
  /\ ~ observed /\ observed' = TRUE
  /\ UNCHANGED <<installed, scripts, repeating, scripted, captures, unexpected,
                 exec, reports, gateVars>>

(* ------------------------------- execute_native -------------------------- *)

RunnerUnchanged == UNCHANGED <<installed, scriptVars, gateVars>>

\* RequestBodyTerminalGuard::finish and drop: the observer is taken, so that the
\* first of them tells it.
finish(e, observation) ==
  reports' = [reports EXCEPT ![e] = IF exec[e].observer THEN Append(@, observation) ELSE @]

Err(why) == [t |-> "Err", why |-> why]

\* The execution returns, and its guard is dropped.
Return(e, result, observation) ==
  /\ exec' = [exec EXCEPT ![e] = [pc |-> "done", request |-> exec[e].request, result |-> result,
                                  outcome |-> exec[e].outcome, observer |-> exec[e].observer]]
  /\ finish(e, observation)

\* The guard gets the observer that is installed now.
Begin(e) ==
  /\ exec[e].pc = "new" /\ installed # None
  /\ \E request \in Requests :
       exec' = [exec EXCEPT ![e] = [pc |-> "begun", request |-> request, observer |-> observed,
                                    outcome |-> None]]
  /\ UNCHANGED <<captures, unexpected, reports>> /\ RunnerUnchanged

NoContext(e) ==
  /\ exec[e].pc = "begun" /\ ~ exec[e].request.context
  /\ Return(e, Err("Request"), "NeverPolled")
  /\ UNCHANGED <<captures, unexpected>> /\ RunnerUnchanged

\* sanitize_capture and the push; the head observer, code of the test, runs after it.
Capture(e) ==
  /\ exec[e].pc = "begun" /\ exec[e].request.context
  /\ captures' = captures \cup {e}
  /\ exec' = [exec EXCEPT ![e].pc = "take"]
  /\ UNCHANGED <<unexpected, reports>> /\ RunnerUnchanged

\* The front of the queue or, under the same lock, a clone of the repeating outcome.
NextOutcome == IF scripts # <<>> THEN Head(scripts) ELSE repeating

\* UnsafeCredentialPlacementExpectations::matches.
matches(outcome, request) == outcome.placement => request.placed

\* A response, or a failure that comes after the request body.
Drains(outcome) == outcome.t = "Failure" => outcome.after

NoOutcome(e) ==
  /\ exec[e].pc = "take" /\ NextOutcome = None
  /\ unexpected' = unexpected + 1
  /\ Return(e, Err("Request"), "NeverPolled")
  /\ UNCHANGED <<captures>> /\ RunnerUnchanged

TakeOutcome(e) ==
  /\ exec[e].pc = "take" /\ NextOutcome # None
  /\ scripts' = IF scripts # <<>> THEN Tail(scripts) ELSE scripts
  /\ exec' = [exec EXCEPT ![e].pc = "match", ![e].outcome = NextOutcome]
  /\ UNCHANGED <<installed, repeating, scripted, observed, captures, unexpected,
                 reports, gateVars>>

\* A placement that does not match, or a failure before the body: nothing is polled.
RefuseOrFail(e) ==
  /\ exec[e].pc = "match"
  /\ LET o == exec[e].outcome
     IN  \/ ~ matches(o, exec[e].request) /\ Return(e, Err("Request"), "NeverPolled")
         \/ /\ matches(o, exec[e].request) /\ ~ Drains(o)
            /\ Return(e, Err(o.failure), "NeverPolled")
  /\ UNCHANGED <<captures, unexpected>> /\ RunnerUnchanged

\* drain_request_body begins; offset counts the bytes compared so far.
BeginPolling(e) ==
  /\ exec[e].pc = "match" /\ matches(exec[e].outcome, exec[e].request)
  /\ Drains(exec[e].outcome)
  /\ exec' = [exec EXCEPT ![e] = [pc |-> "drain", request |-> exec[e].request,
                                  observer |-> exec[e].observer, outcome |-> exec[e].outcome,
                                  rest |-> exec[e].request.frames, offset |-> 0]]
  /\ UNCHANGED <<captures, unexpected, reports>> /\ RunnerUnchanged

\* expected.get(offset..end) equals the data of the frame.
Matching(exact, offset, data) ==
  /\ offset + Len(data) <= Len(exact)
  /\ SubSeq(exact, offset + 1, offset + Len(data)) = data

\* A frame of the request body: an error, trailers (which are not data), or data
\* that must continue what is expected.
DrainFrame(e) ==
  /\ exec[e].pc = "drain" /\ exec[e].rest # None /\ exec[e].rest # <<>>
  /\ LET frame == Head(exec[e].rest)
         exact == exec[e].outcome.exact
         Go(offset) == /\ exec' = [exec EXCEPT ![e].rest = Tail(@), ![e].offset = offset]
                       /\ UNCHANGED reports
     IN  \/ frame.t = "error" /\ Return(e, Err("Body"), "Failed")
         \/ frame.t = "trailers" /\ Go(exec[e].offset)
         \/ /\ frame.t = "data"
            /\ IF exact = None THEN Go(exec[e].offset)
               ELSE IF Matching(exact, exec[e].offset, frame.data)
                    THEN Go(exec[e].offset + Len(frame.data))
                    ELSE Return(e, Err("Request"), "Failed")
  /\ UNCHANGED <<captures, unexpected>> /\ RunnerUnchanged

\* Mutant: a body that is a prefix of the expected one is accepted
BodyIsPrefix(e) == TRUE

\* The end of the body, or no body at all (offset is 0 then).
BodyIsComplete(e) ==
  exec[e].outcome.exact # None => exec[e].offset = Len(exec[e].outcome.exact)

\* The scripted response, as into_native builds it.
Native(o) == [steps |-> o.steps, first |-> o.gate, terminal |-> FALSE, got |-> <<>>,
              state |-> "ready", task |-> None]

DrainEnd(e) ==
  /\ exec[e].pc = "drain" /\ exec[e].rest \in {None, <<>>}
  /\ IF ~ BodyIsComplete(e) THEN Return(e, Err("Request"), "Failed")
     ELSE IF exec[e].outcome.t = "Failure" THEN Return(e, Err(exec[e].outcome.failure), "Completed")
     ELSE Return(e, [t |-> "Ok", body |-> Native(exec[e].outcome)], "Completed")
  /\ UNCHANGED <<captures, unexpected>> /\ RunnerUnchanged

\* The future is dropped while it waits for a frame, the only await in it.
CancelExecution(e) ==
  /\ exec[e].pc = "drain" /\ exec[e].rest # None
  /\ Return(e, Err("Cancelled"), "CancelledOrDropped")
  /\ UNCHANGED <<captures, unexpected>> /\ RunnerUnchanged

(* ----------------------- reading a scripted response --------------------- *)

HasBody(e) == exec[e].pc = "done" /\ exec[e].result.t = "Ok"
Body(e) == exec[e].result.body
SetBody(e, body) == exec' = [exec EXCEPT ![e].result.body = body]

\* The gate that the next poll meets: the initial one, or one that is a step.
GateAhead(e) ==
  IF Body(e).terminal THEN None
  ELSE IF Body(e).first # None THEN Body(e).first
  ELSE IF Body(e).steps # <<>> /\ Head(Body(e).steps).t = "Gate" THEN Head(Body(e).steps).gate
  ELSE None

BehindGate(body) ==
  IF body.first # None THEN [body EXCEPT !.first = None] ELSE [body EXCEPT !.steps = Tail(@)]

ReaderUnchanged ==
  UNCHANGED <<installed, scriptVars, captures, unexpected, reports>>

\* A task polls the body: at its will, or because it was woken.  The body may have
\* moved to another task since its last poll.
StartPoll(e, r) ==
  /\ HasBody(e) /\ Body(e).state \in {"ready", "pending"}
  /\ SetBody(e, [Body(e) EXCEPT !.state = "polling", !.task = r])
  /\ ReaderUnchanged /\ UNCHANGED gateVars

\* Mutant: the waker of an earlier poll is kept
KeepWaker(g, r) == IF gate[g].waker = None THEN r ELSE gate[g].waker

\* will_wake: the waker of this poll replaces one of another task.
NewWaker(g, r) == r

\* Mutant: the gate is not put back in front of the steps
PollGateForgets(e) ==
  /\ HasBody(e) /\ Body(e).state = "polling" /\ GateAhead(e) # None
  /\ LET g == GateAhead(e)
     IN  /\ notifying' = IF gate[g].entered THEN notifying ELSE notifying \cup {g}
         /\ IF gate[g].released
            THEN /\ SetBody(e, BehindGate(Body(e)))
                 /\ gate' = [gate EXCEPT ![g].entered = TRUE]
                 /\ UNCHANGED last
            ELSE /\ SetBody(e, [BehindGate(Body(e)) EXCEPT !.state = "pending"])
                 /\ gate' = [gate EXCEPT ![g].entered = TRUE, ![g].waker = NewWaker(g, Body(e).task)]
                 /\ last' = [last EXCEPT ![g] = e]
  /\ UNCHANGED <<waking, tester>> /\ ReaderUnchanged

\* poll_ready of a gate: entered, and a waker registered unless it is released.
PollGate(e) ==
  /\ HasBody(e) /\ Body(e).state = "polling" /\ GateAhead(e) # None
  /\ LET g == GateAhead(e)
     IN  /\ notifying' = IF gate[g].entered THEN notifying ELSE notifying \cup {g}
         /\ IF gate[g].released
            THEN /\ SetBody(e, BehindGate(Body(e)))
                 /\ gate' = [gate EXCEPT ![g].entered = TRUE]
                 /\ UNCHANGED last
            ELSE /\ SetBody(e, [Body(e) EXCEPT !.state = "pending"])
                 /\ gate' = [gate EXCEPT ![g].entered = TRUE, ![g].waker = NewWaker(g, Body(e).task)]
                 /\ last' = [last EXCEPT ![g] = e]
  /\ UNCHANGED <<waking, tester>> /\ ReaderUnchanged

\* The other steps of poll_frame; after the end, or a failure, the end again.
PollStep(e) ==
  /\ HasBody(e) /\ Body(e).state = "polling" /\ GateAhead(e) = None
  /\ LET b == Body(e)
         ready == [b EXCEPT !.state = "ready"]
     IN  SetBody(e, IF b.terminal \/ b.steps = <<>>
                    THEN [ready EXCEPT !.terminal = TRUE, !.state = "over"]
                    ELSE IF Head(b.steps).t = "Failure"
                    THEN [ready EXCEPT !.terminal = TRUE, !.steps = Tail(@)]
                    ELSE IF Head(b.steps).t = "Trailers"
                    THEN [ready EXCEPT !.steps = Tail(@)]
                    ELSE [ready EXCEPT !.steps = Tail(@), !.got = Append(@, Head(b.steps).data)])
  /\ ReaderUnchanged /\ UNCHANGED gateVars

is_end_stream(body) == body.terminal \/ (body.first = None /\ body.steps = <<>>)

ChunkBytes(steps) == Len(FlattenSeq([i \in DOMAIN steps |-> IF steps[i].t = "Chunk" THEN steps[i].data ELSE <<>>]))

\* Bounds on what the body may still deliver.
size_hint(body) ==
  IF body.terminal THEN [lower |-> 0, upper |-> 0]
  ELSE LET length == ChunkBytes(body.steps)
       IN  [lower |-> IF \E i \in DOMAIN body.steps : body.steps[i].t = "Failure" THEN 0 ELSE length,
            upper |-> length]

\* The task of the pending body polls again.
Wake(r) ==
  /\ r \in waking
  /\ waking' = waking \ {r}
  /\ exec' = [e \in Execs |->
                IF HasBody(e) /\ Body(e).state = "pending" /\ Body(e).task = r
                THEN [exec[e] EXCEPT !.result.body.state = "polling"] ELSE exec[e]]
  /\ UNCHANGED <<gate, last, notifying, tester>> /\ ReaderUnchanged

\* The body is dropped; a waker that it left at a gate stays there.
DropBody(e) ==
  /\ HasBody(e) /\ Body(e).state \in {"ready", "pending"}
  /\ SetBody(e, [Body(e) EXCEPT !.state = "over"])
  /\ ReaderUnchanged /\ UNCHANGED gateVars

(* --------------------------------- gates --------------------------------- *)

GateUnchanged ==
  UNCHANGED <<installed, scriptVars, captures, unexpected, exec, reports>>

\* release(): the waker is taken under the lock and woken after it.
Release(g) ==
  /\ gate' = [gate EXCEPT ![g].released = TRUE, ![g].waker = None]
  /\ waking' = IF gate[g].waker = None THEN waking ELSE waking \cup {gate[g].waker}
  /\ UNCHANGED <<last, notifying, tester>> /\ GateUnchanged

\* poll_ready's notify_all, after its unlock.
NotifyEntered(g) ==
  /\ g \in notifying
  /\ notifying' = notifying \ {g}
  /\ tester' = [tester EXCEPT ![g] = "away"]
  /\ UNCHANGED <<gate, last, waking>> /\ GateUnchanged

\* wait_until_entered: returns at once, or sleeps until it is notified or times out.
WaitUntilEntered(g) ==
  /\ tester[g] = "away" /\ ~ gate[g].entered
  /\ tester' = [tester EXCEPT ![g] = "asleep"]
  /\ UNCHANGED <<gate, last, waking, notifying>> /\ GateUnchanged

WaitTimesOut(g) ==
  /\ tester[g] = "asleep"
  /\ tester' = [tester EXCEPT ![g] = "away"]
  /\ UNCHANGED <<gate, last, waking, notifying>> /\ GateUnchanged

Next ==
  \/ \E channel \in Kinds : Install(channel)
  \/ \E outcome \in Outcomes : Script(outcome) \/ ScriptRepeating(outcome)
  \/ SetBodyObserver
  \/ \E e \in Execs :
       \/ Begin(e) \/ NoContext(e) \/ Capture(e) \/ NoOutcome(e)
       \/ TakeOutcome(e) \/ RefuseOrFail(e) \/ BeginPolling(e) \/ DrainFrame(e) \/ DrainEnd(e)
       \/ CancelExecution(e) \/ PollGate(e) \/ PollStep(e) \/ DropBody(e)
  \/ \E e \in Execs, r \in Readers : StartPoll(e, r)
  \/ \E r \in Readers : Wake(r)
  \/ \E g \in Gates : Release(g) \/ NotifyEntered(g) \/ WaitUntilEntered(g) \/ WaitTimesOut(g)

Spec == Init /\ [][Next]_vars

(* ------------------------------- properties ------------------------------ *)

Done(e) == exec[e].pc = "done"
Sent(request) ==
  IF request.frames = None THEN <<>>
  ELSE FlattenSeq([i \in DOMAIN request.frames |->
                     IF request.frames[i].t = "data" THEN request.frames[i].data ELSE <<>>])
Broken(request) ==
  request.frames # None /\ \E i \in DOMAIN request.frames : request.frames[i].t = "error"
AsExpected(e) == exec[e].outcome.exact \in {None, Sent(exec[e].request)}

\* A scripted response is returned only to a request whose credentials are where the
\* script wants them and whose whole body is the expected one, and a response is
\* withheld with a request failure only if one of them is not: comparing the body
\* frame by frame comes to the same as comparing it as a whole.
ResultIsJust ==
  \A e \in Execs : Done(e) /\ exec[e].outcome # None /\ exec[e].outcome.t = "Response" =>
    LET ok == matches(exec[e].outcome, exec[e].request)
    IN  /\ exec[e].result.t = "Ok" => ok /\ ~ Broken(exec[e].request) /\ AsExpected(e)
        /\ exec[e].result = Err("Request") => ~ ok \/ ~ AsExpected(e)

\* "The single terminal observation for request-body handling in one native
\* execution": an execution that returned or was dropped has told its observer once,
\* never before, that the body was not polled iff nothing polled it, and that it was
\* completed only if the body was read to its end and is the expected one.
OneTerminal ==
  \A e \in Execs :
    /\ Len(reports[e]) = IF Done(e) /\ exec[e].observer THEN 1 ELSE 0
    /\ reports[e] # <<>> =>
         LET o == exec[e].outcome
             polled == o # None /\ matches(o, exec[e].request) /\ Drains(o)
         IN  /\ reports[e][1] = "NeverPolled" <=> ~ polled
             /\ reports[e][1] = "Completed" => ~ Broken(exec[e].request) /\ AsExpected(e)
             /\ exec[e].result.t = "Ok" => reports[e][1] = "Completed"

\* Where a script stops for now: at a failure or a gate that is not released.
Stops(o) == {i \in DOMAIN o.steps : \/ o.steps[i].t = "Failure"
                                    \/ o.steps[i].t = "Gate" /\ ~ gate[o.steps[i].gate].released}
Deliverable(o, stops) ==
  LET upTo == CHOOSE n \in 0..Len(o.steps) : /\ \A i \in stops : n < i
                                             /\ n = Len(o.steps) \/ n + 1 \in stops
  IN  FlattenSeq([i \in 1..upTo |-> IF o.steps[i].t = "Chunk" THEN o.steps[i].data ELSE <<>>])
Failures(o) == {i \in DOMAIN o.steps : o.steps[i].t = "Failure"}

\* Readers get the scripted bytes in their order and none from behind a gate that is
\* not released, in whatever order polls, releases and hand-overs come; at the end
\* they have all that precedes the first failure, and size_hint and is_end_stream
\* tell the truth about what is still to come at every moment.
BodyAsScripted ==
  \A e \in Execs : HasBody(e) =>
    LET o == exec[e].outcome
        got == FlattenSeq(Body(e).got)
        all == Deliverable(o, Failures(o))
        hint == size_hint(Body(e))
    IN  /\ IF o.gate # None /\ ~ gate[o.gate].released THEN got = <<>>
           ELSE IsPrefix(got, Deliverable(o, Stops(o)))
        /\ is_end_stream(Body(e)) => got = all
        /\ Len(got) + hint.lower <= Len(all) /\ Len(all) <= Len(got) + hint.upper

\* Release never strands the body that polled a gate last, also when it was polled by
\* another task before: it is not pending at a released gate unless its task is about
\* to be woken.  Likewise a thread in wait_until_entered sleeps at an entered gate
\* only while the notification is on its way.
GateWakes ==
  /\ \A e \in Execs : HasBody(e) /\ Body(e).state = "pending" =>
       LET g == GateAhead(e)
       IN  gate[g].released /\ last[g] = e => Body(e).task \in waking
  /\ \A g \in Gates : tester[g] = "asleep" /\ gate[g].entered => g \in notifying
==============================================================================
