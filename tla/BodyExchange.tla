---------------------------- MODULE BodyExchange ----------------------------
(***************************************************************************)
(* The bytes of one exchange: the request body on its way from a producer  *)
(* to reqwest, through the adapters of concord_core/src/body.rs and the    *)
(* limits of client/send_flow.rs, and the response body on its way from    *)
(* reqwest to the caller, through transport.rs and stream_response.rs.     *)
(*                                                                         *)
(* An adapter wraps a body and passes its frames on.  The adapters of a    *)
(* request body are a sequence of stages, the innermost first; a poll of   *)
(* the outermost asks the producer for a frame, which then passes every    *)
(* stage on its way out.  Only the length of a data frame matters.         *)
(***************************************************************************)
EXTENDS Integers, Sequences

CONSTANTS
    Plans,     \* the exchanges to consider, see Plan
    MaxFrame,  \* bound: the longest data frame
    MaxBytes   \* bound: a producer stops once it has made this many bytes

ASSUME BytesAssumption == MaxFrame \in Nat /\ MaxBytes \in Nat

NoBound == 2 * (MaxBytes + MaxFrame) + 1    \* Option::None for a length
Sizes == 0 .. MaxBytes + MaxFrame
Bounds == Sizes \cup {NoBound}

\* http_body::SizeHint
Hint(l, u) == [lower |-> l, upper |-> u]
Exact(n) == Hint(n, n)
Unknown == Hint(0, NoBound)
IsExact(h) == h.lower = h.upper

\* SizeHint panics when its bounds are set to anything else.
Hints == {h \in [lower : Sizes, upper : Bounds] : h.lower <= h.upper}
-----------------------------------------------------------------------------
(* The adapters                                                            *)

LimitedBody(b) == [kind |-> "limited", bound |-> b, seen |-> 0, done |-> FALSE]
ExactLengthBody(b) == [kind |-> "exact", bound |-> b, seen |-> 0, done |-> FALSE]
HintedBody(h) == [kind |-> "hinted", hint |-> h, done |-> FALSE]
ObservedRequestBody == [kind |-> "observed", done |-> FALSE]

\* The adapters that a caller can put around a body, DynBody::limited and with_size_hint
Stages == {LimitedBody(b) : b \in Sizes} \cup {HintedBody(h) : h \in Hints}

\* What a poll returns: a frame, an error or the end
Data(n) == [tag |-> "data", n |-> n]
Trailers == [tag |-> "trailers"]
Error(e) == [tag |-> "error", error |-> e]
End == [tag |-> "end"]

BodyErrors == {"Input", "LimitExceeded", "ExactLengthOverflow", "ExactLengthUnderflow"}

Counts(s) == s.kind \in {"limited", "exact"}

\* A data frame that passes the bound of s is refused as a whole.
Refuses(s, r) == Counts(s) /\ r.tag = "data" /\ s.seen + r.n > s.bound

\* Mutant: an early end goes unnoticed
NeverShort(s, r) == FALSE

\* The inner body ended before the exact length was delivered.
EndsShort(s, r) == s.kind = "exact" /\ r.tag = "end" /\ s.seen # s.bound

\* What s returns to its caller when its inner body returned r
Passed(s, r) ==
    CASE Refuses(s, r) /\ s.kind = "limited" -> Error("LimitExceeded")
      [] Refuses(s, r) /\ s.kind = "exact" -> Error("ExactLengthOverflow")
      [] EndsShort(s, r) -> Error("ExactLengthUnderflow")
      [] OTHER -> r

\* What is left of a hint after n bytes; an upper bound that was wrong is dropped.
Consumed(h, n) ==
    Hint(IF n < h.lower THEN h.lower - n ELSE 0,
         IF h.upper = NoBound \/ n > h.upper THEN NoBound ELSE h.upper - n)

\* The state of s after its inner body returned r.  HintedBody is not terminal
\* after an error, and an observer has no state but the error slot.
After(s, r) ==
    CASE Counts(s) /\ r.tag = "data" /\ ~Refuses(s, r) -> [s EXCEPT !.seen = @ + r.n]
      [] Counts(s) /\ (Refuses(s, r) \/ r.tag \in {"error", "end"}) -> [s EXCEPT !.done = TRUE]
      [] s.kind = "hinted" /\ r.tag = "data" -> [s EXCEPT !.hint = Consumed(@, r.n)]
      [] s.kind = "hinted" /\ r.tag = "end" -> [s EXCEPT !.hint = Exact(0), !.done = TRUE]
      [] OTHER -> s

\* Mutant: the limit is applied to the upper bound only
ThroughUnclamped(s, h) ==
    CASE s.done -> Exact(0)
      [] s.kind = "limited" ->
           Hint(h.lower, IF h.upper < s.bound - s.seen THEN h.upper ELSE s.bound - s.seen)
      [] s.kind = "exact" -> Exact(s.bound - s.seen)
      [] s.kind = "hinted" -> s.hint
      [] OTHER -> h

\* The size hint of s around a body with the hint h
Through(s, h) ==
    CASE s.done -> Exact(0)
      [] s.kind = "limited" ->
           Hint(IF h.lower <= s.bound - s.seen THEN h.lower ELSE 0,
                IF h.upper < s.bound - s.seen THEN h.upper ELSE s.bound - s.seen)
      [] s.kind = "exact" -> Exact(s.bound - s.seen)
      [] s.kind = "hinted" -> s.hint
      [] OTHER -> h

\* Returned(st, r)[i] is what stage i returns when the producer returned r.
Returned(st, r) ==
    LET out[i \in 0 .. Len(st)] == IF i = 0 THEN r ELSE Passed(st[i], out[i - 1]) IN out

\* HintAt(st, h)[i] is the size hint of stage i around a producer with the hint h.
HintAt(st, h) ==
    LET hint[i \in 0 .. Len(st)] == IF i = 0 THEN h ELSE Through(st[i], hint[i - 1]) IN hint
-----------------------------------------------------------------------------
(* One exchange                                                            *)

Families == {"buffered", "skip", "stream"}   \* skip: buffered with skip_body

\* What the caller chose.  own are the adapters of an AdvancedRequestBody, hint
\* the size hint given with a byte stream or to a body factory; size is the
\* length of reusable bytes.  limit and responseLimit are the client's limits for
\* requests and, by family, for buffered or streamed responses.
Plan ==
    [recipe : {"bytes", "stream", "oneShot", "factory"}, size : Sizes, own : Seq(Stages),
     hint : Hints, limit : Bounds, family : Families,
     responseLimit : Bounds]

ASSUME PlansAssumption == Plans \subseteq Plan

VARIABLES
    plan,
    at,        \* build, limit, sending, head, reading, done
    stages,    \* the adapters of the native request body
    promised,  \* its size hint when it is limited
    produced,  \* bytes the producer has made
    sent,      \* bytes handed to reqwest
    ended,     \* open, end, or the error the request body returned
    recorded,  \* RequestBodyErrorSlot: the first error an observer saw, or none
    outcome,   \* of execute, or none
    resp,      \* BoundedResponseStream: the counters of a limited body
    announced, \* Content-Length of the response, or NoBound
    served,    \* bytes the native response body has delivered
    native,    \* open, or how the response body stopped: end, failed, refused
    call,      \* none, chunk, buffer, file, write, flush: what the caller awaits
    got,       \* bytes collected by the call, or written to its file
    held,      \* bytes of the chunk being written
    fresh,     \* the call began on an unread response
    result     \* of the last finished call, or none

request == <<stages, promised, produced, sent, ended, recorded>>
response == <<resp, announced, served, native>>
calls == <<call, got, held, fresh, result>>
exchangeVars == <<plan, at, outcome, request, response, calls>>

ExchangeInit ==
    /\ plan \in Plans
    /\ at = "build"
    /\ stages = <<>> /\ promised = Unknown
    /\ produced = 0 /\ sent = 0 /\ ended = "open" /\ recorded = "none"
    /\ outcome = "none"
    /\ resp = LimitedBody(NoBound) /\ announced = NoBound
    /\ served = 0 /\ native = "open"
    /\ call = "none" /\ got = 0 /\ held = 0 /\ fresh = FALSE /\ result = "none"

Finish(o) == at' = "done" /\ outcome' = o
-----------------------------------------------------------------------------
(* The request body                                                        *)

SizeHint(st) == HintAt(st, Unknown)[Len(st)]

\* PreparedBody.size_hint: a one-shot body is asked, a factory is not called.
DeclaredHint(p) ==
    CASE p.recipe = "bytes" -> Exact(p.size)
      [] p.recipe = "oneShot" -> SizeHint(p.own)
      [] OTHER -> p.hint

\* The exact-length guard, when the declared hint is exact, inside the observer.
ObserveNativeRequestBody(st, hint) ==
    st \o (IF IsExact(hint) THEN <<ExactLengthBody(hint.upper)>> ELSE <<>>)
       \o <<ObservedRequestBody>>

\* produce_for_execution and apply_to_reqwest; bytes are handed over as they are.
Materialise ==
    /\ at = "build" /\ at' = "limit"
    /\ stages' = IF plan.recipe = "bytes" THEN <<>>
                 ELSE ObserveNativeRequestBody(plan.own, DeclaredHint(plan))
    /\ promised' = IF plan.recipe = "bytes" THEN Exact(plan.size) ELSE SizeHint(stages')
    /\ UNCHANGED <<plan, outcome, produced, sent, ended, recorded, response, calls>>

\* Mutant: an advisory upper bound rejects a body that may be short enough
KnownOversizeByUpper(hint, limit) == hint.upper > limit

\* An exact length, or a lower bound, that is beyond the limit
KnownOversize(hint, limit) == hint.lower > limit

RejectOversize ==
    /\ at = "limit"
    /\ plan.limit # NoBound /\ KnownOversize(promised, plan.limit)
    /\ Finish("RequestBodyLimitExceeded")
    /\ UNCHANGED <<plan, request, response, calls>>

\* Every body but bytes is sent through a limiter of its own.
StartSending ==
    /\ at = "limit" /\ at' = "sending"
    /\ ~(plan.limit # NoBound /\ KnownOversize(promised, plan.limit))
    /\ stages' = IF plan.limit = NoBound \/ plan.recipe = "bytes" THEN stages
                 ELSE Append(stages, LimitedBody(plan.limit))
    /\ sent' = IF plan.recipe = "bytes" THEN plan.size ELSE sent
    /\ produced' = sent'
    /\ ended' = IF plan.recipe = "bytes" THEN "end" ELSE ended
    /\ UNCHANGED <<plan, outcome, promised, recorded, response, calls>>

\* RequestBodyErrorSlot.record
Record(e) == IF recorded = "none" THEN e ELSE recorded

\* reqwest polls the outermost adapter and the producer returns r.
PollRequest(r) ==
    LET back == Returned(stages, r)
        out == back[Len(stages)]
        seen == {i \in DOMAIN stages : stages[i].kind = "observed" /\ back[i].tag = "error"}
    IN /\ at = "sending" /\ ended = "open"
       /\ stages' = [i \in DOMAIN stages |-> After(stages[i], back[i - 1])]
       /\ produced' = IF r.tag = "data" THEN produced + r.n ELSE produced
       /\ sent' = IF out.tag = "data" THEN sent + out.n ELSE sent
       /\ ended' = CASE out.tag = "end" -> "end"
                     [] out.tag = "error" -> out.error
                     [] OTHER -> "open"
       /\ recorded' = IF seen = {} THEN recorded ELSE Record(back[CHOOSE i \in seen : TRUE].error)
       /\ UNCHANGED <<plan, at, promised, outcome, response, calls>>

\* A stream of bytes has no trailers; a producer ends or fails when it likes.
ProducerYields ==
    \/ \E n \in 0 .. MaxFrame : produced < MaxBytes /\ PollRequest(Data(n))
    \/ plan.recipe # "stream" /\ PollRequest(Trailers)
    \/ PollRequest(End)
    \/ PollRequest(Error("Input"))

\* The error slot is read before the error chain of reqwest, in which only the
\* limiter of StartSending is left to be found.
SendError == IF recorded # "none" THEN recorded ELSE ended

\* execute fails: because of the body, or for the network's own reasons.
ExecuteFails ==
    /\ at = "sending"
    /\ Finish(IF SendError = "LimitExceeded" THEN "RequestBodyLimitExceeded"
              ELSE "RequestExecution")
    /\ UNCHANGED <<plan, request, response, calls>>

\* A server may answer before the body has ended, but not once it has failed.
Respond ==
    /\ at = "sending" /\ ended \in {"open", "end"}
    /\ at' = "head"
    /\ announced' \in Bounds
    /\ UNCHANGED <<plan, outcome, request, resp, served, native, calls>>
-----------------------------------------------------------------------------
(* The response body                                                       *)

ResponseLimit == IF plan.family = "skip" THEN NoBound ELSE plan.responseLimit

TooLarge == ResponseLimit # NoBound /\ announced # NoBound /\ announced > ResponseLimit

\* Mutant: a response that announced its length is trusted to keep it
SetBodyLimitUnlessAnnounced(limit) == IF announced = NoBound THEN limit ELSE NoBound

SetBodyLimit(limit) == limit

\* limit_response_body; then buffer_response, or for a stream the test of its
\* content type
LimitResponseBody ==
    /\ at = "head"
    /\ UNCHANGED <<plan, request, announced, served, native, got, held, fresh, result>>
    /\ \/ TooLarge /\ Finish("ResponseTooLarge") /\ UNCHANGED <<resp, call>>
       \/ ~TooLarge /\ plan.family = "stream" /\ Finish("ResponseContract") /\ UNCHANGED <<resp, call>>
       \/ /\ ~TooLarge
          /\ resp' = [resp EXCEPT !.bound = SetBodyLimit(ResponseLimit)]
          /\ call' = IF plan.family = "buffered" THEN "buffer" ELSE "none"
          /\ IF plan.family = "skip" THEN Finish("Ok")
             ELSE at' = "reading" /\ UNCHANGED outcome

\* A call returns: for a buffered response it ends the exchange.
Return(o) ==
    /\ call' = "none" /\ result' = o
    /\ IF call = "buffer" THEN Finish(o) ELSE UNCHANGED <<at, outcome>>

NextChunk ==
    /\ at = "reading" /\ call = "none"
    /\ call' = "chunk"
    /\ UNCHANGED <<plan, at, outcome, request, response, got, held, fresh, result>>

\* File::create truncates what an earlier call wrote.
WriteToFile ==
    /\ at = "reading" /\ call = "none"
    /\ \/ call' = "file" /\ got' = 0 /\ UNCHANGED result
       \/ call' = "none" /\ result' = "ResponseFile" /\ UNCHANGED got
    /\ fresh' = (resp = LimitedBody(resp.bound))
    /\ UNCHANGED <<plan, at, outcome, request, response, held>>

DataArrives(x) ==
    /\ x.tag = "data"
    /\ held' = IF call = "file" THEN x.n ELSE held
    /\ got' = IF call = "buffer" THEN got + x.n ELSE got
    /\ CASE call = "chunk" -> Return("Ok")
         [] call = "file" -> call' = "write" /\ UNCHANGED <<at, outcome, result>>
         [] OTHER -> UNCHANGED <<at, outcome, call, result>>

\* Non-data frames are skipped.
TrailersArrive(x) == x.tag = "trailers" /\ UNCHANGED <<at, outcome, call, got, held, result>>

\* next_chunk returns None
BodyEnds(x) ==
    /\ x.tag = "end"
    /\ UNCHANGED <<got, held>>
    /\ IF call = "file" THEN call' = "flush" /\ UNCHANGED <<at, outcome, result>> ELSE Return("Ok")

BodyFails(x) ==
    /\ x.tag = "error"
    /\ UNCHANGED <<got, held>>
    /\ Return(IF x.error = "LimitExceeded" THEN "ResponseBodyLimitExceeded" ELSE "ResponseBody")

Deliver(x) == DataArrives(x) \/ TrailersArrive(x) \/ BodyEnds(x) \/ BodyFails(x)

\* BoundedResponseStream::poll_frame when the native body returns r
PollResponse(r) ==
    LET x == Passed(resp, r) IN
    /\ call \in {"chunk", "buffer", "file"} /\ ~resp.done
    /\ resp' = After(resp, r)
    /\ served' = IF r.tag = "data" THEN served + r.n ELSE served
    /\ native' = CASE x.tag = "end" -> "end"
                   [] x.tag = "error" /\ r.tag = "error" -> "failed"
                   [] x.tag = "error" /\ r.tag # "error" -> "refused"
                   [] OTHER -> "open"
    /\ Deliver(x)
    /\ UNCHANGED <<plan, request, announced, fresh>>

\* A terminal stream returns None without polling the native body.
PollTerminated ==
    /\ call \in {"chunk", "buffer", "file"} /\ resp.done
    /\ BodyEnds(End)
    /\ UNCHANGED <<plan, request, response, fresh>>

\* The native response body: reqwest
NativeYields ==
    \/ \E n \in 0 .. MaxFrame : served < MaxBytes /\ PollResponse(Data(n))
    \/ PollResponse(Trailers)
    \/ PollResponse(End)
    \/ PollResponse(Error("Input"))

\* write_all: on an error the chunk is gone from the stream
WriteChunk ==
    /\ call = "write"
    /\ held' = 0
    /\ \/ got' = got + held /\ call' = "file" /\ UNCHANGED <<at, outcome, result>>
       \/ UNCHANGED got /\ Return("ResponseFile")
    /\ UNCHANGED <<plan, request, response, fresh>>

Flush ==
    /\ call = "flush"
    /\ \E o \in {"Ok", "ResponseFile"} : Return(o)
    /\ UNCHANGED <<plan, request, response, got, held, fresh>>

\* The caller drops the future it awaits: a call on the stream, or the exchange.
Cancel ==
    /\ call # "none" \/ at \in {"limit", "sending", "head"}
    /\ held' = 0 /\ call' = "none" /\ result' = "Cancelled"
    /\ IF at = "reading" /\ plan.family = "stream" THEN UNCHANGED <<at, outcome>>
       ELSE Finish("Cancelled")
    /\ UNCHANGED <<plan, request, response, got, fresh>>

ExchangeNext ==
    \/ Materialise \/ RejectOversize \/ StartSending \/ ProducerYields \/ ExecuteFails \/ Respond
    \/ LimitResponseBody \/ NextChunk \/ WriteToFile \/ NativeYields \/ PollTerminated
    \/ WriteChunk \/ Flush \/ Cancel

ExchangeSpec == ExchangeInit /\ [][ExchangeNext]_exchangeVars
-----------------------------------------------------------------------------
(* Properties                                                              *)

\* What reaches reqwest never passes the bound of any limiter or length guard
\* on the way, in whichever order the caller stacked them, and a guarded body
\* ends without an error only when it delivered exactly its declared length.
SentAsDeclared ==
    \A i \in DOMAIN stages :
        /\ Counts(stages[i]) => sent <= stages[i].bound
        /\ stages[i].kind = "exact" /\ ended = "end" => sent = stages[i].bound

\* A request is refused for its size only when it was known to be too long or
\* made more bytes than a limiter allows, and a limiter's refusal is never
\* reported as anything else, although an observer inside the client's limiter
\* cannot have recorded it.
RefusalIsJust ==
    /\ outcome = "RequestBodyLimitExceeded" =>
           \/ promised.lower > plan.limit
           \/ \E i \in DOMAIN stages : stages[i].kind = "limited" /\ produced > stages[i].bound
    /\ ended = "LimitExceeded" => outcome \in {"none", "RequestBodyLimitExceeded", "Cancelled"}

\* At every adapter and at any point of the body, the size hint has its lower
\* bound below its upper bound: SizeHint::set_upper panics otherwise.
HintsConsistent ==
    \A i \in 0 .. Len(stages) :
        HintAt(stages, Unknown)[i].lower <= HintAt(stages, Unknown)[i].upper

\* All of a response or none of it.  No more than the client's limit reaches the
\* caller, whatever Content-Length announced, and a response is refused only if it
\* announced or sent more; a buffered response, or a file written from the start
\* of a response, that is reported as complete holds every byte up to its end.
WholeResponse ==
    /\ at \in {"reading", "done"} /\ plan.family # "skip" =>
           resp.seen <= plan.responseLimit /\ got <= plan.responseLimit
    /\ outcome = "ResponseTooLarge" => announced > plan.responseLimit
    /\ "ResponseBodyLimitExceeded" \in {outcome, result} => served > plan.responseLimit
    /\ call = "none" /\ result = "Ok" /\ plan.family = "buffered" => native = "end" /\ got = served
    /\ call = "flush" /\ fresh => native = "end" /\ got = served
=============================================================================
