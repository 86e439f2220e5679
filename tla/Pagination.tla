------------------------------ MODULE Pagination ------------------------------
(***************************************************************************)
(* PaginatedRequest::collect in concord_core/src/request.rs with the       *)
(* built-in controllers of concord_core/src/pagination: offset and limit,  *)
(* page number, cursor.                                                    *)
(*                                                                         *)
(* One call collects the items of successive pages.  Nothing is awaited    *)
(* but the execution of a page, so an action runs from one page request to *)
(* the next.  The server is either honest, with a fixed list of items, or  *)
(* answers with any number of items and any next cursor.                   *)
(*                                                                         *)
(* A position is the offset, the page number or the cursor; 0 is also the  *)
(* cursor None.                                                            *)
(***************************************************************************)
EXTENDS Integers, Sequences

CONSTANTS
    Calls,      \* the calls to consider, see Call
    Total,      \* number of items the honest server has
    MaxU64,     \* u64::MAX and usize::MAX
    MaxU32      \* u32::MAX, the type of page_index

Kinds == {"OffsetLimit", "Paged", "Cursor"}
TerminationModes == {"HardPageCap", "HardItemCap", "TakePages", "TakeItems"}
Positions == 0 .. MaxU64

\* A controller with its initial state, a PaginationTermination, and how the
\* endpoint and the server behave
Call ==
    [kind : Kinds, start : Positions, size : Positions,
     mode : TerminationModes, max : Positions,
     detectLoops : BOOLEAN,
     rendered : BOOLEAN,            \* the endpoint puts the position in its request
     sendCursorOnFirst : BOOLEAN,
     stopWhenCursorMissing : BOOLEAN,
     honest : BOOLEAN]

ASSUME CallsAssumption == Calls \subseteq Call
ASSUME BoundsAssumption == Total \in Nat /\ MaxU64 \in Nat /\ MaxU32 \in Nat

VARIABLES
    call,       \* the call; it never changes
    position,   \* the controller's state
    page,       \* page_index
    items,      \* items_count
    out,        \* the items collected
    seen,       \* the progress keys
    sent,       \* the request identities, in order
    pc,         \* "start", "loop", "page" (a page is awaited) or "done"
    result      \* "none", "Ok" or the kind of the error

paginationVars == <<call, position, page, items, out, seen, sent, pc, result>>
-----------------------------------------------------------------------------
PaginationInit ==
    /\ call \in Calls
    /\ position = call.start
    /\ page = 0
    /\ items = 0
    /\ out = <<>>
    /\ seen = {}
    /\ sent = <<>>
    /\ pc = "start"
    /\ result = "none"

Finish(r) == pc' = "done" /\ result' = r

\* Nothing is collected and the controller stays where it is
Fail(r) == Finish(r) /\ UNCHANGED <<call, position, page, items, out, seen, sent>>
-----------------------------------------------------------------------------
(* Before the first page                                                   *)

\* validate_collect_termination
RejectCap ==
    /\ pc = "start"
    /\ call.mode \in {"HardPageCap", "HardItemCap"} /\ call.max = 0
    /\ Fail("InvalidSize")

TakeNothing ==
    /\ pc = "start"
    /\ call.mode \in {"TakePages", "TakeItems"} /\ call.max = 0
    /\ Fail("Ok")

\* PaginationRuntime::init: the controller is loaded from the endpoint
InitRuntime ==
    /\ pc = "start"
    /\ call.max > 0
    /\ pc' = "loop"
    /\ UNCHANGED <<call, position, page, items, out, seen, sent, result>>
-----------------------------------------------------------------------------
(* The request for a page                                                  *)

\* progress_key: a cursor that is None has none
ProgressKeys == IF call.kind = "Cursor" /\ position = 0 THEN {} ELSE {position}

LoopDetected == call.detectLoops /\ ProgressKeys \cap seen # {}

DetectLoop ==
    /\ pc = "loop"
    /\ LoopDetected
    /\ Fail("NonProgress")

\* EndpointPagination::apply refuses a size of zero and a page number of zero
Refused == call.size = 0 \/ (call.kind = "Paged" /\ position = 0)

RefuseSize ==
    /\ pc = "loop"
    /\ ~LoopDetected
    /\ Refused
    /\ Fail("InvalidSize")

\* EndpointPagination::apply: the first request carries a cursor only on demand
Applied ==
    IF call.kind = "Cursor" /\ page = 0 /\ ~call.sendCursorOnFirst THEN 0 ELSE position

\* pagination_request_identity
Identity == IF call.rendered THEN Applied ELSE call.start

\* Mutant: only the previous request is compared with the next
RepeatedJustNow == Len(sent) > 0 /\ sent[Len(sent)] = Identity

\* PaginationRunState::ensure_progress: the same request was made before
Repeated == \E i \in 1 .. Len(sent) : sent[i] = Identity

RefuseRepeat ==
    /\ pc = "loop"
    /\ ~LoopDetected
    /\ ~Refused
    /\ Repeated
    /\ Fail("NonProgress")

RequestPage ==
    /\ pc = "loop"
    /\ ~LoopDetected
    /\ ~Refused
    /\ ~Repeated
    /\ seen' = IF call.detectLoops THEN seen \cup ProgressKeys ELSE seen
    /\ position' = Applied
    /\ sent' = Append(sent, Identity)
    /\ pc' = "page"
    /\ UNCHANGED <<call, page, items, out, result>>

\* Mutant: a page that failed is asked for again
ExecuteRetried ==
    /\ pc = "page"
    /\ pc' = "loop"
    /\ sent' = SubSeq(sent, 1, Len(sent) - 1)
    /\ UNCHANGED <<call, position, page, items, out, seen, result>>

\* The execution of the page fails
ExecuteFails ==
    /\ pc = "page"
    /\ Fail("execution")
-----------------------------------------------------------------------------
(* A page: its items and its next cursor                                   *)

Least(a, b) == IF a < b THEN a ELSE b

\* Where the honest server's answer to the request begins
PageStart(p) == IF call.kind = "Paged" THEN (p - 1) * call.size ELSE p

\* The numbers of the items from after a to b
Numbers(a, b) == [i \in 1 .. (IF a < b THEN b - a ELSE 0) |-> a + i]

HonestPage ==
    LET from == PageStart(sent[Len(sent)])
        to == Least(from + call.size, Total)
    IN  [items |-> Numbers(from, to), next |-> IF to < Total THEN to ELSE 0]

\* What the server may answer.  A dishonest one returns up to one item more
\* than it was asked for.
Pages ==
    IF call.honest THEN {HonestPage}
    ELSE [items : {[i \in 1 .. n |-> 0] : n \in 0 .. call.size + 1}, next : Positions]

\* common_content_stop: the page is empty or short
CommonContentStop(n) == n = 0 \/ n < call.size

TakeItemsDone(n) == call.mode = "TakeItems" /\ n >= call.max - items

Stops(n) == CommonContentStop(n) \/ TakeItemsDone(n)

ItemCapExceeded(n) == call.mode = "HardItemCap" /\ items + n > call.max

\* Mutant: the offset moves by what the server returned and one more
AdvancedTooFar(p) ==
    CASE call.kind = "OffsetLimit" -> position + Len(p.items) + 1
      [] call.kind = "Paged" -> position + 1
      [] call.kind = "Cursor" -> p.next

\* EndpointPagination::advance: where the controller goes after the page
Advanced(p) ==
    CASE call.kind = "OffsetLimit" -> position + call.size
      [] call.kind = "Paged" -> position + 1
      [] call.kind = "Cursor" -> p.next

\* The decision of advance; a sum beyond u64 is an error instead
ControllerStops(p) == call.kind = "Cursor" /\ p.next = 0 /\ call.stopWhenCursorMissing

AdvanceOverflows(p) == Advanced(p) > MaxU64

\* Mutant: one page more than allowed
LastPageLate == page > call.max

\* The page just fetched is the last one allowed
LastPage == page + 1 >= call.max

\* What is kept of the page
Kept(p) ==
    IF TakeItemsDone(Len(p.items)) THEN SubSeq(p.items, 1, call.max - items) ELSE p.items

\* The collection errs before the controller is asked
ReceiveTooMany(p) ==
    /\ \/ items + Len(p.items) > MaxU64 /\ Fail("Overflow")
       \/ /\ items + Len(p.items) <= MaxU64
          /\ ItemCapExceeded(Len(p.items))
          /\ Fail("ItemLimitExceeded")

\* The collection errs after it: the controller's overflow, a hard page cap,
\* or page_index at its maximum
ReceiveTooFar(p) ==
    /\ ~Stops(Len(p.items))
    /\ \/ AdvanceOverflows(p) /\ Fail("Overflow")
       \/ /\ ~AdvanceOverflows(p)
          /\ ~ControllerStops(p)
          /\ \/ call.mode = "HardPageCap" /\ LastPage /\ Fail("PageLimitExceeded")
             \/ /\ ~(call.mode \in {"HardPageCap", "TakePages"} /\ LastPage)
                /\ page = MaxU32
                /\ Fail("Overflow")

\* The page is the last: its content, the quota, the controller or TakePages says so
ReceiveLast(p) ==
    /\ \/ Stops(Len(p.items)) /\ UNCHANGED position
       \/ /\ ~Stops(Len(p.items))
          /\ ~AdvanceOverflows(p)
          /\ ControllerStops(p) \/ (call.mode = "TakePages" /\ LastPage)
          /\ position' = Advanced(p)
    /\ out' = out \o Kept(p)
    /\ Finish("Ok")
    /\ UNCHANGED <<call, page, items, seen, sent>>

\* Another page is needed
ReceiveMore(p) ==
    /\ ~Stops(Len(p.items))
    /\ ~AdvanceOverflows(p)
    /\ ~ControllerStops(p)
    /\ ~(call.mode \in {"HardPageCap", "TakePages"} /\ LastPage)
    /\ page < MaxU32
    /\ position' = Advanced(p)
    /\ page' = page + 1
    /\ items' = items + Len(p.items)
    /\ out' = out \o Kept(p)
    /\ pc' = "loop"
    /\ UNCHANGED <<call, seen, sent, result>>

ReceivePage ==
    /\ pc = "page"
    /\ \E p \in Pages :
         \/ ReceiveTooMany(p)
         \/ /\ items + Len(p.items) <= MaxU64
            /\ ~ItemCapExceeded(Len(p.items))
            /\ ReceiveTooFar(p) \/ ReceiveLast(p) \/ ReceiveMore(p)

PaginationNext ==
    \/ RejectCap \/ TakeNothing \/ InitRuntime
    \/ DetectLoop \/ RefuseSize \/ RefuseRepeat \/ RequestPage
    \/ ExecuteFails \/ ReceivePage

PaginationSpec == PaginationInit /\ [][PaginationNext]_paginationVars

\* The loop has no step that waits for anything but the execution of a page,
\* which ends (DriveExecutions)
FairSpec == PaginationSpec /\ WF_paginationVars(PaginationNext)
-----------------------------------------------------------------------------
(* Properties                                                              *)

Results == {"none", "Ok", "InvalidSize", "NonProgress", "Overflow", "ItemLimitExceeded",
            "PageLimitExceeded", "execution"}

\* Every variable keeps its type: in particular positions, items and pages stay
\* within the width of their integers because each sum is checked.
TypeOK ==
    /\ call \in Call
    /\ position \in Positions
    /\ page \in 0 .. MaxU32
    /\ items \in Positions
    /\ out \in Seq(0 .. Total)
    /\ seen \subseteq Positions
    /\ sent \in Seq(Positions)
    /\ pc \in {"start", "loop", "page", "done"}
    /\ result \in Results

\* However the server answers, a page cap of n allows n requests, a TakeItems
\* quota of n items n requests, and a hard item cap of n items n + 1: with a
\* termination policy no collection goes on for ever.
SendsBounded ==
    Len(sent) <= IF call.mode = "HardItemCap" THEN call.max + 1 ELSE call.max

\* However the server answers, never more than the item limit is collected:
\* a hard cap errs before, a quota truncates the last page.
ItemsBounded ==
    call.mode \in {"HardItemCap", "TakeItems"} => Len(out) <= call.max

\* Both bounds: no server keeps a collection going, or makes it grow, past them.
CollectBounded == SendsBounded /\ ItemsBounded

\* No page is requested twice, with or without loop detection on the keys.
NeverRepeated == \A i, j \in 1 .. Len(sent) : i # j => sent[i] # sent[j]

\* Where the collection of an honest server's items begins
FirstItem ==
    IF call.kind = "Cursor" /\ ~call.sendCursorOnFirst THEN 0 ELSE PageStart(call.start)

\* How far a successful collection goes
LastItem ==
    CASE call.mode = "TakeItems" -> Least(Total, FirstItem + call.max)
      [] call.mode = "TakePages" -> Least(Total, FirstItem + call.max * call.size)
      [] OTHER -> Total

\* A successful collection from an honest server is complete: every item from
\* the first to the last asked for, once and in order.  (A call that goes on
\* without a cursor starts the list again, so this is not said of it.)
CollectedExactly ==
    result = "Ok" /\ call.honest /\ call.rendered /\ call.stopWhenCursorMissing =>
      out = Numbers(FirstItem, LastItem)

\* Every collection ends.
CollectEnds == <>(pc = "done")
=============================================================================
