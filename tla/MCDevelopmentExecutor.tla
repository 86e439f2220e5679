------------------------ MODULE MCDevelopmentExecutor ------------------------
(***************************************************************************)
(* Two executions, two tasks that read and one gate.  The scripts have a    *)
(* gate before the body and one in it, a body failure, expectations on      *)
(* bytes that are framed differently, and failures before and after the     *)
(* request body.                                                            *)
(***************************************************************************)
EXTENDS DevelopmentExecutor, TLC

CONSTANTS g1

Data(bytes) == [t |-> "data", data |-> bytes]
Chunk(bytes) == [t |-> "Chunk", data |-> bytes]
Response(placement, exact, steps, first) ==
  [t |-> "Response", placement |-> placement, exact |-> exact, steps |-> steps, gate |-> first]
Failure(after, exact) ==
  [t |-> "Failure", failure |-> "Timeout", after |-> after, placement |-> FALSE, exact |-> exact]

MCRequests == {
  [context |-> TRUE, placed |-> TRUE, frames |-> <<Data(<<1>>), [t |-> "trailers"], Data(<<2>>)>>],
  [context |-> TRUE, placed |-> FALSE, frames |-> <<Data(<<1>>), [t |-> "error"]>>],
  [context |-> TRUE, placed |-> TRUE, frames |-> None],
  [context |-> FALSE, placed |-> TRUE, frames |-> None]}
MCOutcomes == {
  Response(TRUE, <<1, 2>>, <<Chunk(<<7>>), [t |-> "Gate", gate |-> g1], Chunk(<<8, 9>>)>>, None),
  Response(FALSE, <<1>>, <<Chunk(<<7>>), [t |-> "Failure"], Chunk(<<8>>)>>, g1),
  Response(FALSE, None, <<[t |-> "Gate", gate |-> g1], [t |-> "Trailers"]>>, None),
  Failure(FALSE, None), Failure(TRUE, <<1, 2, 3>>)}
Symmetric == Permutations(Execs) \cup Permutations(Readers)
==============================================================================
