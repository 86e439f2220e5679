---------------------------- MODULE MCPagination ----------------------------
(* Every combination of controller, termination and flags, for a few sizes *)
(* and starts, against the honest server and against any server.           *)
EXTENDS Pagination

\* The honest server's list ends in a short page for size 2 and in a full one
\* for sizes 1 and 3
HonestCalls ==
    {c \in [kind : Kinds, start : {0, 1, 2}, size : 0 .. 3, mode : TerminationModes, max : {0, 1, 2, 3, 6},
            detectLoops : BOOLEAN, rendered : BOOLEAN, sendCursorOnFirst : BOOLEAN,
            stopWhenCursorMissing : BOOLEAN, honest : {TRUE}] :
       c.kind # "Cursor" => c.sendCursorOnFirst /\ c.stopWhenCursorMissing}

\* Any server: sizes and limits kept small
AnyCalls ==
    {c \in [kind : Kinds, start : {0, 4}, size : {1, 2}, mode : TerminationModes, max : 1 .. 4,
            detectLoops : BOOLEAN, rendered : {TRUE}, sendCursorOnFirst : BOOLEAN,
            stopWhenCursorMissing : BOOLEAN, honest : {FALSE}] :
       c.kind # "Cursor" => c.sendCursorOnFirst /\ c.stopWhenCursorMissing}

AllCalls == HonestCalls \cup AnyCalls
=============================================================================
