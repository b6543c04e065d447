--------------------------- MODULE MCNotifyOutbox ---------------------------
(***************************************************************************)
(* Instances of NotifyOutbox for TLC.  Processes p1 and p2 run one after   *)
(* the other; w1 and w2 belong to p1, w3 and w4 to p2.                     *)
(***************************************************************************)
EXTENDS NotifyOutbox

MCToOne == [m \in Msg |-> "a"]
\* the newest message is urgent
MCPrio == [m \in Msg |-> IF \A n \in Msg : n <= m THEN 0 ELSE 1]
MCPoolOf == [w \in Worker |-> IF w \in {"w1", "w2"} THEN "p1" ELSE "p2"]
MCRetryDelay == [n \in 1 .. MaxAttempts - 1 |-> 1]
=============================================================================
