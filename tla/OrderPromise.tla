---------------------------- MODULE OrderPromise ----------------------------
(***************************************************************************)
(* What the orders of hosting plans promise, whoever confirms, matches,    *)
(* cancels or expires them: an order is closed once, as paid or unpaid,    *)
(* and what it buys is given once, and only after it was paid.             *)
(***************************************************************************)
EXTENDS Naturals

CONSTANT Orders

VARIABLES state,   \* where each order is: none, open, paid or closed unpaid
          given    \* how often what it buys was given to its account

Init == /\ state = [o \in Orders |-> "none"]
        /\ given = [o \in Orders |-> 0]

Make(o) == /\ state[o] = "none"
           /\ state' = [state EXCEPT ![o] = "open"]
           /\ UNCHANGED given

Pay(o) == /\ state[o] = "open"
          /\ state' = [state EXCEPT ![o] = "paid"]
          /\ UNCHANGED given

\* the orders whose time ran out, or whose account is deleted, close together
Close(closing) == /\ \A o \in closing : state[o] = "open"
                  /\ state' = [o \in Orders |-> IF o \in closing THEN "closed" ELSE state[o]]
                  /\ UNCHANGED given

Give(o) == /\ state[o] = "paid" /\ given[o] = 0
           /\ given' = [given EXCEPT ![o] = 1]
           /\ UNCHANGED state

Next == \/ \E o \in Orders : Make(o) \/ Pay(o) \/ Give(o)
        \/ \E closing \in SUBSET Orders : Close(closing)

Spec == Init /\ [][Next]_<<state, given>>
=============================================================================
