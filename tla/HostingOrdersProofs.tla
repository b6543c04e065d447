------------------------- MODULE HostingOrdersProofs -------------------------
(***************************************************************************)
(* Theorems about HostingOrders, for any number of orders, accounts,       *)
(* requests, totals and faults.                                            *)
(***************************************************************************)
EXTENDS HostingOrders, TLAPS

\* a request that is about to close or review an order holds that order
Targeted == \A p \in Procs : thread[p].at \in {"close", "review", "find", "apply"} => thread[p].order \in Orders

Fulfils(p) == thread[p].at \in {"find", "apply"}

\* the order a request is fulfilling is paid, and its plan was not given so far
Unserved == \A p \in Procs : Fulfils(p) => order[thread[p].order].status = "paid" /\ given[thread[p].order] = 0

\* only the call that closed the order fulfils it
Alone == \A p, q \in Procs : Fulfils(p) /\ Fulfils(q) /\ thread[p].order = thread[q].order => p = q

\* what was given was paid, and was given once
GivenOnce == \A o \in Orders : given[o] > 0 => given[o] = 1 /\ order[o].status = "paid"

IInv == TypeOK /\ Targeted /\ Unserved /\ Alone /\ GivenOnce

-----------------------------------------------------------------------------
(* The control of a thread *)

LEMMA IdleType == Idle \in Request
  BY DEF Idle, Request, Steps, Kinds

LEMMA GoesType == ASSUME thread \in [Procs -> Request], NEW p \in Procs, NEW step \in Steps, Goes(p, step)
                  PROVE  thread' \in [Procs -> Request]
  BY DEF Goes, Request

LEMMA EndsType == ASSUME thread \in [Procs -> Request], NEW p \in Procs, Ends(p)
                  PROVE  thread' \in [Procs -> Request]
  BY IdleType DEF Ends

LEMMA UndoType == ASSUME thread \in [Procs -> Request], NEW p \in Procs, Undo(p)
                  PROVE  thread' \in [Procs -> Request]
  <1>1. "unlist" \in Steps
    BY DEF Steps
  <1> QED BY <1>1, GoesType, EndsType DEF Undo

LEMMA BeginsType == ASSUME thread \in [Procs -> Request], NEW p \in Procs, NEW r \in Request, Begins(p, r)
                    PROVE  thread' \in [Procs -> Request]
  BY DEF Begins

LEMMA Loops == Threads \subseteq Procs /\ Loop \in Procs
  BY DEF Procs

-----------------------------------------------------------------------------
(* Types *)

LEMMA DroppingType == ASSUME TypeOK, NEW o \in Orders PROVE Dropping(o) \in Request
  <1>1. order[o] \in OrderRow
    BY DEF TypeOK
  <1> QED BY <1>1 DEF Dropping, Idle, Request, OrderRow, Steps, Kinds

LEMMA MovedType == ASSUME TypeOK, NEW o, NEW s \in Statuses PROVE Moved(o, s) \in [Orders -> OrderRow]
  BY DEF Moved, TypeOK, OrderRow

LEMMA TypesBegin == ASSUME TypeOK, NEW c \in Threads, Begin(c) PROVE TypeOK'
  <1> USE DEF TypeOK, NoHistory
  <1>p. c \in Procs
    BY Loops
  <1>1. ASSUME NEW a \in Accounts, NEW free \in BOOLEAN, NEW voucher \in BOOLEAN, NEW kind \in {"new", "trial"},
               SignUp(c, a, kind, free, voucher)
        PROVE  TypeOK'
    <2> DEFINE r == [Idle EXCEPT !.at = "provision", !.kind = kind, !.free = free, !.voucher = voucher, !.user = a]
    <2>1. r \in Request
      BY DEF Idle, Request, Steps, Kinds
    <2>2. thread' \in [Procs -> Request]
      BY <1>1, <1>p, <2>1, BeginsType DEF SignUp
    <2> QED BY <1>1, <2>2 DEF SignUp
  <1>2. ASSUME NEW a \in Accounts, NEW voucher \in BOOLEAN, Renew(c, a, voucher) PROVE TypeOK'
    <2> DEFINE r == [Idle EXCEPT !.at = IF voucher THEN "claim" ELSE "insert", !.kind = "renew", !.voucher = voucher, !.user = a]
    <2>1. r \in Request
      BY DEF Idle, Request, Steps, Kinds
    <2>2. thread' \in [Procs -> Request]
      BY <1>2, <1>p, <2>1, BeginsType DEF Renew
    <2> QED BY <1>2, <2>2 DEF Renew
  <1>3. ASSUME NEW o \in Orders, Arrive(c, o) PROVE TypeOK'
    <2> DEFINE r == [Idle EXCEPT !.at = "match", !.transfer = o, !.seen = InTime]
    <2>1. r \in Request
      BY DEF Idle, Request, Steps, Kinds, InTime
    <2>2. thread' \in [Procs -> Request]
      BY <1>3, <1>p, <2>1, BeginsType DEF Arrive
    <2>3. arrived' \in [Orders -> 0..Deliveries]
      BY <1>3, OrdersAssumption DEF Arrive
    <2> QED BY <1>3, <2>2, <2>3 DEF Arrive
  <1>4. ASSUME NEW o \in Orders, Confirm(c, o) PROVE TypeOK'
    <2> DEFINE r == [Idle EXCEPT !.at = "close", !.order = o, !.user = order[o].user]
    <2>1. r \in Request
      BY DEF Idle, Request, Steps, Kinds, OrderRow
    <2>2. thread' \in [Procs -> Request]
      BY <1>4, <1>p, <2>1, BeginsType DEF Confirm
    <2> QED BY <1>4, <2>2 DEF Confirm
  <1>5. ASSUME NEW o \in Orders, Cancel(c, o) PROVE TypeOK'
    <2>1. thread' \in [Procs -> Request]
      BY <1>5, <1>p, DroppingType, BeginsType DEF Cancel
    <2>2. order' \in [Orders -> OrderRow]
      BY <1>5, MovedType DEF Cancel, Statuses
    <2> QED BY <1>5, <2>1, <2>2 DEF Cancel
  <1>6. ASSUME NEW a \in Accounts, DeleteByHand(c, a) PROVE TypeOK'
    <2> DEFINE r == [Idle EXCEPT !.at = "unlist", !.user = a, !.hand = TRUE]
    <2>1. r \in Request
      BY DEF Idle, Request, Steps, Kinds
    <2>2. thread' \in [Procs -> Request]
      BY <1>6, <1>p, <2>1, BeginsType DEF DeleteByHand
    <2> QED BY <1>6, <2>2 DEF DeleteByHand
  <1> QED BY <1>1, <1>2, <1>3, <1>4, <1>5, <1>6 DEF Begin

LEMMA TypesRemove == ASSUME TypeOK, NEW p \in Procs, RemoveSteps(p) PROVE TypeOK'
  <1> USE DEF TypeOK, NoHistory
  <1>s. "others" \in Steps /\ "unlist" \in Steps /\ "remove" \in Steps
    BY DEF Steps
  <1>1. CASE Drop(p)
    <2>1. thread' \in [Procs -> Request]
      BY <1>1, <1>s, GoesType, EndsType DEF Drop
    <2> QED BY <1>1, <2>1 DEF Drop
  <1>2. CASE Others(p)
    <2>1. thread' \in [Procs -> Request]
      BY <1>2, <1>s, GoesType, EndsType DEF Others
    <2> QED BY <1>2, <2>1 DEF Others
  <1>3. CASE Unlist(p)
    <2>1. thread' \in [Procs -> Request]
      BY <1>3, <1>s, GoesType DEF Unlist
    <2>2. order' \in [Orders -> OrderRow]
      <3>1. \A o \in Orders : order[o] \in OrderRow /\ [order[o] EXCEPT !.status = "cancelled"] \in OrderRow
        BY DEF OrderRow, Statuses
      <3> QED BY <1>3, <3>1 DEF Unlist
    <2> QED BY <1>3, <2>1, <2>2 DEF Unlist
  <1>4. CASE Remove(p)
    <2>1. thread' \in [Procs -> Request]
      BY <1>4, EndsType DEF Remove
    <2>2. order' \in [Orders -> OrderRow]
      <3>1. \A o \in Orders : order[o] \in OrderRow /\ [order[o] EXCEPT !.user = None] \in OrderRow
        BY DEF OrderRow
      <3> QED BY <1>4, <3>1 DEF Remove
    <2> QED BY <1>4, <2>1, <2>2 DEF Remove
  <1> QED BY <1>1, <1>2, <1>3, <1>4 DEF RemoveSteps

LEMMA TypesGoOn == ASSUME TypeOK, Targeted, NEW c \in Threads, GoOn(c) PROVE TypeOK'
  <1> USE DEF TypeOK, NoHistory
  <1>p. c \in Procs
    BY Loops
  <1>s. /\ "claim" \in Steps /\ "insert" \in Steps /\ "unlist" \in Steps /\ "find" \in Steps
        /\ "apply" \in Steps /\ "activate" \in Steps /\ "close" \in Steps /\ "review" \in Steps
    BY DEF Steps
  <1>r. thread[c] \in Request /\ Released(c) \in Threads \cup {None}
    BY <1>p DEF Released
  <1>1. CASE Provision(c)
    <2>1. thread' \in [Procs -> Request]
      BY <1>1, <1>p, <1>s, GoesType DEF Provision
    <2>2. account' \in [Accounts -> {"none", "active", "pending", "gone"}]
      BY <1>1 DEF Provision
    <2> QED BY <1>1, <2>1, <2>2 DEF Provision
  <1>2. CASE Claim(c)
    <2>1. thread' \in [Procs -> Request]
      BY <1>2, <1>p, <1>s, GoesType, UndoType DEF Claim
    <2> QED BY <1>2, <2>1 DEF Claim
  <1>3. CASE Insert(c)
    <2> DEFINE r == thread[c]
    <2>1. PICK o \in Orders, t \in FreeTotals \cup {None} :
            /\ order' = [order EXCEPT ![o] = [status |-> InsertedAs(r), kind |-> r.kind, total |-> t,
                                              voucher |-> r.voucher, user |-> r.user, left |-> OrderLife]]
            /\ IF r.kind = "trial" /\ ~TrialApproval
                 THEN thread' = [thread EXCEPT ![c] = [r EXCEPT !.at = "close", !.order = o]]
                 ELSE Ends(c)
      BY <1>3 DEF Insert
    <2>2. thread' \in [Procs -> Request]
      <3>1. [r EXCEPT !.at = "close", !.order = o] \in Request
        BY <1>r, <1>s DEF Request
      <3> QED BY <2>1, <3>1, <1>p, EndsType
    <2>3. [status |-> InsertedAs(r), kind |-> r.kind, total |-> t, voucher |-> r.voucher,
           user |-> r.user, left |-> OrderLife] \in OrderRow
      BY <1>r, OrdersAssumption DEF OrderRow, InsertedAs, Statuses, Open, Request, FreeTotals
    <2>4. order' \in [Orders -> OrderRow]
      BY <2>1, <2>3
    <2> QED BY <1>3, <1>r, <2>2, <2>4 DEF Insert
  <1>4. CASE InsertFails(c)
    <2>1. thread' \in [Procs -> Request]
      BY <1>4, <1>p, UndoType DEF InsertFails
    <2> QED BY <1>4, <1>r, <2>1 DEF InsertFails
  <1>5. CASE Match(c)
    <2>1. thread' \in [Procs -> Request]
      <3>1. ASSUME NEW o \in Orders
            PROVE  [thread[c] EXCEPT !.at = IF AutoConfirm THEN "close" ELSE "review",
                                     !.order = o, !.user = order[o].user] \in Request
        <4>1. order[o] \in OrderRow
          OBVIOUS
        <4> QED BY <4>1, <1>r, <1>s DEF Request, OrderRow
      <3>2. CASE Ends(c)
        BY <3>2, <1>p, EndsType
      <3> QED BY <1>5, <1>p, <3>1, <3>2 DEF Match, PendingFor
    <2> QED BY <1>5, <2>1 DEF Match
  <1>6. CASE Review(c)
    <2>1. thread' \in [Procs -> Request]
      BY <1>6, <1>p, EndsType DEF Review
    <2>2. order' \in [Orders -> OrderRow]
      BY <1>6, MovedType DEF Review, Statuses, Open
    <2> QED BY <1>6, <2>1, <2>2 DEF Review
  <1>7. CASE Close(c)
    <2>1. thread' \in [Procs -> Request]
      BY <1>7, <1>p, <1>s, GoesType, EndsType DEF Close
    <2>2. order' \in [Orders -> OrderRow]
      BY <1>7, MovedType DEF Close, Statuses
    <2>3. paidBy' \in [Orders -> Orders \cup {None}]
      BY <1>7, <1>r DEF Close, Request
    <2> QED BY <1>7, <2>1, <2>2, <2>3 DEF Close
  <1>8. CASE Find(c)
    <2>1. [thread[c] EXCEPT !.at = "apply", !.waits = account[thread[c].user] = "pending"] \in Request
      BY <1>r, <1>s DEF Request
    <2>2. thread' = [thread EXCEPT ![c] = [thread[c] EXCEPT !.at = "apply", !.waits = account[thread[c].user] = "pending"]]
      BY <1>8, <1>p DEF Find
    <2>3. thread' \in [Procs -> Request]
      BY <2>1, <2>2
    <2> QED BY <1>8, <2>3 DEF Find
  <1>9. CASE Apply(c)
    <2>1. thread' \in [Procs -> Request]
      BY <1>9, <1>p, <1>s, GoesType DEF Apply
    <2>2. thread[c].order \in Orders
      BY <1>9, <1>p DEF Apply, Targeted
    <2>3. given' \in [Orders -> Nat]
      BY <1>9, <2>2 DEF Apply
    <2> QED BY <1>9, <2>1, <2>3 DEF Apply
  <1>10. CASE AlertSeller(c)
    <2>1. thread' \in [Procs -> Request]
      BY <1>10, <1>p, EndsType DEF AlertSeller
    <2>2. told' \subseteq Orders
      BY <1>10, <1>p DEF AlertSeller, Targeted
    <2> QED BY <1>10, <2>1, <2>2 DEF AlertSeller
  <1>11. CASE Activate(c)
    <2>1. thread' \in [Procs -> Request]
      BY <1>11, <1>p, EndsType DEF Activate
    <2> QED BY <1>11, <2>1 DEF Activate
  <1>12. CASE RemoveSteps(c)
    BY <1>12, <1>p, TypesRemove
  <1> QED BY <1>1, <1>2, <1>3, <1>4, <1>5, <1>6, <1>7, <1>8, <1>9, <1>10, <1>11, <1>12 DEF GoOn

LEMMA TypesOther == ASSUME TypeOK, Targeted, LoopStep \/ Faults \/ Tick PROVE TypeOK'
  <1> USE DEF TypeOK, NoHistory
  <1>1. CASE Expire
    <2>1. order' \in [Orders -> OrderRow]
      <3>1. \A o \in Orders : order[o] \in OrderRow /\ [order[o] EXCEPT !.status = "expired"] \in OrderRow
        BY DEF OrderRow, Statuses
      <3> QED BY <1>1, <3>1 DEF Expire
    <2> QED BY <1>1, <2>1 DEF Expire, Due
  <1>2. CASE RemoveSteps(Loop)
    BY <1>2, Loops, TypesRemove
  <1>3. ASSUME NEW o \in expired, NextExpired(o) PROVE TypeOK'
    <2>1. thread' \in [Procs -> Request]
      BY <1>3, Loops, DroppingType, BeginsType DEF NextExpired
    <2> QED BY <1>3, <2>1 DEF NextExpired
  <1>f. ASSUME Fault PROVE faults' \in 0..MaxFaults
    BY <1>f, OrdersAssumption DEF Fault
  <1>4. ASSUME NEW p \in Procs, Fail(p) PROVE TypeOK'
    <2>1. "unlist" \in Steps
      BY DEF Steps
    <2>2. thread' \in [Procs -> Request]
      BY <1>4, <2>1, GoesType, EndsType, UndoType DEF Fail
    <2>3. told' \subseteq Orders
      BY <1>4 DEF Fail, Targeted
    <2>4. voucherMu' \in Threads \cup {None}
      BY <1>4 DEF Fail, Released
    <2> QED BY <1>4, <1>f, <2>2, <2>3, <2>4 DEF Fail
  <1>5. ASSUME NEW c \in Threads, NotProvisioned(c) PROVE TypeOK'
    <2>1. thread' \in [Procs -> Request]
      BY <1>5, Loops, EndsType DEF NotProvisioned
    <2> QED BY <1>5, <1>f, <2>1 DEF NotProvisioned
  <1>6. CASE Crash
    BY <1>6, <1>f, IdleType DEF Crash
  <1>7. CASE Tick
    <2>1. order' \in [Orders -> OrderRow]
      <3>1. \A o \in Orders : order[o] \in OrderRow /\ [order[o] EXCEPT !.left = Countdown(@)] \in OrderRow
        BY OrdersAssumption DEF OrderRow, Countdown
      <3> QED BY <1>7, <3>1 DEF Tick
    <2> QED BY <1>7, <2>1 DEF Tick
  <1> QED BY <1>1, <1>2, <1>3, <1>4, <1>5, <1>6, <1>7 DEF LoopStep, Faults

-----------------------------------------------------------------------------
(* Who fulfils what *)

\* no thread turns to fulfilling an order, and whoever closes one holds one
Quiet == \A p \in Procs :
  /\ thread'[p].at \in {"close", "review"} => thread'[p].order \in Orders
  /\ thread'[p].at \in {"find", "apply"} => thread[p].at \in {"find", "apply"} /\ thread'[p].order = thread[p].order

\* paid orders stay paid, and nothing is given
Settled == /\ \A o \in Orders : order[o].status = "paid" => order'[o].status = "paid"
           /\ given' = given

LEMMA QuietKeeps == ASSUME IInv, Quiet, Settled
                    PROVE  Targeted' /\ Unserved' /\ Alone' /\ GivenOnce'
  <1>1. Targeted'
    BY DEF IInv, Quiet, Targeted
  <1>2. Unserved'
    BY DEF IInv, Quiet, Settled, Targeted, Unserved, Fulfils
  <1>3. Alone'
    BY DEF IInv, Quiet, Alone, Fulfils
  <1>4. GivenOnce'
    BY DEF IInv, Settled, GivenOnce
  <1> QED BY <1>1, <1>2, <1>3, <1>4

LEMMA EndsQuiet == ASSUME IInv, NEW p \in Procs, Ends(p) PROVE Quiet
  BY DEF IInv, TypeOK, Targeted, Ends, Idle, Quiet

LEMMA GoesQuiet == ASSUME IInv, NEW p \in Procs, NEW step \in Steps \ {"close", "review", "find", "apply"}, Goes(p, step)
                   PROVE  Quiet
  <1>1. thread \in [Procs -> Request] /\ thread[p] \in Request
    BY DEF IInv, TypeOK
  <1>2. thread'[p].at = step
    BY <1>1 DEF Goes, Request
  <1>3. \A q \in Procs : q # p => thread'[q] = thread[q]
    BY <1>1 DEF Goes
  <1> QED BY <1>2, <1>3 DEF IInv, Targeted, Quiet

LEMMA UndoQuiet == ASSUME IInv, NEW p \in Procs, Undo(p) PROVE Quiet
  <1>1. "unlist" \in Steps \ {"close", "review", "find", "apply"}
    BY DEF Steps
  <1> QED BY <1>1, GoesQuiet, EndsQuiet DEF Undo

LEMMA BeginsQuiet == ASSUME IInv, NEW p \in Procs, NEW r \in Request, r.at \notin {"find", "apply"},
                            r.at \in {"close", "review"} => r.order \in Orders, thread' = [thread EXCEPT ![p] = r]
                     PROVE  Quiet
  BY DEF IInv, TypeOK, Targeted, Quiet

\* what happens to the orders: an order that was open is closed or moved, or a row is made
LEMMA MovedSettles == ASSUME TypeOK, NEW o \in Orders, IsOpen(o), NEW s, order' = Moved(o, s), given' = given PROVE Settled
  BY DEF TypeOK, OrderRow, IsOpen, Open, Moved, Settled

LEMMA UnchangedSettles == ASSUME UNCHANGED <<order, given>> PROVE Settled
  BY DEF Settled

LEMMA BeginKeeps == ASSUME IInv, NEW c \in Threads, Begin(c) PROVE Quiet /\ Settled
  <1> USE DEF NoHistory, Begins
  <1>p. c \in Procs /\ TypeOK
    BY Loops DEF IInv
  <1>1. ASSUME NEW a \in Accounts, NEW free \in BOOLEAN, NEW voucher \in BOOLEAN, NEW kind \in {"new", "trial"},
               SignUp(c, a, kind, free, voucher)
        PROVE  Quiet /\ Settled
    <2> DEFINE r == [Idle EXCEPT !.at = "provision", !.kind = kind, !.free = free, !.voucher = voucher, !.user = a]
    <2>1. r \in Request /\ r.at = "provision"
      BY DEF Idle, Request, Steps, Kinds
    <2> QED BY <1>1, <1>p, <2>1, BeginsQuiet, UnchangedSettles DEF SignUp
  <1>2. ASSUME NEW a \in Accounts, NEW voucher \in BOOLEAN, Renew(c, a, voucher) PROVE Quiet /\ Settled
    <2> DEFINE r == [Idle EXCEPT !.at = IF voucher THEN "claim" ELSE "insert", !.kind = "renew", !.voucher = voucher, !.user = a]
    <2>1. r \in Request /\ r.at \in {"claim", "insert"}
      BY DEF Idle, Request, Steps, Kinds
    <2> QED BY <1>2, <1>p, <2>1, BeginsQuiet, UnchangedSettles DEF Renew
  <1>3. ASSUME NEW o \in Orders, Arrive(c, o) PROVE Quiet /\ Settled
    <2> DEFINE r == [Idle EXCEPT !.at = "match", !.transfer = o, !.seen = InTime]
    <2>1. r \in Request /\ r.at = "match"
      BY DEF Idle, Request, Steps, Kinds, InTime
    <2> QED BY <1>3, <1>p, <2>1, BeginsQuiet, UnchangedSettles DEF Arrive
  <1>4. ASSUME NEW o \in Orders, Confirm(c, o) PROVE Quiet /\ Settled
    <2> DEFINE r == [Idle EXCEPT !.at = "close", !.order = o, !.user = order[o].user]
    <2>1. r \in Request /\ r.at = "close" /\ r.order = o
      BY <1>p DEF Idle, Request, Steps, Kinds, OrderRow, TypeOK
    <2> QED BY <1>4, <1>p, <2>1, BeginsQuiet, UnchangedSettles DEF Confirm
  <1>5. ASSUME NEW o \in Orders, Cancel(c, o) PROVE Quiet /\ Settled
    <2>1. Dropping(o) \in Request /\ Dropping(o).at = "drop"
      BY <1>p, DroppingType DEF Dropping, Idle
    <2> QED BY <1>5, <1>p, <2>1, BeginsQuiet, MovedSettles DEF Cancel
  <1>6. ASSUME NEW a \in Accounts, DeleteByHand(c, a) PROVE Quiet /\ Settled
    <2> DEFINE r == [Idle EXCEPT !.at = "unlist", !.user = a, !.hand = TRUE]
    <2>1. r \in Request /\ r.at = "unlist"
      BY DEF Idle, Request, Steps, Kinds
    <2> QED BY <1>6, <1>p, <2>1, BeginsQuiet, UnchangedSettles DEF DeleteByHand
  <1> QED BY <1>1, <1>2, <1>3, <1>4, <1>5, <1>6 DEF Begin

LEMMA RemoveKeeps == ASSUME IInv, NEW p \in Procs, RemoveSteps(p) PROVE Quiet /\ Settled
  <1> USE DEF NoHistory
  <1>s. \A step \in {"others", "unlist", "remove"} : step \in Steps \ {"close", "review", "find", "apply"}
    BY DEF Steps
  <1>t. TypeOK
    BY DEF IInv
  <1>1. CASE Drop(p)
    BY <1>1, <1>s, GoesQuiet, EndsQuiet, UnchangedSettles DEF Drop
  <1>2. CASE Others(p)
    BY <1>2, <1>s, GoesQuiet, EndsQuiet, UnchangedSettles DEF Others
  <1>3. CASE Unlist(p)
    <2>1. Settled
      BY <1>3, <1>t DEF Unlist, Settled, IsOpen, Open
    <2> QED BY <1>3, <1>s, <2>1, GoesQuiet DEF Unlist
  <1>4. CASE Remove(p)
    <2>1. Settled
      BY <1>4, <1>t DEF Remove, Settled, TypeOK, OrderRow
    <2> QED BY <1>4, <2>1, EndsQuiet DEF Remove
  <1> QED BY <1>1, <1>2, <1>3, <1>4 DEF RemoveSteps

LEMMA InsertShape == ASSUME TypeOK, NEW c \in Procs, Insert(c)
                     PROVE  \E o \in Orders, row \in OrderRow :
                              /\ order[o].status = "absent" /\ row.status \in Open
                              /\ order' = [order EXCEPT ![o] = row]
                              /\ \/ Ends(c)
                                 \/ thread' = [thread EXCEPT ![c] = [thread[c] EXCEPT !.at = "close", !.order = o]]
  <1> DEFINE r == thread[c]
  <1>1. PICK o \in Orders, t \in FreeTotals \cup {None} :
          /\ order[o].status = "absent"
          /\ order' = [order EXCEPT ![o] = [status |-> InsertedAs(r), kind |-> r.kind, total |-> t,
                                            voucher |-> r.voucher, user |-> r.user, left |-> OrderLife]]
          /\ IF r.kind = "trial" /\ ~TrialApproval
               THEN thread' = [thread EXCEPT ![c] = [r EXCEPT !.at = "close", !.order = o]]
               ELSE Ends(c)
    BY DEF Insert
  <1> DEFINE row == [status |-> InsertedAs(r), kind |-> r.kind, total |-> t, voucher |-> r.voucher,
                     user |-> r.user, left |-> OrderLife]
  <1>2. row \in OrderRow /\ row.status \in Open
    BY OrdersAssumption DEF TypeOK, OrderRow, InsertedAs, Statuses, Open, Request, FreeTotals
  <1> QED BY <1>1, <1>2

LEMMA CloseKeeps == ASSUME IInv, NEW c \in Procs, Close(c)
                    PROVE  Targeted' /\ Unserved' /\ Alone' /\ GivenOnce'
  <1> DEFINE o == thread[c].order
  <1>1. TypeOK /\ Targeted /\ Unserved /\ Alone /\ GivenOnce /\ thread[c].at = "close" /\ o \in Orders
    BY DEF IInv, Close, Targeted
  <1>2. CASE ~IsOpen(o)
    <2>1. Ends(c) /\ UNCHANGED <<order, given>>
      BY <1>2 DEF Close
    <2> QED BY <2>1, EndsQuiet, UnchangedSettles, QuietKeeps
  <1>3. CASE IsOpen(o)
    <2>1. /\ order' = Moved(o, "paid") /\ given' = given
          /\ thread' = [thread EXCEPT ![c].at = "find"]
      BY <1>3 DEF Close, Goes
    <2>2. /\ order'[o].status = "paid"
          /\ \A p \in Orders : p # o => order'[p] = order[p]
      BY <1>1, <2>1 DEF Moved, TypeOK, OrderRow
    <2>3. thread'[c].at = "find" /\ thread'[c].order = o /\ \A q \in Procs : q # c => thread'[q] = thread[q]
      BY <1>1, <2>1 DEF TypeOK, Request
    <2>4. given[o] = 0
      BY <1>1, <1>3 DEF GivenOnce, IsOpen, Open, TypeOK
    <2>5. \A q \in Procs : Fulfils(q) => thread[q].order # o
      BY <1>1, <1>3 DEF Unserved, IsOpen, Open
    <2>6. Targeted'
      BY <1>1, <2>3 DEF Targeted
    <2>7. Unserved'
      BY <1>1, <2>1, <2>2, <2>3, <2>4 DEF Unserved, Fulfils, Targeted
    <2>8. Alone'
      BY <1>1, <2>3, <2>5 DEF Alone, Fulfils
    <2>9. GivenOnce'
      BY <1>1, <2>1, <2>2 DEF GivenOnce
    <2> QED BY <2>6, <2>7, <2>8, <2>9
  <1> QED BY <1>2, <1>3

LEMMA ApplyKeeps == ASSUME IInv, NEW c \in Procs, Apply(c)
                    PROVE  Targeted' /\ Unserved' /\ Alone' /\ GivenOnce'
  <1> DEFINE o == thread[c].order
  <1>1. TypeOK /\ Targeted /\ Unserved /\ Alone /\ GivenOnce /\ thread[c].at = "apply" /\ Fulfils(c) /\ o \in Orders
    BY DEF IInv, Apply, Targeted, Fulfils
  <1>2. given' = [given EXCEPT ![o] = @ + 1] /\ order' = order /\ thread' = [thread EXCEPT ![c].at = "activate"]
    BY DEF Apply, Goes
  <1>3. thread'[c].at = "activate" /\ \A q \in Procs : q # c => thread'[q] = thread[q]
    BY <1>1, <1>2 DEF TypeOK, Request
  <1>4. order[o].status = "paid" /\ given'[o] = 1 /\ \A p \in Orders : p # o => given'[p] = given[p]
    BY <1>1, <1>2 DEF Unserved, TypeOK
  <1>5. \A q \in Procs : q # c /\ Fulfils(q) => thread[q].order # o
    BY <1>1 DEF Alone
  <1>6. Targeted'
    BY <1>1, <1>3 DEF Targeted
  <1>7. Unserved'
    BY <1>1, <1>2, <1>3, <1>4, <1>5 DEF Unserved, Fulfils, Targeted
  <1>8. Alone'
    BY <1>1, <1>3 DEF Alone, Fulfils
  <1>9. GivenOnce'
    BY <1>1, <1>2, <1>4 DEF GivenOnce
  <1> QED BY <1>6, <1>7, <1>8, <1>9

LEMMA GoOnKeeps == ASSUME IInv, NEW c \in Threads, GoOn(c)
                   PROVE  Targeted' /\ Unserved' /\ Alone' /\ GivenOnce'
  <1> USE DEF NoHistory
  <1>p. c \in Procs /\ TypeOK /\ thread[c] \in Request
    BY Loops DEF IInv, TypeOK
  <1>s. \A step \in {"claim", "insert", "unlist", "activate"} : step \in Steps \ {"close", "review", "find", "apply"}
    BY DEF Steps
  <1>q. ASSUME Quiet, UNCHANGED <<order, given>> PROVE Targeted' /\ Unserved' /\ Alone' /\ GivenOnce'
    BY <1>q, UnchangedSettles, QuietKeeps
  <1>1. CASE Provision(c)
    BY <1>1, <1>p, <1>s, <1>q, GoesQuiet DEF Provision
  <1>2. CASE Claim(c)
    BY <1>2, <1>p, <1>s, <1>q, GoesQuiet, UndoQuiet DEF Claim
  <1>3. CASE Insert(c)
    <2>1. PICK o \in Orders, row \in OrderRow :
            /\ order[o].status = "absent"
            /\ order' = [order EXCEPT ![o] = row]
            /\ \/ Ends(c)
               \/ thread' = [thread EXCEPT ![c] = [thread[c] EXCEPT !.at = "close", !.order = o]]
      BY <1>3, <1>p, InsertShape
    <2>2. Settled
      BY <1>3, <1>p, <2>1 DEF Insert, Settled, TypeOK
    <2>3. Quiet
      <3> DEFINE r == [thread[c] EXCEPT !.at = "close", !.order = o]
      <3>1. r \in Request /\ r.at = "close" /\ r.order = o
        BY <1>p DEF Request, Steps
      <3>2. thread' = [thread EXCEPT ![c] = r] => Quiet
        BY <1>p, <3>1, BeginsQuiet
      <3>3. Ends(c) => Quiet
        BY <1>p, EndsQuiet
      <3> QED BY <2>1, <3>2, <3>3
    <2> QED BY <2>2, <2>3, QuietKeeps
  <1>4. CASE InsertFails(c)
    BY <1>4, <1>p, <1>q, UndoQuiet DEF InsertFails
  <1>5. CASE Match(c)
    <2>1. ASSUME NEW o \in Orders,
                 thread' = [thread EXCEPT ![c] = [thread[c] EXCEPT !.at = IF AutoConfirm THEN "close" ELSE "review",
                                                                   !.order = o, !.user = order[o].user]]
          PROVE  Quiet
      <3> DEFINE r == [thread[c] EXCEPT !.at = IF AutoConfirm THEN "close" ELSE "review",
                                        !.order = o, !.user = order[o].user]
      <3>1. r \in Request /\ r.at \in {"close", "review"} /\ r.order = o
        BY <1>p DEF Request, Steps, TypeOK, OrderRow
      <3> QED BY <1>p, <2>1, <3>1, BeginsQuiet
    <2>2. Quiet
      BY <1>5, <1>p, <2>1, EndsQuiet DEF Match, PendingFor
    <2> QED BY <1>5, <1>q, <2>2 DEF Match
  <1>6. CASE Review(c)
    <2>1. thread[c].order \in Orders
      BY <1>6, <1>p DEF Review, IInv, Targeted
    <2>2. given' = given /\ Ends(c) /\ (IsOpen(thread[c].order) \/ order' = order)
      BY <1>6 DEF Review
    <2>3. IsOpen(thread[c].order) => order' = Moved(thread[c].order, "review")
      BY <1>6 DEF Review
    <2>4. Settled
      BY <1>p, <2>1, <2>2, <2>3, MovedSettles, UnchangedSettles
    <2> QED BY <1>p, <2>2, <2>4, EndsQuiet, QuietKeeps
  <1>7. CASE Close(c)
    BY <1>7, <1>p, CloseKeeps
  <1>8. CASE Find(c)
    <2>1. thread' = [thread EXCEPT ![c] = [thread[c] EXCEPT !.at = "apply", !.waits = account[thread[c].user] = "pending"]]
      BY <1>8, <1>p DEF Find, TypeOK
    <2> DEFINE r == [thread[c] EXCEPT !.at = "apply", !.waits = account[thread[c].user] = "pending"]
    <2>2. r.at = "apply" /\ r.order = thread[c].order /\ thread[c].at = "find"
      BY <1>8, <1>p DEF Find, Request
    <2>3. Quiet
      BY <1>p, <2>1, <2>2 DEF Quiet, IInv, TypeOK, Targeted
    <2> QED BY <1>8, <1>q, <2>3 DEF Find
  <1>9. CASE Apply(c)
    BY <1>9, <1>p, ApplyKeeps
  <1>10. CASE AlertSeller(c)
    BY <1>10, <1>p, <1>q, EndsQuiet DEF AlertSeller
  <1>11. CASE Activate(c)
    BY <1>11, <1>p, <1>q, EndsQuiet DEF Activate
  <1>12. CASE RemoveSteps(c)
    BY <1>12, <1>p, RemoveKeeps, QuietKeeps
  <1> QED BY <1>1, <1>2, <1>3, <1>4, <1>5, <1>6, <1>7, <1>8, <1>9, <1>10, <1>11, <1>12 DEF GoOn

LEMMA OtherKeeps == ASSUME IInv, LoopStep \/ Faults \/ Tick
                    PROVE  Targeted' /\ Unserved' /\ Alone' /\ GivenOnce'
  <1> USE DEF NoHistory
  <1>t. TypeOK
    BY DEF IInv
  <1>q. ASSUME Quiet, UNCHANGED <<order, given>> PROVE Targeted' /\ Unserved' /\ Alone' /\ GivenOnce'
    BY <1>q, UnchangedSettles, QuietKeeps
  <1>i. ASSUME UNCHANGED thread PROVE Quiet
    BY <1>i DEF Quiet, IInv, Targeted
  <1>1. CASE Expire
    <2>1. Settled
      BY <1>1, <1>t DEF Expire, Due, Settled
    <2> QED BY <1>1, <1>i, <2>1, QuietKeeps DEF Expire
  <1>2. CASE RemoveSteps(Loop)
    BY <1>2, Loops, RemoveKeeps, QuietKeeps
  <1>3. ASSUME NEW o \in expired, NextExpired(o) PROVE Targeted' /\ Unserved' /\ Alone' /\ GivenOnce'
    <2>1. Dropping(o) \in Request /\ Dropping(o).at = "drop"
      BY <1>t, DroppingType DEF Dropping, Idle, TypeOK
    <2>2. Quiet
      BY <1>3, <2>1, Loops, BeginsQuiet DEF NextExpired, Begins
    <2> QED BY <1>3, <1>q, <2>2 DEF NextExpired
  <1>4. ASSUME NEW p \in Procs, Fail(p) PROVE Targeted' /\ Unserved' /\ Alone' /\ GivenOnce'
    <2>1. "unlist" \in Steps \ {"close", "review", "find", "apply"}
      BY DEF Steps
    <2>2. Quiet
      BY <1>4, <2>1, GoesQuiet, EndsQuiet, UndoQuiet DEF Fail
    <2> QED BY <1>4, <1>q, <2>2 DEF Fail
  <1>5. ASSUME NEW c \in Threads, NotProvisioned(c) PROVE Targeted' /\ Unserved' /\ Alone' /\ GivenOnce'
    BY <1>5, <1>q, Loops, EndsQuiet DEF NotProvisioned
  <1>6. CASE Crash
    <2>1. Quiet
      BY <1>6 DEF Crash, Quiet, Idle
    <2> QED BY <1>6, <1>q, <2>1 DEF Crash
  <1>7. CASE Tick
    <2>1. Settled
      BY <1>7, <1>t DEF Tick, Settled, TypeOK, OrderRow
    <2> QED BY <1>7, <1>i, <2>1, QuietKeeps DEF Tick
  <1> QED BY <1>1, <1>2, <1>3, <1>4, <1>5, <1>6, <1>7 DEF LoopStep, Faults

LEMMA InitHolds == Init => IInv
  <1> SUFFICES ASSUME Init PROVE IInv
    OBVIOUS
  <1> USE DEF Init
  <1>n. NoOrder \in OrderRow
    <2>1. 0 \in 0..OrderLife
      BY OrdersAssumption
    <2> QED BY <2>1 DEF NoOrder, OrderRow, Statuses, Open, Kinds
  <1>0. 0 \in Nat /\ 0 \in 0..MaxFaults /\ 0 \in 0..Deliveries
    BY OrdersAssumption
  <1>1. TypeOK
    BY <1>n, <1>0, IdleType DEF TypeOK
  <1>2. \A p \in Procs : thread[p].at = "idle"
    BY DEF Idle
  <1>3. Targeted /\ Unserved /\ Alone
    BY <1>2 DEF Targeted, Unserved, Alone, Fulfils
  <1>4. GivenOnce
    BY DEF GivenOnce
  <1> QED BY <1>1, <1>3, <1>4 DEF IInv

LEMMA NextKeeps == IInv /\ [Next]_vars => IInv'
  <1> SUFFICES ASSUME IInv, [Next]_vars PROVE IInv'
    OBVIOUS
  <1>t. TypeOK /\ Targeted
    BY DEF IInv
  <1>1. ASSUME NEW c \in Threads, Begin(c) PROVE IInv'
    BY <1>1, <1>t, TypesBegin, BeginKeeps, QuietKeeps DEF IInv
  <1>2. ASSUME NEW c \in Threads, GoOn(c) PROVE IInv'
    BY <1>2, <1>t, TypesGoOn, GoOnKeeps DEF IInv
  <1>3. CASE LoopStep \/ Faults \/ Tick
    BY <1>3, <1>t, TypesOther, OtherKeeps DEF IInv
  <1>4. CASE UNCHANGED vars
    BY <1>4 DEF vars, IInv, TypeOK, Targeted, Unserved, Alone, Fulfils, GivenOnce
  <1> QED BY <1>1, <1>2, <1>3, <1>4 DEF Next

\* Every reachable state has IInv: it is inductive, and what the theorems below rest on.
THEOREM Inductive == Spec => []IInv
  BY InitHolds, NextKeeps, PTL DEF Spec

\* The rows of hosting_orders and users and what the requests hold keep their types.
THEOREM Types == Spec => []TypeOK
  <1>1. IInv => TypeOK
    BY DEF IInv
  <1> QED BY <1>1, Inductive, PTL

\* fulfillOrder "is safe to call twice": however many confirms, matches and trials race for an order, its plan is
\* given at most once, and only for an order that is, and stays, paid.
THEOREM Once == Spec => []GivenOnce
  <1>1. IInv => GivenOnce
    BY DEF IInv
  <1> QED BY <1>1, Inductive, PTL

-----------------------------------------------------------------------------
(* Every step is a step of the promise, or none *)

States == [o \in Orders |-> StateOf(o)]

PromiseStep == [Promise!Next]_<<States, given>>

\* a step that moves no order and gives nothing stutters
LEMMA Stutters == ASSUME \A o \in Orders : StateOf(o)' = StateOf(o), given' = given PROVE PromiseStep
  <1>1. UNCHANGED <<States, given>>
    BY DEF States
  <1> QED BY <1>1 DEF PromiseStep

LEMMA StatusStutters == ASSUME \A o \in Orders : order'[o].status = order[o].status, given' = given PROVE PromiseStep
  BY Stutters DEF StateOf

\* a step that closes some open orders unpaid
LEMMA Closes == ASSUME NEW closing \in SUBSET Orders, given' = given,
                       \A o \in closing : IsOpen(o) /\ order'[o].status \in {"expired", "cancelled"},
                       \A o \in Orders \ closing : order'[o].status = order[o].status
                PROVE  PromiseStep
  <1>1. \A o \in closing : StateOf(o) = "open" /\ StateOf(o)' = "closed"
    BY DEF StateOf, IsOpen, Open
  <1>2. \A o \in Orders \ closing : StateOf(o)' = StateOf(o)
    BY DEF StateOf
  <1>3. States' = [o \in Orders |-> IF o \in closing THEN "closed" ELSE States[o]]
    BY <1>1, <1>2 DEF States
  <1>4. Promise!Close(closing)
    BY <1>1, <1>3 DEF Promise!Close, States
  <1> QED BY <1>4 DEF PromiseStep, Promise!Next

\* the order a step makes, pays or gives
LEMMA Makes == ASSUME TypeOK, NEW o \in Orders, NEW row \in OrderRow, order[o].status = "absent", row.status \in Open,
                      order' = [order EXCEPT ![o] = row], given' = given
               PROVE  PromiseStep
  <1>1. StateOf(o) = "none" /\ StateOf(o)' = "open"
    BY DEF StateOf, Open, TypeOK
  <1>2. \A p \in Orders \ {o} : StateOf(p)' = StateOf(p)
    BY DEF StateOf, TypeOK
  <1>3. States' = [States EXCEPT ![o] = "open"]
    BY <1>1, <1>2 DEF States
  <1>4. Promise!Make(o)
    BY <1>1, <1>3 DEF Promise!Make, States
  <1> QED BY <1>4 DEF PromiseStep, Promise!Next

LEMMA Pays == ASSUME TypeOK, NEW o \in Orders, IsOpen(o), order' = Moved(o, "paid"), given' = given PROVE PromiseStep
  <1>1. StateOf(o) = "open" /\ StateOf(o)' = "paid"
    BY DEF StateOf, IsOpen, Open, Moved, TypeOK, OrderRow
  <1>2. \A p \in Orders \ {o} : StateOf(p)' = StateOf(p)
    BY DEF StateOf, Moved, TypeOK
  <1>3. States' = [States EXCEPT ![o] = "paid"]
    BY <1>1, <1>2 DEF States
  <1>4. Promise!Pay(o)
    BY <1>1, <1>3 DEF Promise!Pay, States
  <1> QED BY <1>4 DEF PromiseStep, Promise!Next

LEMMA Gives == ASSUME TypeOK, NEW o \in Orders, order[o].status = "paid", given[o] = 0,
                      given' = [given EXCEPT ![o] = @ + 1], order' = order
               PROVE  PromiseStep
  <1>1. StateOf(o) = "paid" /\ \A p \in Orders : StateOf(p)' = StateOf(p)
    BY DEF StateOf, Open
  <1>2. States' = States /\ States[o] = "paid"
    BY <1>1 DEF States
  <1>3. given' = [given EXCEPT ![o] = 1]
    BY DEF TypeOK
  <1>4. Promise!Give(o)
    BY <1>2, <1>3 DEF Promise!Give, States
  <1> QED BY <1>4 DEF PromiseStep, Promise!Next

LEMMA BeginMaps == ASSUME IInv, NEW c \in Threads, Begin(c) PROVE PromiseStep
  <1> USE DEF NoHistory
  <1>1. CASE UNCHANGED <<order, given>>
    BY <1>1, StatusStutters
  <1>2. ASSUME NEW o \in Orders, Cancel(c, o) PROVE PromiseStep
    <2>1. IsOpen(o) /\ order' = Moved(o, "cancelled") /\ given' = given
      BY <1>2 DEF Cancel
    <2>2. order'[o].status = "cancelled" /\ \A p \in Orders \ {o} : order'[p].status = order[p].status
      BY <2>1 DEF Moved, IInv, TypeOK, OrderRow
    <2>3. {o} \in SUBSET Orders
      OBVIOUS
    <2> QED BY <2>1, <2>2, <2>3, Closes
  <1> QED BY <1>1, <1>2 DEF Begin, SignUp, Renew, Arrive, Confirm, DeleteByHand

LEMMA RemoveMaps == ASSUME IInv, NEW p \in Procs, RemoveSteps(p) PROVE PromiseStep
  <1> USE DEF NoHistory
  <1>t. TypeOK
    BY DEF IInv
  <1>1. CASE UNCHANGED <<order, given>>
    BY <1>1, StatusStutters
  <1>2. CASE Unlist(p)
    <2> DEFINE closing == {o \in Orders : IsOpen(o) /\ order[o].user = thread[p].user}
    <2>1. /\ \A o \in closing : IsOpen(o) /\ order'[o].status \in {"expired", "cancelled"}
          /\ \A o \in Orders \ closing : order'[o].status = order[o].status
      BY <1>2, <1>t DEF Unlist, TypeOK, OrderRow
    <2>2. given' = given /\ closing \in SUBSET Orders
      BY <1>2 DEF Unlist
    <2> QED BY <2>1, <2>2, Closes
  <1>3. CASE Remove(p)
    <2>1. \A o \in Orders : order'[o].status = order[o].status
      BY <1>3, <1>t DEF Remove, TypeOK, OrderRow
    <2> QED BY <1>3, <2>1, StatusStutters DEF Remove
  <1> QED BY <1>1, <1>2, <1>3 DEF RemoveSteps, Drop, Others

LEMMA GoOnMaps == ASSUME IInv, NEW c \in Threads, GoOn(c) PROVE PromiseStep
  <1> USE DEF NoHistory
  <1>p. c \in Procs /\ TypeOK /\ Targeted /\ Unserved
    BY Loops DEF IInv
  <1>1. CASE UNCHANGED <<order, given>>
    BY <1>1, StatusStutters
  <1>2. CASE Insert(c)
    BY <1>2, <1>p, InsertShape, Makes DEF Insert
  <1>3. CASE Review(c)
    <2> DEFINE o == thread[c].order
    <2>1. o \in Orders /\ given' = given /\ order' = (IF IsOpen(o) THEN Moved(o, "review") ELSE order)
      BY <1>3, <1>p DEF Review, Targeted
    <2>2. \A q \in Orders : StateOf(q)' = StateOf(q)
      BY <1>p, <2>1 DEF StateOf, IsOpen, Open, Moved, TypeOK, OrderRow
    <2> QED BY <2>1, <2>2, Stutters
  <1>4. CASE Close(c)
    <2>1. IsOpen(thread[c].order) => order' = Moved(thread[c].order, "paid")
      BY <1>4 DEF Close
    <2>2. ~IsOpen(thread[c].order) => order' = order
      BY <1>4 DEF Close
    <2>3. thread[c].order \in Orders /\ given' = given
      BY <1>4, <1>p DEF Close, Targeted
    <2> QED BY <1>p, <2>1, <2>2, <2>3, Pays, StatusStutters
  <1>5. CASE Apply(c)
    <2> DEFINE o == thread[c].order
    <2>1. o \in Orders /\ order[o].status = "paid" /\ given[o] = 0
      BY <1>5, <1>p DEF Apply, Targeted, Unserved, Fulfils
    <2>2. given' = [given EXCEPT ![o] = @ + 1] /\ order' = order
      BY <1>5 DEF Apply
    <2> QED BY <1>p, <2>1, <2>2, Gives
  <1>6. CASE RemoveSteps(c)
    BY <1>6, <1>p, RemoveMaps
  <1> QED BY <1>1, <1>2, <1>3, <1>4, <1>5, <1>6
          DEF GoOn, Provision, Claim, InsertFails, Match, Find, AlertSeller, Activate

LEMMA OtherMaps == ASSUME IInv, LoopStep \/ Faults \/ Tick PROVE PromiseStep
  <1> USE DEF NoHistory
  <1>t. TypeOK
    BY DEF IInv
  <1>1. CASE UNCHANGED <<order, given>>
    BY <1>1, StatusStutters
  <1>2. CASE Expire
    <2>1. /\ \A o \in Due : IsOpen(o) /\ order'[o].status \in {"expired", "cancelled"}
          /\ \A o \in Orders \ Due : order'[o].status = order[o].status
      BY <1>2, <1>t DEF Expire, Due, IsOpen, Open, TypeOK, OrderRow
    <2>2. given' = given /\ Due \in SUBSET Orders
      BY <1>2 DEF Expire, Due
    <2> QED BY <2>1, <2>2, Closes
  <1>3. CASE RemoveSteps(Loop)
    BY <1>3, Loops, RemoveMaps
  <1>4. CASE Tick
    <2>1. \A o \in Orders : order'[o].status = order[o].status
      BY <1>4, <1>t DEF Tick, TypeOK, OrderRow
    <2> QED BY <1>4, <2>1, StatusStutters DEF Tick
  <1> QED BY <1>1, <1>2, <1>3, <1>4 DEF LoopStep, NextExpired, Faults, Fail, NotProvisioned, Crash

\* The orders implement OrderPromise: MarkOrderPaid, SetOrderStatus, ExpireHostingOrders and DeleteUser may race in
\* any order, an order is closed once, and only the call that closed it as paid gives its plan, once.
THEOREM Implements == Spec => KeepsThePromise
  <1>1. Init => Promise!Init
    <2> SUFFICES ASSUME Init PROVE Promise!Init
      OBVIOUS
    <2>1. \A o \in Orders : StateOf(o) = "none"
      <3>1. \A o \in Orders : order[o].status = "absent"
        BY DEF Init, NoOrder
      <3> QED BY <3>1 DEF StateOf, Open
    <2>2. [o \in Orders |-> StateOf(o)] = [o \in Orders |-> "none"]
      BY <2>1
    <2> QED BY <2>2 DEF Init, Promise!Init
  <1>2. IInv /\ [Next]_vars => PromiseStep
    <2> SUFFICES ASSUME IInv, [Next]_vars PROVE PromiseStep
      OBVIOUS
    <2>1. CASE UNCHANGED vars
      BY <2>1, StatusStutters DEF vars
    <2> QED BY <2>1, BeginMaps, GoOnMaps, OtherMaps DEF Next
  <1>3. PromiseStep => [Promise!Next]_<<[o \in Orders |-> StateOf(o)], given>>
    BY DEF PromiseStep, States
  <1> QED BY <1>1, <1>2, <1>3, Inductive, PTL DEF Spec, KeepsThePromise, Promise!Spec

-----------------------------------------------------------------------------
(* Which transfer pays an order *)

Waits(o) == order[o].status = "pending"

\* no two waiting orders ask for the same total (the partial unique index on hosting_orders)
TotalsApart == \A o, q \in Orders : Waits(o) /\ Waits(q) /\ order[o].total = order[q].total /\ order[o].total # None => o = q

\* a total is given to a row as it is made
NoTotalBefore == \A o \in Orders : order[o].status = "absent" => order[o].total = None

\* whom a notification that is being matched can mean: of the orders it may pay, only its own asks for that total
Recognises(r) ==
  /\ r.transfer \in Orders /\ order[r.transfer].total # None /\ order[r.transfer].status # "absent"
  /\ \A o \in r.seen : /\ order[o].status # "absent"
                       /\ Waits(o) /\ order[o].total = order[r.transfer].total /\ ~LateTransfers => o = r.transfer

\* the transfer that was made for order x may close order o
Covers(x, o) ==
  /\ {x, o} \subseteq Orders /\ order[x].status # "absent" /\ order[o].status # "absent"
  /\ order[x].total = order[o].total
  /\ ~LateTransfers => x = o

\* what a request holds of a transfer: whoever closes an order does it with one that may, or by hand
Faithful(r) == /\ r.at = "match" => Recognises(r)
               /\ r.at \in {"provision", "claim", "insert"} => r.transfer = None
               /\ r.at = "close" => r.transfer = None \/ Covers(r.transfer, r.order)
AllFaithful == \A p \in Procs : Faithful(thread[p])

Covered == \A o \in Orders : paidBy[o] = None \/ Covers(paidBy[o], o)

\* no order is closed by a transfer of another total
PaidInFull == \A o \in Orders : paidBy[o] # None => order[paidBy[o]].total = order[o].total

OwnInv == TotalsApart /\ NoTotalBefore /\ AllFaithful /\ Covered

\* no order that is there starts to wait, and its total stays
RowsKept == \A o \in Orders :
  /\ order[o].status # "absent" => /\ order'[o].status # "absent" /\ order'[o].total = order[o].total
                                   /\ order'[o].status = "pending" => Waits(o)
  /\ order'[o].status = "absent" => order'[o].total = order[o].total

\* nor is one made that waits
NoneMade == \A o \in Orders : order[o].status = "absent" => order'[o].status # "pending"

\* a request that matches nothing, and would close an order by hand
Bare(r) == r.at # "match" /\ (r.at \in {"provision", "claim", "insert", "close"} => r.transfer = None)
BareSteps == \A p \in Procs : thread'[p] = thread[p] \/ Bare(thread'[p])

LEMMA Apart == ASSUME TotalsApart, RowsKept, NoneMade PROVE TotalsApart'
  BY DEF TotalsApart, Waits, RowsKept, NoneMade

LEMMA StaysBlank == ASSUME NoTotalBefore, RowsKept PROVE NoTotalBefore'
  BY DEF NoTotalBefore, RowsKept

LEMMA StaysFaithful == ASSUME TypeOK, RowsKept, NEW p \in Procs, Faithful(thread[p]), thread'[p] = thread[p]
                       PROVE  Faithful(thread[p])'
  <1>1. thread[p].seen \subseteq Orders
    BY DEF TypeOK, Request
  <1>2. Recognises(thread[p]) => Recognises(thread[p])'
    BY <1>1 DEF Recognises, RowsKept, Waits
  <1>3. Covers(thread[p].transfer, thread[p].order) => Covers(thread[p].transfer, thread[p].order)'
    BY DEF Covers, RowsKept
  <1> QED BY <1>2, <1>3 DEF Faithful

LEMMA BareFaithful == ASSUME NEW p \in Procs, Bare(thread'[p]) PROVE Faithful(thread[p])'
  BY DEF Bare, Faithful

LEMMA StepFaithful == ASSUME TypeOK, AllFaithful, RowsKept, BareSteps PROVE AllFaithful'
  <1>1. ASSUME NEW p \in Procs PROVE Faithful(thread[p])'
    BY StaysFaithful, BareFaithful DEF AllFaithful, BareSteps
  <1> QED BY <1>1 DEF AllFaithful

LEMMA StaysCovered == ASSUME Covered, RowsKept, paidBy' = paidBy PROVE Covered'
  BY DEF Covered, Covers, RowsKept

LEMMA BareKeeps == ASSUME TypeOK, OwnInv, RowsKept, NoneMade, BareSteps, paidBy' = paidBy PROVE OwnInv'
  <1> QED BY Apart, StaysBlank, StepFaithful, StaysCovered DEF OwnInv

LEMMA EndsBare == ASSUME TypeOK, NEW p \in Procs, Ends(p) PROVE BareSteps
  BY DEF TypeOK, Ends, Idle, Bare, BareSteps

LEMMA BeginsBare == ASSUME TypeOK, NEW p \in Procs, NEW r, thread' = [thread EXCEPT ![p] = r], Bare(r) PROVE BareSteps
  BY DEF TypeOK, BareSteps

LEMMA GoesBare == ASSUME TypeOK, NEW p \in Procs, NEW step, Goes(p, step), step \notin {"match", "close"},
                         step \in {"provision", "claim", "insert"} => thread[p].transfer = None
                  PROVE  BareSteps
  <1>1. thread \in [Procs -> Request] /\ thread[p] \in Request
    BY DEF TypeOK
  <1>2. thread'[p].at = step /\ thread'[p].transfer = thread[p].transfer
    BY <1>1 DEF Goes, Request
  <1>3. \A q \in Procs : q # p => thread'[q] = thread[q]
    BY <1>1 DEF Goes
  <1> QED BY <1>2, <1>3 DEF Bare, BareSteps

LEMMA UndoBare == ASSUME TypeOK, NEW p \in Procs, Undo(p) PROVE BareSteps
  BY GoesBare, EndsBare DEF Undo

LEMMA SameRows == ASSUME order' = order PROVE RowsKept /\ NoneMade
  BY DEF RowsKept, NoneMade, Waits

LEMMA MovedRows == ASSUME TypeOK, NEW o \in Orders, IsOpen(o), NEW s \in {"review", "paid", "cancelled"}, order' = Moved(o, s)
                   PROVE  RowsKept /\ NoneMade
  BY DEF TypeOK, OrderRow, IsOpen, Open, Moved, RowsKept, NoneMade, Waits

-----------------------------------------------------------------------------
(* ... kept by every step *)

LEMMA ArriveOwn == ASSUME TypeOK, OwnInv, NEW c \in Threads, NEW o \in Orders, Arrive(c, o) PROVE OwnInv'
  <1> DEFINE r == [Idle EXCEPT !.at = "match", !.transfer = o, !.seen = InTime]
  <1>1. /\ order' = order /\ paidBy' = paidBy /\ order[o].total # None /\ order[o].status # "absent"
        /\ ~LateTransfers => Waits(o)
    BY DEF Arrive, Waits, OwnInv, NoTotalBefore
  <1>2. thread' = [thread EXCEPT ![c] = r] /\ c \in Procs
    BY Loops DEF Arrive, Begins
  <1>3. r.at = "match" /\ r.transfer = o /\ r.seen = InTime
    BY DEF Idle
  <1>4. thread'[c] = r /\ \A q \in Procs : q # c => thread'[q] = thread[q]
    BY <1>2 DEF TypeOK
  <1>5. Recognises(thread[c])'
    BY <1>1, <1>3, <1>4 DEF Recognises, InTime, OwnInv, TotalsApart, Waits
  <1>6. Faithful(thread[c])'
    BY <1>3, <1>4, <1>5 DEF Faithful
  <1>7. \A q \in Procs : Faithful(thread[q])'
    BY <1>1, <1>4, <1>6, SameRows, StaysFaithful DEF OwnInv, AllFaithful
  <1>8. TotalsApart' /\ NoTotalBefore' /\ Covered'
    BY <1>1, SameRows, Apart, StaysBlank, StaysCovered DEF OwnInv
  <1> QED BY <1>7, <1>8 DEF OwnInv, AllFaithful

LEMMA BeginOwn == ASSUME TypeOK, OwnInv, NEW c \in Threads, Begin(c) PROVE OwnInv'
  <1> USE DEF NoHistory, Begins
  <1>p. c \in Procs
    BY Loops
  <1>1. ASSUME NEW a \in Accounts, NEW free \in BOOLEAN, NEW voucher \in BOOLEAN, NEW kind \in {"new", "trial"},
               SignUp(c, a, kind, free, voucher)
        PROVE  OwnInv'
    <2> DEFINE r == [Idle EXCEPT !.at = "provision", !.kind = kind, !.free = free, !.voucher = voucher, !.user = a]
    <2>1. Bare(r)
      BY DEF Idle, Bare
    <2> QED BY <1>1, <1>p, <2>1, BeginsBare, SameRows, BareKeeps DEF SignUp
  <1>2. ASSUME NEW a \in Accounts, NEW voucher \in BOOLEAN, Renew(c, a, voucher) PROVE OwnInv'
    <2> DEFINE r == [Idle EXCEPT !.at = IF voucher THEN "claim" ELSE "insert", !.kind = "renew", !.voucher = voucher, !.user = a]
    <2>1. Bare(r)
      BY DEF Idle, Bare
    <2> QED BY <1>2, <1>p, <2>1, BeginsBare, SameRows, BareKeeps DEF Renew
  <1>3. ASSUME NEW o \in Orders, Arrive(c, o) PROVE OwnInv'
    BY <1>3, ArriveOwn
  <1>4. ASSUME NEW o \in Orders, Confirm(c, o) PROVE OwnInv'
    <2> DEFINE r == [Idle EXCEPT !.at = "close", !.order = o, !.user = order[o].user]
    <2>1. Bare(r)
      BY DEF Idle, Bare
    <2> QED BY <1>4, <1>p, <2>1, BeginsBare, SameRows, BareKeeps DEF Confirm
  <1>5. ASSUME NEW o \in Orders, Cancel(c, o) PROVE OwnInv'
    <2>1. Bare(Dropping(o))
      BY DEF Dropping, Idle, Bare
    <2> QED BY <1>5, <1>p, <2>1, BeginsBare, MovedRows, BareKeeps DEF Cancel
  <1>6. ASSUME NEW a \in Accounts, DeleteByHand(c, a) PROVE OwnInv'
    <2> DEFINE r == [Idle EXCEPT !.at = "unlist", !.user = a, !.hand = TRUE]
    <2>1. Bare(r)
      BY DEF Idle, Bare
    <2> QED BY <1>6, <1>p, <2>1, BeginsBare, SameRows, BareKeeps DEF DeleteByHand
  <1> QED BY <1>1, <1>2, <1>3, <1>4, <1>5, <1>6 DEF Begin

LEMMA RemoveOwn == ASSUME TypeOK, OwnInv, NEW p \in Procs, RemoveSteps(p) PROVE OwnInv'
  <1> USE DEF NoHistory
  <1>1. CASE Drop(p)
    BY <1>1, GoesBare, EndsBare, SameRows, BareKeeps DEF Drop
  <1>2. CASE Others(p)
    BY <1>2, GoesBare, EndsBare, SameRows, BareKeeps DEF Others
  <1>3. CASE Unlist(p)
    <2>1. RowsKept /\ NoneMade
      BY <1>3 DEF Unlist, TypeOK, OrderRow, IsOpen, Open, RowsKept, NoneMade, Waits
    <2> QED BY <1>3, <2>1, GoesBare, BareKeeps DEF Unlist
  <1>4. CASE Remove(p)
    <2>1. RowsKept /\ NoneMade
      BY <1>4 DEF Remove, TypeOK, OrderRow, RowsKept, NoneMade, Waits
    <2> QED BY <1>4, <2>1, EndsBare, BareKeeps DEF Remove
  <1> QED BY <1>1, <1>2, <1>3, <1>4 DEF RemoveSteps

LEMMA InsertOwn == ASSUME TypeOK, OwnInv, NEW c \in Threads, Insert(c) PROVE OwnInv'
  <1> DEFINE r == thread[c]
  <1>p. c \in Procs /\ r.transfer = None
    BY Loops DEF OwnInv, AllFaithful, Faithful, Insert
  <1>1. PICK o \in Orders, t \in FreeTotals \cup {None} :
          /\ order[o].status = "absent"
          /\ order' = [order EXCEPT ![o] = [status |-> InsertedAs(r), kind |-> r.kind, total |-> t,
                                            voucher |-> r.voucher, user |-> r.user, left |-> OrderLife]]
          /\ IF r.kind = "trial" /\ ~TrialApproval
               THEN thread' = [thread EXCEPT ![c] = [r EXCEPT !.at = "close", !.order = o]]
               ELSE Ends(c)
    BY DEF Insert
  <1>2. order'[o].total = t /\ \A q \in Orders : q # o => order'[q] = order[q]
    BY <1>1 DEF TypeOK
  <1>3. RowsKept
    BY <1>1, <1>2 DEF RowsKept, Waits, TypeOK, InsertedAs
  <1>4. BareSteps
    <2> DEFINE s == [r EXCEPT !.at = "close", !.order = o]
    <2>1. Bare(s)
      BY <1>p DEF Bare, TypeOK, Request
    <2> QED BY <1>1, <1>p, <2>1, EndsBare, BeginsBare
  <1>5. TotalsApart'
    <2>1. \A q \in Orders : q # o /\ order'[q].status = "pending" => order'[q].total # t \/ t = None
      BY <1>2 DEF FreeTotals
    <2> QED BY <1>2, <2>1 DEF OwnInv, TotalsApart, Waits
  <1>6. NoTotalBefore' /\ Covered'
    BY <1>3, StaysBlank, StaysCovered DEF Insert, NoHistory, OwnInv
  <1> QED BY <1>3, <1>4, <1>5, <1>6, StepFaithful DEF OwnInv

LEMMA MatchOwn == ASSUME TypeOK, OwnInv, NEW c \in Threads, Match(c) PROVE OwnInv'
  <1> USE DEF NoHistory
  <1> DEFINE r == thread[c]
  <1>1. c \in Procs /\ r.at = "match" /\ Recognises(r) /\ order' = order /\ paidBy' = paidBy
    BY Loops DEF OwnInv, AllFaithful, Faithful, Match
  <1>2. CASE Ends(c)
    BY <1>1, <1>2, EndsBare, SameRows, BareKeeps
  <1>3. ASSUME NEW o \in PendingFor(order[r.transfer].total, r.seen),
               thread' = [thread EXCEPT ![c] = [r EXCEPT !.at = IF AutoConfirm THEN "close" ELSE "review",
                                                         !.order = o, !.user = order[o].user]]
        PROVE  OwnInv'
    <2>1. Covers(r.transfer, o)
      BY <1>1 DEF PendingFor, Recognises, Covers, Waits
    <2> DEFINE s == [r EXCEPT !.at = IF AutoConfirm THEN "close" ELSE "review", !.order = o, !.user = order[o].user]
    <2>2. s.at \in {"close", "review"} /\ s.transfer = r.transfer /\ s.order = o
      BY <1>1 DEF TypeOK, Request
    <2>3. thread'[c] = s /\ \A q \in Procs : q # c => thread'[q] = thread[q]
      BY <1>1, <1>3 DEF TypeOK
    <2>4. Faithful(thread[c])'
      BY <1>1, <2>1, <2>2, <2>3 DEF Faithful, Covers
    <2>5. \A q \in Procs : Faithful(thread[q])'
      BY <1>1, <2>3, <2>4, SameRows, StaysFaithful DEF OwnInv, AllFaithful
    <2>6. TotalsApart' /\ NoTotalBefore' /\ Covered'
      BY <1>1, SameRows, Apart, StaysBlank, StaysCovered DEF OwnInv
    <2> QED BY <2>5, <2>6 DEF OwnInv, AllFaithful
  <1> QED BY <1>2, <1>3 DEF Match

LEMMA CloseOwn == ASSUME IInv, OwnInv, NEW c \in Threads, Close(c) PROVE OwnInv'
  <1> DEFINE o == thread[c].order
  <1>1. c \in Procs /\ TypeOK /\ o \in Orders /\ (thread[c].transfer = None \/ Covers(thread[c].transfer, o))
    BY Loops DEF IInv, Targeted, Close, OwnInv, AllFaithful, Faithful
  <1>2. CASE ~IsOpen(o)
    BY <1>1, <1>2, EndsBare, SameRows, BareKeeps DEF Close
  <1>3. CASE IsOpen(o)
    <2>1. order' = Moved(o, "paid") /\ paidBy' = [paidBy EXCEPT ![o] = thread[c].transfer] /\ Goes(c, "find")
      BY <1>3 DEF Close
    <2>2. TotalsApart' /\ NoTotalBefore' /\ AllFaithful'
      BY <1>1, <1>3, <2>1, MovedRows, GoesBare, Apart, StaysBlank, StepFaithful DEF OwnInv
    <2>3. PICK x, q : x = thread[c].transfer /\ q = o
      OBVIOUS
    <2>4. \A p \in Orders : paidBy'[p] = IF p = q THEN x ELSE paidBy[p]
      BY <1>1, <2>1, <2>3 DEF TypeOK
    <2>5. RowsKept
      BY <1>1, <1>3, <2>1, MovedRows
    <2>6. x = None \/ Covers(x, q)'
      BY <1>1, <2>3, <2>5 DEF Covers, RowsKept
    <2>7. ASSUME NEW p \in Orders, p # q PROVE paidBy'[p] = None \/ Covers(paidBy[p], p)'
      BY <2>4, <2>5, <2>7 DEF OwnInv, Covered, Covers, RowsKept
    <2>8. paidBy'[q] = None \/ Covers(paidBy[q], q)'
      BY <1>1, <2>3, <2>4, <2>6 DEF Covers
    <2>9. Covered'
      BY <2>7, <2>8 DEF Covered
    <2> QED BY <2>2, <2>9 DEF OwnInv
  <1> QED BY <1>2, <1>3

LEMMA GoOnOwn == ASSUME IInv, OwnInv, NEW c \in Threads, GoOn(c) PROVE OwnInv'
  <1> USE DEF NoHistory
  <1>p. c \in Procs /\ TypeOK /\ Faithful(thread[c])
    BY Loops DEF IInv, OwnInv, AllFaithful
  <1>1. CASE Provision(c)
    BY <1>1, <1>p, GoesBare, SameRows, BareKeeps DEF Provision, Faithful
  <1>2. CASE Claim(c)
    BY <1>2, <1>p, GoesBare, UndoBare, SameRows, BareKeeps DEF Claim, Faithful
  <1>3. CASE InsertFails(c)
    BY <1>3, <1>p, UndoBare, SameRows, BareKeeps DEF InsertFails
  <1>4. CASE Review(c)
    <2>1. RowsKept /\ NoneMade
      BY <1>4, <1>p, SameRows, MovedRows DEF Review, IInv, Targeted
    <2> QED BY <1>4, <1>p, <2>1, EndsBare, BareKeeps DEF Review
  <1>5. CASE Find(c)
    <2> DEFINE s == [thread[c] EXCEPT !.at = "apply", !.waits = account[thread[c].user] = "pending"]
    <2>1. thread' = [thread EXCEPT ![c] = s]
      BY <1>5, <1>p DEF Find, TypeOK
    <2>2. Bare(s)
      BY <1>p DEF TypeOK, Request, Bare
    <2> QED BY <1>5, <1>p, <2>1, <2>2, BeginsBare, SameRows, BareKeeps DEF Find
  <1>6. CASE Apply(c)
    BY <1>6, <1>p, GoesBare, SameRows, BareKeeps DEF Apply
  <1>7. CASE AlertSeller(c)
    BY <1>7, <1>p, EndsBare, SameRows, BareKeeps DEF AlertSeller
  <1>8. CASE Activate(c)
    BY <1>8, <1>p, EndsBare, SameRows, BareKeeps DEF Activate
  <1> QED BY <1>1, <1>2, <1>3, <1>4, <1>5, <1>6, <1>7, <1>8, <1>p, InsertOwn, MatchOwn, CloseOwn, RemoveOwn DEF GoOn

LEMMA OtherOwn == ASSUME TypeOK, OwnInv, LoopStep \/ Faults \/ Tick PROVE OwnInv'
  <1> USE DEF NoHistory
  <1>i. UNCHANGED thread => BareSteps
    BY DEF BareSteps
  <1>1. CASE Expire
    <2>1. RowsKept /\ NoneMade
      BY <1>1 DEF Expire, Due, TypeOK, OrderRow, RowsKept, NoneMade, Waits
    <2> QED BY <1>1, <1>i, <2>1, BareKeeps DEF Expire
  <1>2. ASSUME NEW o \in expired, NextExpired(o) PROVE OwnInv'
    <2>1. Bare(Dropping(o))
      BY DEF Dropping, Idle, Bare
    <2> QED BY <1>2, <2>1, Loops, BeginsBare, SameRows, BareKeeps DEF NextExpired, Begins
  <1>3. ASSUME NEW p \in Procs, Fail(p) PROVE OwnInv'
    <2>1. BareSteps
      BY <1>3, GoesBare, EndsBare, UndoBare DEF Fail
    <2> QED BY <1>3, <2>1, SameRows, BareKeeps DEF Fail
  <1>4. ASSUME NEW c \in Threads, NotProvisioned(c) PROVE OwnInv'
    BY <1>4, Loops, EndsBare, SameRows, BareKeeps DEF NotProvisioned
  <1>5. CASE Crash
    <2>1. BareSteps
      BY <1>5 DEF Crash, Idle, Bare, BareSteps
    <2> QED BY <1>5, <2>1, SameRows, BareKeeps DEF Crash
  <1>6. CASE Tick
    <2>1. RowsKept /\ NoneMade
      BY <1>6 DEF Tick, TypeOK, OrderRow, RowsKept, NoneMade, Waits
    <2> QED BY <1>6, <1>i, <2>1, BareKeeps DEF Tick
  <1> QED BY <1>1, <1>2, <1>3, <1>4, <1>5, <1>6, Loops, RemoveOwn DEF LoopStep, Faults

LEMMA OwnInductive == Spec => []OwnInv
  <1>1. Init => OwnInv
    <2> SUFFICES ASSUME Init PROVE OwnInv
      OBVIOUS
    <2>1. TotalsApart /\ NoTotalBefore /\ Covered
      BY DEF Init, NoOrder, TotalsApart, NoTotalBefore, Covered, Waits
    <2>2. \A p \in Procs : thread[p].at = "idle"
      BY DEF Init, Idle
    <2> QED BY <2>1, <2>2 DEF OwnInv, AllFaithful, Faithful
  <1>2. IInv /\ OwnInv /\ [Next]_vars => OwnInv'
    <2> SUFFICES ASSUME IInv, OwnInv, [Next]_vars PROVE OwnInv'
      OBVIOUS
    <2>t. TypeOK
      BY DEF IInv
    <2>1. CASE UNCHANGED vars
      BY <2>t, <2>1, SameRows, BareKeeps DEF vars, BareSteps
    <2> QED BY <2>t, <2>1, BeginOwn, GoOnOwn, OtherOwn DEF Next
  <1> QED BY <1>1, <1>2, Inductive, PTL DEF Spec

\* No order is ever closed by a transfer of another total, however late or often a transfer comes, whatever is
\* confirmed by hand meanwhile, and whichever orders expire and free their total for the next.
THEOREM OwnTotal == Spec => []PaidInFull
  <1>1. OwnInv => PaidInFull
    BY DEF OwnInv, Covered, Covers, PaidInFull
  <1> QED BY <1>1, OwnInductive, PTL

\* The transfer that closes an order is the one made for it, as long as transfers come while their order waits:
\* totals are given again, the notification is matched later than it came, and orders expire, are reviewed and are made
\* in between, but the time of the notification tells the orders apart that had the same total.
THEOREM OwnTransfer == ASSUME LateTransfers = FALSE PROVE Spec => []EachPaysItsOwn
  <1>1. OwnInv => EachPaysItsOwn
    BY DEF OwnInv, Covered, Covers, EachPaysItsOwn
  <1> QED BY <1>1, OwnInductive, PTL
=============================================================================
