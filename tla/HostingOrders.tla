---------------------------- MODULE HostingOrders ----------------------------
(***************************************************************************)
(* Orders of hosting plans, the accounts that buyers make with them, the   *)
(* bank notifications that pay them and the loop that lets them expire.    *)
(*                                                                         *)
(* Every request is a thread of its own, and so is the expiry loop; a      *)
(* thread runs from one database statement to the next, so the steps of    *)
(* two requests interleave between any two statements. The plan an order   *)
(* buys is given in one step here; how an account moves from plan to plan  *)
(* is not looked into.                                                     *)
(***************************************************************************)
EXTENDS Naturals, FiniteSets

CONSTANTS
  Accounts,      \* rows of users
  Members,       \* the accounts that are on a plan from the start
  MaxOrders,     \* orders are numbered from 1 as they are made
  Totals,        \* the totals a draw of the unique code can give
  Threads,       \* requests in progress at once
  Loop,          \* the thread of the expiry loop
  None,          \* no account, no order, no total, no thread
  OrderLife,     \* ticks an order waits for its payment
  VoucherUses,   \* how many orders may hold the voucher; 0: none is offered
  AutoConfirm,   \* a matching transfer pays at once (else it asks for a review)
  TrialApproval, \* a trial waits for the superadmin
  ByHand,        \* the superadmin deletes accounts
  LateTransfers, \* a transfer may arrive when its order is no longer open
  Deliveries,    \* how often the notification of one transfer may arrive
  MaxFaults      \* crashes and failed statements in one run

Orders == 1..MaxOrders

ASSUME OrdersAssumption ==
  /\ MaxOrders \in Nat /\ OrderLife \in Nat \ {0} /\ VoucherUses \in Nat
  /\ Deliveries \in Nat /\ MaxFaults \in Nat /\ Members \subseteq Accounts
  /\ AutoConfirm \in BOOLEAN /\ TrialApproval \in BOOLEAN
  /\ ByHand \in BOOLEAN /\ LateTransfers \in BOOLEAN
  /\ Loop \notin Threads
  /\ None \notin Accounts \cup Totals \cup Orders \cup Threads \cup {Loop}

VARIABLES
  order,       \* hosting_orders
  account,     \* users.status, "none" before the row is made and "gone" after
  thread,      \* what each thread is doing, and what it has read
  expired,     \* the orders the loop has closed and not looked at since
  voucherMu,   \* who holds voucherMu
  given,       \* history: how often the plan of an order was given
  told,        \* history: paid orders the seller was told about as failed
  arrived,     \* history: how often the transfer for an order has arrived
  paidBy,      \* history: the transfer that closed an order
  faults       \* crashes and failed statements so far

vars == <<order, account, thread, expired, voucherMu, given, told, arrived, paidBy, faults>>

Kinds == {"new", "renew", "trial"}
Open == {"pending", "review"}
Statuses == Open \cup {"absent", "paid", "expired", "cancelled"}
Procs == Threads \cup {Loop}

\* at: the statement the thread comes to next; the rest is what it holds in memory
Steps == {"idle", "provision", "claim", "insert", "match", "review", "close", "find",
          "apply", "activate", "drop", "others", "unlist", "remove"}

OrderRow == [status : Statuses, kind : Kinds, total : Totals \cup {None}, voucher : BOOLEAN,
             user : Accounts \cup {None}, left : 0..OrderLife]

Request == [at : Steps, kind : Kinds, free : BOOLEAN, voucher : BOOLEAN, waits : BOOLEAN,
            hand : BOOLEAN, user : Accounts \cup {None}, order : Orders \cup {None},
            transfer : Orders \cup {None}, seen : SUBSET Orders]

TypeOK == /\ order \in [Orders -> OrderRow]
          /\ account \in [Accounts -> {"none", "active", "pending", "gone"}]
          /\ thread \in [Procs -> Request]
          /\ expired \subseteq Orders
          /\ voucherMu \in Threads \cup {None}
          /\ given \in [Orders -> Nat]
          /\ told \subseteq Orders
          /\ arrived \in [Orders -> 0..Deliveries]
          /\ paidBy \in [Orders -> Orders \cup {None}]
          /\ faults \in 0..MaxFaults

NoOrder == [status |-> "absent", kind |-> "new", total |-> None, voucher |-> FALSE,
            user |-> None, left |-> 0]
Idle == [at |-> "idle", kind |-> "new", free |-> FALSE, voucher |-> FALSE, waits |-> FALSE,
         hand |-> FALSE, user |-> None, order |-> None, transfer |-> None, seen |-> {}]

Init == /\ order = [o \in Orders |-> NoOrder]
        /\ account = [a \in Accounts |-> IF a \in Members THEN "active" ELSE "none"]
        /\ thread = [p \in Procs |-> Idle]
        /\ expired = {}
        /\ voucherMu = None
        /\ given = [o \in Orders |-> 0]
        /\ told = {}
        /\ arrived = [o \in Orders |-> 0]
        /\ paidBy = [o \in Orders |-> None]
        /\ faults = 0

-----------------------------------------------------------------------------
(* Conditions the statements look at                                       *)

IsOpen(o) == order[o].status \in Open
Exists(a) == a # None /\ account[a] \in {"active", "pending"}

\* UserOpenOrder: the newest order of the account that is open and in time
OpenOrders(a, k) == {o \in Orders : IsOpen(o) /\ order[o].user = a /\ order[o].kind = k /\ order[o].left > 0}
Newest(orders) == CHOOSE o \in orders : \A p \in orders : p <= o

\* the renewal that is shown again instead of a new one
Waiting(a) == LET open == OpenOrders(a, "renew")
              IN  open # {} /\ order[Newest(open)].status = "pending"

\* the partial unique index on the totals of waiting orders
FreeTotals == {t \in Totals : \A o \in Orders : order[o].status = "pending" => order[o].total # t}

VoucherUsed == {o \in Orders : order[o].voucher /\ order[o].status \in Open \cup {"paid"}}

\* a bound of the model: only as many requests make orders as there are orders left to make
Room == Cardinality({o \in Orders : order[o].status = "absent"})
          > Cardinality({c \in Threads : thread[c].at \in {"provision", "claim", "insert"}})

OnPlan(a) == a \in Members \/ \E o \in Orders : order[o].user = a /\ given[o] > 0

\* mutant: the time of the payment is not looked at
PendingWhenever(t, seen) == {o \in Orders : order[o].status = "pending" /\ order[o].total = t}

\* PendingOrdersForTotal: seen are the orders that were made, and in time, when the notification came
PendingFor(t, seen) == {o \in Orders : order[o].status = "pending" /\ order[o].total = t /\ o \in seen}

InTime == {o \in Orders : order[o].status # "absent" /\ order[o].left > 0}

-----------------------------------------------------------------------------
(* Requests                                                                *)

Goes(p, step) == thread' = [thread EXCEPT ![p].at = step]
Ends(p) == thread' = [thread EXCEPT ![p] = Idle]
Begins(p, r) == thread[p].at = "idle" /\ thread' = [thread EXCEPT ![p] = r]

NoHistory == UNCHANGED <<given, told, arrived, paidBy, faults>>

\* handlePublicCreateOrder: the row of the account is made first, and is active by default
SignUp(c, a, kind, free, voucher) ==
  /\ account[a] = "none" /\ Room
  /\ voucher => kind = "new" /\ VoucherUses > 0
  /\ free => kind = "new"
  /\ Begins(c, [Idle EXCEPT !.at = "provision", !.kind = kind, !.free = free, !.voucher = voucher, !.user = a])
  /\ account' = [account EXCEPT ![a] = "active"]
  /\ UNCHANGED <<order, expired, voucherMu>> /\ NoHistory

\* then, with its OS account made, it is set to wait for the payment
Provision(c) ==
  /\ thread[c].at = "provision"
  /\ account' = [account EXCEPT ![thread[c].user] = IF @ = "active" THEN "pending" ELSE @]
  /\ Goes(c, IF thread[c].voucher THEN "claim" ELSE "insert")
  /\ UNCHANGED <<order, expired, voucherMu>> /\ NoHistory

\* handleRenewMyPlan, up to the look at the order already waiting
Renew(c, a, voucher) ==
  /\ account[a] = "active" /\ OnPlan(a) /\ ~Waiting(a) /\ Room
  /\ voucher => VoucherUses > 0
  /\ Begins(c, [Idle EXCEPT !.at = IF voucher THEN "claim" ELSE "insert", !.kind = "renew", !.voucher = voucher, !.user = a])
  /\ UNCHANGED <<order, account, expired, voucherMu>> /\ NoHistory

\* what becomes of the request when its order cannot be made
Undo(c) == IF thread[c].kind = "renew" THEN Ends(c) ELSE Goes(c, "unlist")

\* mutant: the lock is not taken
ClaimsUnlocked(c) ==
  /\ thread[c].at = "claim"
  /\ IF Cardinality(VoucherUsed) < VoucherUses THEN Goes(c, "insert") ELSE Undo(c)
  /\ UNCHANGED <<order, account, expired, voucherMu>> /\ NoHistory

\* claimVoucher, under voucherMu
Claim(c) ==
  /\ thread[c].at = "claim" /\ voucherMu = None
  /\ IF Cardinality(VoucherUsed) < VoucherUses
       THEN voucherMu' = c /\ Goes(c, "insert")
       ELSE UNCHANGED voucherMu /\ Undo(c)
  /\ UNCHANGED <<order, account, expired>> /\ NoHistory

Released(c) == IF voucherMu = c THEN None ELSE voucherMu

\* a trial or a free order asks for no transfer
HasTotal(r) == r.kind # "trial" /\ ~r.free
InsertedAs(r) == IF r.free \/ (r.kind = "trial" /\ TrialApproval) THEN "review" ELSE "pending"

\* CreateHostingOrder: the row, with a total no waiting order has; the row needs its account
Insert(c) ==
  LET r == thread[c]
  IN  /\ r.at = "insert" /\ Exists(r.user)
      /\ \E o \in Orders, t \in FreeTotals \cup {None} :
           /\ order[o].status = "absent" /\ \A p \in 1..(o - 1) : order[p].status # "absent"
           /\ HasTotal(r) <=> t # None
           /\ order' = [order EXCEPT ![o] = [status |-> InsertedAs(r), kind |-> r.kind, total |-> t,
                                             voucher |-> r.voucher, user |-> r.user, left |-> OrderLife]]
           /\ IF r.kind = "trial" /\ ~TrialApproval
                THEN thread' = [thread EXCEPT ![c] = [r EXCEPT !.at = "close", !.order = o]]
                ELSE Ends(c)
      /\ voucherMu' = Released(c)
      /\ UNCHANGED <<account, expired>> /\ NoHistory

\* the account is gone, or every draw met a total that a waiting order has
InsertFails(c) ==
  /\ thread[c].at = "insert"
  /\ \/ ~Exists(thread[c].user)
     \/ HasTotal(thread[c]) /\ FreeTotals # Totals
  /\ Undo(c)
  /\ voucherMu' = Released(c)
  /\ UNCHANGED <<order, account, expired>> /\ NoHistory

-----------------------------------------------------------------------------
(* Payments                                                                *)

\* the notification of the transfer for order o is stored: what is seen is fixed by its time
Arrive(c, o) ==
  /\ order[o].total # None /\ arrived[o] < Deliveries
  /\ LateTransfers \/ (order[o].status = "pending" /\ order[o].left > 0)
  /\ Begins(c, [Idle EXCEPT !.at = "match", !.transfer = o, !.seen = InTime])
  /\ arrived' = [arrived EXCEPT ![o] = @ + 1]
  /\ UNCHANGED <<order, account, expired, voucherMu, given, told, paidBy, faults>>

\* matchHostingOrderPayment: exactly one candidate counts
Match(c) ==
  LET r == thread[c]
      candidates == PendingFor(order[r.transfer].total, r.seen)
  IN  /\ r.at = "match"
      /\ \/ \E o \in candidates :
              /\ candidates = {o}
              /\ thread' = [thread EXCEPT ![c] = [r EXCEPT !.at = IF AutoConfirm THEN "close" ELSE "review",
                                                           !.order = o, !.user = order[o].user]]
         \/ Cardinality(candidates) # 1 /\ Ends(c)
      /\ UNCHANGED <<order, account, expired, voucherMu>> /\ NoHistory

Moved(o, status) == [order EXCEPT ![o].status = status]

\* SetOrderStatus of the match, when the superadmin confirms every payment
Review(c) ==
  /\ thread[c].at = "review"
  /\ order' = IF IsOpen(thread[c].order) THEN Moved(thread[c].order, "review") ELSE order
  /\ Ends(c)
  /\ UNCHANGED <<account, expired, voucherMu>> /\ NoHistory

\* handleConfirmOrder, up to the look at the status
Confirm(c, o) ==
  /\ IsOpen(o)
  /\ Begins(c, [Idle EXCEPT !.at = "close", !.order = o, !.user = order[o].user])
  /\ UNCHANGED <<order, account, expired, voucherMu>> /\ NoHistory

\* mutant: the statement does not look at the status
ClosesAgain(c) ==
  LET o == thread[c].order
  IN  /\ thread[c].at = "close"
      /\ order' = Moved(o, "paid")
      /\ paidBy' = [paidBy EXCEPT ![o] = thread[c].transfer]
      /\ Goes(c, "find")
      /\ UNCHANGED <<account, expired, voucherMu, given, told, arrived, faults>>

\* MarkOrderPaid: only the call that closed the order goes on
Close(c) ==
  LET o == thread[c].order
  IN  /\ thread[c].at = "close"
      /\ IF IsOpen(o)
           THEN /\ order' = Moved(o, "paid")
                /\ paidBy' = [paidBy EXCEPT ![o] = thread[c].transfer]
                /\ Goes(c, "find")
           ELSE Ends(c) /\ UNCHANGED <<order, paidBy>>
      /\ UNCHANGED <<account, expired, voucherMu, given, told, arrived, faults>>

\* fulfillOrder reads the account, whose status decides at the end
Find(c) ==
  /\ thread[c].at = "find" /\ Exists(thread[c].user)
  /\ thread' = [thread EXCEPT ![c].at = "apply", ![c].waits = account[thread[c].user] = "pending"]
  /\ UNCHANGED <<order, account, expired, voucherMu>> /\ NoHistory

\* applyUserPlan: the plan is given
Apply(c) ==
  /\ thread[c].at = "apply" /\ Exists(thread[c].user)
  /\ given' = [given EXCEPT ![thread[c].order] = @ + 1]
  /\ Goes(c, "activate")
  /\ UNCHANGED <<order, account, expired, voucherMu, told, arrived, paidBy, faults>>

\* mutant: the error goes to the log only
EndsSilently(c) ==
  /\ thread[c].at \in {"find", "apply"} /\ ~Exists(thread[c].user)
  /\ Ends(c)
  /\ UNCHANGED <<order, account, expired, voucherMu>> /\ NoHistory

\* alertSellerOrder: the account is gone
AlertSeller(c) ==
  /\ thread[c].at \in {"find", "apply"} /\ ~Exists(thread[c].user)
  /\ told' = told \cup {thread[c].order}
  /\ Ends(c)
  /\ UNCHANGED <<order, account, expired, voucherMu, given, arrived, paidBy, faults>>

Activate(c) ==
  /\ thread[c].at = "activate"
  /\ account' = IF thread[c].waits /\ Exists(thread[c].user)
                  THEN [account EXCEPT ![thread[c].user] = "active"] ELSE account
  /\ Ends(c)
  /\ UNCHANGED <<order, expired, voucherMu>> /\ NoHistory

-----------------------------------------------------------------------------
(* Orders that end without payment                                         *)

Dropping(o) == [Idle EXCEPT !.at = "drop", !.order = o, !.kind = order[o].kind, !.user = order[o].user]

\* mutant: whether the order was closed by this call is not looked at
CancelsAtAll(c, o) ==
  /\ order[o].status # "absent"
  /\ order' = IF IsOpen(o) THEN Moved(o, "cancelled") ELSE order
  /\ Begins(c, Dropping(o))
  /\ UNCHANGED <<account, expired, voucherMu>> /\ NoHistory

\* handleCancelOrder, up to SetOrderStatus
Cancel(c, o) ==
  /\ IsOpen(o)
  /\ order' = Moved(o, "cancelled")
  /\ Begins(c, Dropping(o))
  /\ UNCHANGED <<account, expired, voucherMu>> /\ NoHistory

\* mutant: joined with the accounts, so the orders of a deleted one stay
DueOfAccounts == {o \in Orders : order[o].status = "pending" /\ order[o].left = 0 /\ order[o].user # None}

Due == {o \in Orders : order[o].status = "pending" /\ order[o].left = 0}

\* ExpireHostingOrders closes every waiting order whose time ran out
Expire ==
  /\ thread[Loop].at = "idle" /\ expired = {} /\ Due # {}
  /\ order' = [o \in Orders |-> IF o \in Due THEN [order[o] EXCEPT !.status = "expired"] ELSE order[o]]
  /\ expired' = Due
  /\ UNCHANGED <<account, thread, voucherMu>> /\ NoHistory

NextExpired(o) ==
  /\ Begins(Loop, Dropping(o))
  /\ expired' = expired \ {o}
  /\ UNCHANGED <<order, account, voucherMu>> /\ NoHistory

\* mutant: a trial is forgotten
DropsBuyersOnly(p) ==
  LET r == thread[p]
      unpaid == r.kind = "new" /\ Exists(r.user) /\ account[r.user] = "pending"
  IN  /\ r.at = "drop"
      /\ IF unpaid THEN Goes(p, "others") ELSE Ends(p)
      /\ UNCHANGED <<order, account, expired, voucherMu>> /\ NoHistory

\* dropUnpaidAccount leaves an account alone that renews, is on, or waits for another order
Drop(p) ==
  LET r == thread[p]
      unpaid == r.kind # "renew" /\ Exists(r.user) /\ account[r.user] = "pending"
  IN  /\ r.at = "drop"
      /\ IF unpaid THEN Goes(p, "others") ELSE Ends(p)
      /\ UNCHANGED <<order, account, expired, voucherMu>> /\ NoHistory

Others(p) ==
  /\ thread[p].at = "others"
  /\ IF \E kind \in {"new", "trial"} : OpenOrders(thread[p].user, kind) # {} THEN Ends(p) ELSE Goes(p, "unlist")
  /\ UNCHANGED <<order, account, expired, voucherMu>> /\ NoHistory

\* handleDeleteUser
DeleteByHand(c, a) ==
  /\ ByHand /\ Exists(a)
  /\ Begins(c, [Idle EXCEPT !.at = "unlist", !.user = a, !.hand = TRUE])
  /\ UNCHANGED <<order, account, expired, voucherMu>> /\ NoHistory

\* DeleteUser cancels the open orders of the account, then deletes its row
Unlist(p) ==
  /\ thread[p].at = "unlist"
  /\ order' = [o \in Orders |-> IF IsOpen(o) /\ order[o].user = thread[p].user
                                  THEN [order[o] EXCEPT !.status = "cancelled"] ELSE order[o]]
  /\ Goes(p, "remove")
  /\ UNCHANGED <<account, expired, voucherMu>> /\ NoHistory

\* ... whose orders stay, without an account
Remove(p) ==
  /\ thread[p].at = "remove"
  /\ account' = [account EXCEPT ![thread[p].user] = "gone"]
  /\ order' = [o \in Orders |-> IF order[o].user = thread[p].user
                                  THEN [order[o] EXCEPT !.user = None] ELSE order[o]]
  /\ Ends(p)
  /\ UNCHANGED <<expired, voucherMu>> /\ NoHistory

-----------------------------------------------------------------------------
(* Faults and time                                                         *)

\* a statement fails: what the thread makes of it depends on where it is
Fault == faults < MaxFaults /\ faults' = faults + 1

Fail(p) ==
  /\ Fault
  /\ thread[p].at # "idle"
  /\ CASE thread[p].at \in {"claim", "insert"}     -> Undo(p)
       [] thread[p].at \in {"provision", "others"} -> Goes(p, "unlist")
       [] OTHER                                    -> Ends(p)
  /\ voucherMu' = Released(p)
  /\ told' = told \cup (IF thread[p].at \in {"find", "apply"} THEN {thread[p].order} ELSE {})
  /\ UNCHANGED <<order, account, expired, given, arrived, paidBy>>

\* EnsureUserForRole fails: the answer is that the name is taken, and the row stays
NotProvisioned(c) ==
  /\ Fault
  /\ thread[c].at = "provision"
  /\ Ends(c)
  /\ UNCHANGED <<order, account, expired, voucherMu, given, told, arrived, paidBy>>

\* the process dies and starts again; what its threads held is lost
Crash ==
  /\ Fault
  /\ thread' = [p \in Procs |-> Idle]
  /\ expired' = {}
  /\ voucherMu' = None
  /\ UNCHANGED <<order, account, given, told, arrived, paidBy>>

\* mutant: goes on below zero
CountsOn(left) == left - 1
Countdown(left) == IF left > 0 THEN left - 1 ELSE 0

Tick ==
  /\ \E o \in Orders : order[o].left > 0
  /\ order' = [o \in Orders |-> [order[o] EXCEPT !.left = Countdown(@)]]
  /\ UNCHANGED <<account, thread, expired, voucherMu>> /\ NoHistory

-----------------------------------------------------------------------------
Begin(c) ==
  \/ \E a \in Accounts, free, voucher \in BOOLEAN : \E kind \in {"new", "trial"} : SignUp(c, a, kind, free, voucher)
  \/ \E a \in Accounts, voucher \in BOOLEAN : Renew(c, a, voucher)
  \/ \E o \in Orders : Arrive(c, o) \/ Confirm(c, o) \/ Cancel(c, o)
  \/ \E a \in Accounts : DeleteByHand(c, a)

RemoveSteps(p) == Drop(p) \/ Others(p) \/ Unlist(p) \/ Remove(p)

GoOn(c) ==
  \/ Provision(c) \/ Claim(c) \/ Insert(c) \/ InsertFails(c)
  \/ Match(c) \/ Review(c)
  \/ Close(c) \/ Find(c) \/ Apply(c) \/ AlertSeller(c) \/ Activate(c)
  \/ RemoveSteps(c)

LoopStep == Expire \/ RemoveSteps(Loop) \/ \E o \in expired : NextExpired(o)

Faults == \/ \E p \in Procs : Fail(p)
          \/ \E c \in Threads : NotProvisioned(c)
          \/ Crash

Next == \/ \E c \in Threads : Begin(c) \/ GoOn(c)
        \/ LoopStep
        \/ Faults
        \/ Tick

Spec == Init /\ [][Next]_vars

\* a request that was begun goes on, the loop comes round, and time passes
Fairness == /\ \A c \in Threads : WF_vars(GoOn(c))
            /\ WF_vars(LoopStep)
            /\ WF_vars(Tick)

FairSpec == Spec /\ Fairness

-----------------------------------------------------------------------------
(* Properties                                                              *)

\* The promise of the orders (module OrderPromise): MarkOrderPaid, SetOrderStatus, ExpireHostingOrders
\* and DeleteUser may race in any order, an order is closed once, and only the call that closed it
\* gives its plan.
StateOf(o) == CASE order[o].status = "absent" -> "none"
                [] order[o].status \in Open     -> "open"
                [] order[o].status = "paid"   -> "paid"
                [] OTHER                      -> "closed"
Promise == INSTANCE OrderPromise WITH
  Orders <- Orders, state <- [o \in Orders |-> StateOf(o)], given <- given
KeepsThePromise == Promise!Spec

\* dropUnpaidAccount and the rollback of a sign-up never take an account whose order was paid, whatever
\* confirms and payments run between their statements.
PaidAccountStays ==
  \A p \in Procs : thread[p].at \in {"unlist", "remove"} /\ ~thread[p].hand =>
    \A o \in Orders : order[o].user = thread[p].user => order[o].status # "paid"

\* The transfer that closes an order is the one made for it (totals are given again once an order no
\* longer waits; the time of the notification decides).
EachPaysItsOwn == \A o \in Orders : paidBy[o] \in {None, o}

\* No more orders hold a voucher than it has uses, however many are made at once.
VoucherWithinLimit == Cardinality(VoucherUsed) <= VoucherUses

\* Every waiting order is closed or reviewed in the end.
EveryOrderCloses == \A o \in Orders : order[o].status = "pending" ~> order[o].status # "pending"

\* An account that was never paid for goes away once its order has ended (dropUnpaidAccount), unless its
\* order is under review.
UnpaidAccountsGo == \A a \in Accounts :
  account[a] = "pending" ~> account[a] # "pending" \/ \E o \in Orders : order[o].user = a /\ order[o].status = "review"

\* A paid order gets its plan and its account is switched on, or the seller is told that it cannot be.
SwitchedOn(o) == \/ given[o] > 0 /\ (order[o].user # None => account[order[o].user] # "pending")
                 \/ o \in told
PaidIsSwitchedOn == \A o \in Orders : order[o].status = "paid" ~> SwitchedOn(o)
=============================================================================
