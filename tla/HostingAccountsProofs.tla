------------------------ MODULE HostingAccountsProofs ------------------------
(***************************************************************************)
(* dropUnpaidAccount and the rollback of a sign-up never take an account   *)
(* whose order was paid. They look at the account, at its other orders and *)
(* delete in statements of their own; what makes this safe is that an      *)
(* account that still waits has one order at most, and that it is closed.  *)
(***************************************************************************)
EXTENDS HostingOrdersProofs

\* a request that will make an order for the account u
Making(p, u) == thread[p].at \in {"provision", "claim", "insert"} /\ thread[p].user = u
First(p) == thread[p].kind # "renew"
OrderOf(o, u) == order[o].user = u
ClosedUnpaid(o) == order[o].status \in {"expired", "cancelled"}

\* nothing of the account u can be paid any more
Over(u) == /\ u \notin Members /\ account[u] # "none"
           /\ \A o \in Orders : OrderOf(o, u) => ClosedUnpaid(o)
           /\ \A q \in Procs : ~Making(q, u)

\* nobody has begun anything for an account that was not made yet
NoneYet == \A u \in Accounts : account[u] = "none" =>
             /\ u \notin Members
             /\ \A o \in Orders : ~OrderOf(o, u)
             /\ \A p \in Procs : ~Making(p, u)

\* a request that makes the first order of an account is the only one that makes an order for it
FirstAlone == \A p \in Procs, u \in Accounts : (Making(p, u) /\ First(p)) =>
                /\ u \notin Members
                /\ \A o \in Orders : ~OrderOf(o, u)
                /\ \A q \in Procs : Making(q, u) => q = p

Makers == \A p \in Procs : /\ thread[p].at \in {"provision", "claim", "insert"} => thread[p].user \in Accounts
                           /\ thread[p].at = "provision" => First(p)

\* an account that waits for its first payment has not renewed
Unswitched == \A u \in Accounts : account[u] = "pending" =>
                /\ u \notin Members
                /\ \A o \in Orders : OrderOf(o, u) => order[o].kind # "renew"
                /\ \A p \in Procs : Making(p, u) => First(p)

\* an account has one order that is not a renewal
OneFirst == \A u \in Accounts, o, n \in Orders :
              (OrderOf(o, u) /\ OrderOf(n, u) /\ order[o].kind # "renew" /\ order[n].kind # "renew") => o = n

\* the order a thread is about to drop the account of was closed unpaid
Drops(p) == /\ thread[p].order \in Orders /\ ClosedUnpaid(thread[p].order)
            /\ thread[p].kind = order[thread[p].order].kind
            /\ thread[p].user \in Accounts =>
                 OrderOf(thread[p].order, thread[p].user) \/ account[thread[p].user] = "gone"
DropsUnpaid == \A p \in Procs : thread[p].at = "drop" => Drops(p)
Walked == \A o \in expired : ClosedUnpaid(o)

Removing(p) == thread[p].at \in {"others", "unlist", "remove"} /\ ~thread[p].hand
Removals == \A p \in Procs : Removing(p) => thread[p].user \in Accounts /\ Over(thread[p].user)

AParts == NoneYet /\ FirstAlone /\ Makers /\ Unswitched /\ OneFirst /\ DropsUnpaid /\ Walked /\ Removals
AInv == IInv /\ AParts

-----------------------------------------------------------------------------
(* Steps that begin nothing for an account *)

\* no request newly makes an order
MakersCalm == \A p \in Procs : thread'[p].at \in {"provision", "claim", "insert"} =>
                /\ thread[p].at \in {"provision", "claim", "insert"}
                /\ thread'[p].user = thread[p].user /\ thread'[p].kind = thread[p].kind
                /\ thread'[p].at = "provision" => thread[p].at = "provision"

\* orders that are closed stay closed, and lose their account only when it goes
OrdersCalm == \A o \in Orders : /\ order'[o].kind = order[o].kind
                                /\ ClosedUnpaid(o) => ClosedUnpaid(o)'
                                /\ \/ order'[o].user = order[o].user
                                   \/ /\ order'[o].user = None
                                      /\ order[o].user \in Accounts => account'[order[o].user] = "gone"

AccountsCalm == \A u \in Accounts : /\ account'[u] \in {"none", "pending"} => account'[u] = account[u]
                                    /\ account[u] = "gone" => account'[u] = "gone"
                                    /\ account[u] # "none" => account'[u] # "none"

Calm == MakersCalm /\ OrdersCalm /\ AccountsCalm

\* a thread goes on dropping or removing the same, or what it newly does is safe
DropCalm(p) == thread'[p].at = "drop" => (thread[p].at = "drop" /\ thread'[p] = thread[p]) \/ Drops(p)'
RemovalCalm(p) == Removing(p)' => \/ Removing(p) /\ thread'[p].user = thread[p].user
                                  \/ (thread[p].user \in Accounts /\ Over(thread[p].user))'
ThreadsCalm == \A p \in Procs : DropCalm(p) /\ RemovalCalm(p)

LEMMA OverStays == ASSUME Calm, NEW u \in Accounts, Over(u) PROVE Over(u)'
  <1>0. None \notin Accounts
    BY OrdersAssumption
  <1>1. \A q \in Procs : ~Making(q, u)'
    BY DEF Calm, MakersCalm, Over, Making
  <1>2. \A o \in Orders : OrderOf(o, u)' => ClosedUnpaid(o)'
    BY <1>0 DEF Calm, OrdersCalm, Over, OrderOf
  <1>3. account'[u] # "none"
    BY DEF Calm, AccountsCalm, Over
  <1> QED BY <1>1, <1>2, <1>3 DEF Over

LEMMA CalmKeeps == ASSUME AInv, Calm, ThreadsCalm, Walked' PROVE AParts'
  <1>0. None \notin Accounts /\ AParts
    BY OrdersAssumption DEF AInv
  <1>o. \A o \in Orders, u \in Accounts : OrderOf(o, u)' => OrderOf(o, u)
    BY <1>0 DEF Calm, OrdersCalm, OrderOf
  <1>m. \A p \in Procs, u \in Accounts : Making(p, u)' => Making(p, u) /\ (First(p)' <=> First(p))
    BY DEF Calm, MakersCalm, Making, First
  <1>1. NoneYet'
    <2>1. \A u \in Accounts : account'[u] = "none" => account[u] = "none"
      BY DEF Calm, AccountsCalm
    <2> QED BY <1>0, <1>o, <1>m, <2>1 DEF AParts, NoneYet
  <1>2. FirstAlone'
    BY <1>0, <1>o, <1>m DEF AParts, FirstAlone
  <1>3. Makers'
    BY <1>0 DEF AParts, Makers, First, Calm, MakersCalm
  <1>4. Unswitched'
    <2>1. \A u \in Accounts : account'[u] = "pending" => account[u] = "pending"
      BY DEF Calm, AccountsCalm
    <2>2. \A o \in Orders : order'[o].kind = order[o].kind
      BY DEF Calm, OrdersCalm
    <2> QED BY <1>0, <1>o, <1>m, <2>1, <2>2 DEF AParts, Unswitched
  <1>5. OneFirst'
    <2>2. \A o \in Orders : order'[o].kind = order[o].kind
      BY DEF Calm, OrdersCalm
    <2> QED BY <1>0, <1>o, <2>2 DEF AParts, OneFirst
  <1>6. DropsUnpaid'
    <2> SUFFICES ASSUME NEW p \in Procs, thread'[p].at = "drop" PROVE Drops(p)'
      BY DEF DropsUnpaid
    <2>1. ASSUME thread[p].at = "drop", thread'[p] = thread[p] PROVE Drops(p)'
      <3>1. Drops(p)
        BY <1>0, <2>1 DEF AParts, DropsUnpaid
      <3>2. ClosedUnpaid(thread[p].order)' /\ order'[thread[p].order].kind = order[thread[p].order].kind
        BY <3>1, <2>1 DEF Drops, Calm, OrdersCalm, ClosedUnpaid
      <3>3. thread[p].user \in Accounts => order'[thread[p].order].user = thread[p].user \/ account'[thread[p].user] = "gone"
        BY <3>1 DEF Drops, OrderOf, Calm, OrdersCalm, AccountsCalm
      <3> QED BY <2>1, <3>1, <3>2, <3>3 DEF Drops, OrderOf, ClosedUnpaid
    <2> QED BY <2>1 DEF ThreadsCalm, DropCalm
  <1>7. Removals'
    <2> SUFFICES ASSUME NEW p \in Procs, Removing(p)' PROVE (thread[p].user \in Accounts /\ Over(thread[p].user))'
      BY DEF Removals
    <2>1. ASSUME Removing(p), thread'[p].user = thread[p].user PROVE (thread[p].user \in Accounts /\ Over(thread[p].user))'
      <3>1. thread[p].user \in Accounts /\ Over(thread[p].user)
        BY <1>0, <2>1 DEF AParts, Removals
      <3>2. PICK u \in Accounts : u = thread[p].user /\ Over(u)
        BY <3>1
      <3>3. Over(u)'
        BY <3>2, OverStays
      <3> QED BY <2>1, <3>2, <3>3
    <2> QED BY <2>1 DEF ThreadsCalm, RemovalCalm
  <1> QED BY <1>1, <1>2, <1>3, <1>4, <1>5, <1>6, <1>7 DEF AParts

LEMMA StepKeeps == ASSUME AInv, Calm, ThreadsCalm, expired' \subseteq expired PROVE AParts'
  <1>1. Walked'
    BY DEF AInv, AParts, IInv, TypeOK, Walked, Calm, OrdersCalm
  <1> QED BY <1>1, CalmKeeps

-----------------------------------------------------------------------------
(* One thread, one order, one account *)

LEMMA ATypes == AInv => TypeOK /\ Targeted /\ GivenOnce
  BY DEF AInv, IInv

LEMMA SetCalm == ASSUME TypeOK, NEW p \in Procs, NEW r \in Request, thread' = [thread EXCEPT ![p] = r],
                        r.at \notin {"provision", "claim", "insert"}, DropCalm(p), RemovalCalm(p)
                 PROVE  MakersCalm /\ ThreadsCalm
  <1>1. thread'[p] = r /\ \A q \in Procs : q # p => thread'[q] = thread[q]
    BY DEF TypeOK
  <1>2. MakersCalm
    BY <1>1 DEF MakersCalm
  <1>3. \A q \in Procs : q # p => DropCalm(q) /\ RemovalCalm(q)
    BY <1>1 DEF DropCalm, RemovalCalm, Removing
  <1> QED BY <1>2, <1>3 DEF ThreadsCalm

LEMMA PlainCalm == ASSUME TypeOK, NEW p \in Procs, NEW r \in Request, thread' = [thread EXCEPT ![p] = r],
                          r.at \notin {"provision", "claim", "insert", "drop", "others"},
                          r.at \in {"unlist", "remove"} => r.hand
                   PROVE  MakersCalm /\ ThreadsCalm
  <1>1. thread'[p] = r
    BY DEF TypeOK
  <1>2. DropCalm(p) /\ RemovalCalm(p)
    BY <1>1 DEF DropCalm, RemovalCalm, Removing
  <1> QED BY <1>2, SetCalm

LEMMA EndsCalm == ASSUME TypeOK, NEW p \in Procs, Ends(p) PROVE MakersCalm /\ ThreadsCalm
  <1>1. Idle \in Request /\ Idle.at = "idle"
    BY IdleType DEF Idle
  <1> QED BY <1>1, PlainCalm DEF Ends

\* a thread that goes to another step keeps all the rest it holds
LEMMA GoesOn == ASSUME TypeOK, NEW p \in Procs, NEW step \in Steps, Goes(p, step)
                PROVE  /\ [thread[p] EXCEPT !.at = step] \in Request
                       /\ thread' = [thread EXCEPT ![p] = [thread[p] EXCEPT !.at = step]]
                       /\ thread'[p].at = step /\ thread'[p].user = thread[p].user /\ thread'[p].hand = thread[p].hand
                       /\ thread'[p].kind = thread[p].kind
                       /\ \A q \in Procs : q # p => thread'[q] = thread[q]
  BY DEF TypeOK, Goes, Request

LEMMA GoesCalm == ASSUME TypeOK, NEW p \in Procs, NEW step \in Steps, Goes(p, step),
                         step \notin {"provision", "claim", "insert", "drop", "others", "unlist", "remove"}
                  PROVE  MakersCalm /\ ThreadsCalm
  <1> DEFINE r == [thread[p] EXCEPT !.at = step]
  <1>1. r \in Request /\ thread' = [thread EXCEPT ![p] = r] /\ r.at = step
    BY GoesOn DEF TypeOK, Request
  <1> HIDE DEF r
  <1> QED BY <1>1, PlainCalm

\* the first look at an account, or the next statement of the same removal
LEMMA RemovesCalm == ASSUME TypeOK, NEW p \in Procs, NEW step \in {"others", "unlist", "remove"}, Goes(p, step), RemovalCalm(p)
                     PROVE  MakersCalm /\ ThreadsCalm
  <1> DEFINE r == [thread[p] EXCEPT !.at = step]
  <1>0. step \in Steps
    BY DEF Steps
  <1>1. r \in Request /\ thread' = [thread EXCEPT ![p] = r] /\ r.at = step /\ thread'[p].at = step
    BY <1>0, GoesOn DEF TypeOK, Request
  <1>2. DropCalm(p)
    BY <1>1 DEF DropCalm
  <1> HIDE DEF r
  <1> QED BY <1>1, <1>2, SetCalm

LEMMA NextRemoval == ASSUME TypeOK, NEW p \in Procs, NEW step \in {"unlist", "remove"}, Goes(p, step),
                            thread[p].at \in {"others", "unlist"}
                     PROVE  MakersCalm /\ ThreadsCalm
  <1>0. step \in Steps
    BY DEF Steps
  <1>1. RemovalCalm(p)
    BY <1>0, GoesOn DEF RemovalCalm, Removing
  <1> QED BY <1>1, RemovesCalm

LEMMA SameOrders == ASSUME UNCHANGED order PROVE OrdersCalm
  BY DEF OrdersCalm, ClosedUnpaid

LEMMA SameAccounts == ASSUME UNCHANGED account PROVE AccountsCalm
  BY DEF AccountsCalm

LEMMA MovedCalm == ASSUME TypeOK, NEW o \in Orders, IsOpen(o), NEW s, order' = Moved(o, s) PROVE OrdersCalm
  <1>1. \A n \in Orders : order'[n].kind = order[n].kind /\ order'[n].user = order[n].user /\ (n # o => order'[n] = order[n])
    BY DEF TypeOK, OrderRow, Moved
  <1>2. ~ClosedUnpaid(o)
    BY DEF IsOpen, Open, ClosedUnpaid
  <1> QED BY <1>1, <1>2 DEF OrdersCalm, ClosedUnpaid

\* a sign-up that gives up leaves nothing behind that could be paid
LEMMA GivesUp == ASSUME AInv, NEW p \in Procs, thread[p].at \in {"provision", "claim", "insert"}, First(p),
                        Goes(p, "unlist"), UNCHANGED <<order, account>>
                 PROVE  MakersCalm /\ ThreadsCalm
  <1>t. TypeOK /\ AParts /\ "unlist" \in Steps
    BY ATypes DEF AInv, Steps
  <1>1. PICK u \in Accounts : u = thread[p].user
    BY <1>t DEF AParts, Makers
  <1>2. /\ Making(p, u) /\ u \notin Members /\ account[u] # "none"
        /\ \A o \in Orders : ~OrderOf(o, u)
        /\ \A q \in Procs : Making(q, u) => q = p
    BY <1>t, <1>1 DEF AParts, FirstAlone, NoneYet, Making
  <1>3. thread'[p].at = "unlist" /\ thread'[p].user = u /\ \A q \in Procs : q # p => thread'[q] = thread[q]
    BY <1>t, <1>1, GoesOn
  <1>4. \A q \in Procs : ~Making(q, u)'
    BY <1>2, <1>3 DEF Making
  <1>5. Over(u)'
    BY <1>2, <1>4 DEF Over, OrderOf
  <1>6. RemovalCalm(p)
    BY <1>3, <1>5 DEF RemovalCalm
  <1> QED BY <1>t, <1>6, RemovesCalm

LEMMA UndoCalm == ASSUME AInv, NEW p \in Procs, thread[p].at \in {"provision", "claim", "insert"}, Undo(p),
                         UNCHANGED <<order, account>>
                  PROVE  MakersCalm /\ ThreadsCalm
  <1>1. CASE thread[p].kind = "renew"
    BY <1>1, EndsCalm, ATypes DEF Undo
  <1>2. CASE thread[p].kind # "renew"
    BY <1>2, GivesUp DEF Undo, First
  <1> QED BY <1>1, <1>2

-----------------------------------------------------------------------------
(* The removal of an account *)

\* the account that waits, of an order that was closed unpaid: that was its only order
LEMMA DropCalmStep == ASSUME AInv, NEW p \in Procs, Drop(p) PROVE Calm /\ ThreadsCalm
  <1> USE DEF NoHistory
  <1>t. TypeOK /\ AParts
    BY ATypes DEF AInv
  <1>c. OrdersCalm /\ AccountsCalm
    BY SameOrders, SameAccounts DEF Drop
  <1>1. CASE Ends(p)
    BY <1>1, <1>t, <1>c, EndsCalm DEF Calm
  <1>2. CASE /\ Goes(p, "others") /\ thread[p].kind # "renew"
             /\ Exists(thread[p].user) /\ account[thread[p].user] = "pending"
    <2> DEFINE o == thread[p].order
    <2>0. "others" \in Steps /\ thread[p] \in Request
      BY <1>t DEF Steps, TypeOK
    <2>1. PICK u \in Accounts : u = thread[p].user /\ account[u] = "pending"
      BY <1>2, <2>0 DEF Exists, Request
    <2>2. o \in Orders /\ ClosedUnpaid(o) /\ order[o].kind # "renew" /\ OrderOf(o, u)
      BY <1>t, <1>2, <2>1 DEF AParts, DropsUnpaid, Drops, Drop
    <2>3. u \notin Members /\ \A n \in Orders : OrderOf(n, u) => n = o
      BY <1>t, <2>1, <2>2 DEF AParts, Unswitched, OneFirst
    <2>4. \A q \in Procs : ~Making(q, u)
      BY <1>t, <2>1, <2>2 DEF AParts, Unswitched, FirstAlone
    <2>5. thread'[p].at = "others" /\ thread'[p].user = u /\ \A q \in Procs : q # p => thread'[q] = thread[q]
      BY <1>t, <1>2, <2>0, <2>1, GoesOn
    <2>6. UNCHANGED <<order, account>>
      BY DEF Drop
    <2>7. \A q \in Procs : ~Making(q, u)'
      BY <2>4, <2>5 DEF Making
    <2>8. \A n \in Orders : OrderOf(n, u)' => ClosedUnpaid(n)'
      BY <2>2, <2>3, <2>6 DEF OrderOf, ClosedUnpaid
    <2>9. Over(u)'
      BY <2>1, <2>3, <2>6, <2>7, <2>8 DEF Over
    <2>10. RemovalCalm(p)
      BY <2>5, <2>9 DEF RemovalCalm
    <2> QED BY <1>t, <1>c, <1>2, <2>10, RemovesCalm DEF Calm
  <1> QED BY <1>1, <1>2 DEF Drop

LEMMA RemoveCalm == ASSUME AInv, NEW p \in Procs, RemoveSteps(p) PROVE Calm /\ ThreadsCalm /\ expired' = expired
  <1> USE DEF NoHistory
  <1>t. TypeOK
    BY ATypes
  <1>1. CASE Drop(p)
    BY <1>1, DropCalmStep DEF Drop
  <1>2. CASE Others(p)
    <2>1. OrdersCalm /\ AccountsCalm
      BY <1>2, SameOrders, SameAccounts DEF Others
    <2>2. MakersCalm /\ ThreadsCalm
      BY <1>2, <1>t, EndsCalm, NextRemoval DEF Others
    <2> QED BY <1>2, <2>1, <2>2 DEF Calm, Others
  <1>3. CASE Unlist(p)
    <2>1. OrdersCalm
      <3>1. \A o \in Orders : /\ order'[o].kind = order[o].kind /\ order'[o].user = order[o].user
                              /\ order'[o] = order[o] \/ order'[o].status = "cancelled"
        BY <1>3, <1>t DEF Unlist, TypeOK, OrderRow
      <3> QED BY <3>1 DEF OrdersCalm, ClosedUnpaid
    <2>2. MakersCalm /\ ThreadsCalm
      BY <1>3, <1>t, NextRemoval DEF Unlist
    <2> QED BY <1>3, <2>1, <2>2, SameAccounts DEF Calm, Unlist
  <1>4. CASE Remove(p)
    <2> DEFINE u == thread[p].user
    <2>1. \A o \in Orders : /\ order'[o].kind = order[o].kind /\ order'[o].status = order[o].status
                            /\ order'[o].user = IF order[o].user = u THEN None ELSE order[o].user
      BY <1>4, <1>t DEF Remove, TypeOK, OrderRow
    <2>2. \A a \in Accounts : account'[a] = IF a = u THEN "gone" ELSE account[a]
      BY <1>4, <1>t DEF Remove, TypeOK
    <2>3. OrdersCalm
      BY <2>1, <2>2 DEF OrdersCalm, ClosedUnpaid
    <2>4. AccountsCalm
      BY <2>2 DEF AccountsCalm
    <2>5. MakersCalm /\ ThreadsCalm
      BY <1>4, <1>t, EndsCalm DEF Remove
    <2> QED BY <1>4, <2>3, <2>4, <2>5 DEF Calm, Remove
  <1> QED BY <1>1, <1>2, <1>3, <1>4 DEF RemoveSteps

-----------------------------------------------------------------------------
(* Requests that begin something for an account *)

\* a new account is named by no order and no thread
LEMMA SignUpKeeps == ASSUME AInv, NEW c \in Procs, NEW a \in Accounts, NEW kind \in {"new", "trial"},
                            NEW free \in BOOLEAN, NEW voucher \in BOOLEAN, SignUp(c, a, kind, free, voucher)
                     PROVE  AParts'
  <1> USE DEF NoHistory
  <1> DEFINE r == [Idle EXCEPT !.at = "provision", !.kind = kind, !.free = free, !.voucher = voucher, !.user = a]
  <1>t. TypeOK /\ AParts
    BY ATypes DEF AInv
  <1>1. r.at = "provision" /\ r.kind = kind /\ r.user = a
    BY DEF Idle
  <1>2. thread' = [thread EXCEPT ![c] = r] /\ UNCHANGED <<order, expired>> /\ account[a] = "none"
        /\ account' = [account EXCEPT ![a] = "active"]
    BY DEF SignUp, Begins
  <1> HIDE DEF r
  <1>3. thread'[c] = r /\ \A q \in Procs : q # c => thread'[q] = thread[q]
    BY <1>t, <1>2 DEF TypeOK
  <1>4. account'[a] = "active" /\ \A u \in Accounts : u # a => account'[u] = account[u]
    BY <1>t, <1>2 DEF TypeOK
  <1>5. a \notin Members /\ (\A o \in Orders : ~OrderOf(o, a)) /\ (\A p \in Procs : ~Making(p, a))
    BY <1>t, <1>2 DEF AParts, NoneYet
  <1>6. \A p \in Procs, u \in Accounts : Making(p, u)' => (p = c /\ u = a) \/ (p # c /\ Making(p, u))
    BY <1>1, <1>3 DEF Making
  <1>7. First(c)' /\ \A p \in Procs : p # c => (First(p)' <=> First(p))
    BY <1>1, <1>3 DEF First
  <1>8. \A o \in Orders, u \in Accounts : OrderOf(o, u)' = OrderOf(o, u) /\ ClosedUnpaid(o)' = ClosedUnpaid(o)
    BY <1>2 DEF OrderOf, ClosedUnpaid
  <1>a. NoneYet'
    BY <1>t, <1>4, <1>6, <1>8 DEF AParts, NoneYet
  <1>b. FirstAlone'
    BY <1>t, <1>5, <1>6, <1>7, <1>8 DEF AParts, FirstAlone
  <1>c. Makers'
    BY <1>t, <1>1, <1>3, <1>7 DEF AParts, Makers
  <1>d. Unswitched'
    BY <1>t, <1>2, <1>4, <1>6, <1>7, <1>8 DEF AParts, Unswitched
  <1>e. OneFirst' /\ Walked'
    <2>1. OneFirst'
      BY <1>t, <1>2, <1>8 DEF AParts, OneFirst
    <2>2. Walked'
      BY <1>t, <1>2 DEF AParts, Walked, ClosedUnpaid
    <2> QED BY <2>1, <2>2
  <1>f. DropsUnpaid'
    BY <1>t, <1>1, <1>2, <1>3, <1>4, <1>8 DEF AParts, DropsUnpaid, Drops
  <1>g. Removals'
    <2> SUFFICES ASSUME NEW p \in Procs, Removing(p)' PROVE (thread[p].user \in Accounts /\ Over(thread[p].user))'
      BY DEF Removals
    <2>1. p # c /\ Removing(p) /\ thread'[p] = thread[p]
      BY <1>1, <1>3 DEF Removing
    <2>2. PICK u \in Accounts : u = thread[p].user /\ Over(u)
      BY <1>t, <2>1 DEF AParts, Removals
    <2>3. u # a /\ Over(u)'
      BY <1>2, <1>4, <1>6, <1>8, <2>2 DEF Over
    <2> QED BY <2>1, <2>2, <2>3
  <1> QED BY <1>a, <1>b, <1>c, <1>d, <1>e, <1>f, <1>g DEF AParts


\* only an account that is on a plan renews, so none that waits and none whose orders are over
LEMMA RenewKeeps == ASSUME AInv, NEW c \in Procs, NEW a \in Accounts, NEW voucher \in BOOLEAN, Renew(c, a, voucher)
                    PROVE  AParts'
  <1> USE DEF NoHistory
  <1> DEFINE r == [Idle EXCEPT !.at = IF voucher THEN "claim" ELSE "insert", !.kind = "renew", !.voucher = voucher, !.user = a]
  <1>t. TypeOK /\ AParts /\ GivenOnce
    BY ATypes DEF AInv
  <1>1. r.at \in {"claim", "insert"} /\ r.kind = "renew" /\ r.user = a
    BY DEF Idle
  <1>2. thread' = [thread EXCEPT ![c] = r] /\ UNCHANGED <<order, account, expired>> /\ account[a] = "active" /\ OnPlan(a)
    BY DEF Renew, Begins
  <1> HIDE DEF r
  <1>3. thread'[c] = r /\ \A q \in Procs : q # c => thread'[q] = thread[q]
    BY <1>t, <1>2 DEF TypeOK
  <1>4. a \in Members \/ \E o \in Orders : OrderOf(o, a) /\ order[o].status = "paid"
    <2>1. \A o \in Orders : given[o] > 0 => order[o].status = "paid"
      BY <1>t DEF GivenOnce
    <2> QED BY <1>2, <2>1 DEF OnPlan, OrderOf
  <1>5. \A p \in Procs : Making(p, a) => ~First(p)
    BY <1>t, <1>4 DEF AParts, FirstAlone
  <1>6. \A p \in Procs, u \in Accounts : Making(p, u)' => (p = c /\ u = a) \/ (p # c /\ Making(p, u))
    BY <1>1, <1>3 DEF Making
  <1>7. ~First(c)' /\ \A p \in Procs : p # c => (First(p)' <=> First(p))
    BY <1>1, <1>3 DEF First
  <1>8. \A o \in Orders, u \in Accounts : OrderOf(o, u)' = OrderOf(o, u) /\ ClosedUnpaid(o)' = ClosedUnpaid(o)
    BY <1>2 DEF OrderOf, ClosedUnpaid
  <1>a. NoneYet'
    BY <1>t, <1>2, <1>6, <1>8 DEF AParts, NoneYet
  <1>b. FirstAlone'
    BY <1>t, <1>5, <1>6, <1>7, <1>8 DEF AParts, FirstAlone
  <1>c. Makers'
    BY <1>t, <1>1, <1>3, <1>7 DEF AParts, Makers
  <1>d. Unswitched'
    BY <1>t, <1>2, <1>6, <1>7, <1>8 DEF AParts, Unswitched
  <1>e. OneFirst'
    BY <1>t, <1>2, <1>8 DEF AParts, OneFirst
  <1>f. Walked'
    BY <1>t, <1>2 DEF AParts, Walked, ClosedUnpaid
  <1>g. DropsUnpaid'
    BY <1>t, <1>1, <1>2, <1>3, <1>8 DEF AParts, DropsUnpaid, Drops
  <1>h. Removals'
    <2> SUFFICES ASSUME NEW p \in Procs, Removing(p)' PROVE (thread[p].user \in Accounts /\ Over(thread[p].user))'
      BY DEF Removals
    <2>1. p # c /\ Removing(p) /\ thread'[p] = thread[p]
      BY <1>1, <1>3 DEF Removing
    <2>2. PICK u \in Accounts : u = thread[p].user /\ Over(u)
      BY <1>t, <2>1 DEF AParts, Removals
    <2>3. u # a
      BY <1>4, <2>2 DEF Over, ClosedUnpaid
    <2>4. Over(u)'
      BY <1>2, <1>6, <1>8, <2>2, <2>3 DEF Over
    <2> QED BY <2>1, <2>2, <2>4
  <1> QED BY <1>a, <1>b, <1>c, <1>d, <1>e, <1>f, <1>g, <1>h DEF AParts

\* an account is set to wait by the request that made it, before it has an order
LEMMA ProvisionKeeps == ASSUME AInv, NEW c \in Procs, Provision(c) PROVE AParts'
  <1> USE DEF NoHistory
  <1>t. TypeOK /\ AParts /\ "claim" \in Steps /\ "insert" \in Steps
    BY ATypes DEF AInv, Steps
  <1>1. PICK u \in Accounts : u = thread[c].user
    BY <1>t DEF AParts, Makers, Provision
  <1>2. Making(c, u) /\ First(c)
    BY <1>t, <1>1 DEF AParts, Makers, Making, Provision
  <1>3. /\ u \notin Members
        /\ \A o \in Orders : ~OrderOf(o, u)
        /\ \A q \in Procs : Making(q, u) => q = c
    BY <1>t, <1>2 DEF AParts, FirstAlone
  <1>4. /\ UNCHANGED <<order, expired>>
        /\ account'[u] = IF account[u] = "active" THEN "pending" ELSE account[u]
        /\ \A a \in Accounts : a # u => account'[a] = account[a]
    BY <1>t, <1>1 DEF Provision, TypeOK
  <1>5. /\ thread'[c].at \in {"claim", "insert"} /\ thread'[c].user = u /\ thread'[c].kind = thread[c].kind
        /\ \A q \in Procs : q # c => thread'[q] = thread[q]
    BY <1>t, <1>1, GoesOn DEF Provision
  <1>6. \A p \in Procs, a \in Accounts : Making(p, a)' => Making(p, a)
    BY <1>2, <1>5 DEF Making
  <1>7. \A p \in Procs : First(p)' <=> First(p)
    BY <1>5 DEF First
  <1>8. \A o \in Orders, a \in Accounts : OrderOf(o, a)' = OrderOf(o, a) /\ ClosedUnpaid(o)' = ClosedUnpaid(o)
    BY <1>4 DEF OrderOf, ClosedUnpaid
  <1>a. NoneYet'
    BY <1>t, <1>4, <1>6, <1>8 DEF AParts, NoneYet
  <1>b. FirstAlone'
    BY <1>t, <1>6, <1>7, <1>8 DEF AParts, FirstAlone
  <1>c. Makers'
    BY <1>t, <1>5, <1>7 DEF AParts, Makers
  <1>d. Unswitched'
    <2> SUFFICES ASSUME NEW a \in Accounts, account'[a] = "pending"
                 PROVE  /\ a \notin Members
                        /\ \A o \in Orders : OrderOf(o, a)' => order'[o].kind # "renew"
                        /\ \A p \in Procs : Making(p, a)' => First(p)'
      BY DEF Unswitched
    <2>1. CASE a = u
      BY <1>2, <1>3, <1>6, <1>7, <1>8, <2>1
    <2>2. CASE a # u
      BY <1>t, <1>4, <1>6, <1>7, <1>8, <2>2 DEF AParts, Unswitched
    <2> QED BY <2>1, <2>2
  <1>e. OneFirst'
    BY <1>t, <1>4, <1>8 DEF AParts, OneFirst
  <1>f. Walked'
    BY <1>t, <1>4 DEF AParts, Walked, ClosedUnpaid
  <1>g. DropsUnpaid'
    BY <1>t, <1>4, <1>5, <1>8 DEF AParts, DropsUnpaid, Drops
  <1>h. Removals'
    <2> SUFFICES ASSUME NEW p \in Procs, Removing(p)' PROVE (thread[p].user \in Accounts /\ Over(thread[p].user))'
      BY DEF Removals
    <2>1. p # c /\ Removing(p) /\ thread'[p] = thread[p]
      BY <1>5 DEF Removing
    <2>2. PICK a \in Accounts : a = thread[p].user /\ Over(a)
      BY <1>t, <2>1 DEF AParts, Removals
    <2>3. Over(a)'
      BY <1>4, <1>6, <1>8, <2>2 DEF Over
    <2> QED BY <2>1, <2>2, <2>3
  <1> QED BY <1>a, <1>b, <1>c, <1>d, <1>e, <1>f, <1>g, <1>h DEF AParts

\* the order of a request: the first of its account, or a renewal of one that is switched on
LEMMA InsertKeeps == ASSUME AInv, NEW c \in Procs, Insert(c) PROVE AParts'
  <1> USE DEF NoHistory
  <1> DEFINE r == thread[c]
  <1>t. TypeOK /\ AParts /\ r \in Request
    BY ATypes DEF AInv, TypeOK
  <1>1. PICK u \in Accounts : u = r.user
    BY <1>t DEF AParts, Makers, Insert
  <1>2. Making(c, u)
    BY <1>1 DEF Making, Insert
  <1>3. PICK o \in Orders :
          /\ order[o].status = "absent"
          /\ order'[o].kind = r.kind /\ order'[o].user = u
          /\ \A n \in Orders : n # o => order'[n] = order[n]
          /\ \/ Ends(c)
             \/ thread' = [thread EXCEPT ![c] = [r EXCEPT !.at = "close", !.order = o]]
    <2>1. PICK o \in Orders, k \in FreeTotals \cup {None} :
            /\ order[o].status = "absent"
            /\ order' = [order EXCEPT ![o] = [status |-> InsertedAs(r), kind |-> r.kind, total |-> k,
                                              voucher |-> r.voucher, user |-> r.user, left |-> OrderLife]]
            /\ \/ Ends(c)
               \/ thread' = [thread EXCEPT ![c] = [r EXCEPT !.at = "close", !.order = o]]
      BY DEF Insert
    <2>2. /\ order'[o].kind = r.kind /\ order'[o].user = u
          /\ \A n \in Orders : n # o => order'[n] = order[n]
      BY <1>t, <1>1, <2>1 DEF TypeOK
    <2> QED BY <2>1, <2>2
  <1>4. UNCHANGED <<account, expired>>
    BY DEF Insert
  <1>5. thread'[c].at \in {"idle", "close"} /\ \A q \in Procs : q # c => thread'[q] = thread[q]
    <2>1. Idle.at = "idle" /\ [r EXCEPT !.at = "close", !.order = o].at = "close"
      BY <1>t DEF Idle, Request
    <2>2. thread'[c] \in {Idle, [r EXCEPT !.at = "close", !.order = o]}
      BY <1>t, <1>3 DEF Ends, TypeOK
    <2>3. \A q \in Procs : q # c => thread'[q] = thread[q]
      BY <1>t, <1>3 DEF Ends, TypeOK
    <2> QED BY <2>1, <2>2, <2>3
  <1>6. \A p \in Procs, a \in Accounts : Making(p, a)' => p # c /\ Making(p, a)
    BY <1>5 DEF Making
  <1>7. \A p \in Procs : p # c => (First(p)' <=> First(p))
    BY <1>5 DEF First
  <1>8. \A n \in Orders, a \in Accounts : OrderOf(n, a)' => (n = o /\ a = u) \/ (n # o /\ OrderOf(n, a))
    BY <1>3 DEF OrderOf
  <1>9. \A n \in Orders : ClosedUnpaid(n) => n # o /\ order'[n] = order[n] /\ ClosedUnpaid(n)'
    BY <1>3 DEF ClosedUnpaid
  <1>a. NoneYet'
    BY <1>t, <1>2, <1>4, <1>6, <1>8 DEF AParts, NoneYet
  <1>b. FirstAlone'
    BY <1>t, <1>2, <1>6, <1>7, <1>8 DEF AParts, FirstAlone
  <1>c. Makers'
    BY <1>t, <1>5, <1>7 DEF AParts, Makers
  <1>d. Unswitched'
    BY <1>t, <1>2, <1>3, <1>4, <1>6, <1>7, <1>8 DEF AParts, Unswitched, First
  <1>e. OneFirst'
    <2>1. First(c) => \A n \in Orders : ~OrderOf(n, u)
      BY <1>t, <1>2 DEF AParts, FirstAlone
    <2> QED BY <1>t, <1>3, <1>8, <2>1 DEF AParts, OneFirst, First
  <1>f. Walked'
    BY <1>t, <1>4, <1>9 DEF AParts, Walked, TypeOK
  <1>g. DropsUnpaid'
    BY <1>t, <1>4, <1>5, <1>9 DEF AParts, DropsUnpaid, Drops, OrderOf
  <1>h. Removals'
    <2> SUFFICES ASSUME NEW p \in Procs, Removing(p)' PROVE (thread[p].user \in Accounts /\ Over(thread[p].user))'
      BY DEF Removals
    <2>1. p # c /\ Removing(p) /\ thread'[p] = thread[p]
      BY <1>5 DEF Removing
    <2>2. PICK a \in Accounts : a = thread[p].user /\ Over(a)
      BY <1>t, <2>1 DEF AParts, Removals
    <2>3. a # u
      BY <1>2, <2>2 DEF Over
    <2>4. Over(a)'
      BY <1>4, <1>6, <1>8, <1>9, <2>2, <2>3 DEF Over
    <2> QED BY <2>1, <2>2, <2>4
  <1> QED BY <1>a, <1>b, <1>c, <1>d, <1>e, <1>f, <1>g, <1>h DEF AParts

-----------------------------------------------------------------------------
(* All the steps *)

LEMMA BeginSettles == ASSUME AInv, NEW c \in Threads, Begin(c) PROVE AParts'
  <1> USE DEF NoHistory
  <1>t. TypeOK /\ c \in Procs
    BY ATypes, Loops
  <1>1. ASSUME NEW a \in Accounts, NEW free \in BOOLEAN, NEW voucher \in BOOLEAN, NEW kind \in {"new", "trial"},
               SignUp(c, a, kind, free, voucher)
        PROVE  AParts'
    BY <1>1, <1>t, SignUpKeeps
  <1>2. ASSUME NEW a \in Accounts, NEW voucher \in BOOLEAN, Renew(c, a, voucher) PROVE AParts'
    BY <1>2, <1>t, RenewKeeps
  <1>3. ASSUME NEW o \in Orders, Arrive(c, o) PROVE AParts'
    <2> DEFINE r == [Idle EXCEPT !.at = "match", !.transfer = o, !.seen = InTime]
    <2>1. r \in Request /\ r.at = "match"
      BY DEF Idle, Request, Steps, Kinds, InTime
    <2>2. thread' = [thread EXCEPT ![c] = r]
      BY <1>3 DEF Arrive, Begins
    <2> HIDE DEF r
    <2>3. MakersCalm /\ ThreadsCalm
      BY <1>t, <2>1, <2>2, PlainCalm
    <2> QED BY <1>3, <2>3, SameOrders, SameAccounts, StepKeeps DEF Calm, Arrive
  <1>4. ASSUME NEW o \in Orders, Confirm(c, o) PROVE AParts'
    <2> DEFINE r == [Idle EXCEPT !.at = "close", !.order = o, !.user = order[o].user]
    <2>1. r \in Request /\ r.at = "close"
      BY <1>t DEF Idle, Request, Steps, Kinds, OrderRow, TypeOK
    <2>2. thread' = [thread EXCEPT ![c] = r]
      BY <1>4 DEF Confirm, Begins
    <2> HIDE DEF r
    <2>3. MakersCalm /\ ThreadsCalm
      BY <1>t, <2>1, <2>2, PlainCalm
    <2> QED BY <1>4, <2>3, SameOrders, SameAccounts, StepKeeps DEF Calm, Confirm
  <1>5. ASSUME NEW o \in Orders, Cancel(c, o) PROVE AParts'
    <2> DEFINE r == Dropping(o)
    <2>1. r \in Request /\ r.at = "drop" /\ r.order = o /\ r.kind = order[o].kind /\ r.user = order[o].user
      BY <1>t, DroppingType DEF Dropping, Idle
    <2>2. thread' = [thread EXCEPT ![c] = r] /\ IsOpen(o) /\ order' = Moved(o, "cancelled")
      BY <1>5 DEF Cancel, Begins
    <2> HIDE DEF r
    <2>3. OrdersCalm /\ AccountsCalm
      BY <1>5, <1>t, <2>2, MovedCalm, SameAccounts DEF Cancel
    <2>4. thread'[c] = r /\ order'[o].status = "cancelled" /\ order'[o].kind = order[o].kind /\ order'[o].user = order[o].user
      BY <1>t, <2>2 DEF TypeOK, OrderRow, Moved
    <2>5. DropCalm(c) /\ RemovalCalm(c)
      BY <2>1, <2>4 DEF DropCalm, RemovalCalm, Removing, Drops, ClosedUnpaid, OrderOf
    <2>6. MakersCalm /\ ThreadsCalm
      BY <1>t, <2>1, <2>2, <2>5, SetCalm
    <2> QED BY <1>5, <2>3, <2>6, StepKeeps DEF Calm, Cancel
  <1>6. ASSUME NEW a \in Accounts, DeleteByHand(c, a) PROVE AParts'
    <2> DEFINE r == [Idle EXCEPT !.at = "unlist", !.user = a, !.hand = TRUE]
    <2>1. r \in Request /\ r.at = "unlist" /\ r.hand
      BY DEF Idle, Request, Steps, Kinds
    <2>2. thread' = [thread EXCEPT ![c] = r]
      BY <1>6 DEF DeleteByHand, Begins
    <2> HIDE DEF r
    <2>3. MakersCalm /\ ThreadsCalm
      BY <1>t, <2>1, <2>2, PlainCalm
    <2> QED BY <1>6, <2>3, SameOrders, SameAccounts, StepKeeps DEF Calm, DeleteByHand
  <1> QED BY <1>1, <1>2, <1>3, <1>4, <1>5, <1>6 DEF Begin

LEMMA GoOnSettles == ASSUME AInv, NEW c \in Threads, GoOn(c) PROVE AParts'
  <1> USE DEF NoHistory
  <1>t. TypeOK /\ Targeted /\ c \in Procs /\ thread[c] \in Request
    BY ATypes, Loops DEF TypeOK
  <1>s. {"review", "close", "find", "apply", "activate"} \subseteq Steps
    BY DEF Steps
  <1>1. CASE Provision(c)
    BY <1>1, <1>t, ProvisionKeeps
  <1>2. CASE Claim(c)
    <2>1. CASE Goes(c, "insert")
      <3>0. "insert" \in Steps
        BY DEF Steps
      <3>1. /\ thread'[c].at = "insert" /\ thread'[c].user = thread[c].user /\ thread'[c].kind = thread[c].kind
            /\ \A q \in Procs : q # c => thread'[q] = thread[q]
        BY <1>t, <2>1, <3>0, GoesOn
      <3>2. MakersCalm
        BY <1>2, <3>1 DEF MakersCalm, Claim
      <3>3. ThreadsCalm
        BY <3>1 DEF ThreadsCalm, DropCalm, RemovalCalm, Removing
      <3> QED BY <1>2, <3>2, <3>3, SameOrders, SameAccounts, StepKeeps DEF Calm, Claim
    <2>2. CASE Undo(c)
      BY <1>2, <1>t, <2>2, UndoCalm, SameOrders, SameAccounts, StepKeeps DEF Calm, Claim
    <2> QED BY <1>2, <2>1, <2>2 DEF Claim
  <1>3. CASE Insert(c)
    BY <1>3, <1>t, InsertKeeps
  <1>4. CASE InsertFails(c)
    BY <1>4, <1>t, UndoCalm, SameOrders, SameAccounts, StepKeeps DEF Calm, InsertFails
  <1>5. CASE Match(c)
    <2>1. MakersCalm /\ ThreadsCalm
      <3>1. CASE Ends(c)
        BY <1>t, <3>1, EndsCalm
      <3>2. ASSUME NEW o \in Orders,
                   thread' = [thread EXCEPT ![c] = [thread[c] EXCEPT !.at = IF AutoConfirm THEN "close" ELSE "review",
                                                                     !.order = o, !.user = order[o].user]]
            PROVE  MakersCalm /\ ThreadsCalm
        <4> DEFINE r == [thread[c] EXCEPT !.at = IF AutoConfirm THEN "close" ELSE "review",
                                          !.order = o, !.user = order[o].user]
        <4>1. r \in Request /\ r.at \in {"close", "review"}
          BY <1>t DEF Request, Steps, TypeOK, OrderRow
        <4>2. thread' = [thread EXCEPT ![c] = r]
          BY <3>2
        <4> HIDE DEF r
        <4> QED BY <1>t, <4>1, <4>2, PlainCalm
      <3>3. PendingFor(order[thread[c].transfer].total, thread[c].seen) \subseteq Orders
        BY DEF PendingFor
      <3> QED BY <1>5, <3>1, <3>2, <3>3 DEF Match
    <2> QED BY <1>5, <2>1, SameOrders, SameAccounts, StepKeeps DEF Calm, Match
  <1>6. CASE Review(c)
    <2>1. OrdersCalm
      BY <1>6, <1>t, MovedCalm, SameOrders DEF Review, Targeted
    <2> QED BY <1>6, <1>t, <2>1, EndsCalm, SameAccounts, StepKeeps DEF Calm, Review
  <1>7. CASE Close(c)
    <2>1. OrdersCalm
      BY <1>7, <1>t, MovedCalm, SameOrders DEF Close, Targeted
    <2>2. MakersCalm /\ ThreadsCalm
      BY <1>7, <1>t, <1>s, GoesCalm, EndsCalm DEF Close
    <2> QED BY <1>7, <2>1, <2>2, SameAccounts, StepKeeps DEF Calm, Close
  <1>8. CASE Find(c)
    <2> DEFINE r == [thread[c] EXCEPT !.at = "apply", !.waits = account[thread[c].user] = "pending"]
    <2>1. r \in Request /\ r.at = "apply"
      BY <1>t, <1>s DEF Request
    <2>2. thread' = [thread EXCEPT ![c] = r]
      BY <1>8, <1>t DEF Find, TypeOK
    <2> HIDE DEF r
    <2>3. MakersCalm /\ ThreadsCalm
      BY <1>t, <2>1, <2>2, PlainCalm
    <2> QED BY <1>8, <2>3, SameOrders, SameAccounts, StepKeeps DEF Calm, Find
  <1>9. CASE Apply(c)
    BY <1>9, <1>t, <1>s, GoesCalm, SameOrders, SameAccounts, StepKeeps DEF Calm, Apply
  <1>10. CASE AlertSeller(c)
    BY <1>10, <1>t, EndsCalm, SameOrders, SameAccounts, StepKeeps DEF Calm, AlertSeller
  <1>11. CASE Activate(c)
    <2>1. AccountsCalm
      BY <1>11, <1>t DEF AccountsCalm, Activate, Exists, TypeOK
    <2> QED BY <1>11, <1>t, <2>1, EndsCalm, SameOrders, StepKeeps DEF Calm, Activate
  <1>12. CASE RemoveSteps(c)
    BY <1>12, <1>t, RemoveCalm, StepKeeps
  <1> QED BY <1>1, <1>2, <1>3, <1>4, <1>5, <1>6, <1>7, <1>8, <1>9, <1>10, <1>11, <1>12 DEF GoOn

LEMMA OtherSettles == ASSUME AInv, LoopStep \/ Faults \/ Tick PROVE AParts'
  <1> USE DEF NoHistory
  <1>t. TypeOK /\ AParts
    BY ATypes DEF AInv
  <1>1. CASE Expire
    <2>1. \A o \in Orders : /\ order'[o].kind = order[o].kind /\ order'[o].user = order[o].user
                            /\ order'[o] = order[o] \/ order'[o].status = "expired"
                            /\ o \in Due => order'[o].status = "expired"
      BY <1>1, <1>t DEF Expire, TypeOK, OrderRow
    <2>2. OrdersCalm
      BY <2>1 DEF OrdersCalm, ClosedUnpaid
    <2>3. MakersCalm /\ ThreadsCalm
      BY <1>1 DEF Expire, MakersCalm, ThreadsCalm, DropCalm, RemovalCalm, Removing
    <2>4. Walked'
      BY <1>1, <2>1 DEF Expire, Walked, ClosedUnpaid, Due
    <2> QED BY <1>1, <2>2, <2>3, <2>4, SameAccounts, CalmKeeps DEF Calm, Expire
  <1>2. CASE RemoveSteps(Loop)
    BY <1>2, Loops, RemoveCalm, StepKeeps
  <1>3. ASSUME NEW o \in expired, NextExpired(o) PROVE AParts'
    <2> DEFINE r == Dropping(o)
    <2>0. o \in Orders /\ ClosedUnpaid(o)
      BY <1>t DEF TypeOK, AParts, Walked
    <2>1. r \in Request /\ r.at = "drop" /\ r.order = o /\ r.kind = order[o].kind /\ r.user = order[o].user
      BY <1>t, <2>0, DroppingType DEF Dropping, Idle
    <2>2. thread' = [thread EXCEPT ![Loop] = r] /\ UNCHANGED <<order, account>>
      BY <1>3 DEF NextExpired, Begins
    <2> HIDE DEF r
    <2>3. thread'[Loop] = r
      BY <1>t, <2>2, Loops DEF TypeOK
    <2>4. DropCalm(Loop) /\ RemovalCalm(Loop)
      BY <2>0, <2>1, <2>2, <2>3 DEF DropCalm, RemovalCalm, Removing, Drops, ClosedUnpaid, OrderOf
    <2>5. MakersCalm /\ ThreadsCalm
      BY <1>t, <2>1, <2>2, <2>4, Loops, SetCalm
    <2> QED BY <1>3, <2>5, SameOrders, SameAccounts, StepKeeps DEF Calm, NextExpired
  <1>4. ASSUME NEW p \in Procs, Fail(p) PROVE AParts'
    <2>1. CASE thread[p].at \in {"claim", "insert"}
      BY <1>4, <2>1, UndoCalm, SameOrders, SameAccounts, StepKeeps DEF Calm, Fail, Fault
    <2>2. CASE thread[p].at = "provision"
      <3>1. First(p)
        BY <1>t, <2>2 DEF AParts, Makers
      <3> QED BY <1>4, <2>2, <3>1, GivesUp, SameOrders, SameAccounts, StepKeeps DEF Calm, Fail, Fault
    <2>3. CASE thread[p].at = "others"
      BY <1>4, <1>t, <2>3, NextRemoval, SameOrders, SameAccounts, StepKeeps DEF Calm, Fail, Fault
    <2>4. CASE thread[p].at \notin {"claim", "insert", "provision", "others"}
      BY <1>4, <1>t, <2>4, EndsCalm, SameOrders, SameAccounts, StepKeeps DEF Calm, Fail, Fault
    <2> QED BY <2>1, <2>2, <2>3, <2>4
  <1>5. ASSUME NEW c \in Threads, NotProvisioned(c) PROVE AParts'
    BY <1>5, <1>t, Loops, EndsCalm, SameOrders, SameAccounts, StepKeeps DEF Calm, NotProvisioned, Fault
  <1>6. CASE Crash
    <2>1. MakersCalm /\ ThreadsCalm
      BY <1>6 DEF Crash, Idle, MakersCalm, ThreadsCalm, DropCalm, RemovalCalm, Removing
    <2> QED BY <1>6, <2>1, SameOrders, SameAccounts, StepKeeps DEF Calm, Crash, Fault
  <1>7. CASE Tick
    <2>1. OrdersCalm
      BY <1>7, <1>t DEF Tick, TypeOK, OrderRow, OrdersCalm, ClosedUnpaid
    <2>2. MakersCalm /\ ThreadsCalm
      BY <1>7 DEF Tick, MakersCalm, ThreadsCalm, DropCalm, RemovalCalm, Removing
    <2> QED BY <1>7, <2>1, <2>2, SameAccounts, StepKeeps DEF Calm, Tick
  <1> QED BY <1>1, <1>2, <1>3, <1>4, <1>5, <1>6, <1>7 DEF LoopStep, Faults

LEMMA InitSettled == Init => AParts
  <1> SUFFICES ASSUME Init PROVE AParts
    OBVIOUS
  <1>1. /\ \A p \in Procs : thread[p].at = "idle"
        /\ \A o \in Orders : order[o].user = None
        /\ \A u \in Accounts : account[u] # "pending" /\ (account[u] = "none" => u \notin Members)
        /\ expired = {} /\ None \notin Accounts
    BY OrdersAssumption DEF Init, Idle, NoOrder
  <1> QED BY <1>1 DEF AParts, NoneYet, FirstAlone, Makers, Unswitched, OneFirst, DropsUnpaid, Walked, Removals,
                      Making, OrderOf, Removing

\* dropUnpaidAccount and the rollback of a sign-up (hosting_orders.go) never delete an account whose order
\* was paid, whatever confirms, payments, renewals and crashes run between their statements.
THEOREM PaidStays == Spec => []PaidAccountStays
  <1>1. Init => AInv
    BY InitHolds, InitSettled DEF AInv
  <1>2. AInv /\ [Next]_vars => AInv'
    <2> SUFFICES ASSUME AInv, [Next]_vars PROVE AInv'
      OBVIOUS
    <2>1. IInv'
      BY NextKeeps DEF AInv
    <2>2. CASE Next
      <3>1. AParts'
        BY <2>2, BeginSettles, GoOnSettles, OtherSettles DEF Next
      <3> QED BY <2>1, <3>1 DEF AInv
    <2>3. CASE UNCHANGED vars
      <3>1. MakersCalm /\ ThreadsCalm
        BY <2>3 DEF vars, MakersCalm, ThreadsCalm, DropCalm, RemovalCalm, Removing
      <3>2. AParts'
        BY <2>3, <3>1, SameOrders, SameAccounts, StepKeeps DEF Calm, vars
      <3> QED BY <2>1, <3>2 DEF AInv
    <2> QED BY <2>2, <2>3
  <1>3. AInv => PaidAccountStays
    <2> SUFFICES ASSUME AInv, NEW p \in Procs, thread[p].at \in {"unlist", "remove"}, ~thread[p].hand,
                        NEW o \in Orders, order[o].user = thread[p].user
                 PROVE  order[o].status # "paid"
      BY DEF PaidAccountStays
    <2>1. Over(thread[p].user)
      BY DEF AInv, AParts, Removals, Removing
    <2> QED BY <2>1 DEF Over, OrderOf, ClosedUnpaid
  <1> QED BY <1>1, <1>2, <1>3, PTL DEF Spec

=============================================================================
