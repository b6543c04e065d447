------------------------ MODULE HostingVouchersProofs ------------------------
(***************************************************************************)
(* The limit of a voucher holds: from the count in claimVoucher to the     *)
(* insert in CreateHostingOrder the request holds voucherMu, so no other   *)
(* request counts in between, and nothing else adds to the orders that     *)
(* hold the voucher.                                                       *)
(***************************************************************************)
EXTENDS HostingOrdersProofs, FiniteSetTheorems

\* a request between the check of its voucher and the insert of its order
Claims(p) == thread[p].at = "insert" /\ thread[p].voucher

\* it holds the lock, and a use of the voucher is left for it
ClaimHeld == \A p \in Procs : Claims(p) => voucherMu = p /\ Cardinality(VoucherUsed) < VoucherUses

VInv == IInv /\ ClaimHeld /\ VoucherWithinLimit

LEMMA VTypes == VInv => TypeOK /\ Targeted
  BY DEF VInv, IInv

LEMMA UsedFinite == IsFiniteSet(VoucherUsed) /\ Cardinality(VoucherUsed) \in Nat
  <1>1. IsFiniteSet(Orders)
    BY OrdersAssumption, FS_Interval DEF Orders
  <1> QED BY <1>1, FS_Subset, FS_CardinalityType DEF VoucherUsed

\* no thread newly claims, and whoever claims keeps the lock
Calm == \A p \in Procs : Claims(p)' => Claims(p) /\ (voucherMu = p => voucherMu' = p)

LEMMA CalmKeeps == ASSUME VInv, Calm, VoucherUsed' \subseteq VoucherUsed PROVE ClaimHeld' /\ VoucherWithinLimit'
  <1>1. Cardinality(VoucherUsed') <= Cardinality(VoucherUsed) /\ Cardinality(VoucherUsed') \in Nat
    BY UsedFinite, FS_Subset, FS_CardinalityType
  <1>2. Cardinality(VoucherUsed) \in Nat /\ VoucherUses \in Nat
    BY UsedFinite, OrdersAssumption
  <1>3. VoucherWithinLimit'
    BY <1>1, <1>2 DEF VInv, VoucherWithinLimit
  <1>4. ClaimHeld'
    BY <1>1, <1>2 DEF VInv, ClaimHeld, Calm
  <1> QED BY <1>3, <1>4

LEMMA EndsCalm == ASSUME TypeOK, NEW p \in Procs, Ends(p), voucherMu' \in {voucherMu, Released(p)} PROVE Calm
  BY DEF TypeOK, Ends, Idle, Released, Calm, Claims

LEMMA GoesCalm == ASSUME TypeOK, NEW p \in Procs, NEW step \in Steps \ {"insert"}, Goes(p, step),
                         voucherMu' \in {voucherMu, Released(p)}
                  PROVE  Calm
  <1>1. thread'[p].at = step
    BY DEF TypeOK, Goes, Request
  <1>2. \A q \in Procs : q # p => thread'[q] = thread[q]
    BY DEF TypeOK, Goes
  <1> QED BY <1>1, <1>2 DEF Released, Calm, Claims

LEMMA UndoCalm == ASSUME TypeOK, NEW p \in Procs, Undo(p), voucherMu' \in {voucherMu, Released(p)} PROVE Calm
  <1>1. "unlist" \in Steps \ {"insert"}
    BY DEF Steps
  <1> QED BY <1>1, GoesCalm, EndsCalm DEF Undo

LEMMA BeginsCalm == ASSUME TypeOK, NEW p \in Procs, NEW r \in Request, r.at = "insert" => ~r.voucher,
                           thread' = [thread EXCEPT ![p] = r], voucherMu' = voucherMu
                    PROVE  Calm
  BY DEF TypeOK, Calm, Claims

\* an order starts to hold the voucher only when it is made
LEMMA UsedShrinks == ASSUME \A o \in Orders : /\ order'[o].voucher = order[o].voucher
                                              /\ order'[o].status \in Open \cup {"paid"} => order[o].status \in Open \cup {"paid"}
                     PROVE  VoucherUsed' \subseteq VoucherUsed
  BY DEF VoucherUsed

LEMMA UsedStays == ASSUME UNCHANGED order PROVE VoucherUsed' \subseteq VoucherUsed
  BY DEF VoucherUsed

LEMMA MovedUsed == ASSUME TypeOK, NEW o \in Orders, IsOpen(o), NEW s, order' = Moved(o, s) PROVE VoucherUsed' \subseteq VoucherUsed
  <1>1. \A p \in Orders : order'[p].voucher = order[p].voucher /\ (p # o => order'[p] = order[p])
    BY DEF TypeOK, OrderRow, Moved
  <1>2. order[o].status \in Open \cup {"paid"}
    BY DEF IsOpen
  <1> QED BY <1>1, <1>2, UsedShrinks

LEMMA BeginCalm == ASSUME TypeOK, NEW c \in Threads, Begin(c) PROVE Calm /\ VoucherUsed' \subseteq VoucherUsed
  <1> USE DEF NoHistory, Begins
  <1>p. c \in Procs
    BY Loops
  <1>1. ASSUME NEW a \in Accounts, NEW free \in BOOLEAN, NEW voucher \in BOOLEAN, NEW kind \in {"new", "trial"},
               SignUp(c, a, kind, free, voucher)
        PROVE  Calm /\ VoucherUsed' \subseteq VoucherUsed
    <2> DEFINE r == [Idle EXCEPT !.at = "provision", !.kind = kind, !.free = free, !.voucher = voucher, !.user = a]
    <2>1. r \in Request /\ r.at = "provision"
      BY DEF Idle, Request, Steps, Kinds
    <2> QED BY <1>1, <1>p, <2>1, BeginsCalm, UsedStays DEF SignUp
  <1>2. ASSUME NEW a \in Accounts, NEW voucher \in BOOLEAN, Renew(c, a, voucher)
        PROVE  Calm /\ VoucherUsed' \subseteq VoucherUsed
    <2> DEFINE r == [Idle EXCEPT !.at = IF voucher THEN "claim" ELSE "insert", !.kind = "renew", !.voucher = voucher, !.user = a]
    <2>1. r \in Request /\ (r.at = "insert" => ~r.voucher)
      BY DEF Idle, Request, Steps, Kinds
    <2> QED BY <1>2, <1>p, <2>1, BeginsCalm, UsedStays DEF Renew
  <1>3. ASSUME NEW o \in Orders, Arrive(c, o) PROVE Calm /\ VoucherUsed' \subseteq VoucherUsed
    <2> DEFINE r == [Idle EXCEPT !.at = "match", !.transfer = o, !.seen = InTime]
    <2>1. r \in Request /\ r.at = "match"
      BY DEF Idle, Request, Steps, Kinds, InTime
    <2> QED BY <1>3, <1>p, <2>1, BeginsCalm, UsedStays DEF Arrive
  <1>4. ASSUME NEW o \in Orders, Confirm(c, o) PROVE Calm /\ VoucherUsed' \subseteq VoucherUsed
    <2> DEFINE r == [Idle EXCEPT !.at = "close", !.order = o, !.user = order[o].user]
    <2>1. r \in Request /\ r.at = "close"
      BY DEF Idle, Request, Steps, Kinds, OrderRow, TypeOK
    <2> QED BY <1>4, <1>p, <2>1, BeginsCalm, UsedStays DEF Confirm
  <1>5. ASSUME NEW o \in Orders, Cancel(c, o) PROVE Calm /\ VoucherUsed' \subseteq VoucherUsed
    <2>1. Dropping(o) \in Request /\ Dropping(o).at = "drop"
      BY DroppingType DEF Dropping, Idle
    <2> QED BY <1>5, <1>p, <2>1, BeginsCalm, MovedUsed DEF Cancel
  <1>6. ASSUME NEW a \in Accounts, DeleteByHand(c, a) PROVE Calm /\ VoucherUsed' \subseteq VoucherUsed
    <2> DEFINE r == [Idle EXCEPT !.at = "unlist", !.user = a, !.hand = TRUE]
    <2>1. r \in Request /\ r.at = "unlist"
      BY DEF Idle, Request, Steps, Kinds
    <2> QED BY <1>6, <1>p, <2>1, BeginsCalm, UsedStays DEF DeleteByHand
  <1> QED BY <1>1, <1>2, <1>3, <1>4, <1>5, <1>6 DEF Begin

LEMMA RemoveCalm == ASSUME TypeOK, NEW p \in Procs, RemoveSteps(p) PROVE Calm /\ VoucherUsed' \subseteq VoucherUsed
  <1> USE DEF NoHistory
  <1>s. \A step \in {"others", "unlist", "remove"} : step \in Steps \ {"insert"}
    BY DEF Steps
  <1>1. CASE Drop(p)
    BY <1>1, <1>s, GoesCalm, EndsCalm, UsedStays DEF Drop
  <1>2. CASE Others(p)
    BY <1>2, <1>s, GoesCalm, EndsCalm, UsedStays DEF Others
  <1>3. CASE Unlist(p)
    <2>1. VoucherUsed' \subseteq VoucherUsed
      <3>1. \A o \in Orders : order'[o] = order[o] \/ (IsOpen(o) /\ order'[o].voucher = order[o].voucher)
        BY <1>3 DEF Unlist, TypeOK, OrderRow
      <3> QED BY <3>1, UsedShrinks DEF IsOpen
    <2> QED BY <1>3, <1>s, <2>1, GoesCalm DEF Unlist
  <1>4. CASE Remove(p)
    <2>1. VoucherUsed' \subseteq VoucherUsed
      <3>1. \A o \in Orders : order'[o].status = order[o].status /\ order'[o].voucher = order[o].voucher
        BY <1>4 DEF Remove, TypeOK, OrderRow
      <3> QED BY <3>1, UsedShrinks
    <2> QED BY <1>4, <2>1, EndsCalm DEF Remove
  <1> QED BY <1>1, <1>2, <1>3, <1>4 DEF RemoveSteps

LEMMA ClaimKeeps == ASSUME VInv, NEW c \in Threads, Claim(c) PROVE ClaimHeld' /\ VoucherWithinLimit'
  <1>p. c \in Procs /\ TypeOK /\ voucherMu = None /\ VoucherUsed' = VoucherUsed
    BY VTypes, Loops DEF Claim, VoucherUsed
  <1>1. CASE voucherMu' = c /\ Goes(c, "insert") /\ Cardinality(VoucherUsed) < VoucherUses
    <2>1. \A q \in Procs : ~Claims(q)
      BY <1>p, OrdersAssumption DEF VInv, ClaimHeld, Procs
    <2>2. \A q \in Procs : q # c => thread'[q] = thread[q]
      BY <1>1, <1>p DEF Goes, TypeOK
    <2>3. ClaimHeld'
      BY <1>1, <1>p, <2>1, <2>2 DEF ClaimHeld, Claims
    <2> QED BY <1>p, <2>3 DEF VInv, VoucherWithinLimit
  <1>2. CASE voucherMu' = voucherMu /\ Undo(c)
    BY <1>2, <1>p, UndoCalm, CalmKeeps
  <1> QED BY <1>1, <1>2 DEF Claim

LEMMA InsertKeeps == ASSUME VInv, NEW c \in Threads, Insert(c) PROVE ClaimHeld' /\ VoucherWithinLimit'
  <1> DEFINE r == thread[c]
  <1>p. c \in Procs /\ TypeOK /\ r.at = "insert" /\ voucherMu' = Released(c)
    BY VTypes, Loops DEF Insert
  <1>1. PICK o \in Orders, row \in OrderRow :
          /\ order[o].status = "absent" /\ row.voucher = r.voucher
          /\ order' = [order EXCEPT ![o] = row]
          /\ \/ Ends(c)
             \/ thread' = [thread EXCEPT ![c] = [r EXCEPT !.at = "close", !.order = o]]
    <2>1. PICK o \in Orders, t \in FreeTotals \cup {None} :
            /\ order[o].status = "absent"
            /\ order' = [order EXCEPT ![o] = [status |-> InsertedAs(r), kind |-> r.kind, total |-> t,
                                              voucher |-> r.voucher, user |-> r.user, left |-> OrderLife]]
            /\ IF r.kind = "trial" /\ ~TrialApproval
                 THEN thread' = [thread EXCEPT ![c] = [r EXCEPT !.at = "close", !.order = o]]
                 ELSE Ends(c)
      BY DEF Insert
    <2> DEFINE row == [status |-> InsertedAs(r), kind |-> r.kind, total |-> t, voucher |-> r.voucher,
                       user |-> r.user, left |-> OrderLife]
    <2>2. row \in OrderRow /\ row.voucher = r.voucher
      BY <1>p, OrdersAssumption DEF TypeOK, OrderRow, InsertedAs, Statuses, Open, Request, FreeTotals
    <2> QED BY <2>1, <2>2
  <1>c. ~Claims(c)'
    <2>1. r \in Request
      BY <1>p DEF TypeOK
    <2>2. [r EXCEPT !.at = "close", !.order = o].at = "close"
      BY <2>1 DEF Request
    <2>3. thread'[c].at \in {"idle", "close"}
      <3>1. thread'[c] = Idle \/ thread'[c] = [r EXCEPT !.at = "close", !.order = o]
        BY <1>1, <1>p DEF Ends, TypeOK
      <3>2. Idle.at = "idle"
        BY DEF Idle
      <3> QED BY <2>2, <3>1, <3>2
    <2> QED BY <2>3 DEF Claims
  <1>2. Calm
    <2>1. \A q \in Procs : q # c => thread'[q] = thread[q]
      BY <1>1, <1>p DEF Ends, TypeOK
    <2> QED BY <1>p, <1>c, <2>1 DEF Calm, Claims, Released
  <1>3. CASE ~r.voucher
    <2>1. VoucherUsed' \subseteq VoucherUsed
      BY <1>1, <1>3, <1>p DEF VoucherUsed, TypeOK
    <2> QED BY <1>2, <2>1, CalmKeeps
  <1>4. CASE r.voucher
    <2>1. voucherMu = c /\ Cardinality(VoucherUsed) < VoucherUses
      BY <1>4, <1>p DEF VInv, ClaimHeld, Claims
    <2>2. \A q \in Procs : ~Claims(q)'
      BY <1>2, <1>c, <2>1 DEF VInv, ClaimHeld, Calm
    <2>3. VoucherUsed' \subseteq VoucherUsed \cup {o}
      BY <1>1, <1>p DEF VoucherUsed, TypeOK
    <2>4. /\ IsFiniteSet(VoucherUsed \cup {o})
          /\ Cardinality(VoucherUsed \cup {o}) <= Cardinality(VoucherUsed) + 1
      <3>1. Cardinality(VoucherUsed \cup {o}) = IF o \in VoucherUsed THEN Cardinality(VoucherUsed) ELSE Cardinality(VoucherUsed) + 1
        BY UsedFinite, FS_AddElement
      <3> QED BY <3>1, UsedFinite, FS_AddElement
    <2>5. Cardinality(VoucherUsed') <= Cardinality(VoucherUsed) + 1
      <3>1. Cardinality(VoucherUsed') <= Cardinality(VoucherUsed \cup {o}) /\ Cardinality(VoucherUsed') \in Nat
              /\ Cardinality(VoucherUsed \cup {o}) \in Nat
        BY <2>3, <2>4, FS_Subset, FS_CardinalityType
      <3> QED BY <3>1, <2>4, UsedFinite
    <2>6. VoucherWithinLimit'
      <3>1. Cardinality(VoucherUsed') \in Nat
        BY <2>3, <2>4, FS_Subset, FS_CardinalityType
      <3> QED BY <2>1, <2>5, <3>1, UsedFinite, OrdersAssumption DEF VoucherWithinLimit
    <2> QED BY <2>2, <2>6 DEF ClaimHeld
  <1> QED BY <1>3, <1>4

LEMMA GoOnClaims == ASSUME VInv, NEW c \in Threads, GoOn(c) PROVE ClaimHeld' /\ VoucherWithinLimit'
  <1> USE DEF NoHistory
  <1>p. c \in Procs /\ TypeOK /\ Targeted /\ thread[c] \in Request
    BY VTypes, Loops DEF TypeOK
  <1>s. \A step \in {"claim", "close", "review", "find", "apply", "activate"} : step \in Steps \ {"insert"}
    BY DEF Steps
  <1>q. ASSUME Calm, UNCHANGED order PROVE ClaimHeld' /\ VoucherWithinLimit'
    BY <1>q, UsedStays, CalmKeeps
  <1>1. CASE Provision(c)
    <2>1. CASE thread[c].voucher
      BY <1>1, <2>1, <1>p, <1>s, <1>q, GoesCalm DEF Provision
    <2>2. CASE ~thread[c].voucher
      <3>1. thread' = [thread EXCEPT ![c].at = "insert"] /\ voucherMu' = voucherMu /\ order' = order
        BY <1>1, <2>2 DEF Provision, Goes
      <3>2. ~thread'[c].voucher /\ \A q \in Procs : q # c => thread'[q] = thread[q]
        BY <1>p, <2>2, <3>1 DEF TypeOK, Request
      <3> QED BY <1>q, <3>1, <3>2 DEF Calm, Claims
    <2> QED BY <2>1, <2>2
  <1>2. CASE Claim(c)
    BY <1>2, ClaimKeeps
  <1>3. CASE Insert(c)
    BY <1>3, InsertKeeps
  <1>4. CASE InsertFails(c)
    BY <1>4, <1>p, <1>q, UndoCalm DEF InsertFails
  <1>5. CASE Match(c)
    <2>1. ASSUME NEW o \in Orders,
                 thread' = [thread EXCEPT ![c] = [thread[c] EXCEPT !.at = IF AutoConfirm THEN "close" ELSE "review",
                                                                   !.order = o, !.user = order[o].user]],
                 voucherMu' = voucherMu
          PROVE  Calm
      <3> DEFINE r == [thread[c] EXCEPT !.at = IF AutoConfirm THEN "close" ELSE "review",
                                        !.order = o, !.user = order[o].user]
      <3>1. r \in Request /\ r.at \in {"close", "review"}
        BY <1>p DEF Request, Steps, TypeOK, OrderRow
      <3> QED BY <1>p, <2>1, <3>1, BeginsCalm
    <2>2. voucherMu' = voucherMu /\ order' = order
      BY <1>5 DEF Match
    <2>3. Calm
      BY <1>5, <1>p, <2>1, <2>2, EndsCalm DEF Match, PendingFor
    <2> QED BY <1>q, <2>2, <2>3
  <1>6. CASE Review(c)
    <2>1. Calm
      BY <1>6, <1>p, EndsCalm DEF Review
    <2>2. order' = (IF IsOpen(thread[c].order) THEN Moved(thread[c].order, "review") ELSE order) /\ thread[c].order \in Orders
      BY <1>6, <1>p DEF Review, Targeted
    <2>3. VoucherUsed' \subseteq VoucherUsed
      BY <1>p, <2>2, MovedUsed, UsedStays
    <2> QED BY <2>1, <2>3, CalmKeeps
  <1>7. CASE Close(c)
    <2>1. Calm
      BY <1>7, <1>p, <1>s, GoesCalm, EndsCalm DEF Close
    <2>2. order' = (IF IsOpen(thread[c].order) THEN Moved(thread[c].order, "paid") ELSE order) /\ thread[c].order \in Orders
      BY <1>7, <1>p DEF Close, Targeted
    <2>3. VoucherUsed' \subseteq VoucherUsed
      BY <1>p, <2>2, MovedUsed, UsedStays
    <2> QED BY <2>1, <2>3, CalmKeeps
  <1>8. CASE Find(c)
    <2>1. thread' = [thread EXCEPT ![c] = [thread[c] EXCEPT !.at = "apply", !.waits = account[thread[c].user] = "pending"]]
      BY <1>8, <1>p DEF Find, TypeOK
    <2> DEFINE r == [thread[c] EXCEPT !.at = "apply", !.waits = account[thread[c].user] = "pending"]
    <2>2. r \in Request /\ r.at = "apply"
      BY <1>p DEF Request, Steps
    <2>3. Calm
      BY <1>8, <1>p, <2>1, <2>2, BeginsCalm DEF Find
    <2> QED BY <1>8, <1>q, <2>3 DEF Find
  <1>9. CASE Apply(c)
    BY <1>9, <1>p, <1>s, <1>q, GoesCalm DEF Apply
  <1>10. CASE AlertSeller(c)
    BY <1>10, <1>p, <1>q, EndsCalm DEF AlertSeller
  <1>11. CASE Activate(c)
    BY <1>11, <1>p, <1>q, EndsCalm DEF Activate
  <1>12. CASE RemoveSteps(c)
    BY <1>12, <1>p, RemoveCalm, CalmKeeps
  <1> QED BY <1>1, <1>2, <1>3, <1>4, <1>5, <1>6, <1>7, <1>8, <1>9, <1>10, <1>11, <1>12 DEF GoOn

LEMMA OtherClaims == ASSUME VInv, LoopStep \/ Faults \/ Tick PROVE ClaimHeld' /\ VoucherWithinLimit'
  <1> USE DEF NoHistory
  <1>t. TypeOK
    BY VTypes
  <1>q. ASSUME Calm, UNCHANGED order PROVE ClaimHeld' /\ VoucherWithinLimit'
    BY <1>q, UsedStays, CalmKeeps
  <1>i. ASSUME UNCHANGED <<thread, voucherMu>> PROVE Calm
    BY <1>i DEF Calm, Claims
  <1>1. CASE Expire
    <2>1. VoucherUsed' \subseteq VoucherUsed
      <3>1. \A o \in Orders : order'[o] = order[o] \/ (order[o].status = "pending" /\ order'[o].voucher = order[o].voucher)
        BY <1>1, <1>t DEF Expire, Due, TypeOK, OrderRow
      <3> QED BY <3>1, UsedShrinks DEF Open
    <2> QED BY <1>1, <1>i, <2>1, CalmKeeps DEF Expire
  <1>2. CASE RemoveSteps(Loop)
    BY <1>2, <1>t, Loops, RemoveCalm, CalmKeeps
  <1>3. ASSUME NEW o \in expired, NextExpired(o) PROVE ClaimHeld' /\ VoucherWithinLimit'
    <2>1. Dropping(o) \in Request /\ Dropping(o).at = "drop"
      BY <1>t, DroppingType DEF Dropping, Idle, TypeOK
    <2>2. Calm
      BY <1>3, <1>t, <2>1, Loops, BeginsCalm DEF NextExpired, Begins
    <2> QED BY <1>3, <1>q, <2>2 DEF NextExpired
  <1>4. ASSUME NEW p \in Procs, Fail(p) PROVE ClaimHeld' /\ VoucherWithinLimit'
    <2>1. "unlist" \in Steps \ {"insert"}
      BY DEF Steps
    <2>2. Calm
      BY <1>4, <1>t, <2>1, GoesCalm, EndsCalm, UndoCalm DEF Fail
    <2> QED BY <1>4, <1>q, <2>2 DEF Fail
  <1>5. ASSUME NEW c \in Threads, NotProvisioned(c) PROVE ClaimHeld' /\ VoucherWithinLimit'
    BY <1>5, <1>t, <1>q, Loops, EndsCalm DEF NotProvisioned
  <1>6. CASE Crash
    <2>1. Calm
      BY <1>6 DEF Crash, Calm, Claims, Idle
    <2> QED BY <1>6, <1>q, <2>1 DEF Crash
  <1>7. CASE Tick
    <2>1. VoucherUsed' \subseteq VoucherUsed
      <3>1. \A o \in Orders : order'[o].status = order[o].status /\ order'[o].voucher = order[o].voucher
        BY <1>7, <1>t DEF Tick, TypeOK, OrderRow
      <3> QED BY <3>1, UsedShrinks
    <2> QED BY <1>7, <1>i, <2>1, CalmKeeps DEF Tick
  <1> QED BY <1>1, <1>2, <1>3, <1>4, <1>5, <1>6, <1>7 DEF LoopStep, Faults

\* No more orders hold a voucher than it has uses, with any number of requests at once: claimVoucher counts under the lock
\* that CreateHostingOrder holds until the row is in, and an order begins to hold the voucher only there.
THEOREM Voucher == Spec => []VoucherWithinLimit
  <1>1. Init => ClaimHeld /\ VoucherWithinLimit
    <2> SUFFICES ASSUME Init PROVE ClaimHeld /\ VoucherWithinLimit
      OBVIOUS
    <2>1. VoucherUsed = {}
      BY DEF Init, NoOrder, VoucherUsed, Open
    <2>2. VoucherWithinLimit
      BY <2>1, FS_EmptySet, OrdersAssumption DEF VoucherWithinLimit
    <2>3. ClaimHeld
      BY DEF Init, Idle, ClaimHeld, Claims
    <2> QED BY <2>2, <2>3
  <1>2. IInv /\ ClaimHeld /\ VoucherWithinLimit /\ [Next]_vars => ClaimHeld' /\ VoucherWithinLimit'
    <2> SUFFICES ASSUME VInv, [Next]_vars PROVE ClaimHeld' /\ VoucherWithinLimit'
      BY DEF VInv
    <2>1. ASSUME NEW c \in Threads, Begin(c) PROVE ClaimHeld' /\ VoucherWithinLimit'
      BY <2>1, BeginCalm, CalmKeeps, VTypes
    <2>2. CASE UNCHANGED vars
      BY <2>2, UsedStays, CalmKeeps DEF vars, Calm, Claims
    <2> QED BY <2>1, <2>2, GoOnClaims, OtherClaims DEF Next
  <1> QED BY <1>1, <1>2, Inductive, PTL DEF Spec
=============================================================================
