---------------------------- MODULE NotifySendProofs ----------------------------
(***************************************************************************)
(* How often, and by whom, a message is sent: theorems about NotifyOutbox  *)
(* that need the lease to be long enough for a batch, or that count what   *)
(* the workers still have to do.                                           *)
(***************************************************************************)
EXTENDS NotifyOutboxProofs, FiniteSetTheorems, FunctionTheorems

-----------------------------------------------------------------------------
(* The time a batch takes *)

\* one message takes the wait for the rate limit and the request; n messages of a batch take n times as long
Turn == InlineWait + SendTicks
Spend(n) == n * Turn

\* local steps of a worker take no noticeable time, and a lease lasts for a whole batch, each message of which may wait and time
\* out.  A batch of three meets it with the times of worker.go (3 * 17 s, 60 s); the claimBatch of five there does not
Timely == Prompt /\ Spend(Batch) <= Lease

LEMMA TurnType == Turn \in Nat /\ InlineWait \in Nat /\ SendTicks \in Nat /\ Turn = InlineWait + SendTicks
  BY TimeAssumption DEF Turn

LEMMA SpendType == ASSUME NEW n \in Nat PROVE Spend(n) \in Nat /\ Spend(n + 1) = Spend(n) + Turn
  BY TurnType DEF Spend

LEMMA SpendGrows == ASSUME NEW m \in Nat, NEW n \in Nat, m <= n PROVE Spend(m) <= Spend(n)
  <1>1. PICK d \in Nat : n = m + d
    <2>1. n - m \in Nat /\ n = m + (n - m)
      OBVIOUS
    <2> QED BY <2>1
  <1>2. Spend(n) = Spend(m) + d * Turn
    BY <1>1, TurnType DEF Spend
  <1>3. d * Turn \in Nat /\ Spend(m) \in Nat
    BY TurnType, SpendType
  <1> QED BY <1>2, <1>3

\* LIMIT n: a claim takes no more messages than a batch holds
LEMMA ClaimedFew == ASSUME NEW S \in SUBSET Msg, IsFiniteSet(S)
                    PROVE  IsFiniteSet(Claimed(S)) /\ Cardinality(Claimed(S)) <= Batch
  <1> DEFINE Before(m) == {n \in S : Ahead(n, m)}
             T == 0 .. Batch - 1
             f == [m \in Claimed(S) |-> Cardinality(Before(m))]
  <1>b. Batch \in Nat \ {0}
    BY TimeAssumption
  <1>1. ASSUME NEW m \in S PROVE IsFiniteSet(Before(m)) /\ Cardinality(Before(m)) \in Nat
    <2>1. Before(m) \in SUBSET S
      OBVIOUS
    <2> QED BY <2>1, FS_Subset, FS_CardinalityType
  <1>2. f \in [Claimed(S) -> T]
    BY <1>b, <1>1 DEF Claimed
  <1>3. ASSUME NEW m \in S, NEW n \in S, Ahead(m, n) PROVE Cardinality(Before(m)) < Cardinality(Before(n))
    <2>1. \A k \in Msg : Prio[k] \in {0, 1} /\ k \in Nat
      BY PlaceAssumption, MsgAssumption
    <2>2. Before(m) \subseteq Before(n)
      BY <2>1, <1>3 DEF Ahead
    <2>3. m \in Before(n) /\ m \notin Before(m)
      BY <2>1, <1>3 DEF Ahead
    <2>4. /\ Cardinality(Before(m)) <= Cardinality(Before(n))
          /\ Cardinality(Before(n)) = Cardinality(Before(m)) => Before(n) = Before(m)
      BY <1>1, <2>2, FS_Subset
    <2>5. Before(m) # Before(n)
      BY <2>3
    <2>6. Cardinality(Before(m)) \in Nat /\ Cardinality(Before(n)) \in Nat
      BY <1>1
    <2> HIDE DEF Before
    <2> QED BY <2>4, <2>5, <2>6
  <1>4. \A m, n \in Claimed(S) : f[m] = f[n] => m = n
    <2> SUFFICES ASSUME NEW m \in Claimed(S), NEW n \in Claimed(S), f[m] = f[n], m # n PROVE FALSE
      OBVIOUS
    <2>1. m \in S /\ n \in S /\ m \in Msg /\ n \in Msg
      BY DEF Claimed
    <2>2. Ahead(m, n) \/ Ahead(n, m)
      BY <2>1, PlaceAssumption, MsgAssumption DEF Ahead
    <2>3. f[m] \in Nat /\ f[m] = Cardinality(Before(m)) /\ f[n] = Cardinality(Before(n))
      BY <1>1, <2>1
    <2> QED BY <1>1, <1>3, <2>1, <2>2, <2>3
  <1>5. f \in Injection(Claimed(S), T)
    BY <1>2, <1>4, Fun_IsInj
  <1>6. IsFiniteSet(T) /\ Cardinality(T) = Batch
    BY <1>b, FS_Interval
  <1> QED BY <1>5, <1>6, FS_Injection

-----------------------------------------------------------------------------
(* What a worker has in hand stays its own for as long as it needs *)

\* the time worker w may still take for all it has in hand
Now(w) == CASE pc[w] = "wait" -> clock[w] + SendTicks
            [] pc[w] = "send" -> SendTicks - clock[w]
            [] OTHER -> 0
Need(w) == Spend(Cardinality(claims[w])) + Now(w)

\* the lease of each message in hand outlasts that time, or the message was deleted
InTime ==
    \A w \in Worker : Alive(w) => \A c \in InHand(w) :
        outbox[c.msg].status = "gone" \/ (Holds(w, c.msg) /\ outbox[c.msg].left >= Need(w))

\* no message is in two hands, or in one hand twice
HandOnce ==
    \A v, w \in Worker : Alive(v) /\ Alive(w) =>
        \A c \in InHand(v) : \A d \in InHand(w) : c.msg = d.msg => v = w /\ c = d

\* hands are no larger than a batch, and a request takes no longer than its timeout
Small ==
    \A w \in Worker : /\ IsFiniteSet(claims[w]) /\ Cardinality(claims[w]) <= Batch
                      /\ cur[w] \notin claims[w]
                      /\ pc[w] = "send" => clock[w] <= SendTicks

\* so far, finitely many messages were queued
Few == IsFiniteSet({m \in Msg : outbox[m].status # "absent"})

HandInv == InTime /\ HandOnce /\ Small /\ Few

LEMMA NeedType == ASSUME TypeOK, Small, NEW w \in Worker PROVE Now(w) \in Nat /\ Need(w) \in Nat
  <1>1. clock[w] \in Nat /\ SendTicks \in Nat /\ Cardinality(claims[w]) \in Nat
    BY TurnType, FS_CardinalityType DEF TypeOK, Small
  <1>2. Now(w) \in Nat
    BY <1>1 DEF Now, Small
  <1> QED BY <1>1, <1>2, SpendType DEF Need

LEMMA NeedTypeNext == ASSUME TypeOK', Small', NEW w \in Worker PROVE Now(w)' \in Nat /\ Need(w)' \in Nat
  <1>1. clock'[w] \in Nat /\ SendTicks \in Nat /\ Cardinality(claims'[w]) \in Nat
    BY TurnType, FS_CardinalityType DEF TypeOK, Small
  <1>2. Now(w)' \in Nat
    BY <1>1 DEF Now, Small
  <1> QED BY <1>1, <1>2, SpendType DEF Need

\* a step after which nobody has more in hand, or needs more time for it, and that lets the rows in hand alone
LEMMA HandsCalm ==
    ASSUME TypeOK, InTime, HandOnce, Small, TypeOK', Small',
           \A w \in Worker : Alive(w)' /\ InHand(w)' # {} =>
               Alive(w) /\ InHand(w)' \subseteq InHand(w) /\ Need(w)' <= Need(w),
           \A w \in Worker : Alive(w)' => \A c \in InHand(w)' :
               outbox'[c.msg] = outbox[c.msg] \/ outbox'[c.msg].status = "gone"
    PROVE  InTime' /\ HandOnce'
  <1>1. HandOnce'
    BY DEF HandOnce
  <1>2. ASSUME NEW w \in Worker, Alive(w)', NEW c \in InHand(w)', outbox'[c.msg].status # "gone"
        PROVE  Holds(w, c.msg)' /\ outbox'[c.msg].left >= Need(w)'
    <2>1. Alive(w) /\ c \in InHand(w) /\ Need(w)' <= Need(w) /\ outbox'[c.msg] = outbox[c.msg]
      BY <1>2
    <2>2. Holds(w, c.msg) /\ outbox[c.msg].left >= Need(w)
      BY <1>2, <2>1 DEF InTime
    <2>3. Need(w) \in Nat /\ Need(w)' \in Nat
      BY NeedType, NeedTypeNext
    <2>4. c.msg \in Msg /\ outbox[c.msg].left \in Int
      BY <2>1 DEF TypeOK, InHand, Claim, Row
    <2> QED BY <2>1, <2>2, <2>3, <2>4 DEF Holds
  <1>3. InTime'
    BY <1>2 DEF InTime
  <1> QED BY <1>1, <1>3

\* hands stay small: a claim takes a batch at most, and the timeout ends a request
LEMMA SmallStep == TypeOK /\ InWork /\ Small /\ Few /\ [Next]_vars => Small' /\ Few'
  <1> SUFFICES ASSUME TypeOK, InWork, Small, Few, [Next]_vars PROVE Small' /\ Few'
    OBVIOUS
  <1> DEFINE Queued == {m \in Msg : outbox[m].status # "absent"}
  <1>n. SendTicks \in Nat /\ Batch \in Nat /\ None \notin Claim
    BY TurnType, TimeAssumption, NoneAssumption
  \* a step that queues nothing new
  <1>f. ASSUME \A m \in Msg : outbox[m].status = "absent" => outbox'[m].status = "absent" PROVE Few'
    <2>1. {m \in Msg : outbox'[m].status # "absent"} \in SUBSET Queued
      BY <1>f
    <2> QED BY <2>1, FS_Subset DEF Few
  \* a step of workers that take no new claims, and do not get further in a request
  <1>s. ASSUME \A w \in Worker : \/ claims'[w] = claims[w] /\ cur'[w] \in {cur[w], None}
                                 \/ claims'[w] = {}
                                 \/ \E c \in claims[w] : claims'[w] = claims[w] \ {c} /\ cur'[w] = c,
               \A w \in Worker : pc'[w] = "send" => clock'[w] = 0 \/ (pc[w] = "send" /\ clock'[w] = clock[w])
        PROVE  Small'
    <2> SUFFICES ASSUME NEW w \in Worker
                 PROVE  /\ IsFiniteSet(claims'[w]) /\ Cardinality(claims'[w]) <= Batch /\ cur'[w] \notin claims'[w]
                        /\ pc'[w] = "send" => clock'[w] <= SendTicks
      BY DEF Small
    <2>1. None \notin claims[w]
      BY <1>n DEF TypeOK
    <2>2. claims'[w] \in SUBSET claims[w] /\ cur'[w] \notin claims'[w]
      BY <1>s, <2>1 DEF Small
    <2>3. Cardinality(claims[w]) \in Nat /\ Cardinality(claims'[w]) \in Nat /\ IsFiniteSet(claims'[w])
          /\ Cardinality(claims'[w]) <= Cardinality(claims[w])
      BY <2>2, FS_Subset, FS_CardinalityType DEF Small
    <2>4. pc'[w] = "send" => clock'[w] <= SendTicks
      BY <1>n, <1>s DEF Small
    <2> QED BY <1>n, <2>2, <2>3, <2>4 DEF Small
  <1>1. ASSUME NEW m \in Msg, Enqueue(m) PROVE Small' /\ Few'
    <2>1. {n \in Msg : outbox'[n].status # "absent"} = Queued \cup {m}
      BY <1>1 DEF Enqueue, TypeOK, Row
    <2>2. Few'
      BY <2>1, FS_AddElement DEF Few
    <2> QED BY <1>1, <1>s, <2>2 DEF Enqueue, workers
  <1>2. ASSUME NEW m \in Msg, Requeue(m) \/ Delete(m) PROVE Small' /\ Few'
    <2>1. \A n \in Msg : outbox[n].status = "absent" => outbox'[n].status = "absent"
      BY <1>2 DEF Requeue, Requeueable, Delete, Present, Ended, TypeOK
    <2> QED BY <1>2, <1>f, <1>s, <2>1 DEF Requeue, Delete, workers
  <1>3. ASSUME Reap PROVE Small' /\ Few'
    BY <1>3, <1>f, <1>s DEF Reap, Lapsed, workers
  <1>r. ASSUME NEW W, outbox' = Released(W) PROVE Few'
    BY <1>f, <1>r DEF Released
  <1>4. ASSUME NEW w \in Worker, ClaimOutbox(w) PROVE Small' /\ Few'
    <2> DEFINE C == Claimed(Claimable)
               B == {[msg |-> m, tries |-> TryNumber(m)] : m \in C}
               f == [c \in B |-> c.msg]
    <2>1. Claimable \in SUBSET Queued /\ Claimable \in SUBSET Msg
      BY DEF Claimable, Due
    <2>2. IsFiniteSet(C) /\ Cardinality(C) <= Batch /\ Cardinality(C) \in Nat
      BY <2>1, FS_Subset, ClaimedFew, FS_CardinalityType DEF Few
    <2>3. f \in Injection(B, C)
      <3>1. f \in [B -> C]
        OBVIOUS
      <3>2. \A c, d \in B : f[c] = f[d] => c = d
        OBVIOUS
      <3> QED BY <3>1, <3>2, Fun_IsInj
    <2>4. IsFiniteSet(B) /\ Cardinality(B) <= Cardinality(C) /\ Cardinality(B) \in Nat
      BY <2>2, <2>3, FS_Injection, FS_CardinalityType
    <2>5. claims'[w] = B /\ cur'[w] = None /\ pc'[w] = "free" /\ \A v \in Worker \ {w} : claims'[v] = claims[v]
      BY <1>4 DEF ClaimOutbox, TypeOK, InWork
    <2>6. None \notin B
      <3>1. \A m \in C : TryNumber(m) \in Tries /\ m \in Msg
        BY <2>1, Clamps DEF Claimed, TryNumber, TypeOK, Row
      <3> QED BY <1>n, <3>1 DEF Claim
    <2>7. Small'
      BY <1>4, <1>n, <2>2, <2>4, <2>5, <2>6 DEF ClaimOutbox, Small
    <2>8. Few'
      BY <1>4, <1>f, <2>1 DEF ClaimOutbox, Claimed, Claimable, Due
    <2> QED BY <2>7, <2>8
  <1>5. ASSUME NEW w \in Worker, NEW c \in claims[w], Look(w, c) PROVE Small' /\ Few'
    <2>1. outbox' = outbox
      BY <1>5 DEF Look
    <2>2. claims' = [claims EXCEPT ![w] = @ \ {c}] /\ cur' = [cur EXCEPT ![w] = c]
      BY <1>5 DEF Look
    <2>3. \A v \in Worker : pc'[v] = "send" => clock'[v] = 0 \/ (pc[v] = "send" /\ clock'[v] = clock[v])
      BY <1>5 DEF Look, Conclude, StartSend, TypeOK
    <2> QED BY <1>f, <1>s, <2>1, <2>2, <2>3 DEF TypeOK
  <1>6. ASSUME NEW w \in Worker, Waited(w) PROVE Small' /\ Few'
    <2>1. \A v \in Worker : pc'[v] = "send" => clock'[v] = 0 \/ (pc[v] = "send" /\ clock'[v] = clock[v])
      BY <1>6 DEF Waited, StartSend, TypeOK
    <2> QED BY <1>6, <1>f, <1>s, <2>1 DEF Waited
  <1>7. ASSUME NEW w \in Worker, NEW r \in Answers, Answered(w, r) PROVE Small' /\ Few'
    <2>1. \A v \in Worker : pc'[v] = "send" => pc[v] = "send"
      BY <1>7 DEF Answered, TypeOK
    <2> QED BY <1>7, <1>f, <1>s, <2>1 DEF Answered
  <1>8. ASSUME NEW w \in Worker, Report(w) PROVE Small' /\ Few'
    <2>1. \A m \in Msg : outbox[m].status = "absent" => outbox'[m].status = "absent"
      BY <1>8 DEF Report, Holds, TypeOK
    <2>2. \A v \in Worker : cur'[v] \in {cur[v], None} /\ (pc'[v] = "send" => pc[v] = "send" /\ clock'[v] = clock[v])
      BY <1>8 DEF Report, TypeOK
    <2> QED BY <1>8, <1>f, <1>s, <2>1, <2>2 DEF Report
  <1>9. ASSUME NEW w \in Worker, Quit(w) PROVE Small' /\ Few'
    <2>1. \A v \in Worker : claims'[v] \in {claims[v], {}} /\ (pc'[v] = "send" => pc[v] = "send")
      BY <1>9 DEF Quit, TypeOK
    <2>2. Small'
      BY <1>9, <1>s, <2>1 DEF Quit
    <2> QED BY <1>9, <1>f, <1>r, <2>2 DEF Quit
  <1>10. ASSUME NEW w \in Worker, Orphan(w) PROVE Small' /\ Few'
    <2>1. \A v \in Worker : cur'[v] \in {cur[v], None} /\ (pc'[v] = "send" => pc[v] = "send")
      BY <1>10 DEF Orphan, TypeOK
    <2> QED BY <1>10, <1>f, <1>s, <2>1 DEF Orphan
  <1>11. ASSUME NEW p \in Pool, Start(p) PROVE Small' /\ Few'
    <2>1. \A v \in Worker : pc'[v] = "send" => pc[v] = "send"
      BY <1>11 DEF Start
    <2> QED BY <1>11, <1>f, <1>s, <2>1 DEF Start
  <1>12. ASSUME NEW p \in Pool, Stop(p) PROVE Small' /\ Few'
    BY <1>12, <1>f, <1>s DEF Stop, workers
  <1>13. ASSUME NEW p \in Pool, Ends(p) PROVE Small'
    <2>1. \A v \in Worker : pc'[v] = "send" => pc[v] = "send" /\ clock'[v] = clock[v]
      BY <1>13 DEF Ends
    <2> QED BY <1>13, <1>s, <2>1 DEF Ends
  <1>14. ASSUME NEW p \in Pool, StopEnd(p) \/ Crash(p) PROVE Small' /\ Few'
    BY <1>13, <1>14, <1>f, <1>r DEF StopEnd, Crash
  <1>15. ASSUME NEW a \in Addr, Switch(a) PROVE Small' /\ Few'
    BY <1>15, <1>f, <1>s DEF Switch, workers
  <1>16. ASSUME Tick PROVE Small' /\ Few'
    <2>0. (\A m \in Msg : outbox[m] \in Row) /\ \A v \in Worker : Smaller(clock[v] + 1, SendTicks) <= SendTicks
      BY <1>n DEF TypeOK, Smaller
    <2>1. \A m \in Msg : outbox'[m].status = outbox[m].status
      BY <1>16, <2>0 DEF Tick, Row
    <2>2. \A v \in Worker : pc[v] = "send" => clock'[v] <= SendTicks
      BY <1>16, <2>0 DEF Tick
    <2>3. Small'
      BY <1>16, <2>2 DEF Tick, Small
    <2> QED BY <1>f, <2>1, <2>3
  <1>17. ASSUME UNCHANGED vars PROVE Small' /\ Few'
    BY <1>17, <1>f, <1>s DEF vars, workers
  <1> QED BY <1>1, <1>2, <1>3, <1>4, <1>5, <1>6, <1>7, <1>8, <1>9, <1>10, <1>11, <1>12, <1>14, <1>15, <1>16, <1>17
          DEF Next, WorkerStep

\* no step takes a message out of the hand of a worker that still needs it, if batches fit into leases
LEMMA HandStep == ASSUME Timely
                  PROVE  TypeOK /\ InWork /\ HandInv /\ [Next]_vars => HandInv'
  <1> SUFFICES ASSUME TypeOK, InWork, HandInv, [Next]_vars PROVE HandInv'
    OBVIOUS
  <1>0. TypeOK' /\ Small' /\ Few' /\ InTime /\ HandOnce /\ Small
    BY TypeStep, SmallStep DEF HandInv
  <1> SUFFICES InTime' /\ HandOnce'
    BY <1>0 DEF HandInv
  <1>n. /\ \A w \in Worker : Now(w) \in Nat /\ Need(w) \in Nat
        /\ \A w \in Worker : Now(w)' \in Nat /\ Need(w)' \in Nat
        /\ None \notin Claim
    BY <1>0, NeedType, NeedTypeNext, NoneAssumption
  <1>h. ASSUME NEW w \in Worker, Alive(w), NEW c \in InHand(w)
        PROVE  /\ c \in Claim /\ c.msg \in Msg /\ outbox[c.msg] \in Row
               /\ \/ outbox[c.msg].status = "gone"
                  \/ outbox[c.msg].status = "sending" /\ outbox[c.msg].holder = w /\ outbox[c.msg].left >= Need(w)
    BY <1>0, <1>h DEF InTime, Holds, TypeOK, InHand, Claim
  \* a step of nobody's hands that touches only rows that nobody holds in time
  <1>s. ASSUME UNCHANGED workers,
               \A m \in Msg : \/ outbox'[m] = outbox[m] \/ outbox'[m].status = "gone"
                              \/ outbox[m].status \notin {"sending", "gone"}
                              \/ outbox[m].status = "sending" /\ outbox[m].left < 0
        PROVE  InTime' /\ HandOnce'
    <2>1. \A w \in Worker : /\ Alive(w)' = Alive(w) /\ InHand(w)' = InHand(w) /\ Need(w)' = Need(w)
      BY <1>s DEF workers, Alive, InHand, Need, Now
    <2>2. ASSUME NEW w \in Worker, Alive(w), NEW c \in InHand(w)
          PROVE  outbox'[c.msg] = outbox[c.msg] \/ outbox'[c.msg].status = "gone"
      <3>1. outbox[c.msg].left \in Int
        BY <1>h, <2>2 DEF Row
      <3> QED BY <1>h, <1>n, <1>s, <2>2, <3>1
    <2> QED BY <1>0, <1>n, <2>1, <2>2, HandsCalm
  \* a step of one worker that leaves the table alone
  <1>w. ASSUME NEW w \in Worker, outbox' = outbox,
               \A v \in Worker \ {w} : UNCHANGED <<pc[v], claims[v], cur[v], clock[v]>>,
               Alive(w)' => Alive(w) /\ InHand(w)' \subseteq InHand(w) /\ Need(w)' <= Need(w)
        PROVE  InTime' /\ HandOnce'
    <2>1. \A v \in Worker \ {w} : Alive(v)' = Alive(v) /\ InHand(v)' = InHand(v) /\ Need(v)' = Need(v)
      BY <1>w DEF Alive, InHand, Need, Now
    <2> QED BY <1>0, <1>n, <1>w, <2>1, HandsCalm
  <1>1. ASSUME NEW m \in Msg, Enqueue(m) PROVE InTime' /\ HandOnce'
    BY <1>1, <1>s DEF Enqueue, TypeOK
  <1>2. ASSUME NEW m \in Msg, Requeue(m) PROVE InTime' /\ HandOnce'
    BY <1>2, <1>s DEF Requeue, Requeueable, TypeOK
  <1>3. ASSUME NEW m \in Msg, Delete(m) PROVE InTime' /\ HandOnce'
    <2>1. outbox'[m].status = "gone" /\ \A n \in Msg \ {m} : outbox'[n] = outbox[n]
      BY <1>3 DEF Delete, TypeOK, NoRow
    <2> QED BY <1>3, <1>s, <2>1 DEF Delete
  <1>4. ASSUME Reap PROVE InTime' /\ HandOnce'
    BY <1>4, <1>s DEF Reap, Lapsed
  <1>5. ASSUME NEW w \in Worker, ClaimOutbox(w) PROVE InTime' /\ HandOnce'
    <2> DEFINE C == Claimed(Claimable)
    <2>1. \A m \in C : m \in Msg /\ outbox[m].status = "pending"
      BY DEF Claimed, Claimable, Due
    <2>2. /\ \A m \in C : outbox'[m].status = "sending" /\ outbox'[m].holder = w /\ outbox'[m].left = Lease
          /\ \A m \in Msg \ C : outbox'[m] = outbox[m]
      BY <1>5, <2>1 DEF ClaimOutbox
    <2>3. /\ pc' = pc /\ cur' = cur /\ clock' = clock /\ pc[w] = "free" /\ cur[w] = None
          /\ \A v \in Worker \ {w} : claims'[v] = claims[v]
          /\ claims'[w] = {[msg |-> m, tries |-> TryNumber(m)] : m \in C}
      BY <1>5 DEF ClaimOutbox, InWork, TypeOK
    <2>4. InHand(w)' = {[msg |-> m, tries |-> TryNumber(m)] : m \in C} /\ Alive(w)
      BY <2>3 DEF InHand, Alive
    <2>5. \A v \in Worker \ {w} : InHand(v)' = InHand(v) /\ Need(v)' = Need(v) /\ Alive(v)' = Alive(v)
      BY <2>3 DEF InHand, Need, Now, Alive
    <2>6. Need(w)' <= Lease
      <3>1. Cardinality(claims'[w]) \in Nat /\ Cardinality(claims'[w]) <= Batch /\ Batch \in Nat /\ Lease \in Nat
        BY <1>0, FS_CardinalityType, TimeAssumption DEF Small
      <3>2. Spend(Cardinality(claims'[w])) <= Spend(Batch) /\ Spend(Cardinality(claims'[w])) \in Nat /\ Spend(Batch) \in Nat
        BY <3>1, SpendGrows, SpendType
      <3>3. Need(w)' = Spend(Cardinality(claims'[w]))
        BY <2>3, <3>2 DEF Need, Now
      <3> QED BY <3>1, <3>2, <3>3 DEF Timely
    <2>7. \A v \in Worker \ {w} : Alive(v) => \A c \in InHand(v) : c.msg \in Msg \ C
      BY <1>h, <2>1
    <2>8. InTime'
      <3>1. ASSUME NEW c \in InHand(w)' PROVE Holds(w, c.msg)' /\ outbox'[c.msg].left >= Need(w)'
        BY <1>n, <2>2, <2>4, <2>6, TimeAssumption DEF Holds
      <3>2. ASSUME NEW v \in Worker \ {w}, Alive(v), NEW c \in InHand(v), outbox'[c.msg].status # "gone"
            PROVE  Holds(v, c.msg)' /\ outbox'[c.msg].left >= Need(v)'
        BY <1>h, <2>2, <2>5, <2>7, <3>2 DEF Holds
      <3> QED BY <2>5, <3>1, <3>2 DEF InTime
    <2>9. HandOnce'
      <3>1. ASSUME NEW c \in InHand(w)', NEW d \in InHand(w)', c.msg = d.msg PROVE c = d
        BY <2>4, <3>1
      <3>2. \A v \in Worker \ {w} : Alive(v) => \A c \in InHand(v) : \A d \in InHand(w)' : c.msg # d.msg
        BY <2>4, <2>7
      <3>3. \A u, v \in Worker \ {w} : Alive(u) /\ Alive(v) =>
              \A c \in InHand(u) : \A d \in InHand(v) : c.msg = d.msg => u = v /\ c = d
        BY <1>0 DEF HandOnce
      <3> QED BY <2>5, <3>1, <3>2, <3>3 DEF HandOnce
    <2> QED BY <2>8, <2>9
  <1>6. ASSUME NEW w \in Worker, NEW c \in claims[w], Look(w, c) PROVE InTime' /\ HandOnce'
    <2>1. outbox' = outbox /\ pc[w] = "free" /\ cur[w] = None
          /\ claims' = [claims EXCEPT ![w] = @ \ {c}] /\ cur' = [cur EXCEPT ![w] = c]
      BY <1>6 DEF Look, InWork
    <2>2. \A v \in Worker \ {w} : UNCHANGED <<pc[v], claims[v], cur[v], clock[v]>>
      BY <1>6 DEF Look, Conclude, StartSend, TypeOK
    <2>3. claims'[w] = claims[w] \ {c} /\ InHand(w)' \subseteq InHand(w) /\ Alive(w)
      BY <2>1 DEF InHand, TypeOK, Alive
    <2>4. Now(w)' <= Turn
      <3>1. \/ pc'[w] = "report"
            \/ pc'[w] = "wait" /\ clock'[w] \in 1 .. InlineWait
            \/ pc'[w] = "send" /\ clock'[w] = 0
        BY <1>6 DEF Look, Conclude, StartSend, TypeOK
      <3> QED BY <3>1, TurnType DEF Now
    <2>5. Need(w)' <= Need(w)
      <3> DEFINE k == Cardinality(claims[w])
                 j == Cardinality(claims[w] \ {c})
      <3>1. k \in Nat /\ j \in Nat /\ k = j + 1
        <4>1. IsFiniteSet(claims[w]) /\ IsFiniteSet(claims[w] \ {c}) /\ j = k - 1
          BY <1>0, FS_RemoveElement DEF Small
        <4>2. k \in Nat /\ j \in Nat
          BY <4>1, FS_CardinalityType
        <4> QED BY <4>1, <4>2
      <3>2. Spend(k) = Spend(j) + Turn /\ Spend(j) \in Nat
        BY <3>1, SpendType
      <3>3. Need(w)' = Spend(j) + Now(w)'
        BY <2>3 DEF Need
      <3>4. Need(w) = Spend(k) + Now(w) /\ Now(w) \in Nat
        BY <1>n DEF Need
      <3> QED BY <1>n, <2>4, <3>2, <3>3, <3>4, TurnType
    <2> QED BY <1>w, <2>1, <2>2, <2>3, <2>5
  \* a worker that goes on with its message needs no more time for the rest
  <1>g. ASSUME NEW w \in Worker, claims'[w] = claims[w], Now(w)' <= Now(w) PROVE Need(w)' <= Need(w)
    <2>1. Spend(Cardinality(claims[w])) \in Nat
      BY <1>0, FS_CardinalityType, SpendType DEF Small
    <2> QED BY <1>g, <1>n, <2>1 DEF Need
  <1>7. ASSUME NEW w \in Worker, Waited(w) PROVE InTime' /\ HandOnce'
    <2>1. \A v \in Worker \ {w} : UNCHANGED <<pc[v], claims[v], cur[v], clock[v]>>
      BY <1>7 DEF Waited, StartSend, TypeOK
    <2>2. /\ pc[w] = "wait" /\ claims' = claims /\ cur' = cur /\ outbox' = outbox
          /\ pc'[w] = "report" \/ (pc'[w] = "send" /\ clock'[w] = 0)
      BY <1>7 DEF Waited, StartSend, TypeOK
    <2>3. Now(w)' <= Now(w)
      BY <1>n, <2>2, TurnType DEF Now, TypeOK
    <2> QED BY <1>g, <1>w, <2>1, <2>2, <2>3 DEF InHand, Alive
  <1>8. ASSUME NEW w \in Worker, NEW r \in Answers, Answered(w, r) PROVE InTime' /\ HandOnce'
    <2>1. /\ pc[w] = "send" /\ pc'[w] = "report" /\ claims' = claims /\ cur' = cur /\ outbox' = outbox
          /\ \A v \in Worker \ {w} : UNCHANGED <<pc[v], claims[v], cur[v], clock[v]>>
      BY <1>8 DEF Answered, TypeOK
    <2>2. Now(w)' = 0
      BY <2>1 DEF Now
    <2> QED BY <1>g, <1>n, <1>w, <2>1, <2>2 DEF InHand, Alive
  <1>9. ASSUME NEW w \in Worker, Report(w) PROVE InTime' /\ HandOnce'
    <2>1. /\ pc[w] = "report" /\ pc'[w] = "free" /\ cur'[w] = None /\ claims' = claims /\ cur[w] \in Claim
          /\ \A v \in Worker \ {w} : UNCHANGED <<pc[v], cur[v], clock[v]>>
          /\ \A m \in Msg : m # cur[w].msg => outbox'[m] = outbox[m]
      BY <1>9 DEF Report, TypeOK, InWork
    <2>2. Now(w)' = 0 /\ Alive(w) /\ cur[w] \in InHand(w) /\ InHand(w)' = claims[w] /\ claims[w] \subseteq InHand(w)
      BY <1>n, <2>1 DEF Now, Alive, InHand
    <2>3. \A v \in Worker \ {w} : Alive(v)' = Alive(v) /\ InHand(v)' = InHand(v) /\ Need(v)' = Need(v)
      BY <2>1 DEF Alive, InHand, Need, Now
    <2>4. Need(w)' <= Need(w)
      BY <1>g, <1>n, <2>1, <2>2
    <2>5. \A c \in claims[w] : c.msg # cur[w].msg
      BY <1>0, <2>2 DEF HandOnce, Small
    <2>6. \A v \in Worker \ {w} : Alive(v) => \A c \in InHand(v) : c.msg # cur[w].msg
      BY <1>0, <2>2 DEF HandOnce
    <2>7. \A v \in Worker : Alive(v)' => \A c \in InHand(v)' : outbox'[c.msg] = outbox[c.msg]
      BY <1>h, <2>1, <2>2, <2>3, <2>5, <2>6
    <2> QED BY <1>0, <1>n, <2>2, <2>3, <2>4, <2>7, HandsCalm
  \* workers end, and their messages are given back or stay held: those of the others stay
  <1>e. ASSUME NEW W \in SUBSET Worker, \A w \in W : ~Alive(w)', outbox' = outbox \/ outbox' = Released(W),
               \A v \in Worker : Alive(v)' => Alive(v) /\ UNCHANGED <<pc[v], claims[v], cur[v], clock[v]>>
        PROVE  InTime' /\ HandOnce'
    <2>1. \A v \in Worker : Alive(v)' => Alive(v) /\ v \notin W /\ InHand(v)' = InHand(v) /\ Need(v)' = Need(v)
      BY <1>e DEF InHand, Need, Now
    <2>2. \A v \in Worker : Alive(v)' => \A c \in InHand(v)' : outbox'[c.msg] = outbox[c.msg]
      BY <1>e, <1>h, <2>1 DEF Released
    <2> QED BY <1>0, <1>n, <2>1, <2>2, HandsCalm
  <1>10. ASSUME NEW w \in Worker, Quit(w) PROVE InTime' /\ HandOnce'
    <2>1. ~Alive(w)' /\ \A v \in Worker \ {w} : (Alive(v)' = Alive(v)) /\ UNCHANGED <<pc[v], claims[v], cur[v], clock[v]>>
      BY <1>10 DEF Quit, Alive, TypeOK
    <2>2. {w} \in SUBSET Worker /\ (outbox' = outbox \/ outbox' = Released({w}))
      BY <1>10 DEF Quit
    <2> QED BY <1>e, <2>1, <2>2
  <1>11. ASSUME NEW w \in Worker, Orphan(w) PROVE InTime' /\ HandOnce'
    <2>1. ~Alive(w)' /\ \A v \in Worker \ {w} : UNCHANGED <<pc[v], claims[v], cur[v], clock[v]>>
      BY <1>11 DEF Orphan, Alive, TypeOK
    <2> QED BY <1>11, <1>w, <2>1 DEF Orphan
  <1>12. ASSUME NEW p \in Pool, Start(p) PROVE InTime' /\ HandOnce'
    <2>1. \A v \in Worker : Alive(v)' /\ InHand(v)' # {} =>
             Alive(v) /\ InHand(v)' = InHand(v) /\ Need(v)' = Need(v)
      BY <1>12 DEF Start, Alive, InHand, Need, Now, InWork, TypeOK
    <2> QED BY <1>0, <1>12, <1>n, <2>1, HandsCalm DEF Start
  <1>13. ASSUME NEW p \in Pool, Stop(p) PROVE InTime' /\ HandOnce'
    BY <1>13, <1>s DEF Stop
  <1>14. ASSUME NEW p \in Pool, StopEnd(p) \/ Crash(p) PROVE InTime' /\ HandOnce'
    <2> DEFINE W == {w \in Worker : PoolOf[w] = p}
    <2>1. Ends(p) /\ (outbox' = outbox \/ outbox' = Released(W)) /\ W \in SUBSET Worker
      BY <1>14 DEF StopEnd, Crash
    <2>2. \A w \in W : ~Alive(w)'
      BY <2>1 DEF Ends, Alive
    <2>3. \A v \in Worker : Alive(v)' => Alive(v) /\ UNCHANGED <<pc[v], claims[v], cur[v], clock[v]>>
      BY <2>1 DEF Ends, Alive
    <2> QED BY <1>e, <2>1, <2>2, <2>3
  <1>15. ASSUME NEW a \in Addr, Switch(a) PROVE InTime' /\ HandOnce'
    BY <1>15, <1>s DEF Switch
  <1>16. ASSUME Tick PROVE InTime' /\ HandOnce'
    <2>1. /\ \A w \in Worker : ~MustMove(w)
          /\ pc' = pc /\ claims' = claims /\ cur' = cur
      BY <1>16 DEF Tick, Timely
    <2>2. \A w \in Worker : InHand(w)' = InHand(w) /\ Alive(w)' = Alive(w)
      BY <2>1 DEF InHand, Alive
    <2>3. HandOnce'
      BY <1>0, <2>2 DEF HandOnce
    <2>4. ASSUME NEW w \in Worker, Alive(w), NEW c \in InHand(w), outbox'[c.msg].status # "gone"
          PROVE  Holds(w, c.msg)' /\ outbox'[c.msg].left >= Need(w)'
      <3>1. pc[w] \in {"wait", "send"}
        BY <2>1, <2>4 DEF MustMove, Alive, InHand, InWork, TypeOK
      <3>2. /\ clock[w] \in Nat /\ SendTicks \in Nat
            /\ pc[w] = "wait" => clock[w] > 0
            /\ pc[w] = "send" => clock[w] < SendTicks
        BY <2>1, TurnType DEF MustMove, TypeOK
      <3>3. clock'[w] = IF pc[w] = "wait" THEN clock[w] - 1 ELSE clock[w] + 1
        <4>1. clock'[w] = IF pc[w] = "wait" THEN Larger(clock[w] - 1, 0) ELSE Smaller(clock[w] + 1, SendTicks)
          BY <1>16, <3>1 DEF Tick
        <4> QED BY <3>1, <3>2, <4>1 DEF Larger, Smaller
      <3>4. Now(w)' = Now(w) - 1
        BY <2>1, <3>1, <3>2, <3>3 DEF Now
      <3>5. Need(w)' = Need(w) - 1
        <4>1. Spend(Cardinality(claims[w])) \in Nat /\ claims'[w] = claims[w]
          BY <1>0, <2>1, FS_CardinalityType, SpendType DEF Small
        <4> QED BY <1>n, <3>4, <4>1 DEF Need
      <3>6. /\ outbox'[c.msg].status = outbox[c.msg].status /\ outbox'[c.msg].holder = outbox[c.msg].holder
            /\ outbox[c.msg].status = "sending" => outbox'[c.msg].left = Larger(outbox[c.msg].left - 1, -1)
        <4>1. outbox'[c.msg] = [outbox[c.msg] EXCEPT !.wait = Larger(@ - 1, 0),
                                                     !.left = IF outbox[c.msg].status = "sending" THEN Larger(@ - 1, -1) ELSE @]
          BY <1>16, <1>h, <2>4 DEF Tick
        <4>2. outbox[c.msg] \in Row
          BY <1>h, <2>4
        <4> QED BY <4>1, <4>2 DEF Row
      <3>7. outbox[c.msg].left >= Need(w) /\ outbox[c.msg].left \in Int
        BY <1>h, <2>4, <3>6 DEF Row
      <3> QED BY <1>h, <1>n, <2>4, <3>5, <3>6, <3>7 DEF Larger, Holds
    <2>5. InTime'
      BY <2>2, <2>4 DEF InTime
    <2> QED BY <2>3, <2>5
  <1>17. ASSUME UNCHANGED vars PROVE InTime' /\ HandOnce'
    BY <1>17, <1>s DEF vars
  <1> QED BY <1>1, <1>2, <1>3, <1>4, <1>5, <1>6, <1>7, <1>8, <1>9, <1>10, <1>11, <1>12, <1>13, <1>14, <1>15, <1>16, <1>17
          DEF Next, WorkerStep

\* For every timing in which a batch fits into a lease, crashes, stops, failed reports and deletions included: what a worker
\* has in hand is its own, and nobody else's, for as long as it needs to send the rest of its batch
THEOREM InHandInTime == ASSUME Timely PROVE Spec => []HandInv
  <1>1. Init => HandInv
    <2> SUFFICES ASSUME Init PROVE HandInv
      OBVIOUS
    <2>1. \A w \in Worker : InHand(w) = {} /\ claims[w] = {} /\ pc[w] = "off"
      BY DEF Init, InHand
    <2>2. {m \in Msg : outbox[m].status # "absent"} = {}
      BY DEF Init, NoRow
    <2>3. Few
      BY <2>2, FS_EmptySet DEF Few
    <2>4. IsFiniteSet({}) /\ Cardinality({}) <= Batch
      BY FS_EmptySet, TimeAssumption
    <2>5. Small
      BY <2>1, <2>4 DEF Small
    <2> QED BY <2>1, <2>3, <2>5 DEF HandInv, InTime, HandOnce
  <1>2. IInv /\ HandInv /\ [Next]_vars => HandInv'
    BY HandStep DEF IInv
  <1> QED BY <1>1, <1>2, Invariance, PTL DEF Spec

-----------------------------------------------------------------------------
(* Who takes a message from a worker *)

\* these faults do not happen
Without(F) == F \cap Faults = {}

NeverStops == \A p \in Pool : pool[p] # "stopping"

\* what a running worker holds is in its hand, and nobody holds a message before its process starts
HeldInHand ==
    \A w \in Worker, m \in Msg : Holds(w, m) =>
        pool[PoolOf[w]] # "new" /\ (Alive(w) => \E c \in InHand(w) : c.msg = m)

LEMMA NeverStopsStep == ASSUME Without({"stop"}) PROVE TypeOK /\ NeverStops /\ [Next]_vars => NeverStops'
  <1> SUFFICES ASSUME TypeOK, NeverStops, [Next]_vars PROVE NeverStops'
    OBVIOUS
  <1>1. ASSUME NEW p \in Pool, Start(p) \/ StopEnd(p) \/ Crash(p) PROVE NeverStops'
    <2>1. pool' = [pool EXCEPT ![p] = "up"] \/ pool' = [pool EXCEPT ![p] = "gone"]
      BY <1>1 DEF Start, StopEnd, Crash, Ends
    <2> QED BY <2>1 DEF NeverStops, TypeOK
  <1>2. ASSUME NEW p \in Pool, Stop(p) PROVE FALSE
    BY <1>2 DEF Stop, Without
  <1>3. UNCHANGED pool => NeverStops'
    BY DEF NeverStops
  <1> QED BY <1>1, <1>2, <1>3 DEF Next, WorkerStep, Enqueue, Requeue, Delete, Reap, ClaimOutbox, Look, Waited, Answered, Report,
             Quit, Orphan, Switch, Tick, vars, processes

LEMMA HeldStep == ASSUME Without({"stop", "report"})
                  PROVE  TypeOK /\ InWork /\ NeverStops /\ HeldInHand /\ [Next]_vars => HeldInHand'
  <1> SUFFICES ASSUME TypeOK, InWork, NeverStops, HeldInHand, [Next]_vars PROVE HeldInHand'
    OBVIOUS
  <1>a. PoolOf \in [Worker -> Pool] /\ None \notin Worker /\ \A m \in Msg : outbox[m] \in Row
    BY PlaceAssumption DEF TypeOK
  \* a step that gives no worker a row it did not hold, and lets running workers keep what they have in hand
  <1>d. ASSUME \A w \in Worker, m \in Msg : Holds(w, m)' => Holds(w, m),
               \A w \in Worker : pool[PoolOf[w]] # "new" => /\ pool'[PoolOf[w]] # "new"
                                                            /\ Alive(w)' => Alive(w) /\ InHand(w) \subseteq InHand(w)'
        PROVE  HeldInHand'
    BY <1>d DEF HeldInHand
  <1>s. ASSUME UNCHANGED <<workers, pool>>, \A w \in Worker, m \in Msg : Holds(w, m)' => Holds(w, m) PROVE HeldInHand'
    BY <1>s, <1>d DEF workers, Alive, InHand
  <1>1. ASSUME NEW m \in Msg, Enqueue(m) \/ Requeue(m) \/ Delete(m) PROVE HeldInHand'
    <2>1. outbox'[m].status # "sending" /\ \A n \in Msg \ {m} : outbox'[n] = outbox[n]
      BY <1>1, <1>a DEF Enqueue, Requeue, Delete, NoRow, TypeOK, Row
    <2>2. \A w \in Worker, n \in Msg : Holds(w, n)' => Holds(w, n)
      BY <2>1 DEF Holds
    <2> QED BY <1>1, <1>s, <2>2 DEF Enqueue, Requeue, Delete, processes
  <1>2. ASSUME Reap PROVE HeldInHand'
    <2>1. \A w \in Worker, m \in Msg : Holds(w, m)' => Holds(w, m)
      BY <1>2 DEF Reap, Unlocked, AfterLapse, Holds
    <2> QED BY <1>2, <1>s, <2>1 DEF Reap, processes
  <1>3. ASSUME NEW w \in Worker, ClaimOutbox(w) PROVE HeldInHand'
    <2> DEFINE C == Claimed(Claimable)
    <2>1. C \subseteq Msg /\ \A m \in C : outbox'[m].holder = w
      BY <1>3 DEF ClaimOutbox, Claimed, Claimable
    <2>2. \A m \in Msg \ C : outbox'[m] = outbox[m]
      BY <1>3 DEF ClaimOutbox
    <2>3. /\ pool' = pool /\ pc' = pc /\ cur' = cur /\ pool[PoolOf[w]] # "new" /\ claims[w] = {}
          /\ claims'[w] = {[msg |-> m, tries |-> TryNumber(m)] : m \in C}
          /\ \A v \in Worker \ {w} : claims'[v] = claims[v]
      BY <1>3 DEF ClaimOutbox, processes, InWork, TypeOK
    <2>4. ASSUME NEW v \in Worker, NEW m \in Msg, Holds(v, m)'
          PROVE  pool'[PoolOf[v]] # "new" /\ (Alive(v)' => \E c \in InHand(v)' : c.msg = m)
      <3>1. CASE m \in C
        <4>1. v = w
          BY <2>1, <2>4, <3>1 DEF Holds
        <4>2. [msg |-> m, tries |-> TryNumber(m)] \in InHand(w)'
          BY <2>3, <3>1 DEF InHand
        <4> QED BY <2>3, <4>1, <4>2
      <3>2. CASE m \notin C
        <4>1. Holds(v, m)
          BY <2>2, <2>4, <3>2 DEF Holds
        <4>2. InHand(v) \subseteq InHand(v)' /\ (Alive(v)' = Alive(v))
          BY <2>3 DEF InHand, Alive
        <4> QED BY <2>3, <4>1, <4>2 DEF HeldInHand
      <3> QED BY <3>1, <3>2
    <2> QED BY <2>4 DEF HeldInHand
  \* a worker goes on: what it has in hand stays there
  <1>w. ASSUME NEW w \in Worker, outbox' = outbox, pool' = pool, Alive(w), InHand(w) \subseteq InHand(w)',
               \A v \in Worker \ {w} : UNCHANGED <<pc[v], claims[v], cur[v]>>
        PROVE  HeldInHand'
    BY <1>d, <1>w DEF Holds, Alive, InHand
  <1>4. ASSUME NEW w \in Worker, NEW c \in claims[w], Look(w, c) PROVE HeldInHand'
    <2>1. /\ \A v \in Worker \ {w} : UNCHANGED <<pc[v], claims[v], cur[v]>>
          /\ pc[w] = "free" /\ claims'[w] = claims[w] \ {c} /\ cur'[w] = c /\ cur[w] = None
      BY <1>4 DEF Look, Conclude, StartSend, TypeOK, InWork
    <2>2. c # None
      BY NoneAssumption DEF TypeOK
    <2> QED BY <1>4, <1>w, <2>1, <2>2 DEF Look, processes, Alive, InHand
  <1>5. ASSUME NEW w \in Worker, Waited(w) PROVE HeldInHand'
    <2>1. pc[w] = "wait" /\ \A v \in Worker \ {w} : pc'[v] = pc[v]
      BY <1>5 DEF Waited, StartSend, TypeOK
    <2> QED BY <1>5, <1>w, <2>1 DEF Waited, processes, Alive, InHand
  <1>6. ASSUME NEW w \in Worker, NEW r \in Answers, Answered(w, r) PROVE HeldInHand'
    <2>1. pc[w] = "send" /\ \A v \in Worker \ {w} : pc'[v] = pc[v]
      BY <1>6 DEF Answered, TypeOK
    <2> QED BY <1>6, <1>w, <2>1 DEF Answered, processes, Alive, InHand
  <1>7. ASSUME NEW w \in Worker, Report(w) PROVE HeldInHand'
    <2> DEFINE m == cur[w].msg
    <2>1. answer[w].do # "sending" /\ m \in Msg /\ cur[w] # None
      BY <1>7 DEF Report, TypeOK, Answer, InWork, Claim
    <2>2. Holds(w, m) => outbox' = [outbox EXCEPT ![m] = Finished(@, answer[w])]
      BY <1>7 DEF Report, Without
    <2>3. ~Holds(w, m) => outbox' = outbox
      BY <1>7 DEF Report
    <2>4. Finished(outbox[m], answer[w]).status # "sending"
      BY <2>1 DEF Finished, Unlocked
    <2>5. \A v \in Worker, n \in Msg : Holds(v, n)' => Holds(v, n) /\ ~(v = w /\ n = m)
      BY <2>1, <2>2, <2>3, <2>4 DEF Holds, TypeOK
    <2>6. /\ pool' = pool /\ claims' = claims /\ pc[w] = "report"
          /\ \A v \in Worker \ {w} : pc'[v] = pc[v] /\ cur'[v] = cur[v]
      BY <1>7 DEF Report, processes, TypeOK
    <2>7. ASSUME NEW n \in Msg, Holds(w, n)' PROVE pool'[PoolOf[w]] # "new" /\ \E c \in InHand(w)' : c.msg = n
      <3>1. Holds(w, n) /\ n # m /\ Alive(w)
        BY <2>5, <2>6, <2>7 DEF Alive
      <3>2. PICK c \in InHand(w) : c.msg = n
        BY <3>1 DEF HeldInHand
      <3>3. c \in claims'[w]
        BY <2>6, <3>1, <3>2 DEF InHand
      <3> QED BY <2>6, <3>1, <3>2, <3>3 DEF HeldInHand, InHand
    <2>8. ASSUME NEW v \in Worker \ {w}, NEW n \in Msg, Holds(v, n)'
          PROVE  pool'[PoolOf[v]] # "new" /\ (Alive(v)' => \E c \in InHand(v)' : c.msg = n)
      <3>1. Holds(v, n) /\ InHand(v)' = InHand(v) /\ (Alive(v)' = Alive(v))
        BY <2>5, <2>6, <2>8 DEF InHand, Alive
      <3> QED BY <2>6, <3>1 DEF HeldInHand
    <2> QED BY <2>7, <2>8 DEF HeldInHand
  <1>8. ASSUME NEW w \in Worker, Quit(w) PROVE FALSE
    BY <1>8, <1>a DEF Quit, Stopping, NeverStops
  <1>9. ASSUME NEW w \in Worker, Orphan(w) PROVE HeldInHand'
    <2>1. ~Alive(w)' /\ \A v \in Worker \ {w} : pc'[v] = pc[v] /\ cur'[v] = cur[v]
      BY <1>9 DEF Orphan, Alive, TypeOK
    <2> QED BY <1>9, <1>d, <2>1 DEF Orphan, processes, Alive, InHand, Holds
  <1>10. ASSUME NEW p \in Pool, Start(p) PROVE HeldInHand'
    <2>1. pool[p] = "new" /\ pool' = [pool EXCEPT ![p] = "up"] /\ outbox' = outbox /\ claims' = claims /\ cur' = cur
          /\ \A w \in Worker : PoolOf[w] # p => pc'[w] = pc[w]
      BY <1>10 DEF Start
    <2> QED BY <1>a, <1>d, <2>1 DEF Alive, InHand, Holds, TypeOK
  <1>11. ASSUME NEW p \in Pool, Stop(p) PROVE FALSE
    BY <1>11 DEF Stop, Without
  <1>12. ASSUME NEW p \in Pool, StopEnd(p) PROVE FALSE
    BY <1>12 DEF StopEnd, NeverStops
  <1>13. ASSUME NEW p \in Pool, Crash(p) PROVE HeldInHand'
    <2>1. outbox' = outbox /\ pool' = [pool EXCEPT ![p] = "gone"]
          /\ \A w \in Worker : Alive(w)' => Alive(w) /\ claims'[w] = claims[w] /\ cur'[w] = cur[w]
      BY <1>13 DEF Crash, Ends, Alive
    <2> QED BY <1>a, <1>d, <2>1 DEF InHand, Holds, TypeOK
  <1>14. ASSUME NEW a \in Addr, Switch(a) PROVE HeldInHand'
    BY <1>14, <1>s DEF Switch, processes, Holds
  <1>15. ASSUME Tick PROVE HeldInHand'
    <2>1. \A m \in Msg : outbox'[m].status = outbox[m].status /\ outbox'[m].holder = outbox[m].holder
      BY <1>15, <1>a DEF Tick, Row
    <2> QED BY <1>15, <1>d, <2>1 DEF Tick, Holds, Alive, InHand
  <1>16. ASSUME UNCHANGED vars PROVE HeldInHand'
    BY <1>16, <1>s DEF vars, processes, Holds
  <1> QED BY <1>1, <1>2, <1>3, <1>4, <1>5, <1>6, <1>7, <1>8, <1>9, <1>10, <1>11, <1>12, <1>13, <1>14, <1>15, <1>16
          DEF Next, WorkerStep

\* what a running worker holds has a lease that is not over
LEMMA HeldInTime == ASSUME TypeOK, HandInv, HeldInHand, NEW w \in Worker, Alive(w), NEW m \in Msg, Holds(w, m)
                    PROVE  ~Lapsed(m)
  <1>1. PICK c \in InHand(w) : c.msg = m
    BY DEF HeldInHand
  <1>2. outbox[m].left >= Need(w)
    BY <1>1 DEF HandInv, InTime, Holds
  <1>3. Need(w) \in Nat /\ outbox[m].left \in Int
    BY NeedType DEF HandInv, TypeOK, Row
  <1> QED BY <1>2, <1>3 DEF Lapsed

Taken == \A m \in Msg, w \in Worker :
  Holds(w, m) /\ ~Holds(w, m)' /\ Alive(w) /\ outbox'[m].status # "gone" => pc[w] = "report" /\ pc'[w] = "free" /\ cur[w].msg = m

LEMMA TakenStep == ASSUME TypeOK, InWork, HandInv, NeverStops, HeldInHand, [Next]_vars
                   PROVE  Taken
  <1> SUFFICES ASSUME NEW m \in Msg, NEW w \in Worker, Holds(w, m), ~Holds(w, m)', Alive(w), outbox'[m].status # "gone"
               PROVE  pc[w] = "report" /\ pc'[w] = "free" /\ cur[w].msg = m
    BY DEF Taken
  <1>a. /\ outbox[m].status = "sending" /\ outbox[m].holder = w /\ ~Lapsed(m) /\ outbox[m] \in Row
        /\ PoolOf \in [Worker -> Pool]
    BY HeldInTime, PlaceAssumption DEF Holds, TypeOK
  <1>u. outbox'[m] # outbox[m]
    BY DEF Holds
  <1>1. ASSUME NEW n \in Msg, Enqueue(n) \/ Requeue(n) PROVE FALSE
    BY <1>1, <1>a, <1>u DEF Enqueue, Requeue, Requeueable, TypeOK
  <1>2. ASSUME NEW n \in Msg, Delete(n) PROVE FALSE
    BY <1>2, <1>u DEF Delete, NoRow, TypeOK
  <1>3. ASSUME Reap PROVE FALSE
    BY <1>3, <1>a, <1>u DEF Reap
  <1>4. ASSUME NEW v \in Worker, ClaimOutbox(v) PROVE FALSE
    BY <1>4, <1>a, <1>u DEF ClaimOutbox, Claimed, Claimable, Due
  <1>5. ASSUME NEW v \in Worker, Report(v) PROVE v = w /\ pc[w] = "report" /\ pc'[w] = "free" /\ cur[w].msg = m
    <2>1. Holds(v, cur[v].msg) /\ cur[v].msg = m
      BY <1>5, <1>u DEF Report, TypeOK
    <2>2. v = w
      BY <1>a, <2>1 DEF Holds
    <2> QED BY <1>5, <2>1, <2>2 DEF Report, TypeOK
  <1>6. ASSUME NEW v \in Worker, Quit(v) PROVE FALSE
    BY <1>6, <1>a DEF Quit, Stopping, NeverStops
  <1>7. ASSUME NEW p \in Pool, StopEnd(p) PROVE FALSE
    BY <1>7 DEF StopEnd, NeverStops
  <1>8. ASSUME Tick PROVE FALSE
    <2>1. outbox'[m] = [outbox[m] EXCEPT !.wait = Larger(@ - 1, 0),
                                         !.left = IF outbox[m].status = "sending" THEN Larger(@ - 1, -1) ELSE @]
      BY <1>8 DEF Tick
    <2>2. outbox'[m].status = outbox[m].status /\ outbox'[m].holder = outbox[m].holder
      BY <1>a, <2>1 DEF Row
    <2> QED BY <2>2 DEF Holds
  <1> QED BY <1>1, <1>2, <1>3, <1>4, <1>5, <1>6, <1>7, <1>8, <1>u
          DEF Next, WorkerStep, Look, Waited, Answered, Orphan, Start, Stop, Crash, Switch, vars

\* "the lease is longer than the time a send may take, so a message is only taken from a worker that is really gone"
\* (worker.go:16): so it is where the lease lasts for a whole batch, crashes and deletions included
THEOREM OnlyFromTheGone == ASSUME Timely, Without({"stop", "report"}) PROVE Spec => TakenOnlyFromTheGone
  <1> DEFINE I == IInv /\ HandInv /\ NeverStops /\ HeldInHand
  <1>1. Init => NeverStops /\ HeldInHand
    BY DEF Init, NeverStops, HeldInHand, Holds, NoRow
  <1>2. IInv /\ HandInv /\ NeverStops /\ HeldInHand /\ [Next]_vars => NeverStops' /\ HeldInHand'
    <2>1. Without({"stop"})
      BY DEF Without
    <2> QED BY <2>1, NeverStopsStep, HeldStep DEF IInv
  <1>3. IInv /\ HandInv /\ NeverStops /\ HeldInHand /\ [Next]_vars => [Taken]_vars
    BY TakenStep DEF IInv
  <1> QED BY <1>1, <1>2, <1>3, Invariance, InHandInTime, PTL DEF Spec, TakenOnlyFromTheGone, Taken

-----------------------------------------------------------------------------
(* How often the channel accepts a message *)

\* no process ends: whoever holds a message runs, and no request outlives its worker
Running == /\ \A w \in Worker, m \in Msg : Holds(w, m) => Alive(w)
           /\ \A w \in Worker : pc[w] # "orphan"

\* a message in hand was not accepted, unless its worker is about to report that; nor was one that waits or was dropped
Accepted(w, c) == pc[w] = "report" /\ c = cur[w] /\ answer[w].do = "sent"
Fresh == \A w \in Worker : Alive(w) => \A c \in InHand(w) : delivered[c.msg] = 0 \/ Accepted(w, c)
Unsent == {"absent", "pending", "failed", "cancelled"}
NotYet == \A m \in Msg : outbox[m].status \in Unsent => delivered[m] = 0

SentOnce == Fresh /\ NotYet /\ NoDoubleSend

LEMMA RunningStep == ASSUME Without({"stop", "crash"})
                     PROVE  TypeOK /\ NeverStops /\ Running /\ [Next]_vars => Running'
  <1> SUFFICES ASSUME TypeOK, NeverStops, Running, [Next]_vars PROVE Running'
    OBVIOUS
  <1>a. PoolOf \in [Worker -> Pool] /\ \A m \in Msg : outbox[m] \in Row
    BY PlaceAssumption DEF TypeOK
  <1>d. ASSUME \A w \in Worker : Alive(w) => Alive(w)',
               \A w \in Worker : pc'[w] # "orphan",
               \A w \in Worker, m \in Msg : Holds(w, m)' => Holds(w, m) \/ Alive(w)
        PROVE  Running'
    BY <1>d DEF Running
  <1>1. ASSUME NEW m \in Msg, Enqueue(m) \/ Requeue(m) \/ Delete(m) PROVE Running'
    <2>1. outbox'[m].status # "sending" /\ (\A n \in Msg \ {m} : outbox'[n] = outbox[n]) /\ pc' = pc
      BY <1>1, <1>a DEF Enqueue, Requeue, Delete, NoRow, TypeOK, Row, workers
    <2> QED BY <1>d, <2>1 DEF Running, Holds, Alive
  <1>2. ASSUME Reap PROVE Running'
    <2>1. \A w \in Worker, m \in Msg : Holds(w, m)' => Holds(w, m)
      BY <1>2 DEF Reap, Unlocked, AfterLapse, Holds
    <2> QED BY <1>2, <1>d, <2>1 DEF Reap, workers, Running, Alive
  <1>3. ASSUME NEW w \in Worker, ClaimOutbox(w) PROVE Running'
    <2>1. pc' = pc /\ pc[w] = "free" /\ \A v \in Worker, m \in Msg : Holds(v, m)' => Holds(v, m) \/ v = w
      BY <1>3 DEF ClaimOutbox, Holds, Claimed, Claimable
    <2> QED BY <1>d, <2>1 DEF Running, Alive
  <1>4. ASSUME NEW w \in Worker, pc'[w] \in {"free", "wait", "send", "report"}, \A v \in Worker \ {w} : pc'[v] = pc[v],
               \A v \in Worker, m \in Msg : Holds(v, m)' => Holds(v, m)
        PROVE  Running'
    BY <1>d, <1>4 DEF Running, Alive
  <1>5. ASSUME NEW w \in Worker, \/ \E c \in claims[w] : Look(w, c)
                                 \/ Waited(w)
                                 \/ \E r \in Answers : Answered(w, r)
        PROVE  Running'
    <2>1. outbox' = outbox /\ pc'[w] \in {"wait", "send", "report"} /\ \A v \in Worker \ {w} : pc'[v] = pc[v]
      BY <1>5 DEF Look, Conclude, StartSend, Waited, Answered, TypeOK
    <2> QED BY <1>4, <2>1 DEF Holds
  <1>6. ASSUME NEW w \in Worker, Report(w) PROVE Running'
    <2>1. pc'[w] = "free" /\ (\A v \in Worker \ {w} : pc'[v] = pc[v]) /\ answer[w].do # "sending"
      BY <1>6 DEF Report, TypeOK, Answer
    <2>2. Finished(outbox[cur[w].msg], answer[w]).status # "sending"
      BY <2>1 DEF Finished, Unlocked
    <2>3. \A v \in Worker, m \in Msg : Holds(v, m)' => Holds(v, m)
      BY <1>6, <2>2 DEF Report, Holds, TypeOK
    <2> QED BY <1>4, <2>1, <2>3
  <1>7. ASSUME NEW w \in Worker, Quit(w) \/ Orphan(w) PROVE FALSE
    BY <1>7, <1>a DEF Quit, Stopping, NeverStops, Orphan, Running
  <1>8. ASSUME NEW p \in Pool, Start(p) PROVE Running'
    <2>1. outbox' = outbox /\ \A w \in Worker : pc'[w] \in {pc[w], "free"}
      BY <1>8 DEF Start
    <2> QED BY <1>d, <2>1 DEF Running, Alive, Holds
  <1>9. ASSUME NEW p \in Pool, Stop(p) \/ StopEnd(p) \/ Crash(p) PROVE FALSE
    BY <1>9 DEF Stop, StopEnd, Crash, NeverStops, Without
  <1>10. ASSUME UNCHANGED vars \/ \E a \in Addr : Switch(a) PROVE Running'
    BY <1>10, <1>d DEF vars, Switch, workers, Running, Holds, Alive
  <1>11. ASSUME Tick PROVE Running'
    <2>1. \A m \in Msg : outbox'[m].status = outbox[m].status /\ outbox'[m].holder = outbox[m].holder
      BY <1>11, <1>a DEF Tick, Row
    <2> QED BY <1>11, <1>d, <2>1 DEF Tick, Running, Holds, Alive
  <1> QED BY <1>1, <1>2, <1>3, <1>5, <1>6, <1>7, <1>8, <1>9, <1>10, <1>11 DEF Next, WorkerStep

LEMMA SentStep ==
    ASSUME Without({"stop", "crash", "report"}), "lost" \notin Answers
    PROVE  TypeOK /\ InWork /\ HolderKnowsTheTry /\ HandInv /\ NeverStops /\ HeldInHand /\ Running /\ SentOnce /\ [Next]_vars
             => SentOnce'
  <1> SUFFICES ASSUME TypeOK, InWork, HolderKnowsTheTry, HandInv, NeverStops, HeldInHand, Running, Fresh, NotYet, NoDoubleSend,
                      [Next]_vars
               PROVE  SentOnce'
    BY DEF SentOnce
  <1>a. /\ \A m \in Msg : outbox[m] \in Row /\ delivered[m] \in 0 .. 2
        /\ None \notin Claim /\ None \notin Worker
        /\ \A w \in Worker : claims[w] \in SUBSET Claim /\ (cur[w] # None => cur[w] \in Claim)
        /\ \A w \in Worker : cur[w] \notin claims[w]
    BY NoneAssumption, PlaceAssumption DEF TypeOK, HandInv, Small
  \* a step in which the channel accepts nothing: a row that becomes unsent was not accepted, and hands shrink at most
  <1>d. ASSUME delivered' = delivered,
               \A m \in Msg : outbox'[m].status \in Unsent => outbox[m].status \in Unsent \/ delivered[m] = 0,
               \A w \in Worker : Alive(w)' => \A c \in InHand(w)' : delivered[c.msg] = 0 \/ Accepted(w, c)'
        PROVE  SentOnce'
    BY <1>d DEF SentOnce, Fresh, NotYet, NoDoubleSend
  <1>s. ASSUME delivered' = delivered, UNCHANGED <<pc, claims, cur, answer>>,
               \A m \in Msg : outbox'[m].status \in Unsent => outbox[m].status \in Unsent
        PROVE  SentOnce'
    BY <1>s, <1>d DEF Fresh, Alive, InHand, Accepted
  \* worker w goes on from a place where it is not about to report that a message was accepted
  <1>w. ASSUME NEW w \in Worker, Alive(w), pc[w] # "report", delivered' = delivered, outbox' = outbox,
               InHand(w)' \subseteq InHand(w),
               \A v \in Worker \ {w} : pc'[v] = pc[v] /\ answer'[v] = answer[v] /\ cur'[v] = cur[v] /\ claims'[v] = claims[v]
        PROVE  SentOnce'
    <2>1. \A v \in Worker \ {w} : Alive(v)' = Alive(v) /\ InHand(v)' = InHand(v) /\ \A c : Accepted(v, c)' = Accepted(v, c)
      BY <1>w DEF Alive, InHand, Accepted
    <2>2. \A c \in InHand(w)' : delivered[c.msg] = 0
      BY <1>w DEF Fresh, Accepted
    <2> QED BY <1>d, <1>w, <2>1, <2>2 DEF Fresh
  <1>1. ASSUME NEW m \in Msg, Enqueue(m) PROVE SentOnce'
    BY <1>1, <1>s, <1>a DEF Enqueue, workers, Unsent
  <1>2. ASSUME NEW m \in Msg, Requeue(m) PROVE SentOnce'
    <2>1. /\ outbox[m].status \in Unsent /\ (\A n \in Msg \ {m} : outbox'[n] = outbox[n])
          /\ delivered' = delivered /\ UNCHANGED workers
      BY <1>2 DEF Requeue, Requeueable, Unsent, TypeOK
    <2> QED BY <1>s, <2>1 DEF workers
  <1>3. ASSUME NEW m \in Msg, Delete(m) PROVE SentOnce'
    <2>1. \A n \in Msg : outbox'[n].status \in Unsent => outbox[n].status \in Unsent
      BY <1>3, <1>a DEF Delete, NoRow, Unsent, TypeOK
    <2> QED BY <1>3, <1>s, <2>1 DEF Delete, workers, ghosts
  <1>4. ASSUME Reap PROVE FALSE
    <2>1. PICK m \in Msg : Lapsed(m)
      BY <1>4 DEF Reap
    <2>2. outbox[m].holder \in Worker
      BY <1>a, <2>1 DEF Lapsed, HolderKnowsTheTry, Row
    <2>3. Holds(outbox[m].holder, m)
      BY <2>1 DEF Lapsed, Holds
    <2> QED BY <2>1, <2>2, <2>3, HeldInTime DEF Running
  <1>5. ASSUME NEW w \in Worker, ClaimOutbox(w) PROVE SentOnce'
    <2> DEFINE C == Claimed(Claimable)
    <2>1. \A m \in C : m \in Msg /\ outbox[m].status = "pending"
      BY DEF Claimed, Claimable, Due
    <2>2. /\ delivered' = delivered /\ pc' = pc /\ cur' = cur /\ answer' = answer /\ cur[w] = None
          /\ claims'[w] = {[msg |-> m, tries |-> TryNumber(m)] : m \in C}
          /\ \A v \in Worker \ {w} : claims'[v] = claims[v]
          /\ \A m \in Msg : outbox'[m].status \in Unsent => outbox'[m] = outbox[m]
      BY <1>5 DEF ClaimOutbox, InWork, TypeOK, Unsent
    <2>3. \A c \in InHand(w)' : delivered[c.msg] = 0
      BY <2>1, <2>2 DEF InHand, NotYet, Unsent
    <2>4. \A v \in Worker \ {w} : Alive(v)' = Alive(v) /\ InHand(v)' = InHand(v) /\ \A c : Accepted(v, c)' = Accepted(v, c)
      BY <2>2 DEF Alive, InHand, Accepted
    <2> HIDE DEF C
    <2> QED BY <1>d, <2>2, <2>3, <2>4 DEF Fresh
  <1>6. ASSUME NEW w \in Worker, NEW c \in claims[w], Look(w, c) PROVE SentOnce'
    <2>1. /\ pc[w] = "free" /\ claims'[w] = claims[w] \ {c} /\ cur'[w] = c /\ outbox' = outbox /\ delivered' = delivered
          /\ \A v \in Worker \ {w} : pc'[v] = pc[v] /\ answer'[v] = answer[v] /\ cur'[v] = cur[v] /\ claims'[v] = claims[v]
      BY <1>6 DEF Look, Conclude, StartSend, TypeOK
    <2>2. InHand(w)' \subseteq InHand(w)
      BY <2>1 DEF InHand
    <2> QED BY <1>w, <2>1, <2>2 DEF Alive
  <1>7. ASSUME NEW w \in Worker, Waited(w) PROVE SentOnce'
    <2>1. /\ pc[w] = "wait" /\ claims' = claims /\ cur' = cur /\ outbox' = outbox /\ delivered' = delivered
          /\ \A v \in Worker \ {w} : pc'[v] = pc[v] /\ answer'[v] = answer[v]
      BY <1>7 DEF Waited, StartSend, TypeOK
    <2> QED BY <1>w, <2>1 DEF Alive, InHand
  <1>8. ASSUME NEW w \in Worker, NEW r \in Answers, Answered(w, r) PROVE SentOnce'
    <2> DEFINE m == cur[w].msg
    <2>1. /\ pc[w] = "send" /\ Alive(w) /\ cur[w] \in InHand(w) /\ cur[w] \in Claim /\ m \in Msg
          /\ pc' = [pc EXCEPT ![w] = "report"] /\ cur' = cur /\ claims' = claims /\ outbox' = outbox
          /\ answer' = [answer EXCEPT ![w] = Verdict(r, cur[w].tries)]
      BY <1>8, <1>a DEF Answered, InWork, Alive, InHand, Claim
    <2>2. delivered[m] = 0 /\ outbox[m].status \notin Unsent
      BY <2>1 DEF Fresh, Accepted, HandInv, InTime, Holds, Unsent
    <2>3. \A v \in Worker : Alive(v)' = Alive(v) /\ InHand(v)' = InHand(v)
      BY <2>1 DEF Alive, InHand, TypeOK
    <2>4. \A v \in Worker \ {w} : \A c : Accepted(v, c)' = Accepted(v, c)
      BY <2>1 DEF Accepted, TypeOK
    <2>5. \A v \in Worker : Alive(v) => \A c \in InHand(v) : c.msg = m => v = w /\ c = cur[w]
      BY <2>1 DEF HandInv, HandOnce
    <2>6. CASE r = "ok"
      <3>1. delivered' = [delivered EXCEPT ![m] = 1]
        BY <1>8, <2>2, <2>6 DEF Answered, Accepts, Smaller
      <3>2. Accepted(w, cur[w])'
        BY <2>1, <2>6 DEF Accepted, Verdict, TypeOK
      <3>3. ASSUME NEW v \in Worker, Alive(v)', NEW c \in InHand(v)' PROVE delivered'[c.msg] = 0 \/ Accepted(v, c)'
        <4>1. CASE c.msg = m
          <5>1. v = w /\ c = cur[w]
            BY <2>3, <2>5, <3>3, <4>1
          <5> QED BY <2>1, <3>2, <5>1 DEF Accepted
        <4>2. CASE c.msg # m
          <5>1. delivered'[c.msg] = delivered[c.msg] /\ (delivered[c.msg] = 0 \/ Accepted(v, c))
            <6>1. c.msg \in Msg
              BY <1>a, <2>3, <3>3 DEF InHand, Claim
            <6> QED BY <2>3, <3>1, <3>3, <4>2, <6>1 DEF Fresh, TypeOK
          <5> QED BY <2>1, <2>4, <5>1 DEF Accepted
        <4> QED BY <4>1, <4>2
      <3>4. NotYet' /\ NoDoubleSend'
        BY <2>1, <2>2, <3>1 DEF NotYet, NoDoubleSend, TypeOK
      <3> QED BY <3>3, <3>4 DEF SentOnce, Fresh
    <2>7. CASE r # "ok"
      <3>1. delivered' = delivered
        BY <1>8, <2>7 DEF Answered
      <3>2. \A v \in Worker : \A c : Accepted(v, c) => Accepted(v, c)'
        BY <2>1, <2>4 DEF Accepted
      <3> QED BY <1>d, <2>1, <2>3, <3>1, <3>2 DEF Fresh
    <2> QED BY <2>6, <2>7
  <1>9. ASSUME NEW w \in Worker, Report(w) PROVE SentOnce'
    <2> DEFINE m == cur[w].msg
    <2>1. /\ pc[w] = "report" /\ Alive(w) /\ cur[w] \in InHand(w) /\ cur[w] \in Claim /\ m \in Msg
          /\ pc' = [pc EXCEPT ![w] = "free"] /\ cur' = [cur EXCEPT ![w] = None] /\ claims' = claims
          /\ delivered' = delivered /\ \A v \in Worker \ {w} : answer'[v] = answer[v]
      BY <1>9, <1>a DEF Report, ghosts, InWork, Alive, InHand, Claim, TypeOK
    <2>2. outbox' = outbox \/ outbox' = [outbox EXCEPT ![m] = Finished(@, answer[w])]
      BY <1>9 DEF Report
    <2>3. Finished(outbox[m], answer[w]).status \in Unsent => delivered[m] = 0
      <3>1. answer[w].do = "sent" => Finished(outbox[m], answer[w]).status = "sent"
        BY DEF Finished, Unlocked
      <3> QED BY <2>1, <3>1 DEF Fresh, Accepted, Unsent
    <2>4. \A n \in Msg : outbox'[n].status \in Unsent => outbox[n].status \in Unsent \/ delivered[n] = 0
      BY <2>1, <2>2, <2>3 DEF TypeOK
    <2>5. \A c \in InHand(w)' : delivered[c.msg] = 0
      <3>1. InHand(w)' = claims[w]
        BY <2>1 DEF InHand, TypeOK
      <3> QED BY <1>a, <2>1, <3>1 DEF Fresh, Accepted, InHand
    <2>6. \A v \in Worker \ {w} : Alive(v)' = Alive(v) /\ InHand(v)' = InHand(v) /\ \A c : Accepted(v, c)' = Accepted(v, c)
      BY <2>1 DEF Alive, InHand, Accepted, TypeOK
    <2> QED BY <1>d, <2>1, <2>4, <2>5, <2>6 DEF Fresh
  <1>10. ASSUME NEW w \in Worker, Quit(w) \/ Orphan(w) PROVE FALSE
    BY <1>10, PlaceAssumption DEF Quit, Stopping, NeverStops, Orphan, Running
  <1>11. ASSUME NEW p \in Pool, Start(p) PROVE SentOnce'
    <2>1. /\ pool[p] = "new" /\ outbox' = outbox /\ claims' = claims /\ cur' = cur /\ answer' = answer /\ delivered' = delivered
          /\ \A v \in Worker : pc'[v] = IF PoolOf[v] = p THEN "free" ELSE pc[v]
      BY <1>11 DEF Start, ghosts
    <2>2. \A v \in Worker : PoolOf[v] = p => InHand(v)' = {}
      BY <2>1 DEF InWork, InHand
    <2>3. \A v \in Worker : PoolOf[v] # p => Alive(v)' = Alive(v) /\ InHand(v)' = InHand(v) /\ \A c : Accepted(v, c)' = Accepted(v, c)
      BY <2>1 DEF Alive, InHand, Accepted
    <2> QED BY <1>d, <2>1, <2>2, <2>3 DEF Fresh
  <1>12. ASSUME NEW p \in Pool, Stop(p) \/ StopEnd(p) \/ Crash(p) PROVE FALSE
    BY <1>12 DEF Stop, StopEnd, Crash, NeverStops, Without
  <1>13. ASSUME UNCHANGED vars \/ \E a \in Addr : Switch(a) PROVE SentOnce'
    BY <1>13, <1>s DEF vars, Switch, workers, ghosts
  <1>14. ASSUME Tick PROVE SentOnce'
    <2>1. \A m \in Msg : outbox'[m].status = outbox[m].status
      BY <1>14, <1>a DEF Tick, Row
    <2> QED BY <1>14, <1>s, <2>1 DEF Tick, ghosts
  <1> QED BY <1>1, <1>2, <1>3, <1>4, <1>5, <1>6, <1>7, <1>8, <1>9, <1>10, <1>11, <1>12, <1>13, <1>14 DEF Next, WorkerStep

\* Where a batch is sent within its lease, no process ends, every report is stored and no accepted request is taken for one that
\* timed out, the channel accepts a message at most once, whatever is retried, deferred, queued again, switched off or deleted
THEOREM SendOnce == ASSUME Timely, Without({"stop", "crash", "report"}), "lost" \notin Answers PROVE Spec => []NoDoubleSend
  <1>1. Init => NeverStops /\ HeldInHand /\ Running /\ SentOnce
    BY DEF Init, NeverStops, HeldInHand, Running, Holds, NoRow, SentOnce, Fresh, Alive, NotYet, NoDoubleSend
  <1>2. IInv /\ HandInv /\ NeverStops /\ HeldInHand /\ Running /\ SentOnce /\ [Next]_vars
          => NeverStops' /\ HeldInHand' /\ Running' /\ SentOnce'
    <2>1. Without({"stop"}) /\ Without({"stop", "report"}) /\ Without({"stop", "crash"})
      BY DEF Without
    <2> QED BY <2>1, NeverStopsStep, HeldStep, RunningStep, SentStep DEF IInv
  <1>3. SentOnce => NoDoubleSend
    BY DEF SentOnce
  <1> QED BY <1>1, <1>2, <1>3, Invariance, InHandInTime, PTL DEF Spec

-----------------------------------------------------------------------------
(* How many tries a message has *)

\* a message that waits has a try left, and so has one that its worker puts back for another try
InNumber ==
    \A m \in Msg : /\ outbox[m].attempts <= MaxAttempts
                   /\ outbox[m].status = "pending" => outbox[m].attempts < MaxAttempts
RetryInNumber == \A w \in Worker : pc[w] = "report" /\ answer[w].do = "retry" => cur[w].tries < MaxAttempts

LEMMA NextTry == ASSUME TypeOK, InNumber, NEW m \in Msg, outbox[m].status = "pending"
                 PROVE  TryNumber(m) = outbox[m].attempts + 1 /\ TryNumber(m) \in 1 .. MaxAttempts
  <1>1. outbox[m].attempts \in Nat /\ outbox[m].attempts < MaxAttempts /\ MaxAttempts \in Nat
    BY Caps DEF InNumber, TypeOK, Row, Tries
  <1> QED BY <1>1 DEF TryNumber, Smaller, AttemptCap

LEMMA NumberStep == ASSUME Without({"read", "stop"})
                    PROVE  TypeOK /\ InWork /\ HolderKnowsTheTry /\ Untouched /\ NeverStops /\ InNumber /\ RetryInNumber /\ [Next]_vars
                             => InNumber' /\ RetryInNumber'
  <1> SUFFICES ASSUME TypeOK, InWork, HolderKnowsTheTry, Untouched, NeverStops, InNumber, RetryInNumber, [Next]_vars
               PROVE  InNumber' /\ RetryInNumber'
    OBVIOUS
  <1>a. /\ \A m \in Msg : outbox[m] \in Row /\ outbox[m].attempts \in Nat
        /\ MaxAttempts \in Nat /\ MaxAttempts > 1
        /\ PoolOf \in [Worker -> Pool]
    BY Caps, PlaceAssumption DEF TypeOK, Row, Tries
  <1>s. ASSUME UNCHANGED <<pc, answer, cur>> PROVE RetryInNumber'
    BY <1>s DEF RetryInNumber
  <1>o. ASSUME outbox' = outbox PROVE InNumber'
    BY <1>o DEF InNumber
  <1>r. ASSUME NEW m \in Msg, \A n \in Msg \ {m} : outbox'[n] = outbox[n], outbox'[m].attempts <= MaxAttempts,
               outbox'[m].status = "pending" => outbox'[m].attempts < MaxAttempts
        PROVE  InNumber'
    BY <1>r DEF InNumber
  <1>1. ASSUME NEW m \in Msg, Enqueue(m) PROVE InNumber' /\ RetryInNumber'
    <2>1. outbox[m].attempts = 0 /\ outbox'[m].attempts = 0 /\ \A n \in Msg \ {m} : outbox'[n] = outbox[n]
      BY <1>1, <1>a DEF Enqueue, Untouched, NoRow, TypeOK, Row
    <2> QED BY <1>1, <1>a, <1>r, <1>s, <2>1 DEF Enqueue, workers
  <1>2. ASSUME NEW m \in Msg, Requeue(m) \/ Delete(m) PROVE InNumber' /\ RetryInNumber'
    <2>1. outbox'[m].attempts = 0 /\ \A n \in Msg \ {m} : outbox'[n] = outbox[n]
      BY <1>2, <1>a DEF Requeue, Delete, NoRow, TypeOK, Row
    <2> QED BY <1>2, <1>a, <1>r, <1>s, <2>1 DEF Requeue, Delete, workers
  <1>3. ASSUME Reap PROVE InNumber' /\ RetryInNumber'
    <2>1. \A m \in Msg : /\ outbox'[m].attempts = outbox[m].attempts
                         /\ outbox'[m].status = "pending" => outbox[m].status = "pending" \/ outbox[m].attempts < MaxAttempts
      BY <1>3, <1>a DEF Reap, Unlocked, AfterLapse
    <2> QED BY <1>3, <1>s, <2>1 DEF Reap, workers, InNumber
  <1>4. ASSUME NEW w \in Worker, ClaimOutbox(w) PROVE InNumber' /\ RetryInNumber'
    <2>1. \A m \in Msg : \/ outbox'[m] = outbox[m]
                         \/ outbox'[m].attempts \in 1 .. MaxAttempts /\ outbox'[m].status = "sending"
      <3>1. \A m \in Claimed(Claimable) : m \in Msg /\ outbox[m].status = "pending"
        BY DEF Claimed, Claimable, Due
      <3> QED BY <1>4, <3>1, NextTry DEF ClaimOutbox
    <2> QED BY <1>4, <1>a, <1>s, <2>1 DEF ClaimOutbox, InNumber
  <1>5. ASSUME NEW w \in Worker, NEW c \in claims[w], Look(w, c) PROVE InNumber' /\ RetryInNumber'
    <2>1. pc'[w] = "report" => answer'[w].do # "retry"
      BY <1>5 DEF Look, Conclude, StartSend, TypeOK, Without
    <2>2. outbox' = outbox /\ \A v \in Worker \ {w} : pc'[v] = pc[v] /\ answer'[v] = answer[v] /\ cur'[v] = cur[v]
      BY <1>5 DEF Look, Conclude, StartSend, TypeOK
    <2> QED BY <1>o, <2>1, <2>2 DEF RetryInNumber
  <1>6. ASSUME NEW w \in Worker, Waited(w) PROVE InNumber' /\ RetryInNumber'
    <2>1. pc'[w] = "report" => answer'[w].do # "retry"
      BY <1>6 DEF Waited, StartSend, TypeOK
    <2>2. outbox' = outbox /\ cur' = cur /\ \A v \in Worker \ {w} : pc'[v] = pc[v] /\ answer'[v] = answer[v]
      BY <1>6 DEF Waited, StartSend, TypeOK
    <2> QED BY <1>o, <2>1, <2>2 DEF RetryInNumber
  <1>7. ASSUME NEW w \in Worker, NEW r \in Answers, Answered(w, r) PROVE InNumber' /\ RetryInNumber'
    <2>1. answer'[w] = Verdict(r, cur[w].tries) /\ (answer'[w].do = "retry" => cur[w].tries < MaxAttempts)
      BY <1>7 DEF Answered, Verdict, TypeOK
    <2>2. outbox' = outbox /\ cur' = cur /\ \A v \in Worker \ {w} : pc'[v] = pc[v] /\ answer'[v] = answer[v]
      BY <1>7 DEF Answered, TypeOK
    <2> QED BY <1>o, <2>1, <2>2 DEF RetryInNumber
  <1>8. ASSUME NEW w \in Worker, Report(w) PROVE InNumber' /\ RetryInNumber'
    <2> DEFINE m == cur[w].msg
               row == Finished(outbox[m], answer[w])
    <2>1. /\ pc[w] = "report" /\ cur[w] \in Claim /\ m \in Msg /\ pc' = [pc EXCEPT ![w] = "free"]
          /\ \A v \in Worker \ {w} : answer'[v] = answer[v] /\ cur'[v] = cur[v]
      BY <1>8 DEF Report, InWork, TypeOK, Claim
    <2>2. RetryInNumber'
      BY <2>1 DEF RetryInNumber, TypeOK
    <2>3. CASE Holds(w, m) /\ outbox' = [outbox EXCEPT ![m] = row]
      <3>1. outbox[m].attempts = cur[w].tries
        BY <2>1, <2>3 DEF HolderKnowsTheTry, Alive, InHand, InWork
      <3>2. row.attempts <= MaxAttempts /\ (row.status = "pending" => row.attempts < MaxAttempts)
        <4>1. outbox[m].attempts \in Nat /\ outbox[m].attempts <= MaxAttempts /\ answer[w].do # "pending"
          BY <1>a, <2>1 DEF InNumber, TypeOK, Answer
        <4>2. Unlocked(outbox[m], "pending").attempts = outbox[m].attempts
          BY DEF Unlocked
        <4>3. CASE answer[w].do = "retry"
          <5>1. cur[w].tries < MaxAttempts
            BY <2>1, <4>3 DEF RetryInNumber
          <5>2. row.attempts = outbox[m].attempts
            BY <4>2, <4>3 DEF Finished, Unlocked
          <5> QED BY <3>1, <4>1, <5>1, <5>2
        <4>4. CASE answer[w].do = "defer"
          <5>1. row.attempts = Larger(outbox[m].attempts - 1, 0)
            BY <4>4 DEF Finished, Unlocked
          <5> QED BY <1>a, <4>1, <5>1 DEF Larger
        <4>5. CASE answer[w].do \notin {"retry", "defer"}
          BY <4>1, <4>5 DEF Finished, Unlocked
        <4> QED BY <4>3, <4>4, <4>5
      <3> QED BY <1>r, <2>1, <2>2, <2>3, <3>2 DEF TypeOK
    <2> QED BY <1>8, <1>o, <2>2, <2>3 DEF Report
  <1>9. ASSUME NEW w \in Worker, Quit(w) PROVE FALSE
    BY <1>9, <1>a DEF Quit, Stopping, NeverStops
  <1>10. ASSUME NEW w \in Worker, Orphan(w) PROVE InNumber' /\ RetryInNumber'
    <2>1. outbox' = outbox /\ answer' = answer /\ pc'[w] = "off" /\ \A v \in Worker \ {w} : pc'[v] = pc[v] /\ cur'[v] = cur[v]
      BY <1>10 DEF Orphan, TypeOK
    <2> QED BY <1>o, <2>1 DEF RetryInNumber
  <1>11. ASSUME NEW p \in Pool, Start(p) PROVE InNumber' /\ RetryInNumber'
    BY <1>11, <1>o DEF Start, RetryInNumber
  <1>12. ASSUME NEW p \in Pool, Stop(p) \/ StopEnd(p) PROVE FALSE
    BY <1>12 DEF Stop, StopEnd, NeverStops, Without
  <1>13. ASSUME NEW p \in Pool, Crash(p) PROVE InNumber' /\ RetryInNumber'
    <2>1. outbox' = outbox /\ \A v \in Worker : pc'[v] = "report" => pc[v] = "report" /\ answer'[v] = answer[v] /\ cur'[v] = cur[v]
      BY <1>13 DEF Crash, Ends
    <2> QED BY <1>o, <2>1 DEF RetryInNumber
  <1>14. ASSUME UNCHANGED vars \/ \E a \in Addr : Switch(a) PROVE InNumber' /\ RetryInNumber'
    BY <1>14, <1>o, <1>s DEF vars, Switch, workers
  <1>15. ASSUME Tick PROVE InNumber' /\ RetryInNumber'
    <2>1. \A m \in Msg : outbox'[m].status = outbox[m].status /\ outbox'[m].attempts = outbox[m].attempts
      BY <1>15, <1>a DEF Tick, Row
    <2> QED BY <1>15, <1>s, <2>1 DEF Tick, InNumber
  <1> QED BY <1>1, <1>2, <1>3, <1>4, <1>5, <1>6, <1>7, <1>8, <1>9, <1>10, <1>11, <1>12, <1>13, <1>14, <1>15 DEF Next, WorkerStep

-----------------------------------------------------------------------------
(* How often the channel is asked, whatever the timing *)

\* the messages, with the number of their try, that worker w may still ask the channel for, or would have if it had not put them off
Unasked(w) == claims[w] \cup (IF pc[w] = "wait" \/ (pc[w] = "report" /\ answer[w].do = "defer") THEN {cur[w]} ELSE {})

\* the tries of message m that were claimed and not made, by whomever, the number of the last try it has had, and how often the
\* channel was asked for it or may be without another claim
WillAsk(m) == {t \in Tries : \E w \in Worker : [msg |-> m, tries |-> t] \in Unasked(w)}
Limit(m) == IF outbox[m].status = "gone" THEN AttemptCap ELSE outbox[m].attempts
Asks(m) == asked[m] + Cardinality(WillAsk(m))

\* message m waits for another try, or its worker is about to put it back for one
Reopens(m) ==
    \/ outbox[m].status = "pending"
    \/ \E w \in Worker : pc[w] = "report" /\ answer[w].do = "retry" /\ cur[w].msg = m /\ Holds(w, m)

\* until the message is queued again by hand: a try is one worker's, the last one is made by the worker that holds the message,
\* and each that was claimed is made at most once
OneEach == \A v, w \in Worker : \A c \in Unasked(v) \cap Unasked(w) : requeues[c.msg] = 0 => v = w
Rests(w, m) == outbox[m].status \in Ended \cup {"gone"} \/ Holds(w, m)
LastHeld ==
    \A w \in Worker : \A c \in Unasked(w) : requeues[c.msg] = 0 /\ c.tries >= MaxAttempts => Rests(w, c.msg)
Within(m) == requeues[m] = 0 =>
    /\ WillAsk(m) \subseteq 1 .. Limit(m)
    /\ Asks(m) <= Limit(m) /\ Asks(m) <= MaxAttempts
    /\ Reopens(m) => Asks(m) < MaxAttempts
Budget == \A m \in Msg : Within(m)

LEMMA WillAskType == ASSUME NEW m \in Msg
                     PROVE  /\ IsFiniteSet(WillAsk(m)) /\ Cardinality(WillAsk(m)) \in Nat
                            /\ IsFiniteSet(WillAsk(m)') /\ Cardinality(WillAsk(m)') \in Nat
  <1>1. IsFiniteSet(Tries)
    BY FS_Interval, Caps DEF Tries
  <1>2. WillAsk(m) \in SUBSET Tries /\ WillAsk(m)' \in SUBSET Tries
    BY DEF WillAsk
  <1> QED BY <1>1, <1>2, FS_Subset, FS_CardinalityType

LEMMA AsksType == ASSUME TypeOK, TypeOK', NEW m \in Msg
                  PROVE  /\ asked[m] \in Nat /\ asked'[m] \in Nat /\ Limit(m) \in 0 .. AttemptCap /\ Limit(m)' \in 0 .. AttemptCap
                         /\ MaxAttempts \in Nat /\ AttemptCap = MaxAttempts + 1
  BY Caps DEF Limit, TypeOK, Tries, Row, AttemptCap

\* fewer tries left to make, and no fewer allowed
LEMMA WithinKept ==
    ASSUME NEW m \in Msg, TypeOK, TypeOK', Within(m), asked'[m] = asked[m], requeues'[m] = 0 => requeues[m] = 0,
           WillAsk(m)' \subseteq WillAsk(m), Limit(m)' >= Limit(m), Reopens(m)' => Reopens(m) \/ Limit(m) < MaxAttempts
    PROVE  Within(m)'
  <1>1. Cardinality(WillAsk(m)') <= Cardinality(WillAsk(m))
    <2>1. WillAsk(m)' \in SUBSET WillAsk(m)
      OBVIOUS
    <2> QED BY <2>1, WillAskType, FS_Subset
  <1> HIDE DEF WillAsk, Limit, Reopens
  <1>2. Asks(m)' <= Asks(m) /\ Asks(m) \in Nat /\ Asks(m)' \in Nat
    BY <1>1, AsksType, WillAskType DEF Asks
  <1> QED BY <1>2, AsksType DEF Within

\* one try less to make: it was made, or the message does not count it any more
LEMMA WithinOneLess ==
    ASSUME NEW m \in Msg, TypeOK, TypeOK', Within(m), requeues'[m] = 0 => requeues[m] = 0, NEW t \in WillAsk(m),
           requeues[m] = 0 => WillAsk(m)' = WillAsk(m) \ {t},
           \/ asked'[m] = Smaller(asked[m] + 1, AttemptCap) /\ Limit(m)' = Limit(m) /\ (Reopens(m)' => Reopens(m))
           \/ asked'[m] = asked[m] /\ Limit(m)' >= Limit(m)
           \/ asked'[m] = asked[m] /\ Limit(m) = t /\ Limit(m)' = t - 1
    PROVE  Within(m)'
  <1> SUFFICES ASSUME requeues[m] = 0
               PROVE  /\ WillAsk(m)' \subseteq 1 .. Limit(m)'
                      /\ Asks(m)' <= Limit(m)' /\ Asks(m)' <= MaxAttempts
                      /\ Reopens(m)' => Asks(m)' < MaxAttempts
    BY DEF Within
  <1>1. Cardinality(WillAsk(m)') = Cardinality(WillAsk(m)) - 1
    BY WillAskType, FS_RemoveElement
  <1>2. Smaller(asked[m] + 1, AttemptCap) <= asked[m] + 1
    BY AsksType DEF Smaller
  <1>3. /\ WillAsk(m) \subseteq 1 .. Limit(m) /\ WillAsk(m)' = WillAsk(m) \ {t}
        /\ Asks(m) <= Limit(m) /\ Asks(m) <= MaxAttempts /\ (Reopens(m) => Asks(m) < MaxAttempts)
    BY DEF Within
  <1> HIDE DEF WillAsk, Limit, Reopens
  <1>4. /\ Asks(m) \in Nat /\ Asks(m)' \in Nat
        /\ asked'[m] = Smaller(asked[m] + 1, AttemptCap) => Asks(m)' <= Asks(m)
        /\ asked'[m] = asked[m] => Asks(m)' = Asks(m) - 1
    BY <1>1, <1>2, AsksType, WillAskType DEF Asks
  <1> QED BY <1>3, <1>4, AsksType

\* one try more to make: the next one of a message that waits
LEMMA WithinOneMore ==
    ASSUME NEW m \in Msg, TypeOK, TypeOK', Within(m), requeues'[m] = requeues[m], asked'[m] = asked[m], Reopens(m), ~Reopens(m)',
           Limit(m)' = Limit(m) + 1 \/ (Limit(m)' = AttemptCap /\ Limit(m) = AttemptCap),
           WillAsk(m)' = WillAsk(m) \cup {Limit(m)'}
    PROVE  Within(m)'
  <1>1. Cardinality(WillAsk(m)') <= Cardinality(WillAsk(m)) + 1
    <2> DEFINE t == Limit(m)'
    <2>1. Cardinality(WillAsk(m) \cup {t}) \in {Cardinality(WillAsk(m)), Cardinality(WillAsk(m)) + 1}
      BY WillAskType, FS_AddElement
    <2>2. Cardinality(WillAsk(m)') \in {Cardinality(WillAsk(m)), Cardinality(WillAsk(m)) + 1}
      BY <2>1
    <2> QED BY <2>2, WillAskType
  <1> HIDE DEF WillAsk, Limit, Reopens
  <1>2. Asks(m)' <= Asks(m) + 1 /\ Asks(m) \in Nat /\ Asks(m)' \in Nat
    BY <1>1, AsksType, WillAskType DEF Asks
  <1>3. Limit(m)' \in 1 .. AttemptCap /\ Limit(m)' >= Limit(m)
    BY AsksType
  <1> QED BY <1>2, <1>3, AsksType DEF Within

LEMMA BudgetStep ==
    ASSUME Without({"stop"})
    PROVE  TypeOK /\ InWork /\ HolderKnowsTheTry /\ Untouched /\ Small /\ NeverStops /\ OneEach /\ LastHeld /\ Budget /\ [Next]_vars
             => OneEach' /\ LastHeld' /\ Budget'
  <1> SUFFICES ASSUME TypeOK, InWork, HolderKnowsTheTry, Untouched, Small, NeverStops, OneEach, LastHeld, Budget, [Next]_vars
               PROVE  OneEach' /\ LastHeld' /\ Budget'
    OBVIOUS
  <1>0. TypeOK'
    BY TypeStep
  <1>a. /\ \A m \in Msg : outbox[m] \in Row /\ Limit(m) \in 0 .. AttemptCap /\ requeues[m] \in Nat /\ outbox[m].attempts \in 0 .. AttemptCap
        /\ MaxAttempts \in Nat /\ MaxAttempts > 1 /\ AttemptCap = MaxAttempts + 1 /\ PoolOf \in [Worker -> Pool]
        /\ \A w \in Worker : Unasked(w) \subseteq Claim /\ cur[w] \notin claims[w]
        /\ \A c \in Claim : c.msg \in Msg /\ c.tries \in 0 .. AttemptCap
    BY Caps, PlaceAssumption DEF TypeOK, Row, Tries, Limit, Unasked, InWork, Small, AttemptCap, Claim
  \* a step after which nobody has more to ask for, and that lets the numbers alone
  <1>k. ASSUME \A w \in Worker : Unasked(w)' \subseteq Unasked(w), asked' = asked, requeues' = requeues,
               \A m \in Msg : Limit(m)' >= Limit(m) /\ (Reopens(m)' => Reopens(m) \/ Limit(m) < MaxAttempts),
               \A w \in Worker : \A c \in Unasked(w)' : c.tries >= MaxAttempts /\ Rests(w, c.msg) => Rests(w, c.msg)'
        PROVE  OneEach' /\ LastHeld' /\ Budget'
    <2>1. OneEach' /\ LastHeld'
      BY <1>k DEF OneEach, LastHeld
    <2>2. \A m \in Msg : WillAsk(m)' \subseteq WillAsk(m)
      BY <1>k DEF WillAsk
    <2> QED BY <1>0, <1>k, <2>1, <2>2, WithinKept DEF Budget
  \* a step after which worker w has one try less to make
  <1>l. ASSUME NEW w \in Worker, NEW c \in Unasked(w), Unasked(w)' = Unasked(w) \ {c}, requeues' = requeues,
               \A v \in Worker \ {w} : Unasked(v)' = Unasked(v),
               \A v \in Worker : \A d \in Unasked(v)' : Rests(v, d.msg) => Rests(v, d.msg)',
               \A n \in Msg \ {c.msg} : asked'[n] = asked[n] /\ Limit(n)' = Limit(n) /\ (Reopens(n)' => Reopens(n)),
               \/ /\ asked'[c.msg] = Smaller(asked[c.msg] + 1, AttemptCap)
                  /\ Limit(c.msg)' = Limit(c.msg) /\ (Reopens(c.msg)' => Reopens(c.msg))
               \/ asked'[c.msg] = asked[c.msg] /\ Limit(c.msg)' >= Limit(c.msg)
               \/ asked'[c.msg] = asked[c.msg] /\ Limit(c.msg) = c.tries /\ Limit(c.msg)' = c.tries - 1
        PROVE  OneEach' /\ LastHeld' /\ Budget'
    <2>1. OneEach' /\ LastHeld'
      BY <1>l DEF OneEach, LastHeld
    <2>2. c \in Claim /\ c.msg \in Msg /\ c.tries \in Tries /\ c = [msg |-> c.msg, tries |-> c.tries]
      BY <1>a, <1>l DEF Claim
    <2>3. \A n \in Msg \ {c.msg} : WillAsk(n)' \subseteq WillAsk(n)
      BY <1>l DEF WillAsk
    <2>4. ASSUME NEW n \in Msg \ {c.msg} PROVE Within(n)'
      BY <1>0, <1>a, <1>l, <2>3, <2>4, WithinKept DEF Budget
    <2>5. c.tries \in WillAsk(c.msg)
      BY <1>l, <2>2 DEF WillAsk
    <2>6. ASSUME requeues[c.msg] = 0 PROVE WillAsk(c.msg)' = WillAsk(c.msg) \ {c.tries}
      <3>1. ASSUME NEW t \in Tries
            PROVE  t \in WillAsk(c.msg)' <=> t \in WillAsk(c.msg) /\ t # c.tries
        <4>1. CASE t = c.tries
          BY <1>l, <2>2, <2>6, <4>1 DEF WillAsk, OneEach
        <4>2. CASE t # c.tries
          <5>1. \A v \in Worker : [msg |-> c.msg, tries |-> t] \in Unasked(v)' <=> [msg |-> c.msg, tries |-> t] \in Unasked(v)
            BY <1>l, <4>2
          <5> QED BY <4>2, <5>1 DEF WillAsk
        <4> QED BY <4>1, <4>2
      <3> QED BY <3>1 DEF WillAsk
    <2>7. Within(c.msg)'
      BY <1>0, <1>l, <2>2, <2>5, <2>6, WithinOneLess DEF Budget
    <2> QED BY <2>1, <2>4, <2>7 DEF Budget
  \* a step that changes no row, after which nobody newly puts a message back for another try
  <1>o. ASSUME outbox' = outbox
        PROVE  /\ \A m \in Msg : Limit(m)' = Limit(m)
               /\ \A w, m : Rests(w, m)' = Rests(w, m)
               /\ (\A w \in Worker : pc'[w] = "report" /\ answer'[w].do = "retry" =>
                        pc[w] = "report" /\ answer[w].do = "retry" /\ cur'[w] = cur[w])
                     => \A m \in Msg : Reopens(m)' => Reopens(m)
    BY <1>o DEF Limit, Rests, Holds, Reopens
  <1>b. ASSUME UNCHANGED <<claims, cur>>, \A w \in Worker : Unasked(w)' \subseteq Unasked(w), outbox' = outbox, asked' = asked,
               requeues' = requeues,
               \A w \in Worker : pc'[w] = "report" /\ answer'[w].do = "retry" => pc[w] = "report" /\ answer[w].do = "retry"
        PROVE  OneEach' /\ LastHeld' /\ Budget'
    BY <1>a, <1>b, <1>k, <1>o
  <1>u. ASSUME UNCHANGED <<claims, cur, pc, answer>> PROVE \A w \in Worker : Unasked(w)' = Unasked(w)
    BY <1>u DEF Unasked
  \* a row that no worker holds changes, and what ended stays ended
  <1>c. ASSUME UNCHANGED <<claims, cur, pc, answer>>, asked' = asked, requeues' = requeues,
               \A m \in Msg : Limit(m)' >= Limit(m) /\ (outbox'[m].status = "pending" => Reopens(m) \/ Limit(m) < MaxAttempts),
               \A w \in Worker, m \in Msg : Holds(w, m)' => Holds(w, m),
               \A w \in Worker : \A c \in Unasked(w) : c.tries >= MaxAttempts /\ Rests(w, c.msg) => Rests(w, c.msg)'
        PROVE  OneEach' /\ LastHeld' /\ Budget'
    <2>1. \A m \in Msg : Reopens(m)' => Reopens(m) \/ Limit(m) < MaxAttempts
      BY <1>c DEF Reopens
    <2> QED BY <1>c, <1>k, <1>u, <2>1
  <1>1. ASSUME NEW m \in Msg, Enqueue(m) PROVE OneEach' /\ LastHeld' /\ Budget'
    <2>1. /\ outbox[m].status = "absent" /\ outbox[m].attempts = 0 /\ outbox'[m].attempts = 0 /\ outbox'[m].status = "pending"
          /\ \A n \in Msg \ {m} : outbox'[n] = outbox[n]
      BY <1>1, <1>a DEF Enqueue, TypeOK, Row, Untouched, NoRow
    <2>2. /\ \A n \in Msg : Limit(n)' = Limit(n)
          /\ \A n \in Msg : outbox'[n].status = "pending" => Reopens(n) \/ Limit(n) < MaxAttempts
      BY <1>a, <2>1 DEF Limit, Reopens
    <2>3. \A w \in Worker, n \in Msg : (Holds(w, n)' <=> Holds(w, n)) /\ (Rests(w, n) => Rests(w, n)')
      BY <2>1 DEF Holds, Rests, Ended
    <2> QED BY <1>1, <1>a, <1>c, <2>2, <2>3 DEF Enqueue, workers
  <1>2. ASSUME NEW m \in Msg, Requeue(m) PROVE OneEach' /\ LastHeld' /\ Budget'
    <2>1. /\ \A n \in Msg \ {m} : outbox'[n] = outbox[n] /\ asked'[n] = asked[n] /\ requeues'[n] = requeues[n]
          /\ requeues'[m] = requeues[m] + 1 /\ UNCHANGED <<pc, claims, cur, answer>>
      BY <1>2 DEF Requeue, TypeOK, workers
    <2>2. \A w \in Worker : Unasked(w)' = Unasked(w)
      BY <1>u, <2>1
    <2>3. requeues'[m] # 0
      BY <1>a, <2>1
    <2>4. OneEach' /\ LastHeld'
      <3>1. \A n \in Msg : requeues'[n] = 0 => n # m /\ requeues[n] = 0
        BY <2>1, <2>3
      <3>2. \A w \in Worker : \A c \in Unasked(w) : c.msg \in Msg
        BY <1>a DEF Claim
      <3>3. \A w \in Worker, n \in Msg \ {m} : Rests(w, n)' = Rests(w, n)
        BY <2>1 DEF Rests, Holds
      <3> QED BY <2>2, <3>1, <3>2, <3>3 DEF OneEach, LastHeld
    <2>5. ASSUME NEW n \in Msg \ {m} PROVE Within(n)'
      <3>1. WillAsk(n)' \subseteq WillAsk(n) /\ Limit(n)' = Limit(n) /\ (Reopens(n)' => Reopens(n))
        BY <2>1, <2>2 DEF WillAsk, Limit, Reopens, Holds
      <3> QED BY <1>0, <1>a, <2>1, <3>1, WithinKept DEF Budget
    <2>6. Within(m)'
      BY <2>3 DEF Within
    <2> QED BY <2>4, <2>5, <2>6 DEF Budget
  <1>3. ASSUME NEW m \in Msg, Delete(m) PROVE OneEach' /\ LastHeld' /\ Budget'
    <2>1. outbox'[m].status = "gone" /\ \A n \in Msg \ {m} : outbox'[n] = outbox[n]
      BY <1>3 DEF Delete, NoRow, TypeOK
    <2>2. \A n \in Msg : Limit(n)' >= Limit(n) /\ (outbox'[n].status = "pending" => Reopens(n))
      BY <1>a, <2>1 DEF Limit, Reopens
    <2>3. \A w \in Worker, n \in Msg : (Holds(w, n)' => Holds(w, n)) /\ (Rests(w, n) => Rests(w, n)')
      BY <2>1 DEF Holds, Rests
    <2> QED BY <1>3, <1>a, <1>c, <2>2, <2>3 DEF Delete, workers, ghosts
  <1>4. ASSUME Reap PROVE OneEach' /\ LastHeld' /\ Budget'
    <2>1. \A m \in Msg : /\ outbox'[m].attempts = outbox[m].attempts /\ (outbox'[m].status = "gone" <=> outbox[m].status = "gone")
                         /\ \/ outbox'[m] = outbox[m]
                            \/ outbox[m].status = "sending" /\ outbox[m].attempts >= MaxAttempts /\ outbox'[m].status = "failed"
                            \/ outbox[m].status = "sending" /\ outbox[m].attempts < MaxAttempts /\ outbox'[m].status = "pending"
      BY <1>4, <1>a DEF Reap, Lapsed, Unlocked, AfterLapse
    <2>2. \A m \in Msg : Limit(m)' = Limit(m) /\ (outbox'[m].status = "pending" => Reopens(m) \/ Limit(m) < MaxAttempts)
      BY <2>1 DEF Limit, Reopens
    <2>3. \A w \in Worker, m \in Msg : Holds(w, m)' => Holds(w, m)
      BY <2>1 DEF Holds
    <2>4. ASSUME NEW w \in Worker, NEW c \in Unasked(w), c.tries >= MaxAttempts, Rests(w, c.msg) PROVE Rests(w, c.msg)'
      <3>1. c.msg \in Msg /\ (Holds(w, c.msg) => outbox[c.msg].attempts = c.tries)
        <4>1. c \in Claim /\ Alive(w) /\ c \in InHand(w)
          BY <1>a, <2>4 DEF Unasked, Alive, InHand, InWork
        <4> QED BY <1>a, <4>1 DEF HolderKnowsTheTry
      <3>2. c.tries \in Nat
        BY <1>a, <2>4
      <3> QED BY <1>a, <2>1, <2>4, <3>1, <3>2 DEF Rests, Holds, Ended
    <2> QED BY <1>4, <1>a, <1>c, <2>2, <2>3, <2>4 DEF Reap, workers, ghosts
  <1>5. ASSUME NEW w \in Worker, ClaimOutbox(w) PROVE OneEach' /\ LastHeld' /\ Budget'
    <2> DEFINE C == Claimed(Claimable)
    <2>1. \A m \in C : /\ m \in Msg /\ outbox[m].status = "pending" /\ TryNumber(m) \in 1 .. AttemptCap
                       /\ Limit(m) = outbox[m].attempts
                       /\ TryNumber(m) = Limit(m) + 1 \/ (TryNumber(m) = AttemptCap /\ Limit(m) = AttemptCap)
      BY <1>a DEF Claimed, Claimable, Due, TryNumber, Smaller, Limit
    <2>2. /\ Unasked(w) = {} /\ Unasked(w)' = {[msg |-> m, tries |-> TryNumber(m)] : m \in C}
          /\ \A v \in Worker \ {w} : Unasked(v)' = Unasked(v)
          /\ requeues' = requeues /\ asked' = asked /\ UNCHANGED <<pc, cur, answer>> /\ pc[w] = "free"
          /\ \A m \in C : /\ outbox'[m].status = "sending" /\ outbox'[m].holder = w /\ outbox'[m].attempts = TryNumber(m)
          /\ \A m \in Msg \ C : outbox'[m] = outbox[m]
      BY <1>5, <2>1 DEF ClaimOutbox, Unasked, TypeOK
    <2>3. \A m \in C : Limit(m)' = TryNumber(m) /\ Reopens(m) /\ ~Reopens(m)'
      BY <2>1, <2>2 DEF Limit, Reopens, Holds
    <2>4. \A m \in Msg \ C : Limit(m)' = Limit(m) /\ (Reopens(m)' => Reopens(m))
      BY <2>2 DEF Limit, Reopens, Holds
    <2> HIDE DEF C
    \* nobody still has the try that worker w now gets
    <2>5. ASSUME NEW v \in Worker \ {w}, NEW c \in Unasked(v), c.msg \in C, requeues[c.msg] = 0
          PROVE  c.tries # TryNumber(c.msg) /\ c.tries < MaxAttempts
      <3>1. c \in Claim /\ c.msg \in Msg /\ c.tries \in Tries /\ c = [msg |-> c.msg, tries |-> c.tries]
        BY <1>a, <2>5 DEF Claim
      <3>2. c.tries < MaxAttempts
        BY <1>a, <2>1, <2>5, <3>1 DEF LastHeld, Rests, Holds, Ended
      <3>3. c.tries \in WillAsk(c.msg)
        BY <2>5, <3>1 DEF WillAsk
      <3>4. c.tries \in 1 .. Limit(c.msg)
        BY <2>5, <3>1, <3>3 DEF Budget, Within
      <3> QED BY <1>a, <2>1, <2>5, <3>1, <3>2, <3>4
    <2>6. ASSUME NEW v \in Worker \ {w}, NEW c \in Unasked(v) \cap Unasked(w)', requeues[c.msg] = 0 PROVE FALSE
      BY <2>2, <2>5, <2>6
    <2>7. OneEach'
      BY <2>2, <2>6 DEF OneEach
    <2>8. LastHeld'
      <3>1. ASSUME NEW c \in Unasked(w)' PROVE Rests(w, c.msg)'
        BY <2>2, <3>1 DEF Rests, Holds
      <3>2. ASSUME NEW v \in Worker \ {w}, NEW c \in Unasked(v)', requeues[c.msg] = 0, c.tries >= MaxAttempts PROVE Rests(v, c.msg)'
        <4>1. c \in Unasked(v) /\ c.msg \in Msg /\ c.tries \in Nat
          BY <1>a, <2>2, <3>2
        <4>2. c.msg \notin C
          BY <1>a, <2>5, <3>2, <4>1
        <4>3. outbox'[c.msg] = outbox[c.msg]
          BY <2>2, <4>1, <4>2
        <4> QED BY <3>2, <4>1, <4>3 DEF LastHeld, Rests, Holds
      <3> QED BY <2>2, <3>1, <3>2 DEF LastHeld
    <2>9. ASSUME NEW m \in Msg \ C PROVE Within(m)'
      <3>1. WillAsk(m)' \subseteq WillAsk(m)
        BY <2>2 DEF WillAsk
      <3> QED BY <1>0, <1>a, <2>2, <2>4, <3>1, WithinKept DEF Budget
    <2>10. ASSUME NEW m \in C PROVE Within(m)'
      <3>1. /\ m \in Msg /\ TryNumber(m) \in Tries
            /\ [msg |-> m, tries |-> TryNumber(m)] \in Unasked(w)'
        BY <1>a, <2>1, <2>2 DEF Tries
      <3>2. \A t \in Tries : [msg |-> m, tries |-> t] \in Unasked(w)' => t = TryNumber(m)
        BY <2>2
      <3>3. \A t \in Tries : t \in WillAsk(m)' <=> t \in WillAsk(m) \/ t = TryNumber(m)
        BY <2>2, <3>1, <3>2 DEF WillAsk
      <3>4. WillAsk(m)' = WillAsk(m) \cup {Limit(m)'}
        BY <2>3, <3>1, <3>3 DEF WillAsk
      <3> QED BY <1>0, <2>1, <2>2, <2>3, <3>1, <3>4, WithinOneMore DEF Budget
    <2> QED BY <2>7, <2>8, <2>9, <2>10 DEF Budget
  <1>6. ASSUME NEW w \in Worker, NEW c \in claims[w], Look(w, c) PROVE OneEach' /\ LastHeld' /\ Budget'
    <2>1. /\ pc[w] = "free" /\ c \in Unasked(w) /\ c \in Claim /\ c.msg \in Msg /\ Unasked(w) = claims[w]
          /\ outbox' = outbox /\ requeues' = requeues /\ claims'[w] = claims[w] \ {c} /\ cur'[w] = c
          /\ \A v \in Worker \ {w} : UNCHANGED <<claims[v], cur[v], pc[v], answer[v]>>
      BY <1>6, <1>a DEF Look, Conclude, StartSend, TypeOK, Unasked, Claim
    <2>2. \A v \in Worker \ {w} : Unasked(v)' = Unasked(v)
      BY <2>1 DEF Unasked
    <2>3. \A m \in Msg \ {c.msg} : Reopens(m)' => Reopens(m)
      BY <2>1 DEF Reopens, Holds
    <2>4. CASE pc'[w] = "wait" \/ (pc'[w] = "report" /\ answer'[w].do = "defer")
      <3>1. asked' = asked
        BY <1>6, <2>4 DEF Look, Conclude, StartSend, TypeOK
      <3>2. Unasked(w)' = Unasked(w)
        BY <2>1, <2>4 DEF Unasked
      <3>3. \A m \in Msg : Reopens(m)' => Reopens(m)
        BY <2>1, <2>4 DEF Reopens, Holds
      <3> QED BY <1>a, <1>k, <1>o, <2>1, <2>2, <3>1, <3>2, <3>3
    <2>5. CASE ~(pc'[w] = "wait" \/ (pc'[w] = "report" /\ answer'[w].do = "defer"))
      <3>1. Unasked(w)' = Unasked(w) \ {c}
        BY <2>1, <2>5 DEF Unasked
      <3>2. asked' = asked \/ (pc'[w] = "send" /\ asked' = [asked EXCEPT ![c.msg] = Smaller(@ + 1, AttemptCap)])
        BY <1>6 DEF Look, Conclude, StartSend, TypeOK
      <3>3. /\ \A n \in Msg \ {c.msg} : asked'[n] = asked[n]
            /\ \/ asked'[c.msg] = asked[c.msg]
               \/ asked'[c.msg] = Smaller(asked[c.msg] + 1, AttemptCap) /\ (Reopens(c.msg)' => Reopens(c.msg))
        <4>1. pc'[w] = "send" => (Reopens(c.msg)' => Reopens(c.msg))
          BY <2>1 DEF Reopens, Holds
        <4> QED BY <2>1, <3>2, <4>1 DEF TypeOK
      <3> QED BY <1>a, <1>l, <1>o, <2>1, <2>2, <2>3, <3>1, <3>3
    <2> QED BY <2>4, <2>5
  <1>7. ASSUME NEW w \in Worker, Waited(w) PROVE OneEach' /\ LastHeld' /\ Budget'
    <2>0. PICK c : c = cur[w]
      OBVIOUS
    <2>1. /\ pc[w] = "wait" /\ pc' = [pc EXCEPT ![w] = "send"] /\ answer' = answer
          /\ asked' = [asked EXCEPT ![c.msg] = Smaller(@ + 1, AttemptCap)]
          /\ claims' = claims /\ cur' = cur /\ outbox' = outbox /\ requeues' = requeues
      BY <1>7, <1>a, <2>0 DEF Waited, StartSend, Stopping, NeverStops
    <2>2. c \in Unasked(w) /\ c \in Claim /\ c.msg \in Msg /\ c \notin claims[w]
      BY <1>a, <2>0, <2>1 DEF Unasked, Claim
    <2>3. Unasked(w)' = Unasked(w) \ {c} /\ \A v \in Worker \ {w} : Unasked(v)' = Unasked(v)
      BY <2>0, <2>1, <2>2 DEF Unasked, TypeOK
    <2>4. \A m \in Msg : Reopens(m)' => Reopens(m)
      <3>1. \A v \in Worker : pc'[v] = "report" => pc[v] = "report"
        BY <2>1
      <3> QED BY <1>o, <2>1, <3>1
    <2>5. (\A n \in Msg \ {c.msg} : asked'[n] = asked[n]) /\ asked'[c.msg] = Smaller(asked[c.msg] + 1, AttemptCap)
      BY <2>1, <2>2 DEF TypeOK
    <2> QED BY <1>l, <1>o, <2>1, <2>2, <2>3, <2>4, <2>5
  <1>8. ASSUME NEW w \in Worker, NEW r \in Answers, Answered(w, r) PROVE OneEach' /\ LastHeld' /\ Budget'
    <2>0. PICK c : c = cur[w]
      OBVIOUS
    <2>1. /\ pc[w] = "send" /\ pc'[w] = "report" /\ answer'[w].do # "defer"
          /\ answer'[w].do = "retry" => c.tries < MaxAttempts
          /\ \A v \in Worker \ {w} : pc'[v] = pc[v] /\ answer'[v] = answer[v]
          /\ UNCHANGED <<claims, cur, outbox, asked, requeues>>
          /\ Alive(w) /\ c \in InHand(w)
      BY <1>8, <2>0 DEF Answered, Verdict, TypeOK, Alive, InHand, InWork
    <2>2. \A v \in Worker : Unasked(v)' = Unasked(v)
      BY <2>1 DEF Unasked
    <2>3. ASSUME NEW m \in Msg, Reopens(m)' PROVE Reopens(m) \/ Limit(m) < MaxAttempts
      <3>1. CASE m = c.msg /\ answer'[w].do = "retry" /\ Holds(w, m)
        <4>1. outbox[m].attempts = c.tries
          BY <2>1, <3>1 DEF HolderKnowsTheTry
        <4> QED BY <2>1, <3>1, <4>1 DEF Limit, Holds
      <3>2. CASE ~(m = c.msg /\ answer'[w].do = "retry" /\ Holds(w, m))
        BY <2>0, <2>1, <2>3, <3>2 DEF Reopens, Holds
      <3> QED BY <3>1, <3>2
    <2> QED BY <1>a, <1>k, <1>o, <2>1, <2>2, <2>3
  <1>9. ASSUME NEW w \in Worker, Report(w) PROVE OneEach' /\ LastHeld' /\ Budget'
    <2>0. PICK c : c = cur[w]
      OBVIOUS
    <2> DEFINE row == Finished(outbox[c.msg], answer[w])
    <2>1. /\ pc[w] = "report" /\ pc'[w] = "free" /\ claims' = claims /\ requeues' = requeues /\ asked' = asked
          /\ c # None /\ c \in Claim /\ c.msg \in Msg /\ c \notin claims[w] /\ c.tries \in 0 .. AttemptCap
          /\ \A v \in Worker \ {w} : pc'[v] = pc[v] /\ cur'[v] = cur[v] /\ answer'[v] = answer[v]
          /\ answer[w] \in Answer /\ Alive(w) /\ c \in InHand(w)
      BY <1>9, <1>a, <2>0 DEF Report, ghosts, InWork, TypeOK, Claim, Tries, Alive, InHand
    <2>2. (\A v \in Worker \ {w} : Unasked(v)' = Unasked(v)) /\ Unasked(w)' = claims[w]
      BY <2>1 DEF Unasked
    <2>3. \/ outbox' = outbox
          \/ Holds(w, c.msg) /\ outbox' = [outbox EXCEPT ![c.msg] = row]
      BY <1>9, <2>0 DEF Report
    <2>4. row.status \notin {"sending", "gone", "absent"} /\ (row.status = "pending" <=> answer[w].do \in {"retry", "defer"})
      BY <2>1 DEF Finished, Unlocked, Answer
    <2>5. \A n \in Msg \ {c.msg} : outbox'[n] = outbox[n]
      BY <2>3 DEF TypeOK
    <2>6. \A n \in Msg \ {c.msg} : Limit(n)' = Limit(n) /\ (Reopens(n)' => Reopens(n))
      BY <2>1, <2>5 DEF Limit, Reopens, Holds
    <2>7. outbox'[c.msg] = outbox[c.msg] \/ (Holds(w, c.msg) /\ outbox'[c.msg] = row /\ outbox[c.msg].attempts = c.tries)
      <3>1. Holds(w, c.msg) => outbox[c.msg].attempts = c.tries
        BY <2>1 DEF HolderKnowsTheTry
      <3> QED BY <2>1, <2>3, <3>1 DEF TypeOK
    <2>8. ASSUME NEW v \in Worker, NEW d \in Unasked(v)', Rests(v, d.msg) PROVE Rests(v, d.msg)'
      <3>1. d \in Unasked(v) /\ d \in InHand(v) /\ Alive(v) /\ d \in Claim /\ (v = w => d # c)
        BY <1>a, <2>1, <2>2, <2>8 DEF Unasked, InHand, Alive, InWork
      <3>2. CASE d.msg # c.msg \/ outbox'[c.msg] = outbox[c.msg]
        <4>1. outbox'[d.msg] = outbox[d.msg]
          BY <1>a, <2>5, <3>1, <3>2
        <4> QED BY <2>8, <4>1 DEF Rests, Holds
      <3>3. CASE d.msg = c.msg /\ Holds(w, c.msg) /\ outbox[c.msg].attempts = c.tries
        <4>1. v = w
          BY <2>8, <3>3 DEF Rests, Holds, Ended
        <4>2. d.tries = c.tries
          BY <3>1, <3>3, <4>1 DEF HolderKnowsTheTry
        <4>3. d = c
          BY <2>1, <3>1, <3>3, <4>2 DEF Claim
        <4> QED BY <3>1, <4>1, <4>3
      <3> QED BY <2>7, <3>2, <3>3
    <2>9. CASE answer[w].do = "defer"
      <3>1. c \in Unasked(w) /\ Unasked(w)' = Unasked(w) \ {c}
        BY <2>0, <2>1, <2>2, <2>9 DEF Unasked
      <3>2. \/ Limit(c.msg)' = Limit(c.msg)
            \/ Limit(c.msg) = c.tries /\ Limit(c.msg)' = Larger(c.tries - 1, 0)
        <4>1. CASE outbox'[c.msg] = outbox[c.msg]
          BY <4>1 DEF Limit
        <4>2. CASE Holds(w, c.msg) /\ outbox'[c.msg] = row /\ outbox[c.msg].attempts = c.tries
          <5>1. row.status = "pending" /\ row.attempts = Larger(c.tries - 1, 0)
            BY <2>9, <4>2 DEF Finished, Unlocked
          <5> QED BY <4>2, <5>1 DEF Limit, Holds
        <4> QED BY <2>7, <4>1, <4>2
      <3>3. \/ Limit(c.msg)' >= Limit(c.msg)
            \/ Limit(c.msg) = c.tries /\ Limit(c.msg)' = c.tries - 1
        BY <1>a, <2>1, <3>2 DEF Larger
      <3> QED BY <1>l, <2>1, <2>2, <2>6, <2>8, <3>1, <3>3
    <2>10. CASE answer[w].do # "defer"
      <3>1. Unasked(w)' \subseteq Unasked(w)
        BY <2>1, <2>2 DEF Unasked
      <3>2. Limit(c.msg)' = Limit(c.msg) /\ (Reopens(c.msg)' => Reopens(c.msg))
        <4>1. row.attempts = outbox[c.msg].attempts
          BY <2>10 DEF Finished, Unlocked
        <4>2. CASE outbox'[c.msg] = outbox[c.msg]
          BY <2>1, <4>2 DEF Limit, Reopens, Holds
        <4>3. CASE Holds(w, c.msg) /\ outbox'[c.msg] = row
          <5>1. Limit(c.msg)' = Limit(c.msg)
            BY <2>4, <4>1, <4>3 DEF Limit, Holds
          <5>2. row.status = "pending" => Reopens(c.msg)
            BY <2>0, <2>1, <2>4, <2>10, <4>3 DEF Reopens
          <5>3. Reopens(c.msg)' => row.status = "pending"
            BY <2>4, <4>3 DEF Reopens, Holds
          <5> QED BY <5>1, <5>2, <5>3
        <4> QED BY <2>7, <4>2, <4>3
      <3>3. \A n \in Msg : Limit(n)' >= Limit(n) /\ (Reopens(n)' => Reopens(n))
        BY <1>a, <2>1, <2>6, <3>2
      <3> QED BY <1>k, <2>1, <2>2, <2>8, <3>1, <3>3
    <2> QED BY <2>9, <2>10
  <1>10. ASSUME NEW w \in Worker, Quit(w) PROVE FALSE
    BY <1>10, <1>a DEF Quit, Stopping, NeverStops
  <1>11. ASSUME NEW w \in Worker, Orphan(w) PROVE OneEach' /\ LastHeld' /\ Budget'
    <2>1. /\ outbox' = outbox /\ answer' = answer /\ pc'[w] = "off" /\ asked' = asked /\ requeues' = requeues /\ claims' = claims
          /\ \A v \in Worker \ {w} : pc'[v] = pc[v] /\ cur'[v] = cur[v]
      BY <1>11 DEF Orphan, TypeOK
    <2>2. \A v \in Worker : Unasked(v)' \subseteq Unasked(v)
      BY <2>1 DEF Unasked
    <2>3. \A m \in Msg : Reopens(m)' => Reopens(m)
      BY <1>o, <2>1
    <2> QED BY <1>a, <1>k, <1>o, <2>1, <2>2, <2>3
  <1>12. ASSUME NEW p \in Pool, Start(p) PROVE OneEach' /\ LastHeld' /\ Budget'
    <2>1. \A v \in Worker : pc'[v] \in {pc[v], "free"}
      BY <1>12 DEF Start
    <2>2. UNCHANGED <<claims, cur, answer, outbox, asked, requeues>>
      BY <1>12 DEF Start, ghosts
    <2>3. \A v \in Worker : Unasked(v)' \subseteq Unasked(v)
      BY <2>1, <2>2 DEF Unasked
    <2>4. \A v \in Worker : pc'[v] = "report" => pc[v] = "report"
      BY <2>1
    <2> QED BY <1>b, <2>2, <2>3, <2>4
  <1>13. ASSUME NEW p \in Pool, Stop(p) \/ StopEnd(p) PROVE FALSE
    BY <1>13 DEF Stop, StopEnd, NeverStops, Without
  <1>14. ASSUME NEW p \in Pool, Crash(p) PROVE OneEach' /\ LastHeld' /\ Budget'
    <2>1. /\ outbox' = outbox /\ asked' = asked /\ requeues' = requeues
          /\ \A v \in Worker : \/ UNCHANGED <<pc[v], claims[v], cur[v], answer[v]>>
                               \/ pc'[v] \in {"off", "orphan"} /\ claims'[v] = {}
      BY <1>14 DEF Crash, Ends, ghosts
    <2>2. \A v \in Worker : Unasked(v)' \subseteq Unasked(v)
      BY <2>1 DEF Unasked
    <2>3. \A m \in Msg : Reopens(m)' => Reopens(m)
      BY <1>o, <2>1
    <2> QED BY <1>a, <1>k, <1>o, <2>1, <2>2, <2>3
  <1>15. ASSUME UNCHANGED vars \/ \E a \in Addr : Switch(a) PROVE OneEach' /\ LastHeld' /\ Budget'
    <2>1. UNCHANGED <<claims, cur, pc, answer, outbox, asked, requeues>>
      BY <1>15 DEF vars, Switch, workers, ghosts
    <2> QED BY <1>b, <1>u, <2>1
  <1>16. ASSUME Tick PROVE OneEach' /\ LastHeld' /\ Budget'
    <2>1. \A m \in Msg : /\ outbox'[m].status = outbox[m].status /\ outbox'[m].attempts = outbox[m].attempts
                         /\ outbox'[m].holder = outbox[m].holder
      BY <1>16, <1>a DEF Tick, Row
    <2>2. UNCHANGED <<claims, cur, pc, answer, asked, requeues>>
      BY <1>16 DEF Tick, ghosts
    <2>3. \A m \in Msg : Limit(m)' = Limit(m) /\ (outbox'[m].status = "pending" => Reopens(m))
      BY <2>1 DEF Limit, Reopens
    <2>4. \A w \in Worker, m \in Msg : (Holds(w, m)' <=> Holds(w, m)) /\ (Rests(w, m) <=> Rests(w, m)')
      BY <2>1 DEF Holds, Rests
    <2> QED BY <1>a, <1>c, <2>2, <2>3, <2>4
  <1> QED BY <1>1, <1>2, <1>3, <1>4, <1>5, <1>6, <1>7, <1>8, <1>9, <1>10, <1>11, <1>12, <1>13, <1>14, <1>15, <1>16
          DEF Next, WorkerStep

LEMMA CountInit == Init => Small /\ Few /\ NeverStops /\ InNumber /\ RetryInNumber /\ OneEach /\ LastHeld /\ Budget
  <1> SUFFICES ASSUME Init PROVE Small /\ Few /\ NeverStops /\ InNumber /\ RetryInNumber /\ OneEach /\ LastHeld /\ Budget
    OBVIOUS
  <1>1. \A w \in Worker : claims[w] = {} /\ cur[w] = None /\ pc[w] = "off" /\ Unasked(w) = {}
    BY DEF Init, Unasked
  <1>2. \A m \in Msg : outbox[m].status = "absent" /\ outbox[m].attempts = 0 /\ asked[m] = 0
    BY DEF Init, NoRow
  <1>3. IsFiniteSet({}) /\ Cardinality({}) = 0 /\ Batch \in Nat
    BY FS_EmptySet, TimeAssumption
  <1>4. Small
    BY <1>1, <1>3 DEF Small
  <1>5. Few
    <2>1. {m \in Msg : outbox[m].status # "absent"} = {}
      BY <1>2
    <2> QED BY <1>3, <2>1 DEF Few
  <1>6. Budget
    <2>1. \A m \in Msg : WillAsk(m) = {} /\ Limit(m) = 0
      BY <1>1, <1>2 DEF WillAsk, Limit
    <2>2. \A m \in Msg : Asks(m) = 0
      BY <1>2, <1>3, <2>1 DEF Asks
    <2> QED BY <2>1, <2>2, Caps DEF Budget, Within
  <1> QED BY <1>1, <1>2, <1>4, <1>5, <1>6, Caps DEF Init, NeverStops, InNumber, RetryInNumber, OneEach, LastHeld

\* Where no process is stopped in order, the channel is asked for a message at most MaxAttempts times before it is queued again by
\* hand: whatever the leases and the delays are, and with crashes, failed reads, lost reports, deletions and workers that hang
THEOREM AskedOften == ASSUME Without({"stop"})
                      PROVE  Spec => [](\A m \in Msg : requeues[m] = 0 => asked[m] <= MaxAttempts)
  <1>1. IInv /\ Small /\ Few /\ NeverStops /\ OneEach /\ LastHeld /\ Budget /\ [Next]_vars
          => Small' /\ Few' /\ NeverStops' /\ OneEach' /\ LastHeld' /\ Budget'
    BY SmallStep, NeverStopsStep, BudgetStep DEF IInv
  <1>2. IInv /\ Budget => \A m \in Msg : requeues[m] = 0 => asked[m] <= MaxAttempts
    <2> SUFFICES ASSUME IInv, Budget, NEW m \in Msg, requeues[m] = 0 PROVE asked[m] <= MaxAttempts
      OBVIOUS
    <2>1. asked[m] + Cardinality(WillAsk(m)) <= MaxAttempts /\ Cardinality(WillAsk(m)) \in Nat
      BY WillAskType DEF Budget, Within, Asks
    <2>2. asked[m] \in Nat /\ MaxAttempts \in Nat
      BY Caps DEF IInv, TypeOK, Tries
    <2> QED BY <2>1, <2>2
  <1> QED BY CountInit, <1>1, <1>2, Invariance, PTL DEF Spec

\* so, where nothing is queued again by hand, it is asked MaxAttempts times for any message
THEOREM AskedInTries == ASSUME Without({"stop"}), MaxRequeues = 0 PROVE Spec => []AskedWithinTries
  <1> DEFINE None0 == \A m \in Msg : requeues[m] = 0
  <1>1. Init => None0
    BY DEF Init
  <1>2. IInv /\ None0 /\ [Next]_vars => None0'
    <2> SUFFICES ASSUME IInv, None0, [Next]_vars PROVE None0'
      OBVIOUS
    <2>1. ASSUME NEW m \in Msg, Requeue(m) PROVE FALSE
      BY <2>1 DEF Requeue
    <2>2. requeues' = requeues
      BY <2>1 DEF Next, WorkerStep, Enqueue, Delete, Reap, ClaimOutbox, Look, Waited, Answered, Report, Quit, Orphan, Start, Stop,
                  StopEnd, Crash, Ends, Switch, Tick, vars, ghosts
    <2> QED BY <2>2
  <1>3. None0 /\ (\A m \in Msg : requeues[m] = 0 => asked[m] <= MaxAttempts) => AskedWithinTries
    BY DEF AskedWithinTries
  <1> HIDE DEF None0
  <1> QED BY <1>1, <1>2, <1>3, Invariance, AskedOften, PTL DEF Spec

-----------------------------------------------------------------------------
(* Tries and requests *)

\* how often the channel was asked for what a worker has in hand: for all but the try it still has to make, or for all of it
Asking(w, c) == c = cur[w] /\ (pc[w] = "send" \/ (pc[w] = "report" /\ answer[w].do = "retry"))
AskedRight(w, c) == outbox[c.msg].status # "gone" =>
    /\ c \in Unasked(w) => asked[c.msg] = c.tries - 1
    /\ Asking(w, c) => asked[c.msg] = c.tries
Counted == \A w \in Worker : Alive(w) => \A c \in InHand(w) : AskedRight(w, c)
NoneAsked == \A m \in Msg : outbox[m].status = "absent" => asked[m] = 0

CountInv == Counted /\ NoneAsked /\ TriesAreAsks

LEMMA CountStep ==
    ASSUME Without({"read", "stop", "crash", "report"})
    PROVE  TypeOK /\ InWork /\ HolderKnowsTheTry /\ Untouched /\ HandInv /\ NeverStops /\ HeldInHand /\ Running /\ InNumber
             /\ CountInv /\ [Next]_vars => CountInv'
  <1> SUFFICES ASSUME TypeOK, InWork, HolderKnowsTheTry, Untouched, HandInv, NeverStops, HeldInHand, Running, InNumber,
                      Counted, NoneAsked, TriesAreAsks, [Next]_vars
               PROVE  CountInv'
    BY DEF CountInv
  <1>a. /\ \A m \in Msg : outbox[m] \in Row /\ asked[m] \in 0 .. AttemptCap /\ outbox[m].attempts \in Nat
        /\ MaxAttempts \in Nat /\ MaxAttempts > 1 /\ AttemptCap = MaxAttempts + 1
        /\ None \notin Claim /\ None \notin Worker /\ PoolOf \in [Worker -> Pool]
        /\ \A w \in Worker : claims[w] \subseteq Claim /\ cur[w] \notin claims[w] /\ (cur[w] # None => cur[w] \in Claim)
        /\ \A c \in Claim : c.msg \in Msg /\ c.tries \in 0 .. AttemptCap
    BY Caps, NoneAssumption, PlaceAssumption DEF TypeOK, Row, Tries, HandInv, Small, AttemptCap, Claim
  <1>b. \A w \in Worker : Alive(w) => \A c \in InHand(w) :
          c \in Claim /\ c.msg \in Msg /\ outbox[c.msg].status \in {"gone", "sending"}
    BY <1>a DEF InHand, HandInv, InTime, Holds
  \* a step in which no worker moves and no request is made
  <1>s. ASSUME UNCHANGED <<pc, claims, cur, answer, asked>>,
               \A m \in Msg : /\ outbox[m].status = "gone" => outbox'[m].status = "gone"
                              /\ outbox'[m].status = "pending" => outbox'[m].attempts = asked[m]
                              /\ outbox'[m].status = "absent" => outbox[m].status = "absent"
        PROVE  CountInv'
    <2>1. NoneAsked' /\ TriesAreAsks'
      BY <1>s DEF NoneAsked, TriesAreAsks
    <2>2. ASSUME NEW w \in Worker, Alive(w)', NEW c \in InHand(w)' PROVE AskedRight(w, c)'
      <3>1. Alive(w) /\ c \in InHand(w) /\ (c \in Unasked(w)' <=> c \in Unasked(w)) /\ (Asking(w, c)' <=> Asking(w, c))
        BY <1>s, <2>2 DEF Alive, InHand, Unasked, Asking
      <3>2. AskedRight(w, c) /\ c.msg \in Msg
        BY <1>b, <3>1 DEF Counted
      <3> QED BY <1>s, <3>1, <3>2 DEF AskedRight
    <2> QED BY <2>1, <2>2 DEF CountInv, Counted
  \* a step of worker w, in which no other moves, and that changes the count of a message in its hand only
  <1>w. ASSUME NEW w \in Worker, Alive(w), NEW d \in InHand(w),
               \A v \in Worker \ {w} : UNCHANGED <<pc[v], claims[v], cur[v], answer[v]>>,
               \A m \in Msg \ {d.msg} : asked'[m] = asked[m] /\ outbox'[m] = outbox[m],
               asked'[d.msg] = asked[d.msg] \/ outbox'[d.msg].status \in {"gone", "sending"},
               outbox[d.msg].status = "gone" => outbox'[d.msg].status = "gone",
               outbox'[d.msg].status # "absent",
               outbox'[d.msg].status = "pending" => outbox'[d.msg].attempts = asked'[d.msg],
               \A c \in InHand(w)' : AskedRight(w, c)'
        PROVE  CountInv'
    <2>1. d.msg \in Msg
      BY <1>b, <1>w
    <2>2. NoneAsked' /\ TriesAreAsks'
      BY <1>w, <2>1 DEF NoneAsked, TriesAreAsks
    <2>3. ASSUME NEW v \in Worker \ {w}, Alive(v)', NEW c \in InHand(v)' PROVE AskedRight(v, c)'
      <3>1. Alive(v) /\ c \in InHand(v) /\ (c \in Unasked(v)' <=> c \in Unasked(v)) /\ (Asking(v, c)' <=> Asking(v, c))
        BY <1>w, <2>3 DEF Alive, InHand, Unasked, Asking
      <3>2. c.msg # d.msg /\ c.msg \in Msg /\ AskedRight(v, c)
        BY <1>b, <1>w, <3>1 DEF HandInv, HandOnce, Counted
      <3> QED BY <1>w, <3>1, <3>2 DEF AskedRight
    <2> QED BY <1>w, <2>2, <2>3 DEF CountInv, Counted
  <1>1. ASSUME NEW m \in Msg, Enqueue(m) PROVE CountInv'
    <2>1. /\ outbox[m].status = "absent" /\ outbox'[m].attempts = 0 /\ outbox'[m].status = "pending" /\ asked[m] = 0
          /\ \A n \in Msg \ {m} : outbox'[n] = outbox[n]
      BY <1>1, <1>a DEF Enqueue, Untouched, NoRow, TypeOK, Row, NoneAsked
    <2> QED BY <1>1, <1>s, <2>1 DEF Enqueue, workers, TriesAreAsks
  <1>2. ASSUME NEW m \in Msg, Requeue(m) PROVE CountInv'
    <2>1. /\ outbox[m].status \in {"failed", "cancelled"} /\ outbox'[m].status = "pending" /\ outbox'[m].attempts = 0
          /\ asked'[m] = 0 /\ UNCHANGED <<pc, claims, cur, answer>>
          /\ \A n \in Msg \ {m} : outbox'[n] = outbox[n] /\ asked'[n] = asked[n]
      BY <1>2, <1>a DEF Requeue, Requeueable, workers, TypeOK, Row
    <2>2. NoneAsked' /\ TriesAreAsks'
      BY <2>1 DEF NoneAsked, TriesAreAsks
    <2>3. ASSUME NEW w \in Worker, Alive(w)', NEW c \in InHand(w)' PROVE AskedRight(w, c)'
      <3>1. Alive(w) /\ c \in InHand(w) /\ (c \in Unasked(w)' <=> c \in Unasked(w)) /\ (Asking(w, c)' <=> Asking(w, c))
        BY <2>1, <2>3 DEF Alive, InHand, Unasked, Asking
      <3>2. c.msg # m /\ c.msg \in Msg /\ AskedRight(w, c)
        BY <1>b, <2>1, <3>1 DEF Counted
      <3> QED BY <2>1, <3>1, <3>2 DEF AskedRight
    <2> QED BY <2>2, <2>3 DEF CountInv, Counted
  <1>3. ASSUME NEW m \in Msg, Delete(m) PROVE CountInv'
    <2>1. outbox'[m].status = "gone" /\ \A n \in Msg \ {m} : outbox'[n] = outbox[n]
      BY <1>3 DEF Delete, NoRow, TypeOK
    <2> QED BY <1>3, <1>s, <2>1 DEF Delete, workers, ghosts, TriesAreAsks
  <1>4. ASSUME Reap PROVE FALSE
    <2>1. PICK m \in Msg : Lapsed(m)
      BY <1>4 DEF Reap
    <2>2. outbox[m].holder \in Worker
      BY <1>a, <2>1 DEF Lapsed, HolderKnowsTheTry, Row
    <2>3. Holds(outbox[m].holder, m)
      BY <2>1 DEF Lapsed, Holds
    <2> QED BY <2>1, <2>2, <2>3, HeldInTime DEF Running
  <1>5. ASSUME NEW w \in Worker, ClaimOutbox(w) PROVE CountInv'
    <2> DEFINE C == Claimed(Claimable)
    <2>1. \A m \in C : m \in Msg /\ outbox[m].status = "pending" /\ TryNumber(m) = asked[m] + 1
      BY NextTry DEF Claimed, Claimable, Due, TriesAreAsks
    <2>2. /\ pc[w] = "free" /\ UNCHANGED <<pc, cur, answer, asked>> /\ cur[w] = None
          /\ claims'[w] = {[msg |-> m, tries |-> TryNumber(m)] : m \in C}
          /\ \A v \in Worker \ {w} : claims'[v] = claims[v]
          /\ \A m \in C : outbox'[m].status = "sending"
          /\ \A m \in Msg \ C : outbox'[m] = outbox[m]
      BY <1>5, <2>1 DEF ClaimOutbox, InWork, TypeOK
    <2>3. NoneAsked' /\ TriesAreAsks'
      BY <2>2 DEF NoneAsked, TriesAreAsks
    <2>4. ASSUME NEW c \in InHand(w)' PROVE AskedRight(w, c)'
      <3>1. PICK m \in C : c = [msg |-> m, tries |-> TryNumber(m)]
        BY <2>2, <2>4 DEF InHand
      <3>2. asked'[c.msg] = c.tries - 1 /\ ~Asking(w, c)'
        BY <1>a, <2>1, <2>2, <3>1 DEF Asking
      <3> QED BY <3>2 DEF AskedRight
    <2>5. ASSUME NEW v \in Worker \ {w}, Alive(v)', NEW c \in InHand(v)' PROVE AskedRight(v, c)'
      <3>1. Alive(v) /\ c \in InHand(v) /\ (c \in Unasked(v)' <=> c \in Unasked(v)) /\ (Asking(v, c)' <=> Asking(v, c))
        BY <2>2, <2>5 DEF Alive, InHand, Unasked, Asking
      <3>2. c.msg \notin C /\ c.msg \in Msg /\ AskedRight(v, c)
        BY <1>b, <2>1, <3>1 DEF Counted
      <3> QED BY <2>2, <3>1, <3>2 DEF AskedRight
    <2> QED BY <2>3, <2>4, <2>5 DEF CountInv, Counted
  <1>6. ASSUME NEW w \in Worker, NEW c \in claims[w], Look(w, c) PROVE CountInv'
    <2>1. /\ pc[w] = "free" /\ Alive(w) /\ c \in InHand(w) /\ c \in Unasked(w) /\ claims[w] = Unasked(w) /\ claims[w] = InHand(w)
          /\ cur'[w] = c /\ claims'[w] = claims[w] \ {c} /\ outbox' = outbox
          /\ \A v \in Worker \ {w} : UNCHANGED <<pc[v], claims[v], cur[v], answer[v]>>
          /\ c \in Claim /\ c.msg \in Msg /\ outbox[c.msg].status \in {"gone", "sending"} /\ c.tries \in 0 .. AttemptCap
      BY <1>6, <1>a, <1>b DEF Look, Conclude, StartSend, TypeOK, Alive, InHand, Unasked, InWork
    <2>2. asked' = asked \/ (pc'[w] = "send" /\ asked' = [asked EXCEPT ![c.msg] = Smaller(@ + 1, AttemptCap)])
      BY <1>6 DEF Look, Conclude, StartSend, TypeOK
    <2>3. (pc'[w] = "send" => asked' = [asked EXCEPT ![c.msg] = Smaller(@ + 1, AttemptCap)])
          /\ (pc'[w] = "report" => answer'[w].do # "retry")
      BY <1>6 DEF Look, Conclude, StartSend, TypeOK, Without
    <2>4. \A m \in Msg \ {c.msg} : asked'[m] = asked[m]
      BY <2>2 DEF TypeOK
    <2>5. \A e \in claims[w] : AskedRight(w, e) /\ e.msg \in Msg /\ (e # c => e.msg # c.msg)
      BY <1>b, <2>1 DEF Counted, HandInv, HandOnce
    <2>6. ASSUME NEW e \in InHand(w)' PROVE AskedRight(w, e)'
      <3>1. CASE e # c
        <4>1. e \in claims[w] /\ e \in Unasked(w) /\ ~Asking(w, e)'
          BY <2>1, <2>6, <3>1 DEF InHand, Asking
        <4> QED BY <2>1, <2>4, <2>5, <3>1, <4>1 DEF AskedRight
      <3>2. CASE e = c
        <4>1. outbox[c.msg].status # "gone" => asked[c.msg] = c.tries - 1
          BY <2>1, <2>5 DEF AskedRight
        <4>2. CASE pc'[w] = "send"
          <5>1. asked'[c.msg] = Smaller(asked[c.msg] + 1, AttemptCap)
            BY <2>1, <2>3, <4>2 DEF TypeOK
          <5>2. outbox[c.msg].status # "gone" => asked'[c.msg] = c.tries
            BY <1>a, <2>1, <4>1, <5>1 DEF Smaller
          <5>3. c \notin Unasked(w)'
            BY <2>1, <4>2 DEF Unasked
          <5> QED BY <2>1, <3>2, <5>2, <5>3 DEF AskedRight
        <4>3. CASE pc'[w] # "send"
          <5>1. asked' = asked /\ ~Asking(w, c)'
            BY <2>2, <2>3, <4>3 DEF Asking
          <5> QED BY <2>1, <3>2, <4>1, <5>1 DEF AskedRight
        <4> QED BY <4>2, <4>3
      <3> QED BY <3>1, <3>2
    <2> QED BY <1>w, <2>1, <2>4, <2>6
  <1>7. ASSUME NEW w \in Worker, Waited(w) PROVE CountInv'
    <2>0. PICK c : c = cur[w]
      OBVIOUS
    <2>1. /\ pc[w] = "wait" /\ pc' = [pc EXCEPT ![w] = "send"] /\ answer' = answer
          /\ asked' = [asked EXCEPT ![c.msg] = Smaller(@ + 1, AttemptCap)]
          /\ claims' = claims /\ cur' = cur /\ outbox' = outbox
      BY <1>7, <1>a, <2>0 DEF Waited, StartSend, Stopping, NeverStops
    <2>2. Alive(w) /\ c \in InHand(w) /\ c \in Unasked(w) /\ c \notin claims[w]
      BY <1>a, <2>0, <2>1 DEF Alive, InHand, Unasked, InWork
    <2>3. c \in Claim /\ c.msg \in Msg /\ outbox[c.msg].status \in {"gone", "sending"} /\ c.tries \in 0 .. AttemptCap
      BY <1>a, <1>b, <2>2
    <2>4. (\A m \in Msg \ {c.msg} : asked'[m] = asked[m]) /\ asked'[c.msg] = Smaller(asked[c.msg] + 1, AttemptCap)
      BY <2>1, <2>3 DEF TypeOK
    <2>5. \A e \in InHand(w) : AskedRight(w, e) /\ e.msg \in Msg /\ (e # c => e.msg # c.msg)
      BY <1>b, <2>2 DEF Counted, HandInv, HandOnce
    <2>6. ASSUME NEW e \in InHand(w)' PROVE AskedRight(w, e)'
      <3>0. e \in InHand(w)
        BY <2>1, <2>6 DEF InHand
      <3>1. CASE e # c
        <4>1. e \in Unasked(w) /\ ~Asking(w, e)'
          BY <2>0, <2>1, <3>0, <3>1 DEF InHand, Unasked, Asking
        <4> QED BY <2>1, <2>4, <2>5, <3>0, <3>1, <4>1 DEF AskedRight
      <3>2. CASE e = c
        <4>1. outbox[c.msg].status # "gone" => asked[c.msg] = c.tries - 1
          BY <2>2, <2>5 DEF AskedRight
        <4>2. outbox[c.msg].status # "gone" => asked'[c.msg] = c.tries
          BY <1>a, <2>3, <2>4, <4>1 DEF Smaller
        <4>3. c \notin Unasked(w)'
          BY <2>1, <2>2 DEF Unasked, TypeOK
        <4> QED BY <2>1, <3>2, <4>2, <4>3 DEF AskedRight
      <3> QED BY <3>1, <3>2
    <2>7. \A v \in Worker \ {w} : UNCHANGED <<pc[v], claims[v], cur[v], answer[v]>>
      BY <2>1
    <2> QED BY <1>w, <2>1, <2>2, <2>3, <2>4, <2>6, <2>7
  <1>8. ASSUME NEW w \in Worker, NEW r \in Answers, Answered(w, r) PROVE CountInv'
    <2>0. PICK c : c = cur[w]
      OBVIOUS
    <2>1. /\ pc[w] = "send" /\ pc' = [pc EXCEPT ![w] = "report"] /\ answer'[w].do # "defer"
          /\ claims' = claims /\ cur' = cur /\ outbox' = outbox /\ asked' = asked
          /\ \A v \in Worker \ {w} : answer'[v] = answer[v]
      BY <1>8 DEF Answered, Verdict, TypeOK
    <2>2. Alive(w) /\ c \in InHand(w)
      BY <1>a, <2>0, <2>1 DEF Alive, InHand, InWork
    <2>3. c.msg \in Msg /\ outbox[c.msg].status \in {"gone", "sending"}
      BY <1>b, <2>2
    <2>4. ASSUME NEW e \in InHand(w)' PROVE AskedRight(w, e)'
      <3>1. e \in InHand(w) /\ (e \in Unasked(w)' => e \in Unasked(w)) /\ (Asking(w, e)' => Asking(w, e))
        BY <2>1, <2>4 DEF InHand, Unasked, Asking, TypeOK
      <3> QED BY <2>1, <2>2, <3>1 DEF AskedRight, Counted
    <2>5. \A v \in Worker \ {w} : UNCHANGED <<pc[v], claims[v], cur[v], answer[v]>>
      BY <2>1
    <2> QED BY <1>w, <2>1, <2>2, <2>3, <2>4, <2>5
  <1>9. ASSUME NEW w \in Worker, Report(w) PROVE CountInv'
    <2>0. PICK c : c = cur[w]
      OBVIOUS
    <2> DEFINE row == Finished(outbox[c.msg], answer[w])
    <2>1. /\ pc[w] = "report" /\ Alive(w) /\ c \in InHand(w) /\ c \notin claims[w]
          /\ pc'[w] = "free" /\ cur'[w] = None /\ claims' = claims /\ asked' = asked
          /\ \A v \in Worker \ {w} : UNCHANGED <<pc[v], claims[v], cur[v], answer[v]>>
          /\ answer[w] \in Answer
      BY <1>9, <1>a, <2>0 DEF Report, ghosts, Alive, InHand, InWork, TypeOK
    <2>2. c \in Claim /\ c.msg \in Msg /\ outbox[c.msg].status \in {"gone", "sending"} /\ c.tries \in 0 .. AttemptCap
      BY <1>a, <1>b, <2>1
    <2>3. \/ outbox[c.msg].status = "gone" /\ outbox' = outbox
          \/ Holds(w, c.msg) /\ outbox' = [outbox EXCEPT ![c.msg] = row]
      <3>1. outbox[c.msg].status = "gone" \/ Holds(w, c.msg)
        BY <2>1 DEF HandInv, InTime
      <3> QED BY <1>9, <2>0, <3>1 DEF Report, Holds, Without
    <2>4. \A e \in InHand(w) : AskedRight(w, e) /\ e.msg \in Msg
      BY <1>b, <2>1 DEF Counted
    <2>5. CASE outbox[c.msg].status = "gone" /\ outbox' = outbox
      <3>1. ASSUME NEW e \in InHand(w)' PROVE AskedRight(w, e)'
        <4>1. e \in InHand(w) /\ e \in Unasked(w) /\ ~Asking(w, e)'
          BY <2>1, <3>1 DEF InHand, Unasked, Asking
        <4> QED BY <2>1, <2>4, <2>5, <4>1 DEF AskedRight
      <3> QED BY <1>w, <2>1, <2>2, <2>5, <3>1
    <2>6. CASE Holds(w, c.msg) /\ outbox' = [outbox EXCEPT ![c.msg] = row]
      <3>1. outbox'[c.msg] = row /\ \A m \in Msg \ {c.msg} : outbox'[m] = outbox[m]
        BY <2>2, <2>6 DEF TypeOK
      <3>2. outbox[c.msg].attempts = c.tries
        BY <2>1, <2>6 DEF HolderKnowsTheTry
      <3>3. row.status = "pending" => row.attempts = asked[c.msg]
        <4>1. AskedRight(w, c) /\ outbox[c.msg].status # "gone"
          BY <2>1, <2>4, <2>6 DEF Holds
        <4>2. CASE answer[w].do = "retry"
          <5>1. asked[c.msg] = c.tries
            BY <2>0, <2>1, <4>1, <4>2 DEF AskedRight, Asking
          <5> QED BY <3>2, <4>2, <5>1 DEF Finished, Unlocked
        <4>3. CASE answer[w].do = "defer"
          <5>1. asked[c.msg] = c.tries - 1
            BY <2>0, <2>1, <4>1, <4>3 DEF AskedRight, Unasked
          <5>2. row.attempts = Larger(outbox[c.msg].attempts - 1, 0)
            BY <4>3 DEF Finished, Unlocked
          <5> QED BY <1>a, <2>2, <3>2, <5>1, <5>2 DEF Larger
        <4>4. CASE answer[w].do \notin {"retry", "defer"}
          BY <2>1, <4>4 DEF Finished, Unlocked, Answer
        <4> QED BY <4>2, <4>3, <4>4
      <3>4. row.status \notin {"absent", "sending"}
        BY <2>1 DEF Finished, Unlocked, Answer
      <3>5. ASSUME NEW e \in InHand(w)' PROVE AskedRight(w, e)'
        <4>1. e \in claims[w] /\ e \in InHand(w) /\ e \in Unasked(w) /\ ~Asking(w, e)'
          BY <2>1, <3>5 DEF InHand, Unasked, Asking
        <4>2. e.msg # c.msg /\ e.msg \in Msg
          BY <2>1, <2>4, <4>1 DEF HandInv, HandOnce
        <4> QED BY <2>1, <2>4, <3>1, <4>1, <4>2 DEF AskedRight
      <3> QED BY <1>w, <2>1, <2>6, <3>1, <3>3, <3>4, <3>5 DEF Holds
    <2> QED BY <2>3, <2>5, <2>6
  <1>10. ASSUME NEW w \in Worker, Quit(w) \/ Orphan(w) PROVE FALSE
    BY <1>10, <1>a DEF Quit, Stopping, NeverStops, Orphan, Running
  <1>11. ASSUME NEW p \in Pool, Start(p) PROVE CountInv'
    <2>1. /\ pool[p] = "new" /\ UNCHANGED <<outbox, claims, cur, answer, asked>>
          /\ \A v \in Worker : pc'[v] = IF PoolOf[v] = p THEN "free" ELSE pc[v]
      BY <1>11 DEF Start, ghosts
    <2>2. NoneAsked' /\ TriesAreAsks'
      BY <2>1 DEF NoneAsked, TriesAreAsks
    <2>3. ASSUME NEW w \in Worker, Alive(w)', NEW c \in InHand(w)' PROVE AskedRight(w, c)'
      <3>1. PoolOf[w] # p
        BY <2>1, <2>3 DEF InWork, InHand
      <3>2. Alive(w) /\ c \in InHand(w) /\ (c \in Unasked(w)' <=> c \in Unasked(w)) /\ (Asking(w, c)' <=> Asking(w, c))
        BY <2>1, <2>3, <3>1 DEF Alive, InHand, Unasked, Asking
      <3> QED BY <2>1, <3>2 DEF AskedRight, Counted
    <2> QED BY <2>2, <2>3 DEF CountInv, Counted
  <1>12. ASSUME NEW p \in Pool, Stop(p) \/ StopEnd(p) \/ Crash(p) PROVE FALSE
    BY <1>12 DEF Stop, StopEnd, Crash, NeverStops, Without
  <1>13. ASSUME UNCHANGED vars \/ \E a \in Addr : Switch(a) PROVE CountInv'
    BY <1>13, <1>s DEF vars, Switch, workers, ghosts, TriesAreAsks
  <1>14. ASSUME Tick PROVE CountInv'
    <2>1. \A m \in Msg : outbox'[m].status = outbox[m].status /\ outbox'[m].attempts = outbox[m].attempts
      BY <1>14, <1>a DEF Tick, Row
    <2>2. UNCHANGED <<pc, claims, cur, answer, asked>>
      BY <1>14 DEF Tick, ghosts
    <2> QED BY <1>s, <2>1, <2>2 DEF TriesAreAsks
  <1> QED BY <1>1, <1>2, <1>3, <1>4, <1>5, <1>6, <1>7, <1>8, <1>9, <1>10, <1>11, <1>12, <1>13, <1>14 DEF Next, WorkerStep

\* Where a batch is sent within its lease, no process ends and the database answers, a message that waits has used up exactly the
\* tries for which the channel was asked: a message that was put off for the rate limit keeps its try
THEOREM DeferredKeepsTheTry ==
    ASSUME Timely, Without({"read", "stop", "crash", "report"})
    PROVE  Spec => []TriesAreAsks
  <1>1. Init => HeldInHand /\ Running /\ CountInv
    BY DEF Init, HeldInHand, Running, Holds, NoRow, CountInv, Counted, Alive, NoneAsked, TriesAreAsks
  <1>2. IInv /\ HandInv /\ NeverStops /\ HeldInHand /\ Running /\ InNumber /\ RetryInNumber /\ CountInv /\ [Next]_vars
          => NeverStops' /\ HeldInHand' /\ Running' /\ InNumber' /\ RetryInNumber' /\ CountInv'
    <2>1. Without({"stop"}) /\ Without({"stop", "report"}) /\ Without({"stop", "crash"}) /\ Without({"read", "stop"})
      BY DEF Without
    <2> QED BY <2>1, NeverStopsStep, HeldStep, RunningStep, NumberStep, CountStep DEF IInv
  <1>3. CountInv => TriesAreAsks
    BY DEF CountInv
  <1> QED BY CountInit, <1>1, <1>2, <1>3, Invariance, InHandInTime, PTL DEF Spec
=============================================================================
