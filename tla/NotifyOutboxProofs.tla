------------------------- MODULE NotifyOutboxProofs -------------------------
(***************************************************************************)
(* Theorems about NotifyOutbox, for every set of messages, recipients,     *)
(* workers and processes, every timing and every choice of faults.         *)
(***************************************************************************)
EXTENDS NotifyOutbox, TLAPS

-----------------------------------------------------------------------------
(* The operators *)

\* the bounds of the constants, one by one
LEMMA Caps == /\ MaxAttempts \in Nat /\ MaxAttempts > 1
              /\ AttemptCap \in Nat /\ AttemptCap > 0 /\ 0 \in Tries
              /\ Lease \in Nat /\ SendTicks \in Nat /\ StopTicks \in Nat
              /\ KindGap \in Nat /\ AddrGap \in Nat /\ RetryAfter \in Nat
  BY TimeAssumption DEF AttemptCap, Tries

\* the clamps of the code keep their arguments natural
LEMMA Clamps == /\ \A a \in Int : Larger(a, 0) \in Nat
                /\ \A a, b \in Nat : Larger(a, b) \in Nat /\ Smaller(a, b) \in Nat
                /\ \A a \in Int : Larger(a, -1) \in Int
                /\ \A a \in Tries : Smaller(a + 1, AttemptCap) \in Tries /\ Larger(a - 1, 0) \in Tries
  BY Caps DEF Larger, Smaller, Tries

\* DelayAfter of any try is a delay
LEMMA DelayAfterType == ASSUME NEW n \in Nat, NEW d \in Nat PROVE DelayAfter(n, d) \in Nat
  <1>1. Smaller(Larger(n, 1), MaxAttempts - 1) \in 1 .. MaxAttempts - 1
    BY Caps DEF Smaller, Larger
  <1>2. RetryDelay[Smaller(Larger(n, 1), MaxAttempts - 1)] \in Nat
    BY <1>1, TimeAssumption
  <1> QED BY <1>2, Clamps DEF DelayAfter

\* a report with a delay is a report
LEMMA ReportType == ASSUME NEW d \in Nat
                    PROVE  /\ [do |-> "sent", delay |-> d] \in Answer /\ [do |-> "failed", delay |-> d] \in Answer
                           /\ [do |-> "cancelled", delay |-> d] \in Answer /\ [do |-> "retry", delay |-> d] \in Answer
                           /\ [do |-> "defer", delay |-> d] \in Answer
  BY DEF Answer

\* what a worker reports after an answer is one of the five reports, and it says "sent" only after the answer "ok"
LEMMA VerdictType == ASSUME NEW r \in Answers, NEW n \in Nat
                     PROVE  Verdict(r, n) \in Answer /\ (Verdict(r, n).do = "sent" => r = "ok")
  <1>1. DelayAfter(n, 0) \in Nat /\ DelayAfter(n, RetryAfter) \in Nat
    BY DelayAfterType, Caps
  <1> QED BY <1>1, ReportType DEF Verdict

\* a row that is unlocked, finished or touched by the clock is a row
LEMMA UnlockedType == ASSUME NEW row \in Row, NEW s \in Statuses PROVE Unlocked(row, s) \in Row
  BY DEF Unlocked, Row

LEMMA FinishedType == ASSUME NEW row \in Row, NEW a \in Answer PROVE Finished(row, a) \in Row
  <1>1. Unlocked(row, "pending") \in Row
    BY UnlockedType DEF Statuses
  <1>2. CASE a.do = "retry"
    BY <1>1, <1>2 DEF Finished, Row, Answer
  <1>3. CASE a.do = "defer"
    <2>1. Larger(Unlocked(row, "pending").attempts - 1, 0) \in Tries
      BY <1>1, Clamps DEF Row
    <2> QED BY <1>1, <1>3, <2>1 DEF Finished, Row, Answer
  <1>4. CASE a.do \notin {"retry", "defer"}
    <2>1. a.do \in Statuses
      BY <1>4 DEF Answer, Statuses
    <2> QED BY <1>4, <2>1, UnlockedType DEF Finished
  <1> QED BY <1>2, <1>3, <1>4

LEMMA ReleasedType == ASSUME TypeOK, NEW W PROVE Released(W) \in [Msg -> Row]
  <1>1. \A m \in Msg : outbox[m] \in Row /\ Unlocked(outbox[m], "pending") \in Row
    BY UnlockedType DEF TypeOK, Statuses
  <1> QED BY <1>1 DEF Released

-----------------------------------------------------------------------------
(* Types, and where a worker has a message in work *)

LEMMA TypeInit == Init => TypeOK /\ InWork
  <1> SUFFICES ASSUME Init PROVE TypeOK /\ InWork
    OBVIOUS
  <1>1. NoRow \in Row
    BY Caps DEF NoRow, Row, Statuses
  <1>2. NoAnswer \in Answer
    BY ReportType DEF NoAnswer
  <1>3. TypeOK
    BY <1>1, <1>2, Caps DEF Init, TypeOK
  <1> QED BY <1>3 DEF Init, InWork

\* TypeOK and InWork together are kept by every step
LEMMA TypeStep == TypeOK /\ InWork /\ [Next]_vars => TypeOK' /\ InWork'
  <1> SUFFICES ASSUME TypeOK, InWork, [Next]_vars PROVE TypeOK' /\ InWork'
    OBVIOUS
  <1>a. \A m \in Msg : outbox[m] \in Row
    BY DEF TypeOK
  <1>1. ASSUME NEW m \in Msg, Enqueue(m) PROVE TypeOK' /\ InWork'
    <2>1. [outbox[m] EXCEPT !.status = "pending"] \in Row
      BY <1>a DEF Row, Statuses
    <2>2. outbox' \in [Msg -> Row]
      BY <1>1, <2>1 DEF Enqueue, TypeOK
    <2>3. before' \in [Msg -> SUBSET Msg]
      BY <1>1 DEF Enqueue, TypeOK
    <2> QED BY <1>1, <2>2, <2>3 DEF Enqueue, TypeOK, InWork, limiter, processes, workers
  <1>2. ASSUME NEW m \in Msg, Requeue(m) PROVE TypeOK' /\ InWork'
    <2>1. [outbox[m] EXCEPT !.status = "pending", !.attempts = 0, !.wait = 0] \in Row
      BY <1>a, Caps DEF Row, Statuses
    <2>2. outbox' \in [Msg -> Row]
      BY <1>2, <2>1 DEF Requeue, TypeOK
    <2>3. asked' \in [Msg -> Tries] /\ requeues' \in [Msg -> Nat]
      BY <1>2, Caps DEF Requeue, TypeOK
    <2> QED BY <1>2, <2>2, <2>3 DEF Requeue, TypeOK, InWork, limiter, processes, workers
  <1>3. ASSUME NEW m \in Msg, Delete(m) PROVE TypeOK' /\ InWork'
    <2>1. [NoRow EXCEPT !.status = "gone"] \in Row
      BY Caps DEF Row, NoRow, Statuses
    <2>2. outbox' \in [Msg -> Row]
      BY <1>3, <2>1 DEF Delete, TypeOK
    <2> QED BY <1>3, <2>2 DEF Delete, TypeOK, InWork, limiter, processes, workers, ghosts
  <1>4. ASSUME Reap PROVE TypeOK' /\ InWork'
    <2>1. \A m \in Msg : AfterLapse(outbox[m]) \in Statuses
      BY DEF AfterLapse, Statuses
    <2>2. outbox' \in [Msg -> Row]
      BY <1>a, <1>4, <2>1, UnlockedType DEF Reap
    <2> QED BY <1>4, <2>2 DEF Reap, TypeOK, InWork, limiter, processes, workers, ghosts
  <1>5. ASSUME NEW w \in Worker, ClaimOutbox(w) PROVE TypeOK' /\ InWork'
    <2>1. \A m \in Msg : TryNumber(m) \in Tries
      BY <1>a, Clamps DEF TryNumber, Row
    <2>2. Claimed(Claimable) \subseteq Msg
      BY DEF Claimed, Claimable
    <2>3. \A m \in Msg : [status |-> "sending", attempts |-> TryNumber(m), wait |-> 0, holder |-> w, left |-> Lease] \in Row
      BY <2>1, Caps DEF Row, Statuses
    <2>4. outbox' \in [Msg -> Row]
      BY <1>a, <1>5, <2>3 DEF ClaimOutbox
    <2>5. {[msg |-> m, tries |-> TryNumber(m)] : m \in Claimed(Claimable)} \subseteq Claim
      BY <2>1, <2>2 DEF Claim
    <2>6. claims' \in [Worker -> SUBSET Claim]
      BY <1>5, <2>5 DEF ClaimOutbox, TypeOK
    <2>7. tried' \in [Msg -> BOOLEAN]
      BY <1>5 DEF ClaimOutbox, TypeOK
    <2>8. TypeOK'
      BY <1>5, <2>4, <2>6, <2>7 DEF ClaimOutbox, TypeOK, limiter, processes
    <2>9. InWork'
      BY <1>5 DEF ClaimOutbox, InWork, TypeOK, processes
    <2> QED BY <2>8, <2>9
  <1>6. ASSUME NEW w \in Worker, NEW c \in claims[w], Look(w, c) PROVE TypeOK' /\ InWork'
    <2>1. c \in Claim /\ c # None /\ c.msg \in Msg /\ c.tries \in Nat /\ To[c.msg] \in Addr
      BY Caps, PlaceAssumption, NoneAssumption DEF TypeOK, Claim, Tries
    <2>2. DelayAfter(c.tries, 0) \in Nat
      BY <2>1, DelayAfterType
    <2>3. ReserveWait(To[c.msg]) \in Nat
      BY <2>1, Clamps DEF ReserveWait, TypeOK
    <2>4. claims' \in [Worker -> SUBSET Claim] /\ cur' \in [Worker -> Claim \cup {None}]
      BY <1>6, <2>1 DEF Look, TypeOK
    <2>5. kindFree' \in Nat /\ addrFree' \in [Addr -> Nat]
      BY <1>6, <2>3, Caps DEF Look, Conclude, Reserve, TypeOK, limiter
    <2>6. answer' \in [Worker -> Answer]
      <3>1. \/ answer' = answer
            \/ \E o \in {"retry", "cancelled", "failed", "defer"}, d \in Nat :
                 answer' = [answer EXCEPT ![w] = [do |-> o, delay |-> d]]
        BY <1>6, <2>2, <2>3 DEF Look, Conclude
      <3> QED BY <3>1 DEF TypeOK, Answer
    <2>7. clock' \in [Worker -> Nat]
      BY <1>6, <2>3 DEF Look, Conclude, StartSend, TypeOK
    <2>8. asked' \in [Msg -> Tries]
      BY <1>6, Caps DEF Look, Conclude, StartSend, TypeOK, Smaller, Tries
    <2>9. /\ pc' = [pc EXCEPT ![w] = pc'[w]] /\ pc'[w] \in {"report", "wait", "send"} /\ pc[w] = "free"
          /\ pc' \in [Worker -> {"off", "free", "wait", "send", "report", "orphan"}]
      BY <1>6 DEF Look, Conclude, StartSend, TypeOK
    <2>10. TypeOK'
      BY <1>6, <2>4, <2>5, <2>6, <2>7, <2>8, <2>9 DEF Look, TypeOK, processes
    <2>11. InWork'
      BY <1>6, <2>1, <2>9 DEF Look, TypeOK, InWork, processes
    <2> QED BY <2>10, <2>11
  <1>7. ASSUME NEW w \in Worker, Waited(w) PROVE TypeOK' /\ InWork'
    <2>1. asked' \in [Msg -> Tries]
      BY <1>7, Caps DEF Waited, StartSend, TypeOK, Smaller, Tries
    <2>2. answer' \in [Worker -> Answer]
      BY <1>7 DEF Waited, TypeOK, Answer
    <2> QED BY <1>7, <2>1, <2>2 DEF Waited, StartSend, TypeOK, InWork, limiter, processes
  <1>8. ASSUME NEW w \in Worker, NEW r \in Answers, Answered(w, r) PROVE TypeOK' /\ InWork'
    <2>1. cur[w] \in Claim /\ cur[w].tries \in Nat
      BY <1>8, Caps DEF Answered, TypeOK, InWork, Claim, Tries
    <2>2. Verdict(r, cur[w].tries) \in Answer
      BY <2>1, VerdictType
    <2>3. delivered' \in [Msg -> 0 .. 2]
      BY <1>8 DEF Answered, Accepts, Smaller, TypeOK
    <2>4. open' \in [Addr -> BOOLEAN]
      BY <1>8 DEF Answered, TypeOK
    <2>5. pc[w] = "send" /\ pc' = [pc EXCEPT ![w] = "report"] /\ answer' = [answer EXCEPT ![w] = Verdict(r, cur[w].tries)]
      BY <1>8 DEF Answered
    <2>6. TypeOK'
      BY <1>8, <2>2, <2>3, <2>4, <2>5 DEF Answered, TypeOK, limiter, processes
    <2>7. InWork'
      BY <1>8, <2>5 DEF Answered, TypeOK, InWork, processes
    <2> QED BY <2>6, <2>7
  <1>9. ASSUME NEW w \in Worker, Report(w) PROVE TypeOK' /\ InWork'
    <2>1. \A m \in Msg : Finished(outbox[m], answer[w]) \in Row
      BY <1>a, FinishedType DEF TypeOK
    <2>2. outbox' \in [Msg -> Row]
      BY <1>9, <2>1 DEF Report, TypeOK
    <2>3. NoAnswer \in Answer
      BY ReportType DEF NoAnswer
    <2> QED BY <1>9, <2>2, <2>3 DEF Report, TypeOK, InWork, limiter, processes, ghosts
  <1>10. ASSUME NEW w \in Worker, Quit(w) PROVE TypeOK' /\ InWork'
    <2>1. outbox' \in [Msg -> Row]
      BY <1>10, ReleasedType DEF Quit, TypeOK
    <2> QED BY <1>10, <2>1 DEF Quit, TypeOK, InWork, limiter, processes, ghosts
  <1>11. ASSUME NEW w \in Worker, Orphan(w) PROVE TypeOK' /\ InWork'
    <2>1. delivered' \in [Msg -> 0 .. 2]
      BY <1>11 DEF Orphan, Accepts, Smaller, TypeOK
    <2> QED BY <1>11, <2>1 DEF Orphan, TypeOK, InWork, limiter, processes
  <1>12. ASSUME NEW p \in Pool, Start(p) PROVE TypeOK' /\ InWork'
    <2>1. pc' \in [Worker -> {"off", "free", "wait", "send", "report", "orphan"}]
      BY <1>12 DEF Start, TypeOK
    <2>2. \A w \in Worker : PoolOf[w] = p => pc[w] = "off"
      BY <1>12 DEF Start, InWork
    <2> QED BY <1>12, <2>1, <2>2 DEF Start, TypeOK, InWork, ghosts
  <1>13. ASSUME NEW p \in Pool, Stop(p) PROVE TypeOK' /\ InWork'
    BY <1>13, Caps DEF Stop, TypeOK, InWork, limiter, workers, ghosts
  <1>14. ASSUME NEW p \in Pool, Ends(p), outbox' \in [Msg -> Row] PROVE TypeOK' /\ InWork'
    <2>1. NoAnswer \in Answer
      BY ReportType DEF NoAnswer
    <2>2. TypeOK'
      BY <1>14, <2>1 DEF Ends, TypeOK, limiter, ghosts
    <2>3. InWork'
      BY <1>14 DEF Ends, InWork, TypeOK
    <2> QED BY <2>2, <2>3
  <1>15. ASSUME NEW p \in Pool, StopEnd(p) PROVE TypeOK' /\ InWork'
    BY <1>14, <1>15, ReleasedType DEF StopEnd
  <1>16. ASSUME NEW p \in Pool, Crash(p) PROVE TypeOK' /\ InWork'
    BY <1>14, <1>16 DEF Crash, TypeOK
  <1>17. ASSUME NEW a \in Addr, Switch(a) PROVE TypeOK' /\ InWork'
    BY <1>17 DEF Switch, TypeOK, InWork, limiter, processes, workers, ghosts
  <1>18. ASSUME Tick PROVE TypeOK' /\ InWork'
    <2>1. \A m \in Msg : outbox'[m] \in Row
      <3> TAKE m \in Msg
      <3>1. Larger(outbox[m].wait - 1, 0) \in Nat /\ Larger(outbox[m].left - 1, -1) \in Int
        BY <1>a DEF Row, Larger
      <3> QED BY <1>a, <1>18, <3>1 DEF Tick, Row
    <2>2. outbox' \in [Msg -> Row]
      BY <1>18, <2>1 DEF Tick
    <2>3. kindFree' \in Nat /\ addrFree' \in [Addr -> Nat] /\ stopLeft' \in [Pool -> Nat]
      <3>1. Larger(kindFree - 1, 0) \in Nat
        BY DEF TypeOK, Larger
      <3>2. \A a \in Addr : Larger(addrFree[a] - 1, 0) \in Nat
        BY DEF TypeOK, Larger
      <3>3. \A p \in Pool : Larger(stopLeft[p] - 1, 0) \in Nat
        BY DEF TypeOK, Larger
      <3> QED BY <1>18, <3>1, <3>2, <3>3 DEF Tick
    <2>4. \A w \in Worker : clock[w] \in Nat /\ Smaller(clock[w] + 1, SendTicks) \in Nat /\ Larger(clock[w] - 1, 0) \in Nat
      BY Caps DEF TypeOK, Larger, Smaller
    <2>5. clock' \in [Worker -> Nat]
      BY <1>18, <2>4 DEF Tick
    <2> QED BY <1>18, <2>2, <2>3, <2>5 DEF Tick, TypeOK, InWork, ghosts
  <1>19. ASSUME UNCHANGED vars PROVE TypeOK' /\ InWork'
    BY <1>19 DEF vars, limiter, processes, workers, ghosts, TypeOK, InWork
  <1> QED BY <1>1, <1>2, <1>3, <1>4, <1>5, <1>6, <1>7, <1>8, <1>9, <1>10, <1>11, <1>12, <1>13, <1>15, <1>16,
             <1>17, <1>18, <1>19 DEF Next, WorkerStep

-----------------------------------------------------------------------------
(* The holder of a message knows the number of its try *)

\* every step keeps it: a claim gives the holder the number it writes, and whatever changes the number takes the holder away
LEMMA HolderStep == TypeOK /\ InWork /\ HolderKnowsTheTry /\ [Next]_vars => HolderKnowsTheTry'
  <1> SUFFICES ASSUME TypeOK, InWork, HolderKnowsTheTry, [Next]_vars PROVE HolderKnowsTheTry'
    OBVIOUS
  <1>a. \A m \in Msg : outbox[m] \in Row
    BY DEF TypeOK
  <1>b. \A w \in Worker : \A c \in InHand(w) : c \in Claim /\ c.msg \in Msg
    BY DEF TypeOK, InHand, Claim
  <1>c. None \notin Worker
    BY PlaceAssumption
  \* a step that unlocks some rows and leaves no worker with a message it did not have
  <1>d. ASSUME \A m \in Msg : \/ outbox'[m] = outbox[m]
                              \/ outbox'[m].status # "sending" /\ outbox'[m].holder = None,
               \A w \in Worker : Alive(w)' => Alive(w) \/ InHand(w)' = {},
               \A w \in Worker : Alive(w) => InHand(w)' \subseteq InHand(w)
        PROVE  HolderKnowsTheTry'
    BY <1>b, <1>c, <1>d DEF HolderKnowsTheTry, Holds
  <1>1. ASSUME NEW m \in Msg, Enqueue(m) PROVE HolderKnowsTheTry'
    <2>1. outbox[m].holder = None
      BY <1>1, <1>a DEF Enqueue, HolderKnowsTheTry
    <2>2. outbox'[m].status = "pending" /\ outbox'[m].holder = None /\ \A n \in Msg \ {m} : outbox'[n] = outbox[n]
      BY <1>1, <1>a, <2>1 DEF Enqueue, TypeOK, Row
    <2> QED BY <1>1, <1>d, <2>2 DEF Enqueue, workers, InHand, Alive
  <1>2. ASSUME NEW m \in Msg, Requeue(m) PROVE HolderKnowsTheTry'
    <2>1. outbox[m].holder = None
      BY <1>2, <1>a DEF Requeue, Requeueable, HolderKnowsTheTry
    <2>2. outbox'[m].status = "pending" /\ outbox'[m].holder = None /\ \A n \in Msg \ {m} : outbox'[n] = outbox[n]
      BY <1>2, <1>a, <2>1 DEF Requeue, TypeOK, Row
    <2> QED BY <1>2, <1>d, <2>2 DEF Requeue, workers, InHand, Alive
  <1>3. ASSUME NEW m \in Msg, Delete(m) PROVE HolderKnowsTheTry'
    <2>1. outbox'[m].status = "gone" /\ outbox'[m].holder = None /\ \A n \in Msg \ {m} : outbox'[n] = outbox[n]
      BY <1>3 DEF Delete, TypeOK, NoRow
    <2> QED BY <1>3, <1>d, <2>1 DEF Delete, workers, InHand, Alive
  <1>4. ASSUME Reap PROVE HolderKnowsTheTry'
    <2>1. \A m \in Msg : outbox'[m] = outbox[m] \/ (outbox'[m].status # "sending" /\ outbox'[m].holder = None)
      BY <1>4 DEF Reap, Unlocked, AfterLapse
    <2> QED BY <1>4, <1>d, <2>1 DEF Reap, workers, InHand, Alive
  <1>e. ASSUME NEW W
        PROVE  \A m \in Msg : Released(W)[m] = outbox[m] \/ (Released(W)[m].status # "sending" /\ Released(W)[m].holder = None)
    <2> TAKE m \in Msg
    <2>1. Released(W)[m] = Unlocked(outbox[m], "pending") \/ Released(W)[m] = outbox[m]
      BY DEF Released
    <2>2. Unlocked(outbox[m], "pending").status = "pending" /\ Unlocked(outbox[m], "pending").holder = None
      BY DEF Unlocked
    <2> QED BY <2>1, <2>2
  <1>5. ASSUME NEW w \in Worker, ClaimOutbox(w) PROVE HolderKnowsTheTry'
    <2> DEFINE C == Claimed(Claimable)
    <2>1. \A m \in C : m \in Msg /\ outbox[m].status = "pending"
      BY DEF Claimed, Claimable, Due
    <2>2. \A m \in C : outbox'[m].status = "sending" /\ outbox'[m].holder = w /\ outbox'[m].attempts = TryNumber(m)
      BY <1>5, <2>1 DEF ClaimOutbox
    <2>3. \A m \in Msg \ C : outbox'[m] = outbox[m]
      BY <1>5 DEF ClaimOutbox
    <2>4. \A m \in Msg : outbox'[m].status = "sending" <=> outbox'[m].holder # None
      BY <1>c, <2>2, <2>3 DEF HolderKnowsTheTry
    <2>5. ASSUME NEW v \in Worker, Alive(v)', NEW c \in InHand(v)', Holds(v, c.msg)'
          PROVE  outbox'[c.msg].attempts = c.tries
      <3>1. CASE v = w
        <4>1. cur[w] = None /\ cur' = cur
          BY <1>5 DEF ClaimOutbox, InWork
        <4>2. c \in {[msg |-> m, tries |-> TryNumber(m)] : m \in C}
          BY <1>5, <2>5, <3>1, <4>1 DEF ClaimOutbox, InHand, TypeOK
        <4> QED BY <2>2, <4>2
      <3>2. CASE v # w
        <4>1. c \in InHand(v) /\ Alive(v)
          BY <1>5, <2>5, <3>2 DEF ClaimOutbox, InHand, Alive, TypeOK
        <4>2. c.msg \in Msg \ C
          BY <1>b, <2>2, <2>5, <3>2, <4>1 DEF Holds
        <4> QED BY <2>3, <2>5, <4>1, <4>2 DEF HolderKnowsTheTry, Holds
      <3> QED BY <3>1, <3>2
    <2> QED BY <2>4, <2>5 DEF HolderKnowsTheTry
  <1>6. ASSUME NEW w \in Worker, NEW c \in claims[w], Look(w, c) PROVE HolderKnowsTheTry'
    <2>1. outbox' = outbox /\ cur[w] = None /\ pc[w] = "free"
          /\ claims' = [claims EXCEPT ![w] = @ \ {c}] /\ cur' = [cur EXCEPT ![w] = c]
          /\ \A v \in Worker \ {w} : pc'[v] = pc[v]
      BY <1>6 DEF Look, Conclude, StartSend, InWork, TypeOK
    <2>2. \A v \in Worker : InHand(v)' \subseteq InHand(v)
      BY <2>1 DEF InHand, TypeOK
    <2>3. \A v \in Worker : Alive(v)' => Alive(v)
      BY <2>1 DEF Alive
    <2> QED BY <1>d, <2>1, <2>2, <2>3
  <1>7. ASSUME NEW w \in Worker, Waited(w) PROVE HolderKnowsTheTry'
    <2>1. pc[w] = "wait" /\ \A v \in Worker \ {w} : pc'[v] = pc[v]
      BY <1>7 DEF Waited, StartSend, TypeOK
    <2> QED BY <1>7, <1>d, <2>1 DEF Waited, InHand, Alive
  <1>8. ASSUME NEW w \in Worker, NEW r \in Answers, Answered(w, r) PROVE HolderKnowsTheTry'
    <2>1. pc[w] = "send" /\ \A v \in Worker \ {w} : pc'[v] = pc[v]
      BY <1>8 DEF Answered, TypeOK
    <2> QED BY <1>8, <1>d, <2>1 DEF Answered, InHand, Alive
  <1>9. ASSUME NEW w \in Worker, Report(w) PROVE HolderKnowsTheTry'
    <2>1. \A m \in Msg : Finished(outbox[m], answer[w]).status # "sending" /\ Finished(outbox[m], answer[w]).holder = None
      <3>1. answer[w].do \in {"sent", "failed", "cancelled", "retry", "defer"}
        BY DEF TypeOK, Answer
      <3> QED BY <3>1 DEF Finished, Unlocked
    <2>2. \A m \in Msg : outbox'[m] = outbox[m] \/ (outbox'[m].status # "sending" /\ outbox'[m].holder = None)
      BY <1>9, <2>1 DEF Report, TypeOK
    <2>3. \A v \in Worker : InHand(v)' \subseteq InHand(v) /\ (Alive(v)' => Alive(v))
      BY <1>9 DEF Report, InHand, Alive, TypeOK
    <2> QED BY <1>d, <2>2, <2>3
  <1>10. ASSUME NEW w \in Worker, Quit(w) PROVE HolderKnowsTheTry'
    <2>1. \A m \in Msg : outbox'[m] = outbox[m] \/ (outbox'[m].status # "sending" /\ outbox'[m].holder = None)
      BY <1>10, <1>e DEF Quit
    <2>2. \A v \in Worker : InHand(v)' \subseteq InHand(v) /\ (Alive(v)' => Alive(v))
      BY <1>10 DEF Quit, InHand, Alive, TypeOK
    <2> QED BY <1>d, <2>1, <2>2
  <1>11. ASSUME NEW w \in Worker, Orphan(w) PROVE HolderKnowsTheTry'
    <2>1. outbox' = outbox /\ \A v \in Worker : InHand(v)' \subseteq InHand(v) /\ (Alive(v)' => Alive(v))
      BY <1>11 DEF Orphan, InHand, Alive, TypeOK
    <2> QED BY <1>d, <2>1
  <1>12. ASSUME NEW p \in Pool, Start(p) PROVE HolderKnowsTheTry'
    <2>1. \A v \in Worker : InHand(v)' = InHand(v) /\ (Alive(v) \/ Alive(v)' => Alive(v) \/ InHand(v) = {})
      BY <1>12 DEF Start, InHand, Alive, TypeOK, InWork
    <2> QED BY <1>12, <1>d, <2>1 DEF Start
  <1>13. ASSUME NEW p \in Pool, Stop(p) PROVE HolderKnowsTheTry'
    BY <1>13, <1>d DEF Stop, workers, InHand, Alive
  <1>14. ASSUME NEW p \in Pool, Ends(p) PROVE \A v \in Worker : (Alive(v)' => Alive(v)) /\ (Alive(v) /\ Alive(v)' => InHand(v)' = InHand(v))
    BY <1>14 DEF Ends, InHand, Alive, TypeOK
  <1>15. ASSUME NEW p \in Pool, StopEnd(p) PROVE HolderKnowsTheTry'
    <2>1. \A m \in Msg : outbox'[m] = outbox[m] \/ (outbox'[m].status # "sending" /\ outbox'[m].holder = None)
      BY <1>15, <1>e DEF StopEnd
    <2> QED BY <1>14, <1>15, <2>1, <1>b, <1>c DEF StopEnd, HolderKnowsTheTry, Holds
  <1>16. ASSUME NEW p \in Pool, Crash(p) PROVE HolderKnowsTheTry'
    BY <1>14, <1>16, <1>b DEF Crash, HolderKnowsTheTry, Holds
  <1>17. ASSUME NEW a \in Addr, Switch(a) PROVE HolderKnowsTheTry'
    BY <1>17, <1>d DEF Switch, workers, InHand, Alive
  <1>18. ASSUME Tick PROVE HolderKnowsTheTry'
    <2>1. \A m \in Msg : /\ outbox'[m].status = outbox[m].status /\ outbox'[m].holder = outbox[m].holder
                         /\ outbox'[m].attempts = outbox[m].attempts
      BY <1>18, <1>a DEF Tick, Row
    <2>2. \A v \in Worker : InHand(v)' = InHand(v) /\ (Alive(v)' <=> Alive(v))
      BY <1>18 DEF Tick, InHand, Alive
    <2> QED BY <1>b, <2>1, <2>2 DEF HolderKnowsTheTry, Holds
  <1>19. ASSUME UNCHANGED vars PROVE HolderKnowsTheTry'
    BY <1>19, <1>d DEF vars, workers, InHand, Alive
  <1> QED BY <1>1, <1>2, <1>3, <1>4, <1>5, <1>6, <1>7, <1>8, <1>9, <1>10, <1>11, <1>12, <1>13, <1>15, <1>16,
             <1>17, <1>18, <1>19 DEF Next, WorkerStep

-----------------------------------------------------------------------------
(* The order of first tries, and what is confirmed *)

\* every step keeps the order: a claim takes a message only if each older one of its recipient was tried or is gone
LEMMA OrderStep ==
    TypeOK /\ InWork /\ HolderKnowsTheTry /\ Untouched /\ TriedInOrder /\ [Next]_vars => Untouched' /\ TriedInOrder'
  <1> SUFFICES ASSUME TypeOK, InWork, HolderKnowsTheTry, Untouched, TriedInOrder, [Next]_vars
               PROVE  Untouched' /\ TriedInOrder'
    OBVIOUS
  <1>a. \A m \in Msg : outbox[m] \in Row
    BY DEF TypeOK
  <1>b. \A w \in Worker : \A c \in InHand(w) : c.msg \in Msg
    BY DEF TypeOK, InHand, Claim
  <1>c. \A m \in Msg : before[m] \subseteq Msg
    BY DEF TypeOK
  <1>t. \A m \in Msg : outbox[m].status \in {"sending", "sent", "failed", "cancelled"} => tried[m]
    BY DEF Untouched, Present, Due
  \* a step that changes only rows that were inserted and tried, or deletes rows
  <1>d. ASSUME \A m \in Msg : \/ outbox'[m] = outbox[m]
                              \/ /\ outbox[m].status # "absent" /\ outbox'[m].status # "absent"
                                 /\ tried[m] \/ outbox'[m].status = "gone",
               tried' = tried, before' = before,
               \A w \in Worker : InHand(w)' \subseteq InHand(w)
        PROVE  Untouched' /\ TriedInOrder'
    <2>1. Untouched'
      BY <1>b, <1>c, <1>d DEF Untouched, Present, Due
    <2>2. TriedInOrder'
      BY <1>c, <1>d DEF TriedInOrder
    <2> QED BY <2>1, <2>2
  <1>1. ASSUME NEW m \in Msg, Enqueue(m) PROVE Untouched' /\ TriedInOrder'
    <2>1. outbox[m] = NoRow /\ ~tried[m]
      BY <1>1 DEF Enqueue, Untouched
    <2>2. /\ outbox'[m].status = "pending" /\ outbox'[m].wait = 0
          /\ \A n \in Msg \ {m} : outbox'[n] = outbox[n]
      BY <1>1, <1>a, <2>1 DEF Enqueue, TypeOK, NoRow
    <2>3. before' = [before EXCEPT ![m] = {n \in Msg : n < m /\ To[n] = To[m] /\ Present(n)}]
      BY <1>1 DEF Enqueue
    <2>4. \A n \in Msg : \A k \in before'[n] : k < n /\ To[k] = To[n] /\ outbox'[k].status # "absent"
      BY <1>c, <2>2, <2>3 DEF Untouched, Present, TypeOK
    <2>5. tried' = tried /\ \A w \in Worker : InHand(w)' = InHand(w)
      BY <1>1 DEF Enqueue, workers, InHand
    <2>6. Untouched'
      BY <1>b, <2>1, <2>2, <2>4, <2>5 DEF Untouched, Present, Due
    <2>7. ASSUME NEW k \in Msg, tried'[k], NEW n \in before'[k] PROVE tried'[n] \/ outbox'[n].status = "gone"
      <3>1. k # m /\ tried[k]
        BY <2>1, <2>5, <2>7
      <3>2. n \in before[k] /\ n \in Msg
        BY <1>c, <2>3, <2>7, <3>1
      <3>3. tried[n] \/ outbox[n].status = "gone"
        BY <3>1, <3>2 DEF TriedInOrder
      <3>4. n = m => outbox[n].status = "absent"
        BY <2>1 DEF NoRow
      <3> QED BY <2>1, <2>2, <2>5, <3>2, <3>3, <3>4
    <2>8. TriedInOrder'
      BY <2>7 DEF TriedInOrder
    <2> QED BY <2>6, <2>8
  <1>2. ASSUME NEW m \in Msg, Requeue(m) PROVE Untouched' /\ TriedInOrder'
    <2>1. tried[m] /\ outbox[m].status # "absent"
      BY <1>2, <1>t DEF Requeue, Requeueable
    <2>2. outbox'[m].status = "pending" /\ \A n \in Msg \ {m} : outbox'[n] = outbox[n]
      BY <1>2, <1>a DEF Requeue, TypeOK, Row
    <2>3. tried' = tried /\ before' = before /\ \A w \in Worker : InHand(w)' = InHand(w)
      BY <1>2 DEF Requeue, workers, InHand
    <2> QED BY <1>d, <2>1, <2>2, <2>3
  <1>3. ASSUME NEW m \in Msg, Delete(m) PROVE Untouched' /\ TriedInOrder'
    <2>1. outbox[m].status # "absent" /\ outbox'[m].status = "gone" /\ \A n \in Msg \ {m} : outbox'[n] = outbox[n]
      BY <1>3 DEF Delete, TypeOK, NoRow, Present, Ended
    <2> QED BY <1>3, <1>d, <2>1 DEF Delete, workers, InHand, ghosts
  <1>4. ASSUME Reap PROVE Untouched' /\ TriedInOrder'
    <2>1. \A m \in Msg : \/ outbox'[m] = outbox[m]
                         \/ /\ outbox[m].status # "absent" /\ outbox'[m].status # "absent"
                            /\ tried[m]
      BY <1>4, <1>t DEF Reap, Lapsed, Unlocked, AfterLapse
    <2> QED BY <1>4, <1>d, <2>1 DEF Reap, workers, InHand, ghosts
  <1>e. ASSUME NEW W, outbox' = Released(W)
        PROVE  \A m \in Msg : \/ outbox'[m] = outbox[m]
                              \/ outbox[m].status # "absent" /\ outbox'[m].status # "absent" /\ tried[m]
    BY <1>e, <1>t DEF Released, Unlocked
  <1>5. ASSUME NEW w \in Worker, ClaimOutbox(w) PROVE Untouched' /\ TriedInOrder'
    <2> DEFINE C == Claimed(Claimable)
    <2>1. \A m \in C : m \in Msg /\ Due(m) /\ ~Waits(m)
      BY DEF Claimed, Claimable
    <2>2. \A m \in C : outbox'[m].status = "sending"
      BY <1>5, <2>1 DEF ClaimOutbox
    <2>3. \A m \in Msg \ C : outbox'[m] = outbox[m]
      BY <1>5 DEF ClaimOutbox
    <2>4. before' = before /\ \A m \in Msg : tried'[m] <=> tried[m] \/ m \in C
      BY <1>5 DEF ClaimOutbox, TypeOK
    <2>5. \A v \in Worker : \A c \in InHand(v)' : c \in InHand(v) \/ c.msg \in C
      BY <1>5 DEF ClaimOutbox, InHand, TypeOK
    <2>6. Untouched'
      <3>1. \A m \in Msg : Present(m)' /\ ~tried'[m] => Due(m)'
        BY <2>3, <2>4 DEF Untouched, Present, Due
      <3>2. \A m \in Msg : outbox'[m].status = "absent" => outbox'[m] = NoRow /\ ~tried'[m]
        BY <2>1, <2>2, <2>3, <2>4 DEF Untouched
      <3>3. \A m \in Msg : \A n \in before'[m] : n < m /\ To[n] = To[m] /\ outbox'[n].status # "absent"
        BY <1>c, <2>2, <2>3, <2>4 DEF Untouched
      <3>4. \A v \in Worker : \A c \in InHand(v)' : outbox'[c.msg].status # "absent"
        BY <1>b, <2>2, <2>3, <2>5 DEF Untouched
      <3> QED BY <3>1, <3>2, <3>3, <3>4 DEF Untouched
    <2>7. ASSUME NEW m \in Msg, tried'[m], NEW n \in before[m] PROVE tried'[n] \/ outbox'[n].status = "gone"
      <3>1. n \in Msg /\ n < m /\ To[n] = To[m] /\ outbox[n].status # "absent"
        BY <1>c DEF Untouched
      <3>2. CASE tried[m]
        BY <2>3, <2>4, <3>1, <3>2 DEF TriedInOrder
      <3>3. CASE m \in C
        <4>1. ~Due(n)
          BY <2>1, <3>1, <3>3 DEF Waits
        <4>2. tried[n] \/ outbox[n].status = "gone"
          BY <3>1, <4>1 DEF Untouched, Present
        <4> QED BY <2>3, <2>4, <3>1, <4>2
      <3> QED BY <2>4, <2>7, <3>2, <3>3
    <2>8. TriedInOrder'
      BY <2>4, <2>7 DEF TriedInOrder
    <2> QED BY <2>6, <2>8
  <1>6. ASSUME NEW w \in Worker, NEW c \in claims[w], Look(w, c) PROVE Untouched' /\ TriedInOrder'
    <2>1. \A v \in Worker : InHand(v)' \subseteq InHand(v)
      BY <1>6 DEF Look, InHand, TypeOK
    <2> QED BY <1>6, <1>d, <2>1 DEF Look
  <1>7. ASSUME NEW w \in Worker, Waited(w) PROVE Untouched' /\ TriedInOrder'
    BY <1>7, <1>d DEF Waited, InHand
  <1>8. ASSUME NEW w \in Worker, NEW r \in Answers, Answered(w, r) PROVE Untouched' /\ TriedInOrder'
    BY <1>8, <1>d DEF Answered, InHand
  <1>9. ASSUME NEW w \in Worker, Report(w) PROVE Untouched' /\ TriedInOrder'
    <2>1. \A m \in Msg : Finished(outbox[m], answer[w]).status # "absent"
      <3>1. answer[w].do \in {"sent", "failed", "cancelled", "retry", "defer"}
        BY DEF TypeOK, Answer
      <3> QED BY <3>1 DEF Finished, Unlocked
    <2>2. \A m \in Msg : \/ outbox'[m] = outbox[m]
                         \/ outbox[m].status # "absent" /\ outbox'[m].status # "absent" /\ tried[m]
      BY <1>9, <1>t, <2>1 DEF Report, Holds, TypeOK
    <2>3. \A v \in Worker : InHand(v)' \subseteq InHand(v)
      BY <1>9 DEF Report, InHand, TypeOK
    <2> QED BY <1>9, <1>d, <2>2, <2>3 DEF Report, ghosts
  <1>10. ASSUME NEW w \in Worker, Quit(w) PROVE Untouched' /\ TriedInOrder'
    <2>1. \A m \in Msg : \/ outbox'[m] = outbox[m]
                         \/ outbox[m].status # "absent" /\ outbox'[m].status # "absent" /\ tried[m]
      BY <1>10, <1>e DEF Quit
    <2>2. \A v \in Worker : InHand(v)' \subseteq InHand(v)
      BY <1>10 DEF Quit, InHand, TypeOK
    <2> QED BY <1>10, <1>d, <2>1, <2>2 DEF Quit, ghosts
  <1>11. ASSUME NEW w \in Worker, Orphan(w) PROVE Untouched' /\ TriedInOrder'
    <2>1. \A v \in Worker : InHand(v)' \subseteq InHand(v)
      BY <1>11 DEF Orphan, InHand, TypeOK
    <2> QED BY <1>11, <1>d, <2>1 DEF Orphan
  <1>12. ASSUME NEW p \in Pool, Start(p) PROVE Untouched' /\ TriedInOrder'
    BY <1>12, <1>d DEF Start, InHand, ghosts
  <1>13. ASSUME NEW p \in Pool, Stop(p) PROVE Untouched' /\ TriedInOrder'
    BY <1>13, <1>d DEF Stop, workers, InHand, ghosts
  <1>14. ASSUME NEW p \in Pool, Ends(p) PROVE \A v \in Worker : InHand(v)' \subseteq InHand(v)
    BY <1>14 DEF Ends, InHand, TypeOK
  <1>15. ASSUME NEW p \in Pool, StopEnd(p) PROVE Untouched' /\ TriedInOrder'
    <2>1. \A m \in Msg : \/ outbox'[m] = outbox[m]
                         \/ outbox[m].status # "absent" /\ outbox'[m].status # "absent" /\ tried[m]
      BY <1>15, <1>e DEF StopEnd
    <2> QED BY <1>14, <1>15, <1>d, <2>1 DEF StopEnd, Ends, ghosts
  <1>16. ASSUME NEW p \in Pool, Crash(p) PROVE Untouched' /\ TriedInOrder'
    BY <1>14, <1>16, <1>d DEF Crash, Ends, ghosts
  <1>17. ASSUME NEW a \in Addr, Switch(a) PROVE Untouched' /\ TriedInOrder'
    BY <1>17, <1>d DEF Switch, workers, InHand, ghosts
  <1>18. ASSUME Tick PROVE Untouched' /\ TriedInOrder'
    <2>1. ASSUME NEW m \in Msg
          PROVE  /\ outbox'[m].status = outbox[m].status
                 /\ outbox[m].wait = 0 => outbox'[m].wait = 0
                 /\ outbox[m] = NoRow => outbox'[m] = NoRow
      <3>1. outbox'[m] = [outbox[m] EXCEPT !.wait = Larger(@ - 1, 0),
                                           !.left = IF outbox[m].status = "sending" THEN Larger(@ - 1, -1) ELSE @]
        BY <1>18 DEF Tick
      <3>2. outbox[m] \in Row
        BY <1>a
      <3>3. Larger(0 - 1, 0) = 0
        BY DEF Larger
      <3>4. outbox'[m].status = outbox[m].status /\ outbox'[m].wait = Larger(outbox[m].wait - 1, 0)
        BY <3>1, <3>2 DEF Row
      <3>5. ASSUME outbox[m] = NoRow PROVE outbox'[m] = NoRow
        <4>1. outbox'[m] = [NoRow EXCEPT !.wait = Larger(@ - 1, 0), !.left = @]
          BY <3>1, <3>5 DEF NoRow
        <4> QED BY <3>3, <4>1 DEF NoRow
      <3> QED BY <3>3, <3>4, <3>5
    <2>2. tried' = tried /\ before' = before /\ \A v \in Worker : InHand(v)' = InHand(v)
      BY <1>18 DEF Tick, InHand, ghosts
    <2>3. Untouched'
      BY <1>b, <1>c, <2>1, <2>2 DEF Untouched, Present, Due
    <2>4. TriedInOrder'
      BY <1>c, <2>1, <2>2 DEF TriedInOrder
    <2> QED BY <2>3, <2>4
  <1>19. ASSUME UNCHANGED vars PROVE Untouched' /\ TriedInOrder'
    BY <1>19, <1>d DEF vars, workers, InHand, ghosts
  <1> QED BY <1>1, <1>2, <1>3, <1>4, <1>5, <1>6, <1>7, <1>8, <1>9, <1>10, <1>11, <1>12, <1>13, <1>15, <1>16,
             <1>17, <1>18, <1>19 DEF Next, WorkerStep

\* every step keeps it: only the answer "ok" makes a worker report a message as sent
LEMMA ConfirmStep == TypeOK /\ InWork /\ AboutToConfirm /\ [Next]_vars => AboutToConfirm'
  <1> SUFFICES ASSUME TypeOK, InWork, AboutToConfirm, [Next]_vars PROVE AboutToConfirm'
    OBVIOUS
  <1>a. \A m \in Msg : delivered[m] \in Nat
    BY DEF TypeOK
  <1>b. \A w \in Worker : pc[w] \in {"send", "report", "orphan"} => cur[w] \in Claim /\ cur[w].msg \in Msg
    BY DEF TypeOK, InWork, Claim
  \* a step that takes no channel's answer and makes nobody report that a message was sent
  <1>c. ASSUME delivered' = delivered,
               \A w \in Worker : pc'[w] = "report" => \/ answer'[w].do # "sent"
                                                      \/ UNCHANGED <<pc[w], answer[w], cur[w]>>
        PROVE  AboutToConfirm'
    BY <1>c DEF AboutToConfirm
  \* the channel accepts a message
  <1>d. ASSUME NEW m \in Msg, Accepts(m)
        PROVE  delivered'[m] > 0 /\ \A n \in Msg : delivered[n] > 0 => delivered'[n] > 0
    BY <1>a, <1>d DEF Accepts, Smaller, TypeOK
  <1>1. ASSUME NEW m \in Msg, Enqueue(m) \/ Requeue(m) \/ Delete(m) PROVE AboutToConfirm'
    BY <1>1, <1>c DEF Enqueue, Requeue, Delete, workers, ghosts
  <1>2. ASSUME Reap PROVE AboutToConfirm'
    BY <1>2, <1>c DEF Reap, workers, ghosts
  <1>3. ASSUME NEW w \in Worker, ClaimOutbox(w) PROVE AboutToConfirm'
    BY <1>3, <1>c DEF ClaimOutbox
  <1>4. ASSUME NEW w \in Worker, NEW c \in claims[w], Look(w, c) PROVE AboutToConfirm'
    <2>1. \A v \in Worker \ {w} : UNCHANGED <<pc[v], answer[v], cur[v]>>
      BY <1>4 DEF Look, Conclude, StartSend, TypeOK
    <2>2. pc'[w] = "report" => answer'[w].do # "sent"
      BY <1>4 DEF Look, Conclude, StartSend, TypeOK
    <2> QED BY <1>4, <1>c, <2>1, <2>2 DEF Look
  <1>5. ASSUME NEW w \in Worker, Waited(w) PROVE AboutToConfirm'
    <2>1. \A v \in Worker \ {w} : UNCHANGED <<pc[v], answer[v], cur[v]>>
      BY <1>5 DEF Waited, StartSend, TypeOK
    <2>2. pc'[w] = "report" => answer'[w].do # "sent"
      BY <1>5 DEF Waited, StartSend, TypeOK
    <2> QED BY <1>5, <1>c, <2>1, <2>2 DEF Waited
  <1>6. ASSUME NEW w \in Worker, NEW r \in Answers, Answered(w, r) PROVE AboutToConfirm'
    <2>1. pc[w] = "send" /\ cur' = cur /\ pc' = [pc EXCEPT ![w] = "report"]
          /\ answer' = [answer EXCEPT ![w] = Verdict(r, cur[w].tries)]
      BY <1>6 DEF Answered
    <2>2. cur[w].msg \in Msg /\ cur[w].tries \in Nat
      BY <1>b, <2>1, Caps DEF Claim, Tries
    <2>3. answer'[w].do = "sent" => r = "ok"
      BY <2>1, <2>2, VerdictType DEF TypeOK
    <2>4. \A n \in Msg : delivered[n] > 0 => delivered'[n] > 0
      BY <1>6, <1>d, <2>2 DEF Answered
    <2>5. r = "ok" => delivered'[cur[w].msg] > 0
      BY <1>6, <1>d, <2>2 DEF Answered
    <2>6. \A v \in Worker \ {w} : UNCHANGED <<pc[v], answer[v], cur[v]>>
      BY <2>1 DEF TypeOK
    <2> QED BY <1>b, <2>1, <2>3, <2>4, <2>5, <2>6 DEF AboutToConfirm
  <1>7. ASSUME NEW w \in Worker, Report(w) PROVE AboutToConfirm'
    BY <1>7, <1>c DEF Report, TypeOK, ghosts
  <1>8. ASSUME NEW w \in Worker, Quit(w) PROVE AboutToConfirm'
    BY <1>8, <1>c DEF Quit, TypeOK, ghosts
  <1>9. ASSUME NEW w \in Worker, Orphan(w) PROVE AboutToConfirm'
    <2>1. pc[w] = "orphan" /\ pc'[w] = "off" /\ \A v \in Worker \ {w} : UNCHANGED <<pc[v], answer[v], cur[v]>>
      BY <1>9 DEF Orphan, TypeOK
    <2>2. \A n \in Msg : delivered[n] > 0 => delivered'[n] > 0
      BY <1>9, <1>b, <1>d, <2>1 DEF Orphan
    <2> QED BY <1>b, <2>1, <2>2 DEF AboutToConfirm
  <1>10. ASSUME NEW p \in Pool, Start(p) PROVE AboutToConfirm'
    BY <1>10, <1>c DEF Start, ghosts
  <1>11. ASSUME NEW p \in Pool, Stop(p) PROVE AboutToConfirm'
    BY <1>11, <1>c DEF Stop, workers, ghosts
  <1>12. ASSUME NEW p \in Pool, Ends(p) PROVE AboutToConfirm'
    BY <1>12, <1>c DEF Ends, ghosts
  <1>13. ASSUME NEW a \in Addr, Switch(a) PROVE AboutToConfirm'
    BY <1>13, <1>c DEF Switch, workers, ghosts
  <1>14. ASSUME Tick PROVE AboutToConfirm'
    BY <1>14, <1>c DEF Tick, ghosts
  <1>15. ASSUME UNCHANGED vars PROVE AboutToConfirm'
    BY <1>15, <1>c DEF vars, workers, ghosts
  <1> QED BY <1>1, <1>2, <1>3, <1>4, <1>5, <1>6, <1>7, <1>8, <1>9, <1>10, <1>11, <1>12, <1>13, <1>14, <1>15
          DEF Next, WorkerStep, StopEnd, Crash

-----------------------------------------------------------------------------
(* The invariant, and what follows from it *)

\* none of the parts is kept by the steps alone: each step lemma says which of the others it needs
IInv ==
    /\ TypeOK
    /\ InWork
    /\ HolderKnowsTheTry
    /\ Untouched
    /\ TriedInOrder
    /\ AboutToConfirm

LEMMA InvInit == Init => IInv
  <1> SUFFICES ASSUME Init PROVE IInv
    OBVIOUS
  <1>1. TypeOK /\ InWork
    BY TypeInit
  <1>2. HolderKnowsTheTry
    BY PlaceAssumption DEF Init, HolderKnowsTheTry, NoRow, Alive
  <1>3. Untouched
    BY DEF Init, Untouched, Present, NoRow, InHand
  <1>4. TriedInOrder /\ AboutToConfirm
    BY DEF Init, TriedInOrder, AboutToConfirm
  <1> QED BY <1>1, <1>2, <1>3, <1>4 DEF IInv

LEMMA Invariance == Spec => []IInv
  <1>1. IInv /\ [Next]_vars => IInv'
    BY TypeStep, HolderStep, OrderStep, ConfirmStep DEF IInv
  <1> QED BY InvInit, <1>1, PTL DEF Spec

\* Type correctness of the table, the workers and the processes
THEOREM Types == Spec => []TypeOK
  <1>1. IInv => TypeOK
    BY DEF IInv
  <1> QED BY Invariance, <1>1, PTL

\* For every number of workers, messages and processes, crashes and lapses of leases included: the try number a worker decides
\* by is the one in the table as long as it holds the message
THEOREM TryNumbers == Spec => []HolderKnowsTheTry
  <1>1. IInv => HolderKnowsTheTry
    BY DEF IInv
  <1> QED BY Invariance, <1>1, PTL

\* For every number of workers, messages and processes: first tries happen in the order of the queue
THEOREM FirstTries == Spec => []TriedInOrder
  <1>1. IInv => TriedInOrder
    BY DEF IInv
  <1> QED BY Invariance, <1>1, PTL

-----------------------------------------------------------------------------
(* The outbox implements NoticePromise *)

LEMMA PromiseInit == Init => Promise!Init
  BY DEF Init, Promise!Init, Stage, StageOf, NoRow

\* every step of the outbox is a step of the promise or changes nothing of it
LEMMA PromiseStep == IInv /\ [Next]_vars => [Promise!Next]_<<Stage, delivered>>
  <1> SUFFICES ASSUME IInv, [Next]_vars PROVE Promise!Next \/ UNCHANGED <<Stage, delivered>>
    OBVIOUS
  <1> USE DEF IInv
  <1>a. \A m \in Msg : outbox[m] \in Row /\ delivered[m] \in 0 .. 2
    BY DEF TypeOK
  <1>b. \A w \in Worker : pc[w] \in {"send", "report", "orphan"} =>
                            cur[w].msg \in Msg /\ outbox[cur[w].msg].status # "absent"
    BY DEF TypeOK, InWork, Claim, Untouched, InHand
  \* the stage of one message changes, or of none
  <1>c. ASSUME NEW m \in Msg, \A n \in Msg \ {m} : StageOf(outbox'[n].status) = StageOf(outbox[n].status)
        PROVE  Stage' = [Stage EXCEPT ![m] = StageOf(outbox'[m].status)]
    BY <1>c DEF Stage
  <1>d. ASSUME \A m \in Msg : StageOf(outbox'[m].status) = StageOf(outbox[m].status)
        PROVE  Stage' = Stage
    BY <1>d DEF Stage
  \* the channel accepts a message in hand
  <1>e. ASSUME NEW m \in Msg, outbox[m].status # "absent", outbox' = outbox, Accepts(m) PROVE Promise!Next
    <2>1. Stage[m] # "none"
      BY <1>e DEF Stage, StageOf
    <2>2. delivered' = [delivered EXCEPT ![m] = IF @ = 0 THEN 1 ELSE 2]
      <3>1. Smaller(delivered[m] + 1, 2) = IF delivered[m] = 0 THEN 1 ELSE 2
        BY <1>a DEF Smaller
      <3> QED BY <1>e, <3>1 DEF Accepts
    <2>3. Stage' = Stage
      BY <1>d, <1>e
    <2>4. Promise!Accept(m)
      BY <2>1, <2>2, <2>3 DEF Promise!Accept
    <2> QED BY <2>4 DEF Promise!Next
  <1>1. ASSUME NEW m \in Msg, Enqueue(m) PROVE Promise!Next
    <2>1. Stage[m] = "none" /\ outbox'[m].status = "pending" /\ \A n \in Msg \ {m} : outbox'[n] = outbox[n]
      BY <1>1, <1>a DEF Enqueue, Stage, StageOf, TypeOK, Row
    <2>2. Stage' = [Stage EXCEPT ![m] = "queued"]
      BY <1>c, <2>1 DEF StageOf
    <2>3. Promise!Submit(m)
      BY <1>1, <2>1, <2>2 DEF Enqueue, Promise!Submit
    <2> QED BY <2>3 DEF Promise!Next
  <1>2. ASSUME NEW m \in Msg, Requeue(m) PROVE Promise!Next
    <2>1. Stage[m] = "dropped" /\ outbox'[m].status = "pending" /\ \A n \in Msg \ {m} : outbox'[n] = outbox[n]
      BY <1>2, <1>a DEF Requeue, Requeueable, Stage, StageOf, TypeOK, Row
    <2>2. Stage' = [Stage EXCEPT ![m] = "queued"]
      BY <1>c, <2>1 DEF StageOf
    <2>3. Promise!SubmitAgain(m)
      BY <1>2, <2>1, <2>2 DEF Requeue, Promise!SubmitAgain
    <2> QED BY <2>3 DEF Promise!Next
  <1>3. ASSUME NEW m \in Msg, Delete(m) PROVE Promise!Next
    <2>1. Stage[m] # "none" /\ outbox'[m].status = "gone" /\ \A n \in Msg \ {m} : outbox'[n] = outbox[n]
      BY <1>3, <1>a DEF Delete, Present, Ended, Stage, StageOf, TypeOK, NoRow
    <2>2. Stage' = [Stage EXCEPT ![m] = "gone"]
      BY <1>c, <2>1 DEF StageOf
    <2>3. Promise!Forget(m)
      BY <1>3, <2>1, <2>2 DEF Delete, ghosts, Promise!Forget
    <2> QED BY <2>3 DEF Promise!Next
  <1>4. ASSUME Reap PROVE Promise!Next
    <2> DEFINE S == {m \in Msg : Lapsed(m) /\ outbox[m].attempts >= MaxAttempts}
    <2>1. \A m \in S : Stage[m] = "queued"
      BY DEF Lapsed, Stage, StageOf
    <2>2. \A m \in Msg : StageOf(outbox'[m].status) = IF m \in S THEN "dropped" ELSE StageOf(outbox[m].status)
      BY <1>4 DEF Reap, Lapsed, Unlocked, AfterLapse, StageOf
    <2>3. Stage' = [m \in Msg |-> IF m \in S THEN "dropped" ELSE Stage[m]]
      BY <2>2 DEF Stage
    <2>4. Promise!Drop(S)
      BY <1>4, <2>1, <2>3 DEF Reap, ghosts, Promise!Drop
    <2>5. S \in SUBSET Msg
      OBVIOUS
    <2> QED BY <2>4, <2>5 DEF Promise!Next
  <1>f. ASSUME NEW W, outbox' = Released(W) PROVE Stage' = Stage
    <2>1. \A m \in Msg : outbox'[m].status = outbox[m].status \/ (outbox[m].status = "sending" /\ outbox'[m].status = "pending")
      BY <1>f DEF Released, Unlocked
    <2> QED BY <1>d, <2>1 DEF StageOf
  <1>5. ASSUME NEW w \in Worker, ClaimOutbox(w) PROVE UNCHANGED <<Stage, delivered>>
    <2>1. \A m \in Msg : outbox'[m].status = outbox[m].status \/ (outbox[m].status = "pending" /\ outbox'[m].status = "sending")
      BY <1>5 DEF ClaimOutbox, Claimed, Claimable, Due
    <2> QED BY <1>5, <1>d, <2>1 DEF StageOf, ClaimOutbox
  <1>6. ASSUME NEW w \in Worker, \/ \E c \in claims[w] : Look(w, c)
                                 \/ Waited(w)
        PROVE  UNCHANGED <<Stage, delivered>>
    BY <1>6, <1>d DEF Look, Waited
  <1>7. ASSUME NEW w \in Worker, NEW r \in Answers, Answered(w, r) PROVE Promise!Next \/ UNCHANGED <<Stage, delivered>>
    BY <1>7, <1>b, <1>d, <1>e DEF Answered
  <1>8. ASSUME NEW w \in Worker, Report(w) PROVE Promise!Next \/ UNCHANGED <<Stage, delivered>>
    <2> DEFINE m == cur[w].msg
    <2>1. m \in Msg /\ delivered' = delivered /\ answer[w] \in Answer
      BY <1>8, <1>b DEF Report, TypeOK, ghosts
    <2>2. CASE outbox' = outbox
      BY <1>d, <2>1, <2>2
    <2>3. CASE Holds(w, m) /\ outbox' = [outbox EXCEPT ![m] = Finished(@, answer[w])]
      <3>1. Stage[m] = "queued" /\ \A n \in Msg \ {m} : outbox'[n] = outbox[n]
        BY <2>1, <2>3 DEF Holds, Stage, StageOf
      <3>2. Stage' = [Stage EXCEPT ![m] = StageOf(outbox'[m].status)]
        BY <1>c, <2>1, <3>1
      <3>3. outbox'[m].status = IF answer[w].do \in {"retry", "defer"} THEN "pending" ELSE answer[w].do
        BY <2>1, <2>3 DEF TypeOK, Finished, Unlocked
      <3>4. CASE answer[w].do = "sent"
        <4>1. delivered[m] > 0
          BY <1>8, <3>4 DEF Report, AboutToConfirm
        <4>2. Promise!Confirm(m)
          BY <2>1, <3>1, <3>2, <3>3, <3>4, <4>1 DEF Promise!Confirm, StageOf
        <4> QED BY <2>1, <4>2 DEF Promise!Next
      <3>5. CASE answer[w].do \in {"failed", "cancelled"}
        <4>1. Stage' = [n \in Msg |-> IF n \in {m} THEN "dropped" ELSE Stage[n]]
          BY <3>2, <3>3, <3>5 DEF StageOf, Stage
        <4>2. Promise!Drop({m})
          BY <2>1, <3>1, <4>1 DEF Promise!Drop
        <4> QED BY <2>1, <4>2 DEF Promise!Next
      <3>6. CASE answer[w].do \in {"retry", "defer"}
        <4>1. Stage' = Stage
          BY <2>1, <3>1, <3>2, <3>3, <3>6 DEF StageOf, Stage
        <4> QED BY <2>1, <4>1
      <3> QED BY <2>1, <3>4, <3>5, <3>6 DEF Answer
    <2> QED BY <1>8, <2>2, <2>3 DEF Report
  <1>9. ASSUME NEW w \in Worker, Quit(w) PROVE UNCHANGED <<Stage, delivered>>
    BY <1>9, <1>d, <1>f DEF Quit, ghosts
  <1>10. ASSUME NEW w \in Worker, Orphan(w) PROVE Promise!Next \/ UNCHANGED <<Stage, delivered>>
    BY <1>10, <1>b, <1>d, <1>e DEF Orphan
  <1>11. ASSUME NEW p \in Pool, Start(p) \/ Stop(p) \/ Crash(p) PROVE UNCHANGED <<Stage, delivered>>
    BY <1>11, <1>d DEF Start, Stop, Crash, Ends, ghosts
  <1>12. ASSUME NEW p \in Pool, StopEnd(p) PROVE UNCHANGED <<Stage, delivered>>
    BY <1>12, <1>f DEF StopEnd, Ends, ghosts
  <1>13. ASSUME NEW a \in Addr, Switch(a) PROVE UNCHANGED <<Stage, delivered>>
    BY <1>13, <1>d DEF Switch, ghosts
  <1>14. ASSUME Tick PROVE UNCHANGED <<Stage, delivered>>
    <2>1. \A m \in Msg : outbox'[m].status = outbox[m].status
      BY <1>14, <1>a DEF Tick, Row
    <2> QED BY <1>14, <1>d, <2>1 DEF Tick, ghosts
  <1>15. ASSUME UNCHANGED vars PROVE UNCHANGED <<Stage, delivered>>
    BY <1>15, <1>d DEF vars, ghosts
  <1> QED BY <1>1, <1>2, <1>3, <1>4, <1>5, <1>6, <1>7, <1>8, <1>9, <1>10, <1>11, <1>12, <1>13, <1>14, <1>15
          DEF Next, WorkerStep

\* The outbox implements its promise, with crashes, lapsed leases, lost answers, hand requeues and deletions: a message is
\* called sent only if the channel accepted it, what is sent stays sent, and nothing reaches the channel that was not queued
THEOREM Implements == Spec => KeepsThePromise
  <1> QED BY Invariance, PromiseInit, PromiseStep, PTL DEF Spec, KeepsThePromise, Promise!Spec
=============================================================================
