---------------------------- MODULE NotifyOutbox ----------------------------
(***************************************************************************)
(* The notification outbox of the panel: the table notification_outbox     *)
(* (src/internal/database/notify.go), the worker pool that sends what is   *)
(* in it (src/internal/notify/worker.go), and the process around the pool  *)
(* (Service.Start/Stop), which may be stopped, may crash, and is followed  *)
(* by a new process with new worker ids.                                   *)
(*                                                                         *)
(* One statement of the database is one step; between the statements of    *)
(* one worker everything else may happen.  Time passes in whole ticks:     *)
(* next_attempt_at, locked_until, the bookings of the rate limiter and the *)
(* timeouts are kept as "ticks from now", so no clock needs a bound.       *)
(***************************************************************************)
EXTENDS Integers, FiniteSets

CONSTANTS
    Msg,          \* the ids the sequence of the table hands out
    Addr,         \* recipients: one (kind, address) pair each
    To,           \* To[m]: the recipient of message m
    Prio,         \* Prio[m]: 0 urgent, 1 the rest
    Pool,         \* incarnations of the agent process, each with its workers
    Worker,
    PoolOf,       \* PoolOf[w]: the process worker w belongs to
    None,
    Batch,        \* claimBatch
    Lease,        \* leaseTime, in ticks
    SendTicks,    \* sendTimeout, in ticks
    StopTicks,    \* how long Worker.Stop waits
    InlineWait,   \* maxInlineWait
    KindGap, AddrGap,   \* the gaps of the rate limiter
    MaxAttempts,
    RetryDelay,   \* RetryDelay[n]: RetryDelays of channel.go, n in 1..MaxAttempts-1
    RetryAfter,   \* the wait a busy channel asks for
    Answers,      \* what a channel may answer in this instance
    Faults,       \* what else may happen in this instance
    Mortal,       \* the processes that stop or crash in this instance
    MaxRequeues,  \* how often one message is requeued by hand
    Prompt        \* TRUE: local steps of a worker take no noticeable time

AllAnswers == {"ok", "lost", "temporary", "busy", "blocked", "config", "refused"}
AllFaults == {"read", "notext", "report", "crash", "stop", "switch", "purge", "cascade"}

ASSUME MsgAssumption == Msg \subseteq Nat
ASSUME PlaceAssumption ==
    /\ To \in [Msg -> Addr]
    /\ Prio \in [Msg -> {0, 1}]
    /\ PoolOf \in [Worker -> Pool]
    /\ None \notin Worker
    /\ Mortal \subseteq Pool
ASSUME TimeAssumption ==
    /\ {Lease, SendTicks, StopTicks, InlineWait, KindGap, AddrGap, RetryAfter, MaxRequeues} \subseteq Nat
    /\ Batch \in Nat \ {0}
    /\ MaxAttempts \in Nat \ {0, 1}
    /\ RetryDelay \in [1 .. MaxAttempts - 1 -> Nat]
ASSUME InstanceAssumption ==
    /\ Answers \subseteq AllAnswers
    /\ Faults \subseteq AllFaults
    /\ Prompt \in BOOLEAN

VARIABLES
    outbox,     \* the table; status "absent" before the insert, "gone" after the delete
    open,       \* open[a]: the recipient is there, not blocked, and its channel is on
    kindFree,   \* limiter.nextKind, from now
    addrFree,   \* limiter.nextAddr, from now
    pool,       \* the processes
    stopLeft,   \* what is left of the wait of Worker.Stop
    pc,         \* where each worker is
    claims,     \* the messages of its batch a worker has not begun
    cur,        \* the message it works on
    clock,      \* ticks of the inline wait left, or ticks the send has taken
    answer,     \* what it is about to report
    delivered,  \* history: how often the channel accepted the message (0, 1, "2 or more")
    asked,      \* history: how often the channel was asked since the message was queued
    tried,      \* history: the message was claimed at least once
    before,     \* history: the older messages of the recipient that were there when it came
    requeues    \* bound: how often an administrator queued it again

ghosts == <<delivered, asked, tried, before, requeues>>
workers == <<pc, claims, cur, clock, answer>>
processes == <<pool, stopLeft>>
limiter == <<kindFree, addrFree>>
vars == <<outbox, open, limiter, processes, workers, ghosts>>

Statuses == {"absent", "pending", "sending", "sent", "failed", "cancelled", "gone"}
Ended == {"sent", "failed", "cancelled"}

\* attempts is capped just above MaxAttempts: nothing in the code tells larger numbers apart
AttemptCap == MaxAttempts + 1
Tries == 0 .. AttemptCap

Row == [status : Statuses, attempts : Tries, wait : Nat, holder : Worker \cup {None}, left : Int]
Claim == [msg : Msg, tries : Tries]
\* what a worker reports, and the delay a message is put back with
Answer == [do : {"sent", "failed", "cancelled", "retry", "defer"}, delay : Nat]

NoRow == [status |-> "absent", attempts |-> 0, wait |-> 0, holder |-> None, left |-> 0]
ASSUME NoneAssumption == None \notin Claim

NoAnswer == [do |-> "sent", delay |-> 0]

\* mutant: a difference that is not kept at or above its floor
FirstOf(a, b) == a

Larger(a, b) == IF a > b THEN a ELSE b
Smaller(a, b) == IF a < b THEN a ELSE b

\* the wait after the nth attempt, or the longer one the channel asked for; the last delay serves every later attempt
DelayAfter(n, wanted) == Larger(RetryDelay[Smaller(Larger(n, 1), MaxAttempts - 1)], wanted)

Init ==
    /\ outbox = [m \in Msg |-> NoRow]
    /\ open = [a \in Addr |-> TRUE]
    /\ kindFree = 0
    /\ addrFree = [a \in Addr |-> 0]
    /\ pool = [p \in Pool |-> "new"]
    /\ stopLeft = [p \in Pool |-> 0]
    /\ pc = [w \in Worker |-> "off"]
    /\ claims = [w \in Worker |-> {}]
    /\ cur = [w \in Worker |-> None]
    /\ clock = [w \in Worker |-> 0]
    /\ answer = [w \in Worker |-> NoAnswer]
    /\ delivered = [m \in Msg |-> 0]
    /\ asked = [m \in Msg |-> 0]
    /\ tried = [m \in Msg |-> FALSE]
    /\ before = [m \in Msg |-> {}]
    /\ requeues = [m \in Msg |-> 0]

-----------------------------------------------------------------------------
(* The table *)

Present(m) == outbox[m].status \notin {"absent", "gone"}

Due(m) == outbox[m].status = "pending" /\ outbox[m].wait = 0

\* mutant: only a message being sent holds a newer one back
WaitsForSending(m) == \E n \in Msg : n < m /\ To[n] = To[m] /\ outbox[n].status = "sending"

\* an older message for the same recipient is due or being sent
Waits(m) ==
    \E n \in Msg : /\ n < m
                   /\ To[n] = To[m]
                   /\ outbox[n].status = "sending" \/ Due(n)

Claimable == {m \in Msg : Due(m) /\ ~Waits(m)}

\* ORDER BY priority, id LIMIT n
Ahead(n, m) == Prio[n] < Prio[m] \/ (Prio[n] = Prio[m] /\ n < m)
Claimed(S) == {m \in S : Cardinality({n \in S : Ahead(n, m)}) < Batch}

\* EnqueueOutbox of a new key; one with a key that is there changes nothing.  The id comes from a sequence before the row
\* is visible, so rows may appear out of the order of their ids
Enqueue(m) ==
    /\ outbox[m].status = "absent"
    /\ outbox' = [outbox EXCEPT ![m].status = "pending"]
    /\ before' = [before EXCEPT ![m] = {n \in Msg : n < m /\ To[n] = To[m] /\ Present(n)}]
    /\ UNCHANGED <<open, limiter, processes, workers, delivered, asked, tried, requeues>>

\* mutant: the button also works on a message that was sent
EndedAtAll(m) == outbox[m].status \in Ended

Requeueable(m) == outbox[m].status \in {"failed", "cancelled"}

\* RequeueOutbox, by an administrator
Requeue(m) ==
    /\ Requeueable(m)
    /\ requeues[m] < MaxRequeues
    /\ outbox' = [outbox EXCEPT ![m].status = "pending", ![m].attempts = 0, ![m].wait = 0]
    /\ asked' = [asked EXCEPT ![m] = 0]
    /\ requeues' = [requeues EXCEPT ![m] = @ + 1]
    /\ UNCHANGED <<open, limiter, processes, workers, delivered, tried, before>>

\* PurgeOutbox takes what ended; the cascade from users takes any row of a deleted account
Delete(m) ==
    /\ \/ "purge" \in Faults /\ outbox[m].status \in Ended
       \/ "cascade" \in Faults /\ Present(m)
    /\ outbox' = [outbox EXCEPT ![m] = [NoRow EXCEPT !.status = "gone"]]
    /\ UNCHANGED <<open, limiter, processes, workers, ghosts>>

\* mutant: locked_by is not cleared
StillLocked(row, s) == [row EXCEPT !.status = s]

\* the row as it is when it goes back to the queue or ends: nobody holds it
Unlocked(row, s) == [status |-> s, attempts |-> row.attempts, wait |-> row.wait, holder |-> None, left |-> 0]

\* mutants: the reaper does not look at the lease, or only at the messages of workers that still run
BeingSent(m) == outbox[m].status = "sending"
LapsedOfLiving(m) == BeingSent(m) /\ outbox[m].left < 0 /\ \E w \in Worker : outbox[m].holder = w /\ pc[w] # "off"

Lapsed(m) == outbox[m].status = "sending" /\ outbox[m].left < 0

\* mutant: a message that used all its tries is put back once more
AlwaysAgain(row) == "pending"

AfterLapse(row) == IF row.attempts >= MaxAttempts THEN "failed" ELSE "pending"

\* ReleaseExpiredOutboxLeases, from maintain
Reap ==
    /\ \E p \in Pool : pool[p] = "up"
    /\ \E m \in Msg : Lapsed(m)
    /\ outbox' = [m \in Msg |-> IF Lapsed(m) THEN Unlocked(outbox[m], AfterLapse(outbox[m])) ELSE outbox[m]]
    /\ UNCHANGED <<open, limiter, processes, workers, ghosts>>

\* ReleaseWorkerOutbox for each worker of W
Released(W) ==
    [m \in Msg |-> IF outbox[m].status = "sending" /\ outbox[m].holder \in W
                   THEN Unlocked(outbox[m], "pending")
                   ELSE outbox[m]]

-----------------------------------------------------------------------------
(* A worker *)

Alive(w) == pc[w] \notin {"off", "orphan"}
Stopping(w) == pool[PoolOf[w]] = "stopping"

TryNumber(m) == Smaller(outbox[m].attempts + 1, AttemptCap)

\* the claim of a worker with nothing in hand.  It may have looked at stop just before stop was closed
ClaimOutbox(w) ==
    /\ pc[w] = "free"
    /\ claims[w] = {}
    /\ Claimable # {}
    /\ LET C == Claimed(Claimable) IN
         /\ outbox' = [m \in Msg |->
                IF m \in C
                THEN [status |-> "sending", attempts |-> TryNumber(m), wait |-> 0, holder |-> w, left |-> Lease]
                ELSE outbox[m]]
         /\ claims' = [claims EXCEPT ![w] = {[msg |-> m, tries |-> TryNumber(m)] : m \in C}]
         /\ tried' = [m \in Msg |-> tried[m] \/ m \in C]
    /\ UNCHANGED <<open, limiter, processes, pc, cur, clock, answer, delivered, asked, before, requeues>>

\* what process finds out before it may ask the channel: worker w will report a
Conclude(w, a) ==
    /\ pc' = [pc EXCEPT ![w] = "report"]
    /\ answer' = [answer EXCEPT ![w] = a]
    /\ UNCHANGED <<limiter, clock, asked>>

\* limiter.reserve: how far ahead the next free moment to send to address a is
ReserveWait(a) == Larger(kindFree, addrFree[a])

Reserve(a) ==
    /\ kindFree' = ReserveWait(a) + KindGap
    /\ addrFree' = [addrFree EXCEPT ![a] = ReserveWait(a) + AddrGap]

\* the channel is asked: nothing of the worker happens until it answers or the timeout ends it
StartSend(w, m) ==
    /\ pc' = [pc EXCEPT ![w] = "send"]
    /\ clock' = [clock EXCEPT ![w] = 0]
    /\ asked' = [asked EXCEPT ![m] = Smaller(@ + 1, AttemptCap)]

\* process, up to the send.  A claim returns its rows in no order, so the next message is any of the batch
Look(w, c) ==
    /\ pc[w] = "free"
    /\ ~Stopping(w)
    /\ c \in claims[w]
    /\ claims' = [claims EXCEPT ![w] = @ \ {c}]
    /\ cur' = [cur EXCEPT ![w] = c]
    /\ LET a == To[c.msg] IN
         \/ /\ "read" \in Faults
            /\ Conclude(w, [do |-> "retry", delay |-> DelayAfter(c.tries, 0)])
         \/ /\ ~open[a]
            /\ Conclude(w, [do |-> "cancelled", delay |-> 0])
         \/ /\ open[a] /\ "notext" \in Faults
            /\ Conclude(w, [do |-> "failed", delay |-> 0])
         \/ /\ open[a]
            /\ Reserve(a)
            /\ \/ /\ ReserveWait(a) > InlineWait
                  /\ pc' = [pc EXCEPT ![w] = "report"]
                  /\ answer' = [answer EXCEPT ![w] = [do |-> "defer", delay |-> ReserveWait(a)]]
                  /\ UNCHANGED <<clock, asked>>
               \/ /\ ReserveWait(a) \in 1 .. InlineWait
                  /\ pc' = [pc EXCEPT ![w] = "wait"]
                  /\ clock' = [clock EXCEPT ![w] = ReserveWait(a)]
                  /\ UNCHANGED <<answer, asked>>
               \/ /\ ReserveWait(a) = 0
                  /\ StartSend(w, c.msg)
                  /\ UNCHANGED answer
    /\ UNCHANGED <<outbox, open, processes, delivered, tried, before, requeues>>

\* the end of the inline wait: its time is over, or the process is stopping
Waited(w) ==
    /\ pc[w] = "wait"
    /\ \/ /\ clock[w] = 0
          /\ StartSend(w, cur[w].msg)
          /\ UNCHANGED answer
       \/ /\ Stopping(w)
          /\ pc' = [pc EXCEPT ![w] = "report"]
          /\ answer' = [answer EXCEPT ![w] = [do |-> "defer", delay |-> 0]]
          /\ UNCHANGED <<clock, asked>>
    /\ UNCHANGED <<outbox, open, limiter, processes, claims, cur, delivered, tried, before, requeues>>

\* mutant: the last try of a temporary failure is called sent
CallsItSent(r, tries) ==
    IF r \in {"ok", "lost", "temporary"} /\ tries >= MaxAttempts THEN [do |-> "sent", delay |-> 0]
    ELSE [do |-> IF r = "ok" THEN "sent" ELSE "retry", delay |-> 0]
\* mutant: whatever the channel answered is taken as a temporary failure
RetriesAll(r, tries) == IF tries < MaxAttempts THEN [do |-> "retry", delay |-> 0] ELSE [do |-> "failed", delay |-> 0]

\* what a worker reports after the answer r of the channel to the try number tries
Verdict(r, tries) ==
    CASE r = "ok" -> [do |-> "sent", delay |-> 0]
      [] r \in {"lost", "temporary"} /\ tries < MaxAttempts -> [do |-> "retry", delay |-> DelayAfter(tries, 0)]
      [] r = "busy" /\ tries < MaxAttempts -> [do |-> "retry", delay |-> DelayAfter(tries, RetryAfter)]
      [] OTHER -> [do |-> "failed", delay |-> 0]

Accepts(m) == delivered' = [delivered EXCEPT ![m] = Smaller(@ + 1, 2)]

\* the answer of the channel; "lost" is one the channel accepted and the worker saw time out
Answered(w, r) ==
    /\ pc[w] = "send"
    /\ r \in Answers
    /\ pc' = [pc EXCEPT ![w] = "report"]
    /\ answer' = [answer EXCEPT ![w] = Verdict(r, cur[w].tries)]
    /\ IF r \in {"ok", "lost"} THEN Accepts(cur[w].msg) ELSE UNCHANGED delivered
    /\ open' = IF r = "blocked" THEN [open EXCEPT ![To[cur[w].msg]] = FALSE] ELSE open
    /\ UNCHANGED <<outbox, limiter, processes, claims, cur, clock, asked, tried, before, requeues>>

\* the guard of finishOutbox: only the worker that still holds the message moves it
Holds(w, m) == outbox[m].status = "sending" /\ outbox[m].holder = w

\* mutant: a deferred message keeps the try it did not make
CountsTheWait(row, a) ==
    IF a.do \in {"retry", "defer"} THEN [Unlocked(row, "pending") EXCEPT !.wait = a.delay] ELSE Unlocked(row, a.do)

\* the row after CompleteOutbox, StopOutbox, RetryOutbox or DeferOutbox
Finished(row, a) ==
    CASE a.do = "retry" -> [Unlocked(row, "pending") EXCEPT !.wait = a.delay]
      [] a.do = "defer" -> [Unlocked(row, "pending") EXCEPT !.wait = a.delay, !.attempts = Larger(@ - 1, 0)]
      [] OTHER -> Unlocked(row, a.do)

\* the report of a worker, which goes on with its batch whatever came of it; with a failed statement the row stays held
Report(w) ==
    /\ pc[w] = "report"
    /\ LET m == cur[w].msg IN
         \/ /\ Holds(w, m)
            /\ outbox' = [outbox EXCEPT ![m] = Finished(@, answer[w])]
         \/ /\ ~Holds(w, m) \/ "report" \in Faults
            /\ UNCHANGED outbox
    /\ pc' = [pc EXCEPT ![w] = "free"]
    /\ cur' = [cur EXCEPT ![w] = None]
    /\ clock' = [clock EXCEPT ![w] = 0]
    /\ answer' = [answer EXCEPT ![w] = NoAnswer]
    /\ UNCHANGED <<open, limiter, processes, claims, ghosts>>

\* a worker that sees stop gives back what it holds, if it has messages left, and ends
Quit(w) ==
    /\ pc[w] = "free"
    /\ Stopping(w)
    /\ outbox' = IF claims[w] = {} THEN outbox ELSE Released({w})
    /\ claims' = [claims EXCEPT ![w] = {}]
    /\ pc' = [pc EXCEPT ![w] = "off"]
    /\ UNCHANGED <<open, limiter, processes, cur, clock, answer, ghosts>>

-----------------------------------------------------------------------------
(* The process *)

\* Service.Start of a new process, once no other runs; its limiter is empty
Start(p) ==
    /\ pool[p] = "new"
    /\ \A q \in Pool : pool[q] \in {"new", "gone"}
    /\ pool' = [pool EXCEPT ![p] = "up"]
    /\ pc' = [w \in Worker |-> IF PoolOf[w] = p THEN "free" ELSE pc[w]]
    /\ kindFree' = 0
    /\ addrFree' = [a \in Addr |-> 0]
    /\ UNCHANGED <<outbox, open, stopLeft, claims, cur, clock, answer, ghosts>>

\* Worker.Stop closes stop and begins to wait
Stop(p) ==
    /\ "stop" \in Faults /\ p \in Mortal
    /\ pool[p] = "up"
    /\ pool' = [pool EXCEPT ![p] = "stopping"]
    /\ stopLeft' = [stopLeft EXCEPT ![p] = StopTicks]
    /\ UNCHANGED <<outbox, open, limiter, workers, ghosts>>

\* the workers of a process that ends.  A request that is on its way to the channel outlives its worker
Ends(p) ==
    LET Gone == {w \in Worker : PoolOf[w] = p /\ pc[w] # "orphan"}
        Asking == {w \in Gone : pc[w] = "send"}
    IN /\ pool' = [pool EXCEPT ![p] = "gone"]
       /\ stopLeft' = [stopLeft EXCEPT ![p] = 0]
       /\ pc' = [w \in Worker |-> IF w \in Asking THEN "orphan" ELSE IF w \in Gone THEN "off" ELSE pc[w]]
       /\ cur' = [w \in Worker |-> IF w \in Gone \ Asking THEN None ELSE cur[w]]
       /\ claims' = [w \in Worker |-> IF w \in Gone THEN {} ELSE claims[w]]
       /\ clock' = [w \in Worker |-> IF w \in Gone THEN 0 ELSE clock[w]]
       /\ answer' = [w \in Worker |-> IF w \in Gone THEN NoAnswer ELSE answer[w]]
       /\ UNCHANGED <<open, limiter, ghosts>>

\* the end of Worker.Stop: every worker is done or the wait is over; the database is closed and the process exits
StopEnd(p) ==
    /\ pool[p] = "stopping"
    /\ stopLeft[p] = 0 \/ \A w \in Worker : PoolOf[w] = p => pc[w] = "off"
    /\ outbox' = Released({w \in Worker : PoolOf[w] = p})
    /\ Ends(p)

Crash(p) ==
    /\ "crash" \in Faults /\ p \in Mortal
    /\ pool[p] \in {"up", "stopping"}
    /\ Ends(p)
    /\ UNCHANGED outbox

\* a request whose worker is gone is accepted by the channel, or it never arrives
Orphan(w) ==
    /\ pc[w] = "orphan"
    /\ pc' = [pc EXCEPT ![w] = "off"]
    /\ cur' = [cur EXCEPT ![w] = None]
    /\ Accepts(cur[w].msg) \/ UNCHANGED delivered
    /\ UNCHANGED <<outbox, open, limiter, processes, claims, clock, answer, asked, tried, before, requeues>>

\* the recipient or the channel is switched off or on
Switch(a) ==
    /\ "switch" \in Faults
    /\ open' = [open EXCEPT ![a] = ~@]
    /\ UNCHANGED <<outbox, limiter, processes, workers, ghosts>>

\* a worker that must take a step before time goes on, when its local steps are prompt and its timeouts are kept
MustMove(w) ==
    \/ pc[w] = "free" /\ claims[w] # {}
    \/ pc[w] = "wait" /\ (clock[w] = 0 \/ Stopping(w))
    \/ pc[w] = "send" /\ clock[w] >= SendTicks
    \/ pc[w] = "report"

Tick ==
    /\ Prompt => \A w \in Worker : ~MustMove(w)
    /\ outbox' = [m \in Msg |->
           [outbox[m] EXCEPT !.wait = Larger(@ - 1, 0),
                             !.left = IF outbox[m].status = "sending" THEN Larger(@ - 1, -1) ELSE @]]
    /\ kindFree' = Larger(kindFree - 1, 0)
    /\ addrFree' = [a \in Addr |-> Larger(addrFree[a] - 1, 0)]
    /\ stopLeft' = [p \in Pool |-> Larger(stopLeft[p] - 1, 0)]
    /\ clock' = [w \in Worker |-> CASE pc[w] = "wait" -> Larger(clock[w] - 1, 0)
                                    [] pc[w] = "send" -> Smaller(clock[w] + 1, SendTicks)
                                    [] OTHER -> clock[w]]
    /\ UNCHANGED <<open, pool, pc, claims, cur, answer, ghosts>>

WorkerStep(w) ==
    \/ \E c \in claims[w] : Look(w, c)
    \/ Waited(w)
    \/ \E r \in Answers : Answered(w, r)
    \/ Report(w)
    \/ Quit(w)

Next ==
    \/ \E m \in Msg : Enqueue(m) \/ Requeue(m) \/ Delete(m)
    \/ Reap
    \/ \E w \in Worker : ClaimOutbox(w) \/ WorkerStep(w) \/ Orphan(w)
    \/ \E p \in Pool : Start(p) \/ Stop(p) \/ StopEnd(p) \/ Crash(p)
    \/ \E a \in Addr : Switch(a)
    \/ Tick

Spec == Init /\ [][Next]_vars

\* the scheduler runs every goroutine that can run, the tickers of sweep and reap fire again and again, time goes on, and
\* the service manager starts the next process
Fairness ==
    /\ WF_vars(Reap)
    /\ WF_vars(Tick)
    /\ \A w \in Worker : WF_vars(ClaimOutbox(w)) /\ WF_vars(WorkerStep(w))
    /\ \A p \in Pool : WF_vars(Start(p)) /\ WF_vars(StopEnd(p))

FairSpec == Spec /\ Fairness

-----------------------------------------------------------------------------
(* Properties *)

InHand(w) == claims[w] \cup (IF cur[w] = None THEN {} ELSE {cur[w]})

\* The types of the variables; and a worker has a message in work exactly in the places where process runs
TypeOK ==
    /\ outbox \in [Msg -> Row]
    /\ open \in [Addr -> BOOLEAN]
    /\ kindFree \in Nat /\ addrFree \in [Addr -> Nat]
    /\ pool \in [Pool -> {"new", "up", "stopping", "gone"}]
    /\ stopLeft \in [Pool -> Nat]
    /\ pc \in [Worker -> {"off", "free", "wait", "send", "report", "orphan"}]
    /\ claims \in [Worker -> SUBSET Claim]
    /\ cur \in [Worker -> Claim \cup {None}]
    /\ clock \in [Worker -> Nat]
    /\ answer \in [Worker -> Answer]
    /\ delivered \in [Msg -> 0 .. 2]
    /\ asked \in [Msg -> Tries]
    /\ tried \in [Msg -> BOOLEAN]
    /\ before \in [Msg -> SUBSET Msg]
    /\ requeues \in [Msg -> Nat]

\* A message has a holder exactly while it is being sent, and the number of the try its holder carries along from the claim
\* (msg.Attempts, which decides between another try and "gave up") is still the one in the table, however late it is used
HolderKnowsTheTry ==
    /\ \A m \in Msg : outbox[m].status = "sending" <=> outbox[m].holder # None
    /\ \A w \in Worker : Alive(w) =>
         \A c \in InHand(w) : Holds(w, c.msg) => outbox[c.msg].attempts = c.tries

\* What a recipient is sent is first tried in the order it was queued: no message is tried before an older one for the same
\* recipient that was there when it came (ClaimOutbox, "which keeps the order of what a recipient gets")
TriedInOrder ==
    \A m \in Msg : tried[m] => \A n \in before[m] : tried[n] \/ outbox[n].status = "gone"

\* The channel accepts a message at most once, whatever the workers, the retries and the reaper do (where no process dies,
\* no answer is lost and a batch is sent within its lease)
NoDoubleSend == \A m \in Msg : delivered[m] <= 1

\* The channel is asked for a message at most MaxAttempts times before it is failed, also when workers die with it
\* (ReleaseExpiredOutboxLeases and the last branches of process)
AskedWithinTries == \A m \in Msg : asked[m] <= MaxAttempts

\* A try is counted exactly when the channel was asked: waiting for the rate limit does not use one up (DeferOutbox)
TriesAreAsks == \A m \in Msg : outbox[m].status = "pending" => outbox[m].attempts = asked[m]

\* A message leaves a worker that is not gone only by what this worker reports (worker.go, the comment on leaseTime)
TakenOnlyFromTheGone ==
    [][\A m \in Msg, w \in Worker :
         Holds(w, m) /\ ~Holds(w, m)' /\ Alive(w) /\ outbox'[m].status # "gone"
           => pc[w] = "report" /\ pc'[w] = "free" /\ cur[w].msg = m]_vars

\* Every message that is queued is ended at last
EveryMessageEnds ==
    \A m \in Msg : (outbox[m].status \in {"pending", "sending"}) ~> (outbox[m].status \in Ended \cup {"gone"})

\* What makes these inductive.  A worker has a message in work exactly in the places where process runs, a batch only
\* while it runs at all, and does not run before its process
InWork ==
    \A w \in Worker : /\ pc[w] \in {"off", "free"} <=> cur[w] = None
                      /\ pc[w] \in {"off", "orphan"} => claims[w] = {}
                      /\ pool[PoolOf[w]] = "new" => pc[w] = "off"

\* A row that nobody claimed yet is as it was inserted, and a message in work or counted as older was inserted
Untouched ==
    /\ \A m \in Msg : Present(m) /\ ~tried[m] => Due(m)
    /\ \A m \in Msg : outbox[m].status = "absent" => outbox[m] = NoRow /\ ~tried[m]
    /\ \A m \in Msg : \A n \in before[m] : n < m /\ To[n] = To[m] /\ outbox[n].status # "absent"
    /\ \A w \in Worker : \A c \in InHand(w) : outbox[c.msg].status # "absent"

\* A worker that is about to report a message as sent has had it accepted
AboutToConfirm ==
    \A w \in Worker : pc[w] = "report" /\ answer[w].do = "sent" => delivered[cur[w].msg] > 0

\* How far a message has come, for those who queued it
StageOf(s) ==
    CASE s = "absent" -> "none"
      [] s \in {"pending", "sending"} -> "queued"
      [] s = "sent" -> "sent"
      [] s \in {"failed", "cancelled"} -> "dropped"
      [] OTHER -> "gone"

Stage == [m \in Msg |-> StageOf(outbox[m].status)]

\* What the outbox promises to the rest of the panel
Promise == INSTANCE NoticePromise WITH stage <- Stage

\* The outbox implements that promise
KeepsThePromise == Promise!Spec
=============================================================================
