# Formal models of y-panel (Reneo)

y-panel is a hosting panel: a Go agent (`src/cmd/panel-agent`, `src/internal`) with a PostgreSQL
database, and a browser desktop (`src/src`). This directory holds TLA+ models of the parts of the agent
and of the desktop where several things happen at once, the TLC configurations that check them on small instances, and
proofs that the TLAPS proof system checks for every instance.

## 1. Inventory

State, operations and hard behaviours of each part. "DB" is the panel's PostgreSQL; every statement on it
is atomic, and almost nothing in the agent runs more than one statement in a transaction.

| Part | State | Operations | How it interacts | What is hard | What makes it correct |
| :--- | :--- | :--- | :--- | :--- | :--- |
| Notification outbox (`internal/notify/worker.go`, `internal/database/notify.go`) | table `notification_outbox`; worker goroutines; rate limiter in memory | enqueue, claim, send, complete, retry, defer, stop, reap leases, release, requeue, purge | every part enqueues; workers call Telegram, WAHA, Meta | leases against slow sends, crash and restart between claim and report, stop with a time limit, limiter against queue | at least once and almost always once; order per recipient; every message ends; a bounded number of tries |
| Notification service and detectors (`internal/notify/service*.go`, `detect*.go`) | recipients, channels, link codes, thresholds in memory | emit, link, verify, opt out, provider status | feeds the outbox; inbound webhooks of the channels | early and reordered status reports, parallel verification tries | status never goes back; one alarm per crossing |
| Hosting orders, vouchers and plans (`internal/httpserver/hosting_orders.go`, `hosting_trials.go`, `handlers_hosting.go`, `internal/database/hosting*.go`) | tables `hosting_orders`, `hosting_vouchers`, `user_plans`, `users` | order, renew, match a bank notification, confirm, cancel, expire, fulfil, start and end trials, suspend | webhook of the listener phone; admin; buyer; expiry loop | the same order closed from four sides; read-modify-write of an end date; crash between "paid" and "switched on" | an order closes once; a payment gives its periods exactly once; a voucher is not used too often; a waiting total belongs to one order |
| Payment transactions and listener devices (`handlers_payment.go`, `database/payment_transactions.go`) | tables of transactions, captured notifications, devices | capture, match, mark paid | the same webhook as the orders | one notification offered to two consumers; a match read and committed in two statements | one transfer pays one thing |
| Prices (`hosting_pricing.go`, `hosting_upgrade.go`) | none | price, discount, promo, upgrade difference | orders | rounding, zero, order of discounts | never negative, never above the list price |
| Subdomains, domains and routes (`hosting_sync.go`, ...) | tables, Cloudflare DNS, tunnel, caches in memory | sync, create, release | Cloudflare API | partial failure, caches that outlive what they describe | the records at Cloudflare follow the table |
| User databases and remote access (`internal/userdb`, `handlers_database*.go`) | table, containers, firewall chains | create, start, stop, delete, upgrade, open and close access, watch, restore | Docker, iptables | rows read before a lock, rollback of half a change, chain flushed and refilled | a chain never lets in what the row forbids |
| Project supervisor (`internal/projects`) | map of child processes, markers on disk | start, stop, watch, restart with back-off | ports, proxy | stop while it restarts, a process that dies while it is stopped | one process per project; a stopped project stays stopped |
| Terminal sessions (`internal/terminal`, `handlers_terminal.go`, `src/src/hooks/useTerminalSession.ts`) | in the agent a map of sessions, each with a buffer, the callbacks of one websocket and its generation; in the tab refs for session, socket, epoch, attempts, pending keys | start, attach, detach, deliver, flush, write, close, reap; connect, reconnect, kick, watchdog, unmount | the websocket between tab and agent; start and close requests beside it; the shell process | take-over by a newer socket while the old one ends, output while the buffer is replayed, keys typed while the link is down, requests and restarts at any point | keys reach the shell they were typed for, once; output is of one shell and without repetition; reconnecting and leftover shells end |
| Widgets and notes (`src/src/hooks/useWidgetSync.ts`, `widgetStore.ts`, `authStore.ts`, `handlers_widgets.go`) | widget store in `localStorage` with an owner key and a mark of unsent edits; one flag per opening of the desktop; a copy per account in the DB | take the copy over, edit, push after a delay or when hidden, clean up, sign in and out, expire | two requests; the session of the browser; the interceptor of the API client | several accounts in one browser, pushes that fail, overtake or are refused when the session has ended | an account keeps to its own widgets; an edit the server lacks is not forgotten |
| Accounts, sessions, roles, rate limits (`internal/auth`, `middleware.go`) | users, sessions, counters in memory | sign in, sign out, refresh, limit | every request | counters at their limit, revocation against use | a revoked session opens nothing |
| Migrations, updater, Docker, proxy, Cloudflare daemon, MCP, files, firewall, email, host services, browser desktop, installer | see `PROJECT.json`, components | | | mostly I/O and other programs | |

The hazards of this code, each at its line and with the properties that would catch it going wrong, are
listed in `PROJECT.json` under `hazards`.

## 2. Plan

Done:

1. `NotifyOutbox`, its abstract specification `NoticePromise`, `MCNotifyOutbox`, `NotifyOutboxProofs`
   (section 3).
2. `HostingOrders`, its abstract specification `OrderPromise`, `MCHostingOrders`, `HostingOrdersProofs`,
   `HostingVouchersProofs` and `HostingAccountsProofs` (section 4).
3. `TerminalSession`, `MCTerminalSession`, `TerminalSessionProofs` and `TerminalScreenProofs` (section 5): the
   tab, the agent and the websockets between them in one module.
4. `WidgetSync`, `MCWidgetSync`, `WidgetSyncProofs` (section 6): browser, session and server in one module.

Open, in this order:

5. `AccountPlans`: the rows of `user_plans` and `users` that an order, a trial, `expirePlans` and
   `handleSetUserPlan` change, each split at its statements. Properties: an extension that was paid is never
   lost (the end of the plan is read, added to in memory and written), an account whose plan runs is not
   left suspended, a suspension by hand is not lifted by a renewal, the quota is the one of the plan.
   Abstract specification: an account has bought an amount of time, and is on until it is used up.
   Composition: `HostingOrders` gives a plan in one step, `AccountPlans` is what that step stands for.
6. Payment transactions with `HostingOrders`: one bank notification is offered to both; one transfer pays
   one thing.
7. `DatabaseAccess`: the row, the container and the firewall chain; a chain lets in nothing the row
   forbids.
8. `ProjectSupervisor`: one process per project, a stopped project stays stopped.
9. Provider status of messages, migrations runner, updater, container update, rate limiter, and the windows
   of the desktop.

## 3. The notification outbox

`NotifyOutbox.tla` models the table, the workers and the process around them.

| Model | Code |
| :--- | :--- |
| `outbox[m]`: `status`, `attempts`, `wait`, `holder`, `left` | row `m` of `notification_outbox`: `status`, `attempts`, `next_attempt_at`, `locked_by`, `locked_until` (the last two times as ticks from now) |
| `pc`, `claims`, `cur`, `clock`, `answer` | the place of a goroutine in `Worker.run` and `process`, its batch, its message, its timer, and what it will report |
| `kindFree`, `addrFree` | `limiter.nextKind`, `limiter.nextAddr` of one kind of channel |
| `pool`, `stopLeft` | the life of the agent process and the ten seconds of `Worker.Stop` |
| `open[a]` | all that `process` looks at before it sends: recipient there, not blocked, channel on |
| `Enqueue`, `Requeue`, `Delete`, `Reap`, `ClaimOutbox` | one SQL statement each |
| `Look`, `Waited`, `Answered`, `Report`, `Quit` | `process` and `run`, cut where another goroutine may come between: at the limiter, at the call of the channel and at the report |
| `Start`, `Stop`, `StopEnd`, `Crash`, `Orphan` | `Service.Start/Stop`, `Server.Close`, the death of the process, and a request that outlives it |
| `Tick` | time |

A batch comes back from the database in no order, so `Look` takes any message of it. The id of a row
comes from a sequence before the row is visible, so rows may appear out of order of their ids. With
`Prompt = FALSE` a worker may stop anywhere for any time (a slow machine, a slow database); with
`Prompt = TRUE` its local steps take no time and a send ends by its timeout, which is what the code's
constants rely on.

`NoticePromise.tla` says what the rest of the panel may rely on: a message is confirmed only after the
channel accepted it, what is sent stays sent, only a dropped message is queued again. `delivered` may
exceed one there: the documented guarantee is "at least once".

### What the runs show

| Run | Question | Result |
| :--- | :--- | :--- |
| `outbox_core` | two messages of one recipient, crash and restart, stop, settings that cannot be read, workers that hang past their lease: types, the holder knows the number of its try, order of first tries, the promise | holds |
| `outbox_crash` | one crash, lost answers and lost reports, and address gaps no longer than `maxInlineWait` (Telegram): tries bounded, the promise, every message ends | holds |
| `outbox_deferred` | deferrals by the limiter, busy channels, recipients switched off, rows requeued, purged and deleted under the worker, a batch sent within its lease: a try is counted exactly when the channel was asked, no double send, nothing taken from a live worker, the promise | holds |
| `outbox_whatsapp` | the limiter with WAHA's gap of 4 s, above `maxInlineWait` of 2 s | a message is deferred forever |

The last one contradicts a comment of the code; `PROJECT.json` quotes it under `findings`.

### Bounds

`TryNumber` and `asked` stop counting at `MaxAttempts + 1`, above which the code distinguishes nothing;
`delivered` stops at 2 ("more than once"). Times are distances, so they need no bound. `MaxRequeues`
bounds how often one message is requeued by hand. Instances have two messages of one recipient, one to
three workers and one or two processes: two messages of one recipient and two workers are what the order and the lease need, a third
worker in a second process is what restart needs, and batches of two are what makes a lease too short.

### Fairness

`FairSpec` asks that a goroutine that can run is run (`ClaimOutbox`, `WorkerStep`: the Go scheduler, and
`sendTimeout` ends every send), that the tickers of `maintain` and `sweepEvery` fire (`Reap`), that time
goes on (`Tick`), and that the service manager starts the agent again (`Start`, `StopEnd`). Nothing is
asked of channels beyond answering or timing out, of administrators, or of crashes.

### What is proved

`NotifyOutboxProofs.tla`, for every set of messages, recipients, workers and processes, every timing and
every choice of faults, from the assumptions on the constants only:

- `Types`, `TryNumbers`, `FirstTries`: `Spec => []TypeOK`, `[]HolderKnowsTheTry`, `[]TriedInOrder`.
- `Implements`: `Spec => KeepsThePromise`, the outbox implements `NoticePromise`.

The invariant is `IInv`. `TypeOK` needs `InWork` (a worker in the middle of `process` has a message, a
worker that is off has none) because the actions use `cur[w].msg`. `HolderKnowsTheTry` is inductive over
these two: a claim writes the same number into the row and into the batch, and everything else that
changes the number of a row takes its holder away. `TriedInOrder` needs `Untouched`: a row that was never
claimed is still due, because only workers put rows off, so an older one that is not due was claimed
before. `Implements` needs `AboutToConfirm` (a worker that will report "sent" got the answer "ok") and the
part of `Untouched` that says a message in hand was inserted. One lemma per part (`TypeStep`,
`HolderStep`, `OrderStep`, `ConfirmStep`) goes through the actions; `PromiseStep` maps each action to a
step of the promise or to none.

`NotifySendProofs.tla` proves what depends on time and on counting. Each theorem names what it assumes, because
without it the code does not do it:

| Theorem | Property | Assumes |
| :--- | :--- | :--- |
| `InHandInTime` | the hand of a worker is its own for as long as it needs | `Timely` |
| `OnlyFromTheGone` | `TakenOnlyFromTheGone` | `Timely`; no orderly stop, no lost report |
| `SendOnce` | `NoDoubleSend` | `Timely`; no process ends, no lost report, no answer "lost" |
| `AskedOften` | `asked[m] <= MaxAttempts` until `m` is requeued | no orderly stop; any timing, crashes, failed reads, lost reports |
| `AskedInTries` | `AskedWithinTries` | the same, and no requeue by hand |
| `DeferredKeepsTheTry` | `TriesAreAsks` | `Timely`; no process ends, no failed read, no lost report |

`Timely` is `Prompt` (local steps take no noticeable time) and `Spend(Batch) <= Lease`: the lease outlasts the
inline wait and the timeout of every message of a batch. The times of `worker.go` meet it for batches of up to
three messages (51 s of 60 s) and not for its own `claimBatch` of five (85 s), see section 7; the comment there
speaks of one send. The faults that are excluded are real ones, and each breaks its property: an orderly stop
releases what is still being sent, the message in its last try too (section 7); a crash or a failed statement
between the answer and the report leads to a second send; a crash or a failed read uses up a try for which the
channel was not asked.

The invariant behind `Timely` is `HandInv`: each message in the hand of a running worker was deleted or is held
by it with a lease of at least `Need(w)`, the time the worker may still take for all it has (`InTime`); no
message is in two hands (`HandOnce`); hands are no larger than a batch (`Small`, which rests on
`ClaimedFew`, a lemma about `LIMIT n` in the order of priority and id). Time takes one from the lease and one
from the need; a worker that must move stops time. `HeldInHand` adds that what a running worker holds is in
its hand, so the reaper finds nothing of it. `SentOnce` then says which messages can have been accepted, and
`CountInv` relates `asked` to the number of the try at each place of `process`.

`Budget` needs no time at all. The tries of a message that were claimed and not made yet have different numbers
up to the one in its row (`WillAsk`), belong to one worker each (`OneEach`), and together with the requests made
(`Asks`) they are no more than that number and no more than `MaxAttempts`. It counts also the tries of workers
whose lease ran out and who do not know it yet. A failed read puts a message back without a look at its tries,
so the number in the row may pass `MaxAttempts`; but such a read was a try without a request, so while a message
may be claimed again (`Reopens`) one request is still left. `LastHeld` closes the argument: a try numbered
`MaxAttempts` or more is made by whoever holds the message or when it has ended, since the reaper fails it.

Only model-checked: the liveness properties (TLAPS cannot do `ENABLED`).

### Not modelled

Texts and templates; the wake-up channel (a claim may happen at any time, which allows what `Wake` and
the ticker cause and more; that they do come is the fairness of `ClaimOutbox`); priorities beyond two;
idempotency keys (an insert of a known key changes nothing); the `provider_id` and the status reports of
the channels.

## 4. Hosting orders

`HostingOrders.tla` models the orders, the accounts made with them, the bank notifications that pay them,
and the loop that lets them expire.

| Model | Code |
| :--- | :--- |
| `order[o]`: `status`, `kind`, `total`, `voucher`, `user`, `left` | a row of `hosting_orders`; `left` is the time to `expires_at` |
| `account[a]` | `users.status` of a buyer: none, active, pending, gone |
| `thread[p]`, `at` | a request (or the expiry loop, `Loop`) and the statement it comes to next; the other fields are what it holds in memory: the order, the account it read, whether that was pending |
| `expired` | the result of `ExpireHostingOrders` the loop still walks through |
| `voucherMu` | `Server.voucherMu` |
| `SignUp`, `Provision` | `handlePublicCreateOrder`: `auth.CreateUser`, then the status set to pending |
| `Renew`, `Claim`, `Insert`, `InsertFails` | `handleRenewMyPlan`, `claimVoucher`, `CreateHostingOrder`, and what follows when it fails |
| `Arrive`, `Match`, `Review` | the webhook stores the notification; `matchHostingOrderPayment` |
| `Confirm`, `Close`, `Find`, `Apply`, `Activate`, `AlertSeller` | `handleConfirmOrder`, `MarkOrderPaid`, and the rest of `fulfillOrder` |
| `Cancel`, `Expire`, `NextExpired`, `Drop`, `Others`, `Unlist`, `Remove` | `handleCancelOrder`, `expireOrders`, `dropUnpaidAccount`, and the two statements of `DeleteUser` |
| `DeleteByHand` | `handleDeleteUser` |
| `Fail`, `NotProvisioned`, `Crash` | a statement that returns an error, an OS account that cannot be made, the death of the process |

Each thread stands for one request or the loop, and one step of it for what it does up to and including its
next database statement: requests run in goroutines of their own and almost nothing is in a transaction, so
everything may happen in between. A handler that reads and then writes in two statements is two steps, with
the read kept in `thread`. What the code holds across statements is only `voucherMu`, from the count in
`claimVoucher` until the insert.

`given`, `told`, `arrived` and `paidBy` are history: how often a plan was given, what the seller was told,
how often a transfer was reported, and which transfer closed an order. No step depends on them but `OnPlan`
(an account is on a plan when it was given one) and the bound `arrived < Deliveries`.

`OrderPromise.tla` says what buyers and the seller rely on: an order is closed once, as paid or unpaid, and
what it buys is given at most once, only after it was paid.

### What the runs show

| Run | Question | Result |
| :--- | :--- | :--- |
| `orders_core` | two requests and the loop on two orders, one total, one use of a voucher, a member and a buyer, deletions by the expiry loop, one crash or failed statement: types, the voucher is held once, no paid account is dropped, a transfer in time closes its own order, the promise | holds |
| `orders_ends` | no fault, payments that ask for a review, late and repeated notifications, deletions: every waiting order ends, no unpaid account stays, what is paid is switched on or reported, the promise | holds |
| `orders_fault` | a crash or a failed statement behind `MarkOrderPaid` | a paid order is never switched on |

The last one contradicts a comment of the code, quoted under `findings`.

### Bounds

`MaxOrders` bounds the orders that are ever made (`Room` keeps more requests from beginning one than there
are rows left, so that no request is stuck by the bound); `OrderLife` 1 is enough for an order to be in time,
out of time, and expired. One total is enough, and hardest: it must be given again for the next order.
`Deliveries` bounds how often the notification of one transfer arrives, `MaxFaults` how many crashes and
failed statements a run has. Two requests and the loop are three actors, which is what each race here needs:
two that close an order and one that drops its account. `VoucherUses` 0 means that no voucher is offered.
`SYMMETRY` is used in `orders_core`, over what the model treats alike; it has no liveness property.
Deadlock is not checked for the orders: when all orders are made and closed, a panel has nothing
left to do.

### Fairness

`FairSpec` asks that a request that was begun goes on (`GoOn`, the Go scheduler), that the loop comes round
(`LoopStep`, the ticker of `runPlanExpiryLoop`), and that time passes. Nobody has to pay, confirm or cancel.
Without faults that is enough for all three liveness properties of `orders_ends`; with faults
`PaidIsSwitchedOn` fails, which is `orders_fault`.

### What is proved

For any number of orders, accounts, requests and totals and any number of faults:

- `HostingOrdersProofs`: `Types` (`TypeOK`), `Once` (a plan is given at most once, for a paid order),
  `Implements` (the orders implement `OrderPromise`), `OwnTotal` (no order is closed by a transfer of another
  total, however late transfers come) and `OwnTransfer` (`EachPaysItsOwn`, when no transfer comes late:
  `LateTransfers = FALSE`, as in the run that checks it).
- `HostingVouchersProofs`: `Voucher` (`VoucherWithinLimit`).
- `HostingAccountsProofs`: `PaidStays` (`PaidAccountStays`).

The invariant `IInv` has, besides the types: `Targeted` (a request about to close or fulfil an order holds
one), `Unserved` (the order a request is fulfilling is paid and its plan was not given), `Alone` (no two
requests fulfil one order) and `GivenOnce`. `MarkOrderPaid` moves an order only while it is open, so whoever
passes it is alone; and nothing leaves "paid", so it stays alone until it is done. The proof for the voucher
adds `ClaimHeld`: a request between its count and its insert holds `voucherMu` and saw a use left. Steps of
others are `Calm` (nobody newly claims, whoever claims keeps the lock) and do not add to the orders that hold
the voucher; `Claim` and `Insert` are the two that are not, and have a lemma each.

The proof that a paid account stays adds `AParts`. A renewal begins only on an active account that is on
a plan, and only a paid order gives one to an account that was not on it from the start (`GivenOnce`); so an
account that waits has no renewal, in the table or on its way (`Unswitched`). No account ever has two orders
that are not renewals (`OneFirst`). A request that
makes an account's first order is the only one that makes an order for it (`FirstAlone`). The order a thread
drops an account for was closed unpaid (`DropsUnpaid`, and `Walked` for those the loop still has to look at);
with it every order of that account is, and stays so, since nobody makes another (`Over`, `Removals`). Most
steps are `Calm`: they make no order or account, reopen none and begin no request that makes one. `SignUp`,
`Renew`, `Provision` and `Insert` are not, and have a lemma each.

The proof that a transfer closes its own order uses `OwnInv`. Orders that wait have totals of their own
(`TotalsApart`): a new order takes a total no waiting order has, and no row that is there begins to wait again
(`RowsKept`). A row has no total before it is made (`NoTotalBefore`). A request that is matching a notification
saw, when the notification came, the orders it may pay; when the order it was made for waited then, no other of
them that still waits has its total, now or later (`Recognises`). So what it closes by that total is that order
(`Covers`, `Covered`). A late transfer has the right total still, which is all `OwnTotal` says.

Only model-checked: the liveness properties.

### Not modelled

Which plan an account is on and until when, trial upgrades, suspension at the end of a plan (`AccountPlans`,
open); the reserved panel address and its unique index, prices and periods, several vouchers; deleted
plans (`fulfillOrder` then alerts the seller as for a deleted account); an account made active by hand; the
read of the order back after its `INSERT` fails. A notification is matched once per arrival; the unique index
on `notif_id` therefore never bites here, as each arrival is a row with an id of its own.

## 5. Terminal sessions

`TerminalSession.tla` models a tab of the terminal with all its websockets, and the sessions of the agent.
A shell outlasts the connection of its tab: the agent buffers what it says, the tab keeps what is typed, and
both attach again.

| Model | Code |
| :--- | :--- |
| `session[s]`: `state`, `buf`, `on`, `gen`, `made` | a `Session` of `internal/terminal`: whether it is closed, told and out of the map, `outputBuf`, the websocket whose callbacks are set, the one of `attachGen`; `made` counts the chunks it wrote |
| `conn[c]`: `at`, `ended`, `carry` | the handler `handleTerminalSocket` of a websocket: how far it is, whether the agent closed it, the buffer `Attach` holds between taking and sending it |
| `conn[c]`: `end`, `up`, `down`, `cut` | the `WebSocket` of the browser: `readyState`, what is on its way in each direction, whether the link is broken |
| `hook` | the refs and states of `useTerminalSession`: epoch, session, socket, `manualClose`, `backendClosed`, attempts, timer, pending keys, what the user sees |
| `deletes`, `reaping`, `hook.call` | close requests on their way, the list `reapLoop` made, the start request |
| `Upgrade`, `AttachTake`, `AttachFails`, `AttachFlush`, `HandleInput`, `HandlerEnds` | the handler of a websocket, cut where `Attach` gives up `streamMu` |
| `Deliver` | `captureOutput` and `deliver` |
| `CloseBegins`, `CloseTells`, `CloseRemoves`, with `ShellExits`, `CloseAsked`, `ReapFinds`, `ReapCloses` | `closeSession` in its three parts, and the four who call it |
| `Start`, `PreviousReleased`, `StartArrives`, `StartAnswered`, `StartFails` | `start` in the hook, cut at its two requests, and `Manager.Start` |
| `OnOpen`, `OnMessage`, `Watchdog`, `OnClose`, `Reconnect`, `Kick`, `SendInput` | the callbacks of the socket and the timers of the hook, `scheduleReconnect`, `sendInput` |
| `Unmount`, `Leave` | the tab is closed, with its cleanup; the page goes away without one |
| `Cut`, `LoseRequest`, `Restart` | a link that breaks, a close request that is lost, an agent that restarts |

The tab runs one callback at a time, so each is one step. In the agent the handlers, the reader of the shell,
the reaper and the requests run beside each other. A write to a websocket whose other end is gone may succeed
or fail; both are in the model. `typed` and `written` are history: which shell the tab showed when a key was
typed, and which shells got it.

### What the runs show

| Run | Question | Result |
| :--- | :--- | :--- |
| `terminal_core` | two shells over two websockets, one broken link, lost request or restart: the newest websocket keeps its callbacks, a key reaches the shell it was typed for and at most once, the screen shows one shell and no chunk twice | holds |
| `terminal_ends` | one shell, two faults, a network that comes back: the tab comes to show that its shell is gone, reconnecting ends, a closed tab leaves no shell | holds |
| `terminal_order` | no fault at all, a second websocket takes over: the order of the output | a newer chunk overtakes the buffer |

The last one contradicts the comment of `Attach`, quoted under `findings`.

### Bounds

Two websockets are a take-over, two starts a shell that replaces another; one pending key, one key and one
chunk are enough for a key or a chunk to be in the wrong place or there twice, and `terminal_order` has the
two chunks an order needs. `MaxAttempts` 2 lets the attempts be used up. The number of websockets bounds those
that exist at once, at either end: one that both ends have done with is used again. `MaxKicks` and `MaxFaults`
bound what comes from outside. Deadlock is not checked: a tab may be closed for good. No symmetry, as the
numbers of sessions are those of the epochs.

### Fairness

`Fairness` asks that goroutines, timers and callbacks run: the handlers of the agent (a silent link ends them
by the read deadline), `closeSession`, the reaper, the callbacks of a socket, the timer of a reconnect, and
the two requests of `start`. Nothing is asked of the user, of the shell, or of the watchdog; whether a link
comes back is open, as every handshake may be broken while faults are left.

### What is proved

`TerminalSessionProofs.tla`, for any number of starts, websockets, attempts, keys, chunks, kicks and faults:

- `Types` (`TypeOK`). The invariant `TypeInv` adds what links the hook to its websockets: `Used`, `Attached`
  (its socket is for its session), `Calling` (a start under way has a number), `Counted` (the attempts used up,
  nothing is under way, so they are not counted on) and `Waiting` (no keys without a session).
- `NewestKeeps` (`NewestKeepsCallbacks`). It is not inductive: a websocket is attached before its buffer is
  sent, and that may fail. `Newest` says the same from the taking of the buffer on, with `Fresh` (a session
  that was not started was not attached).
- `InputArrives` (`InputReachesItsShell`). `KeyInv` places every key: `OncePlaced` (it is in one queue at most,
  the pending keys or what is on its way in one websocket), `ForOwner` (each queue belongs to the shell its
  keys were typed for, and none of them was written yet), `OnceWritten`. Each step leaves a queue alone,
  empties it, takes its head, adds a new key, or moves the pending keys into an empty socket, with one lemma
  for each.

`TerminalScreenProofs.tla`, for the same constants and any size of the buffer:

- `ShownOnce` (`ScreenIsOneShell`). The property is not inductive: a chunk that is on the screen might also
  wait somewhere else and come again. `ScreenInv` follows every chunk through all its places: the buffer of
  its session (`Buffer`), the hands of an Attach (`Carry`), each message on its way to the browser (`Down`)
  and the screen (`Shown`). `Load` is what is in a place and `From` the session it came from. `Apart` says
  that a chunk of a session is in one place only and once, `Known` that a chunk the shell has not made yet is
  nowhere, `OneShell` that the screen belongs to the session of the hook, and `OnServes` that the callbacks of
  a session are those of a websocket of its own that is being attached or served, so that a failed flush puts
  its chunks back where they came from. Every step does one of four things to the places, with a lemma for
  each: it keeps a piece of a place or empties it (`LoadShrinks`: a full buffer, a broken link, `HandlerEnds`,
  a dropped socket), moves a place to the end of another of the same session (`LoadMoves`: `AttachTake`,
  `AttachFlush`, `OnMessage`), adds the next chunk (`LoadAdds`: `Deliver`), or moves the messages of a
  websocket up (`LoadShifts`: `OnMessage`). That an old websocket brings nothing to the screen of a new shell
  is the guard `IsCurrent`: without it `From` of the message and of the screen differ, and `LoadMoves` does
  not apply.

Only model-checked: the three liveness properties.

### Not modelled

Sizes and resize messages, heartbeats (that a broken link is noticed is `Watchdog` and `HandlerEnds`), where a
shell runs and as whom, presets, several tabs of one account (their shells count for `MaxOwned`, which is a
bound here), the limits on bytes instead of chunks, and the command API of `handlers_terminal_exec.go`.

## 6. Widgets and notes

`WidgetSync.tla` models the browser that several accounts use one after the other, the session it sends, and
the copy of each account on the server. A layout is the set of the edits that went into it, so a layout that
lacks an edit or has somebody else's shows it.

| Model | Code |
| :--- | :--- |
| `local`, `owner`, `mark` | the widget store in `localStorage`, `OWNER_KEY`, `DIRTY_KEY` |
| `hook`, `dirty` | the effect of `useWidgetSync` that runs, its timer, and the flag in the closure of each effect that ever ran |
| `user`, `cookie` | the account in `authStore`, and the one whose session the browser sends |
| `server[u]` | `user_preferences.widgets_data` of an account; a copy of an older version has no phone layout |
| `net` | requests and answers on their way |
| `Mount`, `GetAnswered`, `GetIgnored` | the start of the effect, cut at `getMyWidgets` |
| `Edit`, `Push`, `Unmount`, `PutAnswered`, `PutFails` | the subscription, `push` by timer or when hidden, the cleanup, `then` and `catch` |
| `Login`, `Logout`, `Reload`, `Expire`, `Denied` | `loginSuccess`, `logout`, `initSession`, the end of a session, and the interceptor of `client.ts` on a 401 |
| `Handle`, `Lose` | `handleGetMyWidgets`, `handlePutMyWidgets`; a request or an answer that is lost |

`by`, `sure`, `left` and `overtaken` are history: who made an edit, which edits were made while the effect
listened, who left while marked, and whether a request overtook another. No step depends on them but the
number of the next edit.

### What the runs show

| Run | Question | Result |
| :--- | :--- | :--- |
| `widgets_core` | two accounts, two openings of the desktop, two edits, two lost requests, expired sessions or failed logouts: an account that never left inside the delay of a push keeps to its own widgets and notes; what the server lacks is remembered | holds |
| `widgets_carried` | no fault, three openings: no copy holds what another account made | an account that left inside the delay gets the other's widgets |

The last one contradicts the comment of `useWidgetSync`, quoted under `findings`.

### Bounds

Two accounts are one who made something and one who gets it; the case needs one edit, or two when a newer one
must not be forgotten. The initial states give one account a copy already, with an edit from another browser,
which saves an opening. `widgets_carried` has three openings (first account, second, first again). Two requests
at once can overtake each other. `MaxFaults` bounds lost requests, expired sessions, failed logouts and failed
session checks together. `SYMMETRY` is over the accounts. No liveness is stated, so no fairness: a push that
fails waits for the next change, which may never come. Deadlock is not checked, as all edits and openings may
be used up.

### What is proved

`WidgetSyncProofs.tla`, for any accounts and any numbers of edits, openings, requests and faults:

- `Types` (`TypeOK`, with `SignedIn`).
- `OnlyOwn` (`OnlyOwnWidgets`). The invariant `OwnInv`: `CopiesClean` and `LocalClean` (what an account owns
  holds only its own edits), every request on its way is `Good` (what it carries is clean for the session it
  was sent with), and what makes these inductive: `MarkInStep` (while the mark names an account that never
  left with it, that account is signed in and owns the store, so the layout that wins over its copy is its
  own), `SessionOfUser` (the browser never sends the session of an account other than the one shown),
  `Opened`, `FlagsStarted` (only an effect that has taken over raises a flag) and `MadeBy`.

- `Remembers` (`NothingForgotten`). Not inductive: that a change is remembered when an answer clears the mark
  depends on what the other requests carry. `KeepInv` says it of the whole list, as long as nothing overtakes:
  `Ordered` (requests are handled in the order they were sent), `Asked` (while the effect asks, its question is
  the last request, and an answer on its way back is still the copy of the server) and `Listening`: the
  requests are those of this effect (`OwnPuts`), the one of an earlier desktop's edits comes first and its mark
  stays until it is answered, and with the flag down the last request has the layout of the store, which is
  the copy of the server once it is handled (`Flushed`). So an answer clears the mark only when a later request
  still carries the layout or the server has it. It rests on `OwnInv` (which session a request is sent with).

Every invariant the runs check is proved here; `NeverCarriedOver` is the one the code breaks.

### Not modelled

Positions and sizes, the repair of damaged layouts (`sanitize`), settings inside a widget, metric history, two
tabs of one browser, and `localStorage` that cannot be written.

## 7. Observations

Behaviour met while modelling that no property of the project covers, because what the repository says of it
is silent or contradicts itself.

- `Worker.Stop` logs that the messages of workers that did not stop "return to the queue when the lease runs
  out", and releases them right after (`src/internal/notify/worker.go:81-85`). A send may take 15 s
  (`sendTimeout`), the wait is 10 s: a message may be pending again while it is being sent, and sent twice.
- The same release of `Worker.Stop` and of a worker that sees `stop` puts messages back to pending whatever their
  number of tries, where the reaper fails those in their last one (`src/internal/database/notify.go`,
  `ReleaseWorkerOutbox` against `ReleaseExpiredOutboxLeases`): a message can be asked for once more than
  `max_attempts`. TLC finds `AskedWithinTries` violated when `Faults` has "stop".
- A recipient that cannot be read, or a channel that is not ready, is retried at `worker.go:195` and
  `worker.go:226` without a look at the number of tries; `src/internal/notify/channel.go:52` and
  `TestAFailureThatNeverEndsStopsAfterTheLastTry` (`queue_test.go:434`) speak of failures of the channel
  only. Such a message is retried for as long as the cause lasts.
- `handleRenewMyPlan` looks for the waiting renewal and inserts a new one with nothing held in between
  (`src/internal/httpserver/hosting_orders.go:459`): two requests at the same time make two orders, with two
  totals. `src/docs/UJI-HOSTING.md:127` has the case of one request after the other.
- `expireOrders` closes orders by one statement and removes their accounts from its result in memory
  (`hosting_orders.go:883-889`): a crash in between leaves accounts that wait for a payment which cannot come.
- `DeleteUser` cancels the open orders and deletes the row in two statements
  (`src/internal/database/database.go:800-807`): a renewal inserted in between stays, without its account,
  until it expires.
- A notification that the listener repeats is a new row. Its total may by then belong to another order, made
  before the repetition arrived: that order is paid by it. `src/docs/UJI-HOSTING.md:119` and the unique index
  on `notif_id` cover a repetition while the first order is the only one with the total.
- A batch of five messages has one lease of 60 s which nothing renews, and each send may take 15 s
  (`src/internal/notify/worker.go:103`): a message not begun yet may be claimed by another worker and sent by
  both. `TakenOnlyFromTheGone` and `NoDoubleSend` are checked where a batch fits its lease.
- A message that waits for its retry holds nothing back (`src/internal/database/notify.go:99`), so newer
  messages of its recipient overtake it. What the code keeps is the order of first tries, `TriedInOrder`.
- When the OS account of a buyer cannot be made, `auth.CreateUser` returns behind its own `INSERT`
  (`hosting_orders.go:264`): an active account without an order stays.
- `applyUserPlan` writes the quota and the plan in two statements
  (`src/internal/httpserver/handlers_hosting.go:343`).
- A tab closed while its start is on its way begins no new epoch, so the answer is not discarded
  (`src/src/hooks/useTerminalSession.ts:307`, "discarding stale terminal session result"): the hook connects to
  the new shell, and nobody is left to close it.
- A kick drops a socket that is still connecting (`useTerminalSession.ts:328`); the agent may have sent the
  buffer into it already, although `deliver` keeps output "so nothing is lost on reconnect".
- The buffer that a replaced websocket could not send is put back (`src/internal/terminal/terminal.go:251`)
  when another is attached already: it stays there until the next attachment, and is shown after newer output.
- `Start` counts the sessions of an owner and inserts the new one later (`terminal.go:120`): two requests at
  once may pass the limit by one.
- The answer to the layout that is sent when the desktop opens takes the mark away without a look at the flag
  (`src/src/hooks/useWidgetSync.ts:123`): an edit made meanwhile is lost by a reload inside the delay of its
  push.
- Two pushes may be on their way at once (`useWidgetSync.ts:90`), and nothing says in which order they are
  stored; a copy read on the next opening may be older than the cleanup's push (166).
- When the server cannot be reached as the desktop opens, nothing listens to edits for as long as it stays open
  (`useWidgetSync.ts:139`): they are neither marked nor sent, and the next copy overwrites them. Edits made
  before the copy was read are overwritten in the same way.
- The start without a copy drops the widgets and notes of another account, but not its phone layout
  (`useWidgetSync.ts:133`).
- A 401 for a push of the account that left, answered after the next one signed in, signs that one out
  (`src/src/api/client.ts:50`).

## 8. What is not modelled, and why

`PROJECT.json` lists every component with its reason; sections 3 to 6 say what is left out of the modelled ones.
In short: files, firewall, email, host services, the MCP server, the proxy and the Cloudflare calls are I/O and
text for other programs, and keep no state between requests; prices are arithmetic; the parts of the plan that
are open (plans of accounts, payment transactions, user databases, project supervisor) are not modelled yet.

The models stand for little of the code by its lines, and for little of its TypeScript in particular. The
desktop has some 67 000 lines of TypeScript in 446 files. Most are views, styles, two translations of several
thousand lines each, lists of constants and typed wrappers of requests, which have no states to explore. Most of
what happens at the same time, and what can be lost or done twice, is in the Go agent. In the desktop it is in
the hooks that outlive a request or a connection, and the two with the most such state, `useTerminalSession` and
`useWidgetSync` with the stores beside it, are modelled as a whole.
