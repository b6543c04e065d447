--------------------------- MODULE TerminalSession ---------------------------
(***************************************************************************)
(* A terminal tab of the desktop, the shell it shows and the websockets    *)
(* between them. The shell lives in the agent and outlasts a connection;   *)
(* the tab attaches again when its connection breaks, keeps what is typed  *)
(* meanwhile, and the agent keeps what the shell says meanwhile.           *)
(*                                                                         *)
(* Everything of the browser runs in one thread, a callback at a time. In  *)
(* the agent the handler of each websocket, the reader of the shell, the   *)
(* reaper and the requests that close a session run beside each other.     *)
(***************************************************************************)
EXTENDS Naturals, Sequences, FiniteSets

CONSTANTS
  MaxStarts,   \* how often the tab starts a shell; the n-th start makes session n
  MaxConns,    \* websockets that exist at once, at either end
  MaxAttempts, \* RECONNECT_MAX_ATTEMPTS
  MaxPending,  \* MAX_PENDING_INPUT
  MaxBuffer,   \* maxBufferedOutput, in chunks
  MaxOwned,    \* maxSessionsPerOwner
  MaxOutput,   \* chunks a shell writes in one run
  MaxInput,    \* keystrokes in one run
  MaxKicks,    \* how often the network or the tab comes back
  MaxFaults    \* broken connections, lost requests and restarts of the agent

None == 0
Sessions == 1..MaxStarts
Conns == 1..MaxConns
Inputs == 1..MaxInput

ASSUME TerminalAssumption ==
  /\ MaxStarts \in Nat /\ MaxConns \in Nat /\ MaxAttempts \in Nat \ {0}
  /\ MaxPending \in Nat /\ MaxBuffer \in Nat \ {0} /\ MaxOwned \in Nat
  /\ MaxOutput \in Nat /\ MaxInput \in Nat /\ MaxKicks \in Nat /\ MaxFaults \in Nat

VARIABLES
  session,  \* the sessions of the agent
  conn,     \* the websockets, with both their ends
  hook,     \* the refs and states of useTerminalSession
  screen,   \* what xterm shows: chunks, each with the session it came from
  deletes,  \* sessions whose close request is on its way
  reaping,  \* sessions reapLoop has found stale and not closed yet
  typed,    \* history: the session of the tab when each key was typed
  written,  \* history: the sessions a key was written to
  kicks, faults

vars == <<session, conn, hook, screen, deletes, reaping, typed, written, kicks, faults>>

Message == [kind : {"output"}, data : Seq(1..MaxOutput)]
             \cup [kind : {"closed", "not found"}, data : {<<>>}]

\* on: the websocket whose callbacks are set; gen: the last one attached
Session == [state : {"none", "live", "closed", "told", "gone"}, buf : Seq(1..MaxOutput),
            made : 0..MaxOutput, on : Conns \cup {None}, gen : Conns \cup {None}]

\* at: how far the handler of the agent is; end: readyState in the browser;
\* ended: the agent has closed it; cut: no byte passes any more
Conn == [to : Sessions \cup {None}, at : {"asked", "refused", "upgraded", "taken", "serving", "done"},
         end : {"connecting", "open", "closing", "closed"}, ended : BOOLEAN, cut : BOOLEAN,
         carry : Seq(1..MaxOutput), up : Seq(Inputs), down : Seq(Message)]

Hook == [mounted : BOOLEAN, epoch : 0..MaxStarts, call : {"none", "releasing", "posting"},
         prev : Sessions \cup {None}, sid : Sessions \cup {None}, sock : Conns \cup {None},
         manual : BOOLEAN, ended : BOOLEAN, attempt : 0..MaxAttempts + 1, timer : BOOLEAN,
         pending : Seq(Inputs), ui : SUBSET {"starting", "connected", "reconnecting", "closed", "error"}]

TypeOK == /\ session \in [Sessions -> Session]
          /\ conn \in [Conns -> Conn]
          /\ hook \in Hook
          /\ screen \in Seq(Sessions \X (1..MaxOutput))
          /\ deletes \subseteq Sessions /\ reaping \subseteq Sessions
          /\ typed \in Seq(Sessions) /\ Len(typed) <= MaxInput
          /\ written \in [Inputs -> Seq(Sessions)]
          /\ kicks \in 0..MaxKicks /\ faults \in 0..MaxFaults

NoSession == [state |-> "none", buf |-> <<>>, made |-> 0, on |-> None, gen |-> None]
NoConn == [to |-> None, at |-> "done", end |-> "closed", ended |-> TRUE, cut |-> FALSE,
           carry |-> <<>>, up |-> <<>>, down |-> <<>>]

Init == /\ session = [s \in Sessions |-> NoSession]
        /\ conn = [c \in Conns |-> NoConn]
        /\ hook = [mounted |-> TRUE, epoch |-> 0, call |-> "none", prev |-> None, sid |-> None,
                   sock |-> None, manual |-> FALSE, ended |-> FALSE, attempt |-> 0, timer |-> FALSE,
                   pending |-> <<>>, ui |-> {}]
        /\ screen = <<>>
        /\ deletes = {} /\ reaping = {}
        /\ typed = <<>>
        /\ written = [i \in Inputs |-> <<>>]
        /\ kicks = 0 /\ faults = 0

-----------------------------------------------------------------------------
(* The session manager of the agent                                        *)

InMap(s) == session[s].state \in {"live", "closed", "told"}

\* appendOutput: the oldest output goes when the buffer is full
Kept(buf) == IF Len(buf) <= MaxBuffer THEN buf ELSE SubSeq(buf, Len(buf) - MaxBuffer + 1, Len(buf))

\* a write to a websocket may succeed although nobody reads it any more
CanFail(c) == conn[c].ended \/ conn[c].cut \/ conn[c].end = "closed"
Heard(c) == ~conn[c].cut /\ conn[c].end # "closed"
Sent(c, msg) == [conn[c] EXCEPT !.down = IF Heard(c) THEN Append(@, msg) ELSE @]
Output(data) == [kind |-> "output", data |-> data]
Closed == [kind |-> "closed", data |-> <<>>]
NotFound == [kind |-> "not found", data |-> <<>>]

\* onClose: the browser hears of the end, then the websocket is closed
ToldClosed(c) == [(IF conn[c].ended THEN conn[c] ELSE Sent(c, Closed)) EXCEPT !.ended = TRUE]

\* mutants: any connection that ends takes the callbacks away; none does
DetachesAny(s, c) == [session[s] EXCEPT !.on = None]

\* detachIfCurrent
Detached(s, c) == IF session[s].gen = c THEN [session[s] EXCEPT !.on = None] ELSE session[s]

\* captureOutput reads a chunk and delivers it
Deliver(s) ==
  LET c == session[s].on
      n == session[s].made + 1
  IN /\ InMap(s) /\ n <= MaxOutput
     /\ \/ /\ c # None /\ ~conn[c].ended
           /\ conn' = [conn EXCEPT ![c] = Sent(c, Output(<<n>>))]
           /\ session' = [session EXCEPT ![s].made = n]
        \/ /\ IF c = None THEN TRUE ELSE CanFail(c)
           /\ session' = [session EXCEPT ![s].made = n, ![s].on = None, ![s].buf = Kept(Append(@, n))]
           /\ UNCHANGED conn
     /\ UNCHANGED <<hook, screen, deletes, reaping, typed, written, kicks, faults>>

\* the handshake: a session that is not in the map is answered 404
Upgrade(c) ==
  /\ conn[c].at = "asked" /\ ~conn[c].cut
  /\ conn' = [conn EXCEPT ![c].at = IF InMap(conn[c].to) THEN "upgraded" ELSE "refused"]
  /\ UNCHANGED <<session, hook, screen, deletes, reaping, typed, written, kicks, faults>>

\* mutant: the buffer stays behind
TakesACopy(s, c) == [session[s] EXCEPT !.on = c, !.gen = c]

\* the buffer and the callbacks change hands under streamMu
Taken(s, c) == [session[s] EXCEPT !.buf = <<>>, !.on = c, !.gen = c]

\* Attach up to onReplaced, which closes the websocket attached before
AttachTake(c) ==
  LET s == conn[c].to
      old == session[s].on
      carrying == [conn EXCEPT ![c].at = "taken", ![c].carry = session[s].buf]
  IN /\ conn[c].at = "upgraded" /\ InMap(s)
     /\ session' = [session EXCEPT ![s] = Taken(s, c)]
     /\ conn' = IF old = None THEN carrying ELSE [carrying EXCEPT ![old].ended = TRUE]
     /\ UNCHANGED <<hook, screen, deletes, reaping, typed, written, kicks, faults>>

\* the session went between the handshake and Attach
AttachFails(c) ==
  /\ conn[c].at = "upgraded" /\ ~InMap(conn[c].to)
  /\ conn' = [conn EXCEPT ![c] = [Sent(c, NotFound) EXCEPT !.at = "done", !.ended = TRUE]]
  /\ UNCHANGED <<session, hook, screen, deletes, reaping, typed, written, kicks, faults>>

\* mutant: Attach does not look whether the session closed meanwhile
FlushedOnly(c, w) == [w EXCEPT !.at = "serving", !.carry = <<>>]

\* the end of Attach, for a websocket that is now w: a session that closed meanwhile is told
Flushed(c, w) ==
  LET told == session[conn[c].to].state # "live" /\ ~w.ended
  IN [w EXCEPT !.at = "serving", !.carry = <<>>, !.ended = @ \/ told,
               !.down = IF told /\ Heard(c) THEN Append(@, Closed) ELSE @]

\* the rest of Attach: the buffered output goes out
AttachFlush(c) ==
  LET s == conn[c].to
      carry == conn[c].carry
  IN /\ conn[c].at = "taken"
     /\ \/ /\ carry = <<>> \/ ~conn[c].ended
           /\ conn' = [conn EXCEPT ![c] = Flushed(c, IF carry = <<>> THEN conn[c] ELSE Sent(c, Output(carry)))]
           /\ UNCHANGED session
        \/ /\ carry # <<>> /\ CanFail(c)
           /\ session' = IF InMap(s) THEN [session EXCEPT ![s] = [Detached(s, c) EXCEPT !.buf = Kept(@ \o carry)]]
                         ELSE session
           /\ conn' = [conn EXCEPT ![c] = Flushed(c, conn[c])]
     /\ UNCHANGED <<hook, screen, deletes, reaping, typed, written, kicks, faults>>

\* the read loop: an input goes to the shell; on a closed session the handler ends
HandleInput(c) ==
  LET s == conn[c].to
      i == Head(conn[c].up)
  IN /\ conn[c].at = "serving" /\ ~conn[c].ended /\ conn[c].up # <<>>
     /\ IF session[s].state = "live"
        THEN /\ written' = [written EXCEPT ![i] = Append(@, s)]
             /\ conn' = [conn EXCEPT ![c].up = Tail(@)]
        ELSE /\ conn' = [conn EXCEPT ![c] = [(IF InMap(s) THEN conn[c] ELSE Sent(c, NotFound)) EXCEPT !.ended = TRUE]]
             /\ UNCHANGED written
     /\ UNCHANGED <<session, hook, screen, deletes, reaping, typed, kicks, faults>>

\* the handler returns: the websocket was closed at either end, or is silent for too long
HandlerEnds(c) ==
  LET s == conn[c].to
  IN /\ conn[c].at = "serving"
     /\ conn[c].ended \/ conn[c].cut \/ (conn[c].end = "closed" /\ conn[c].up = <<>>)
     /\ session' = IF InMap(s) THEN [session EXCEPT ![s] = Detached(s, c)] ELSE session
     /\ conn' = [conn EXCEPT ![c].at = "done", ![c].ended = TRUE]
     /\ UNCHANGED <<hook, screen, deletes, reaping, typed, written, kicks, faults>>

\* closeSession: exit of the shell, suspension of the account, a close request or the reaper
CloseBegins(s) ==
  /\ session[s].state = "live"
  /\ session' = [session EXCEPT ![s].state = "closed"]

ShellExits(s) == /\ CloseBegins(s)
                 /\ UNCHANGED <<conn, hook, screen, deletes, reaping, typed, written, kicks, faults>>

CloseTells(s) ==
  LET c == session[s].on
  IN /\ session[s].state = "closed"
     /\ session' = [session EXCEPT ![s].state = "told"]
     /\ conn' = IF c = None THEN conn ELSE [conn EXCEPT ![c] = ToldClosed(c)]
     /\ UNCHANGED <<hook, screen, deletes, reaping, typed, written, kicks, faults>>

CloseRemoves(s) ==
  /\ session[s].state = "told"
  /\ session' = [session EXCEPT ![s] = [NoSession EXCEPT !.state = "gone"]]
  /\ UNCHANGED <<conn, hook, screen, deletes, reaping, typed, written, kicks, faults>>

\* a close request arrives
CloseAsked(s) ==
  /\ s \in deletes
  /\ deletes' = deletes \ {s}
  /\ CloseBegins(s) \/ (session[s].state # "live" /\ UNCHANGED session)
  /\ UNCHANGED <<conn, hook, screen, reaping, typed, written, kicks, faults>>

\* reapLoop: first the list of what is stale, then the closing
ReapFinds(s) ==
  /\ session[s].state = "live" /\ session[s].on = None
  /\ reaping' = reaping \cup {s}
  /\ UNCHANGED <<session, conn, hook, screen, deletes, typed, written, kicks, faults>>

ReapCloses(s) ==
  /\ s \in reaping
  /\ reaping' = reaping \ {s}
  /\ CloseBegins(s) \/ (session[s].state # "live" /\ UNCHANGED session)
  /\ UNCHANGED <<conn, hook, screen, deletes, typed, written, kicks, faults>>

\* the start request arrives
StartArrives ==
  /\ hook.call = "posting" /\ session[hook.epoch].state = "none"
  /\ Cardinality({s \in Sessions : InMap(s)}) < MaxOwned
  /\ session' = [session EXCEPT ![hook.epoch].state = "live"]
  /\ UNCHANGED <<conn, hook, screen, deletes, reaping, typed, written, kicks, faults>>

-----------------------------------------------------------------------------
(* The tab in the browser                                                  *)

Free(c) == conn[c].at \in {"refused", "done"} /\ conn[c].end = "closed"
Asked(s) == [NoConn EXCEPT !.to = s, !.at = "asked", !.end = "connecting", !.ended = FALSE]

\* cleanupSocket: nobody listens to the socket any more, and it closes
Dropped(c) == IF c = None THEN conn ELSE [conn EXCEPT ![c].end = "closed", ![c].down = <<>>]

\* connectSocket, for the session h shows
Connect(h, c) == /\ Free(c)
                 /\ conn' = [Dropped(h.sock) EXCEPT ![c] = Asked(h.sid)]
                 /\ hook' = [h EXCEPT !.sock = c]

\* mutant: the attempts are not looked at
SchedulesOn(h, immediate) ==
  IF h.manual \/ h.ended \/ h.sid = None \/ (h.timer /\ ~immediate) THEN h
  ELSE [h EXCEPT !.attempt = @ + 1, !.timer = TRUE, !.ui = (@ \ {"connected"}) \cup {"reconnecting"}]

\* mutant: the attempts are not counted
CountsNothing(h, immediate) ==
  IF h.manual \/ h.ended \/ h.sid = None \/ (h.timer /\ ~immediate) THEN h
  ELSE [h EXCEPT !.timer = TRUE, !.ui = (@ \ {"connected"}) \cup {"reconnecting"}]

\* scheduleReconnect
Scheduled(h, immediate) ==
  IF h.manual \/ h.ended \/ h.sid = None \/ (h.timer /\ ~immediate) THEN h
  ELSE IF h.attempt = MaxAttempts
  THEN [h EXCEPT !.attempt = @ + 1, !.timer = FALSE, !.ui = (@ \ {"reconnecting"}) \cup {"closed", "error"}]
  ELSE [h EXCEPT !.attempt = @ + 1, !.timer = TRUE, !.ui = (@ \ {"connected"}) \cup {"reconnecting"}]

IsCurrent(c) == hook.sock = c /\ hook.sid = conn[c].to /\ hook.epoch = conn[c].to

\* mutant: what was typed for the last shell is kept
ForgetsLess == [hook EXCEPT !.epoch = @ + 1, !.call = IF hook.sid = None THEN "posting" ELSE "releasing",
                            !.prev = hook.sid, !.sid = None, !.sock = None, !.manual = FALSE, !.ended = FALSE,
                            !.attempt = 0, !.timer = FALSE, !.ui = {"starting"}]

\* the hook at the beginning of start
Renewed == [hook EXCEPT !.epoch = @ + 1, !.call = IF hook.sid = None THEN "posting" ELSE "releasing",
                        !.prev = hook.sid, !.sid = None, !.sock = None, !.manual = FALSE, !.ended = FALSE,
                        !.attempt = 0, !.timer = FALSE, !.pending = <<>>, !.ui = {"starting"}]

\* start: on opening the tab, and whenever the user asks for a new shell; startInFlightRef keeps a second one out
Start ==
  /\ hook.mounted /\ hook.call = "none" /\ hook.epoch < MaxStarts
  /\ hook' = Renewed
  /\ deletes' = IF hook.sid = None THEN deletes ELSE deletes \cup {hook.sid}
  /\ conn' = Dropped(hook.sock)
  /\ screen' = <<>>
  /\ UNCHANGED <<session, reaping, typed, written, kicks, faults>>

\* releaseSession is answered, or has failed
PreviousReleased ==
  /\ hook.call = "releasing" /\ hook.prev \notin deletes
  /\ session[hook.prev].state \notin {"closed", "told"}
  /\ hook' = [hook EXCEPT !.call = "posting", !.prev = None]
  /\ UNCHANGED <<session, conn, screen, deletes, reaping, typed, written, kicks, faults>>

\* the new session is taken over and connected to, also when the tab was closed meanwhile: close begins no epoch
StartAnswered(c) ==
  /\ hook.call = "posting" /\ session[hook.epoch].state # "none"
  /\ Connect([hook EXCEPT !.call = "none", !.sid = hook.epoch, !.ui = @ \ {"starting"}], c)
  /\ UNCHANGED <<session, screen, deletes, reaping, typed, written, kicks, faults>>

StartFails ==
  /\ hook.call = "posting"
  /\ \/ /\ \/ session[hook.epoch].state = "gone"
           \/ Cardinality({s \in Sessions : InMap(s)}) >= MaxOwned /\ session[hook.epoch].state = "none"
        /\ UNCHANGED faults
     \/ /\ faults < MaxFaults
        /\ faults' = faults + 1
  /\ hook' = [hook EXCEPT !.call = "none", !.ui = (@ \ {"starting"}) \cup {"error"}]
  /\ UNCHANGED <<session, conn, screen, deletes, reaping, typed, written, kicks>>

\* socket.onopen: what was typed meanwhile is sent
OnOpen(c) ==
  /\ IsCurrent(c) /\ conn[c].end = "connecting" /\ conn[c].at \notin {"asked", "refused"} /\ ~conn[c].cut
  /\ conn' = [conn EXCEPT ![c].end = "open", ![c].up = hook.pending]
  /\ hook' = [hook EXCEPT !.attempt = 0, !.pending = <<>>,
                          !.ui = (@ \ {"reconnecting", "closed", "error"}) \cup {"connected"}]
  /\ UNCHANGED <<session, screen, deletes, reaping, typed, written, kicks, faults>>

\* socket.onmessage
OnMessage(c) ==
  LET msg == Head(conn[c].down)
  IN /\ IsCurrent(c) /\ conn[c].end = "open" /\ conn[c].down # <<>>
     /\ conn' = [conn EXCEPT ![c].down = Tail(@)]
     /\ IF msg.kind = "output"
        THEN /\ screen' = screen \o [k \in DOMAIN msg.data |-> <<conn[c].to, msg.data[k]>>]
             /\ UNCHANGED hook
        ELSE /\ hook' = [hook EXCEPT !.ended = TRUE, !.ui = (@ \ {"connected", "reconnecting"}) \cup {"closed"}]
             /\ UNCHANGED screen
     /\ UNCHANGED <<session, deletes, reaping, typed, written, kicks, faults>>

\* the watchdog closes a connection on which nothing arrives any more
Watchdog(c) ==
  /\ IsCurrent(c) /\ conn[c].end = "open" /\ conn[c].cut
  /\ conn' = [conn EXCEPT ![c].end = "closing"]
  /\ UNCHANGED <<session, hook, screen, deletes, reaping, typed, written, kicks, faults>>

\* socket.onclose
OnClose(c) ==
  /\ hook.sock = c
  /\ \/ conn[c].end = "closing"
     \/ conn[c].end = "connecting" /\ (conn[c].at = "refused" \/ conn[c].cut)
     \/ conn[c].end = "open" /\ (conn[c].cut \/ (conn[c].ended /\ conn[c].down = <<>>))
  /\ conn' = [conn EXCEPT ![c].end = "closed"]
  /\ LET h == [hook EXCEPT !.sock = None]
     IN  hook' = IF hook.sid # conn[c].to \/ hook.epoch # conn[c].to THEN h
                 ELSE Scheduled([h EXCEPT !.ui = @ \ {"connected"}], FALSE)
  /\ UNCHANGED <<session, screen, deletes, reaping, typed, written, kicks, faults>>

\* the timer of scheduleReconnect
Reconnect(c) ==
  /\ hook.timer
  /\ IF hook.sid = None \/ hook.manual
     THEN hook' = [hook EXCEPT !.timer = FALSE] /\ UNCHANGED conn
     ELSE Connect([hook EXCEPT !.timer = FALSE], c)
  /\ UNCHANGED <<session, screen, deletes, reaping, typed, written, kicks, faults>>

\* kick: the network is back, or the tab is looked at again
Kick ==
  /\ kicks < MaxKicks /\ kicks' = kicks + 1
  /\ ~hook.manual /\ ~hook.ended /\ hook.sid # None
  /\ IF hook.sock = None THEN TRUE ELSE conn[hook.sock].end # "open"
  /\ hook' = Scheduled([hook EXCEPT !.attempt = 0], TRUE)
  /\ UNCHANGED <<session, conn, screen, deletes, reaping, typed, written, faults>>

\* sendInput; a key typed while there is no session is dropped
SendInput ==
  LET c == hook.sock
      i == Len(typed) + 1
      open == IF c = None THEN FALSE ELSE conn[c].end = "open"
  IN /\ hook.mounted /\ hook.sid # None /\ i <= MaxInput
     /\ typed' = Append(typed, hook.sid)
     /\ conn' = IF open /\ ~conn[c].cut THEN [conn EXCEPT ![c].up = Append(@, i)] ELSE conn
     /\ hook' = IF open \/ hook.ended \/ hook.manual \/ Len(hook.pending) = MaxPending THEN hook
                ELSE [hook EXCEPT !.pending = Append(@, i)]
     /\ UNCHANGED <<session, screen, deletes, reaping, written, kicks, faults>>

\* the tab is closed: the effects of useTerminalSession and of TerminalTabPane clean up
Unmount ==
  /\ hook.mounted
  /\ hook' = [hook EXCEPT !.mounted = FALSE, !.manual = TRUE, !.timer = FALSE, !.sid = None, !.sock = None,
                          !.pending = <<>>, !.ui = (@ \ {"connected", "reconnecting"}) \cup {"closed"}]
  /\ deletes' = IF hook.sid = None THEN deletes ELSE deletes \cup {hook.sid}
  /\ conn' = Dropped(hook.sock)
  /\ UNCHANGED <<session, screen, reaping, typed, written, kicks, faults>>

\* the page goes away: no effect cleans up, the sockets close with it
Leave ==
  /\ hook.mounted
  /\ hook' = [hook EXCEPT !.mounted = FALSE, !.call = "none", !.timer = FALSE, !.sid = None, !.sock = None,
                          !.pending = <<>>, !.ui = {}]
  /\ conn' = Dropped(hook.sock)
  /\ UNCHANGED <<session, screen, deletes, reaping, typed, written, kicks, faults>>

-----------------------------------------------------------------------------
(* Faults                                                                  *)

Broken(c) == [conn[c] EXCEPT !.cut = TRUE, !.up = <<>>, !.down = <<>>,
                             !.at = IF @ = "asked" THEN "refused" ELSE @]

Cut(c) == /\ faults < MaxFaults /\ faults' = faults + 1
          /\ conn[c].end # "closed" /\ ~conn[c].cut
          /\ conn' = [conn EXCEPT ![c] = Broken(c)]
          /\ UNCHANGED <<session, hook, screen, deletes, reaping, typed, written, kicks>>

LoseRequest == /\ faults < MaxFaults /\ faults' = faults + 1
               /\ \E s \in deletes : deletes' = deletes \ {s}
               /\ UNCHANGED <<session, conn, hook, screen, reaping, typed, written, kicks>>

\* the agent restarts: its sessions are in memory only
Restart == /\ faults < MaxFaults /\ faults' = faults + 1
           /\ session' = [s \in Sessions |-> IF InMap(s) THEN [NoSession EXCEPT !.state = "gone"] ELSE session[s]]
           /\ conn' = [c \in Conns |-> [Broken(c) EXCEPT !.at = IF @ = "refused" THEN @ ELSE "done",
                                                         !.ended = TRUE, !.carry = <<>>]]
           /\ deletes' = {} /\ reaping' = {}
           /\ UNCHANGED <<hook, screen, typed, written, kicks>>

-----------------------------------------------------------------------------

Agent == \/ \E s \in Sessions : \/ Deliver(s) \/ ShellExits(s) \/ CloseTells(s) \/ CloseRemoves(s)
                                \/ CloseAsked(s) \/ ReapFinds(s) \/ ReapCloses(s)
         \/ \E c \in Conns : \/ Upgrade(c) \/ AttachTake(c) \/ AttachFails(c) \/ AttachFlush(c)
                             \/ HandleInput(c) \/ HandlerEnds(c)
         \/ StartArrives

Tab == \/ Start \/ PreviousReleased \/ StartFails \/ Kick \/ SendInput \/ Unmount \/ Leave
       \/ \E c \in Conns : \/ StartAnswered(c) \/ OnOpen(c) \/ OnMessage(c) \/ Watchdog(c)
                           \/ OnClose(c) \/ Reconnect(c)

Fault == \/ \E c \in Conns : Cut(c)
         \/ LoseRequest \/ Restart

Next == Agent \/ Tab \/ Fault

\* goroutines, timers and callbacks run; what the user, the shell and the network do is left open
Fairness ==
  /\ \A s \in Sessions : /\ WF_vars(CloseTells(s)) /\ WF_vars(CloseRemoves(s)) /\ WF_vars(CloseAsked(s))
                         /\ WF_vars(ReapFinds(s)) /\ WF_vars(ReapCloses(s))
  /\ \A c \in Conns : /\ WF_vars(Upgrade(c)) /\ WF_vars(AttachTake(c)) /\ WF_vars(AttachFails(c))
                      /\ WF_vars(AttachFlush(c)) /\ WF_vars(HandleInput(c)) /\ WF_vars(HandlerEnds(c))
                      /\ WF_vars(OnOpen(c)) /\ WF_vars(OnMessage(c)) /\ WF_vars(OnClose(c))
  /\ WF_vars(StartArrives) /\ WF_vars(PreviousReleased)
  /\ WF_vars(\E c \in Conns : StartAnswered(c)) /\ WF_vars(\E c \in Conns : Reconnect(c))

Spec == Init /\ [][Next]_vars /\ Fairness

-----------------------------------------------------------------------------
(* What holds                                                              *)

\* The websocket attached last keeps its callbacks as long as both its ends live: an older
\* connection that ends late (Detach with an old generation) never takes them away.
NewestKeepsCallbacks ==
  \A s \in Sessions, c \in Conns :
    (InMap(s) /\ conn[c].to = s /\ session[s].gen = c /\ conn[c].at = "serving" /\ ~CanFail(c))
      => session[s].on = c

\* A key reaches the shell that was on the screen when it was typed, and at most once, however
\* often the connection broke in between and whatever shell was started since.
InputReachesItsShell ==
  \A i \in Inputs : /\ Len(written[i]) <= 1
                    /\ written[i] # <<>> => Head(written[i]) = typed[i]

\* The screen shows the output of one shell, the one started last, and no chunk of it twice,
\* though a chunk may have been buffered, taken out, put back and sent again.
ScreenIsOneShell ==
  \A j, k \in DOMAIN screen : /\ screen[j][1] = hook.epoch
                              /\ j # k => screen[j] # screen[k]

\* A tab whose shell has ended comes to show it as offline or failed, for good: it is told, or
\* the handshake is refused until the attempts are used up.
ShownAsGone(s) == hook.ui \cap {"connected", "reconnecting"} = {} \/ hook.sid # s
EndIsSeen == \A s \in Sessions : (session[s].state = "gone" /\ hook.sid = s) ~> []ShownAsGone(s)

\* Reconnecting ends: with a connection, or with the message that asks for a click.
ReconnectingEnds == ("reconnecting" \in hook.ui) ~> ("reconnecting" \notin hook.ui)


\* The comment of Attach: "Output buffered while detached is flushed first." So the screen
\* shows the output of a shell in the order in which the shell wrote it.
OutputInOrder ==
  \A j, k \in DOMAIN screen : j < k => screen[j][2] < screen[k][2]

=============================================================================
