----------------------- MODULE TerminalSessionProofs -----------------------
(***************************************************************************)
(* Theorems about TerminalSession, for any number of shells, websockets,   *)
(* keys, chunks of output and faults, and any limits.                      *)
(***************************************************************************)
EXTENDS TerminalSession, SequenceTheorems, TLAPS

-----------------------------------------------------------------------------
(* Types of the parts *)

\* the messages an agent sends
LEMMA MessageTypes == /\ Closed \in Message /\ NotFound \in Message
                      /\ \A data \in Seq(1..MaxOutput) : Output(data) \in Message
  BY DEF Closed, NotFound, Output, Message

\* what the buffer keeps
LEMMA KeptType == ASSUME NEW buf \in Seq(1..MaxOutput)
                  PROVE  Kept(buf) \in Seq(1..MaxOutput)
  <1>1. Len(buf) \in Nat /\ \A k \in 1..Len(buf) : buf[k] \in 1..MaxOutput
    BY LenProperties, ElementOfSeq
  <1>2. CASE Len(buf) <= MaxBuffer
    BY <1>2 DEF Kept
  <1>3. CASE ~(Len(buf) <= MaxBuffer)
    <2>1. Len(buf) - MaxBuffer + 1 \in 1..(Len(buf) + 1)
      BY <1>1, <1>3, TerminalAssumption
    <2>2. SubSeq(buf, Len(buf) - MaxBuffer + 1, Len(buf)) \in Seq(1..MaxOutput)
      BY <1>1, <2>1, SubSeqProperties
    <2> QED BY <1>3, <2>2 DEF Kept
  <1> QED BY <1>2, <1>3

\* the fields of the records, in a form the provers use
LEMMA ConnFields == ASSUME conn \in [Conns -> Conn], NEW c \in Conns
                    PROVE  /\ conn[c] \in Conn
                           /\ conn[c].to \in Sessions \cup {None} /\ conn[c].ended \in BOOLEAN /\ conn[c].cut \in BOOLEAN
                           /\ conn[c].at \in {"asked", "refused", "upgraded", "taken", "serving", "done"}
                           /\ conn[c].end \in {"connecting", "open", "closing", "closed"}
                           /\ conn[c].carry \in Seq(1..MaxOutput) /\ conn[c].up \in Seq(Inputs) /\ conn[c].down \in Seq(Message)
  <1>1. conn[c] \in Conn
    OBVIOUS
  <1> QED BY <1>1 DEF Conn

LEMMA SessionFields == ASSUME session \in [Sessions -> Session], NEW s \in Sessions
                       PROVE  /\ session[s] \in Session
                              /\ session[s].state \in {"none", "live", "closed", "told", "gone"}
                              /\ session[s].buf \in Seq(1..MaxOutput) /\ session[s].made \in 0..MaxOutput
                              /\ session[s].on \in Conns \cup {None} /\ session[s].gen \in Conns \cup {None}
  <1>1. session[s] \in Session
    OBVIOUS
  <1> QED BY <1>1 DEF Session

LEMMA SentType == ASSUME conn \in [Conns -> Conn], NEW c \in Conns, NEW msg \in Message
                  PROVE  Sent(c, msg) \in Conn
  <1>1. conn[c] \in Conn /\ Append(conn[c].down, msg) \in Seq(Message)
    BY ConnFields, AppendProperties
  <1>2. [conn[c] EXCEPT !.down = Append(conn[c].down, msg)] \in Conn
    BY <1>1 DEF Conn
  <1>3. [conn[c] EXCEPT !.down = conn[c].down] \in Conn
    BY <1>1, ConnFields DEF Conn
  <1> QED BY <1>2, <1>3 DEF Sent

\* a record of a websocket keeps its type when one field changes
LEMMA ConnUpdates == ASSUME NEW w \in Conn
                     PROVE  /\ \A a \in {"asked", "refused", "upgraded", "taken", "serving", "done"} : [w EXCEPT !.at = a] \in Conn
                            /\ \A e \in {"connecting", "open", "closing", "closed"} : [w EXCEPT !.end = e] \in Conn
                            /\ \A b \in BOOLEAN : [w EXCEPT !.ended = b] \in Conn /\ [w EXCEPT !.cut = b] \in Conn
                            /\ \A d \in Seq(1..MaxOutput) : [w EXCEPT !.carry = d] \in Conn
                            /\ \A u \in Seq(Inputs) : [w EXCEPT !.up = u] \in Conn
                            /\ \A m \in Seq(Message) : [w EXCEPT !.down = m] \in Conn
  BY DEF Conn

LEMMA SessionUpdates == ASSUME NEW w \in Session
                        PROVE  /\ \A a \in {"none", "live", "closed", "told", "gone"} : [w EXCEPT !.state = a] \in Session
                               /\ \A b \in Seq(1..MaxOutput) : [w EXCEPT !.buf = b] \in Session
                               /\ \A n \in 0..MaxOutput : [w EXCEPT !.made = n] \in Session
                               /\ \A c \in Conns \cup {None} : [w EXCEPT !.on = c] \in Session /\ [w EXCEPT !.gen = c] \in Session
  BY DEF Session

\* the end of Attach keeps the type of the websocket
LEMMA FlushedType == ASSUME conn \in [Conns -> Conn], NEW c \in Conns, NEW w \in Conn
                     PROVE  Flushed(c, w) \in Conn
  <1>1. Append(w.down, Closed) \in Seq(Message) /\ w.down \in Seq(Message) /\ w.ended \in BOOLEAN /\ <<>> \in Seq(1..MaxOutput)
    <2>1. w.down \in Seq(Message) /\ w.ended \in BOOLEAN
      BY DEF Conn
    <2> QED BY <2>1, MessageTypes, AppendProperties
  <1> DEFINE told == session[conn[c].to].state # "live" /\ ~w.ended
             down == IF told /\ Heard(c) THEN Append(w.down, Closed) ELSE w.down
  <1>2. down \in Seq(Message) /\ (w.ended \/ told) \in BOOLEAN
    BY <1>1
  <1>3. Flushed(c, w) = [w EXCEPT !.at = "serving", !.carry = <<>>, !.ended = w.ended \/ told, !.down = down]
    BY DEF Flushed
  <1>4. \A e \in BOOLEAN, m \in Seq(Message) : [w EXCEPT !.at = "serving", !.carry = <<>>, !.ended = e, !.down = m] \in Conn
    BY <1>1 DEF Conn
  <1> QED
    <2> HIDE DEF told, down
    <2> QED BY <1>2, <1>3, <1>4

LEMMA DetachedType == ASSUME session \in [Sessions -> Session], NEW s \in Sessions, NEW c \in Conns
                      PROVE  Detached(s, c) \in Session
  BY SessionFields, SessionUpdates DEF Detached

LEMMA ToldType == ASSUME conn \in [Conns -> Conn], NEW c \in Conns
                  PROVE  ToldClosed(c) \in Conn
  BY SentType, ConnUpdates, ConnFields, MessageTypes DEF ToldClosed

\* a socket nobody listens to any more
LEMMA DroppedType == ASSUME conn \in [Conns -> Conn], NEW c \in Conns \cup {None}
                     PROVE  Dropped(c) \in [Conns -> Conn]
  <1>1. CASE c = None
    BY <1>1 DEF Dropped
  <1>2. CASE c \in Conns /\ c # None
    <2>1. \A w \in Conn, m \in Seq(Message) : [w EXCEPT !.end = "closed", !.down = m] \in Conn
      BY DEF Conn
    <2>2. conn[c] \in Conn /\ <<>> \in Seq(Message)
      BY <1>2
    <2>4. [conn[c] EXCEPT !.end = "closed", !.down = <<>>] \in Conn
      BY <2>1, <2>2
    <2>3. Dropped(c) = [conn EXCEPT ![c] = [conn[c] EXCEPT !.end = "closed", !.down = <<>>]]
      BY <1>2 DEF Dropped
    <2> QED BY <1>2, <2>3, <2>4
  <1> QED BY <1>1, <1>2

LEMMA AskedType == ASSUME NEW s \in Sessions
                   PROVE  Asked(s) \in Conn /\ NoConn \in Conn
  <1>1. NoConn \in Conn
    BY DEF NoConn, Conn
  <1>2. \A w \in Conn : [w EXCEPT !.to = s, !.at = "asked", !.end = "connecting", !.ended = FALSE] \in Conn
    BY DEF Conn
  <1> QED BY <1>1, <1>2 DEF Asked

LEMMA BrokenType == ASSUME conn \in [Conns -> Conn], NEW c \in Conns
                    PROVE  Broken(c) \in Conn /\ Broken(c).at \in {"refused", "upgraded", "taken", "serving", "done"}
  <1> DEFINE a == IF conn[c].at = "asked" THEN "refused" ELSE conn[c].at
  <1>2. a \in {"refused", "upgraded", "taken", "serving", "done"} /\ conn[c] \in Conn
    BY ConnFields
  <1>3. Broken(c) = [conn[c] EXCEPT !.cut = TRUE, !.up = <<>>, !.down = <<>>, !.at = a]
    BY DEF Broken
  <1>4. <<>> \in Seq(Inputs) /\ <<>> \in Seq(Message)
    OBVIOUS
  <1> HIDE DEF a
  <1>5. /\ [conn[c] EXCEPT !.cut = TRUE, !.up = <<>>, !.down = <<>>, !.at = a] \in Conn
        /\ [conn[c] EXCEPT !.cut = TRUE, !.up = <<>>, !.down = <<>>, !.at = a].at = a
    <2> DEFINE w == conn[c]
    <2>1. w \in Conn
      BY <1>2
    <2> HIDE DEF w
    <2>2. /\ [w EXCEPT !.cut = TRUE, !.up = <<>>, !.down = <<>>, !.at = a] \in Conn
          /\ [w EXCEPT !.cut = TRUE, !.up = <<>>, !.down = <<>>, !.at = a].at = a
      BY <1>2, <1>4, <2>1 DEF Conn
    <2> QED BY <2>2 DEF w
  <1> QED BY <1>2, <1>3, <1>5

LEMMA HookFields == ASSUME hook \in Hook
                    PROVE  /\ hook.mounted \in BOOLEAN /\ hook.epoch \in 0..MaxStarts /\ hook.epoch \in Nat
                           /\ hook.call \in {"none", "releasing", "posting"} /\ hook.prev \in Sessions \cup {None}
                           /\ hook.sid \in Sessions \cup {None} /\ hook.sock \in Conns \cup {None}
                           /\ hook.manual \in BOOLEAN /\ hook.ended \in BOOLEAN /\ hook.timer \in BOOLEAN
                           /\ hook.attempt \in 0..(MaxAttempts + 1) /\ hook.attempt \in Nat /\ hook.pending \in Seq(Inputs)
                           /\ hook.ui \in SUBSET {"starting", "connected", "reconnecting", "closed", "error"}
  BY TerminalAssumption DEF Hook

-----------------------------------------------------------------------------
(* What links the hook to the websockets *)

\* only a websocket that was never used is for no session
Used == \A c \in Conns : conn[c].to = None => (conn[c].at = "done" /\ conn[c].end = "closed")
\* the socket of the hook is for the session of the hook
Attached == hook.sock # None => (hook.sid # None /\ conn[hook.sock].to = hook.sid)
\* a start that is under way has its number, and no session yet
Calling == /\ hook.call # "none" => (hook.epoch \in Sessions /\ hook.sid = None)
           /\ hook.call = "releasing" => hook.prev \in Sessions
\* when the attempts are used up nothing is under way any more
Counted == hook.attempt > MaxAttempts => (~hook.timer /\ hook.sock = None /\ hook.call = "none")
\* keys wait only for a session
Waiting == hook.sid = None => hook.pending = <<>>

TypeInv == TypeOK /\ Used /\ Attached /\ Calling /\ Counted /\ Waiting

\* scheduleReconnect keeps all that
LEMMA ScheduledHook == ASSUME NEW h \in Hook, h.attempt <= MaxAttempts, NEW b \in BOOLEAN
                       PROVE  /\ Scheduled(h, b) \in Hook
                              /\ Scheduled(h, b).sid = h.sid /\ Scheduled(h, b).sock = h.sock /\ Scheduled(h, b).epoch = h.epoch
                              /\ Scheduled(h, b).call = h.call /\ Scheduled(h, b).prev = h.prev /\ Scheduled(h, b).pending = h.pending
                              /\ Scheduled(h, b).mounted = h.mounted
                              /\ (Scheduled(h, b).attempt > MaxAttempts => (~Scheduled(h, b).timer /\ h.sid # None /\ h.attempt = MaxAttempts))
  <1>1. /\ h.attempt \in Nat /\ MaxAttempts \in Nat /\ h.timer \in BOOLEAN
        /\ h.ui \in SUBSET {"starting", "connected", "reconnecting", "closed", "error"}
    BY TerminalAssumption DEF Hook
  <1>2. h.attempt + 1 \in 0..(MaxAttempts + 1)
    BY <1>1
  <1>3. CASE h.manual \/ h.ended \/ h.sid = None \/ (h.timer /\ ~b)
    BY <1>1, <1>3 DEF Scheduled
  <1>4. CASE ~(h.manual \/ h.ended \/ h.sid = None \/ (h.timer /\ ~b)) /\ h.attempt = MaxAttempts
    BY <1>1, <1>2, <1>4 DEF Scheduled, Hook
  <1>5. CASE ~(h.manual \/ h.ended \/ h.sid = None \/ (h.timer /\ ~b)) /\ h.attempt # MaxAttempts
    <2>1. Scheduled(h, b) = [h EXCEPT !.attempt = h.attempt + 1, !.timer = TRUE,
                                      !.ui = (h.ui \ {"connected"}) \cup {"reconnecting"}]
      BY <1>5 DEF Scheduled
    <2> DEFINE ui == (h.ui \ {"connected"}) \cup {"reconnecting"}
               n == h.attempt + 1
    <2>5. ui \in SUBSET {"starting", "connected", "reconnecting", "closed", "error"} /\ n \in 0..(MaxAttempts + 1)
      BY <1>1, <1>2
    <2>2. Scheduled(h, b) \in Hook
      <3> HIDE DEF ui, n
      <3>1. [h EXCEPT !.attempt = n, !.timer = TRUE, !.ui = ui] \in Hook
        BY <2>5 DEF Hook
      <3> QED BY <2>1, <3>1 DEF ui, n
    <2>3. Scheduled(h, b).attempt = h.attempt + 1 /\ h.attempt < MaxAttempts
      BY <1>1, <1>5, <2>1 DEF Hook
    <2>4. /\ Scheduled(h, b).sid = h.sid /\ Scheduled(h, b).sock = h.sock /\ Scheduled(h, b).epoch = h.epoch
          /\ Scheduled(h, b).call = h.call /\ Scheduled(h, b).prev = h.prev /\ Scheduled(h, b).pending = h.pending
          /\ Scheduled(h, b).mounted = h.mounted
      BY <2>1 DEF Hook
    <2> QED BY <1>1, <2>2, <2>3, <2>4
  <1> QED BY <1>3, <1>4, <1>5

LEMMA InitTypes == Init => TypeInv
  <1> SUFFICES ASSUME Init PROVE TypeInv
    OBVIOUS
  <1>1. NoSession \in Session
    BY TerminalAssumption DEF NoSession, Session
  <1>2. NoConn \in Conn
    BY DEF NoConn, Conn
  <1>3. hook \in Hook
    <2>1. 0 \in 0..MaxStarts /\ 0 \in 0..(MaxAttempts + 1) /\ <<>> \in Seq(Inputs)
      BY TerminalAssumption
    <2> QED BY <2>1 DEF Init, Hook
  <1>4. screen \in Seq(Sessions \X (1..MaxOutput)) /\ typed \in Seq(Sessions) /\ Len(typed) <= MaxInput
        /\ written \in [Inputs -> Seq(Sessions)] /\ kicks \in 0..MaxKicks /\ faults \in 0..MaxFaults
    BY TerminalAssumption DEF Init
  <1>5. TypeOK
    BY <1>1, <1>2, <1>3, <1>4 DEF Init, TypeOK
  <1>6. Used /\ Attached /\ Calling /\ Counted /\ Waiting
    BY TerminalAssumption DEF Init, NoConn, Used, Attached, Calling, Counted, Waiting
  <1> QED BY <1>5, <1>6 DEF TypeInv

-----------------------------------------------------------------------------
(* Types: the agent *)

LEMMA AgentTypes == ASSUME TypeInv, Agent
                    PROVE  TypeOK'
  <1>0. /\ session \in [Sessions -> Session] /\ conn \in [Conns -> Conn] /\ hook \in Hook /\ Used /\ Calling
        /\ <<>> \in Seq(1..MaxOutput) /\ 0 \in 0..MaxOutput
    BY TerminalAssumption DEF TypeInv, TypeOK
  <1>s. ASSUME NEW s \in Sessions
        PROVE  (Deliver(s) \/ ShellExits(s) \/ CloseTells(s) \/ CloseRemoves(s) \/ CloseAsked(s) \/ ReapFinds(s) \/ ReapCloses(s)) => TypeOK'
    <2> DEFINE c == session[s].on
               n == session[s].made + 1
    <2>0. session[s] \in Session /\ session[s].buf \in Seq(1..MaxOutput) /\ session[s].made \in Nat /\ c \in Conns \cup {None}
      BY <1>0, <1>s, SessionFields
    <2>1. ASSUME Deliver(s) PROVE TypeOK'
      <3>0. n \in 1..MaxOutput /\ n \in 0..MaxOutput
        BY <2>0, <2>1 DEF Deliver
      <3>1. CASE /\ c # None /\ ~conn[c].ended
                 /\ conn' = [conn EXCEPT ![c] = Sent(c, Output(<<n>>))]
                 /\ session' = [session EXCEPT ![s].made = n]
        <4>1. <<n>> \in Seq(1..MaxOutput)
          BY <3>0
        <4>2. Sent(c, Output(<<n>>)) \in Conn
          BY <1>0, <2>0, <3>1, <4>1, MessageTypes, SentType
        <4>3. conn' \in [Conns -> Conn]
          BY <1>0, <2>0, <3>1, <4>2
        <4>4. session' \in [Sessions -> Session]
          BY <1>0, <2>0, <3>0, <3>1, SessionUpdates
        <4> QED BY <2>1, <4>3, <4>4 DEF Deliver, TypeInv, TypeOK
      <3>2. CASE /\ session' = [session EXCEPT ![s].made = n, ![s].on = None, ![s].buf = Kept(Append(@, n))]
                 /\ UNCHANGED conn
        <4>1. Kept(Append(session[s].buf, n)) \in Seq(1..MaxOutput)
          BY <2>0, <3>0, AppendProperties, KeptType
        <4>2. [session[s] EXCEPT !.made = n, !.on = None, !.buf = Kept(Append(session[s].buf, n))] \in Session
          BY <2>0, <3>0, <4>1, SessionUpdates
        <4>3. session' = [session EXCEPT ![s] = [session[s] EXCEPT !.made = n, !.on = None, !.buf = Kept(Append(session[s].buf, n))]]
          BY <1>0, <3>2 DEF Session
        <4>4. session' \in [Sessions -> Session]
          BY <1>0, <4>2, <4>3
        <4> QED BY <2>1, <3>2, <4>4 DEF Deliver, TypeInv, TypeOK
      <3> QED BY <2>1, <3>1, <3>2 DEF Deliver
    <2>2. ASSUME ShellExits(s) \/ CloseRemoves(s) \/ CloseAsked(s) \/ ReapFinds(s) \/ ReapCloses(s) PROVE TypeOK'
      <3>1. [NoSession EXCEPT !.state = "gone"] \in Session
        BY <1>0 DEF NoSession, Session
      <3>2. session' \in [Sessions -> Session]
        BY <1>0, <2>0, <2>2, <3>1, SessionUpdates DEF ShellExits, CloseRemoves, CloseAsked, ReapFinds, ReapCloses, CloseBegins
      <3> QED BY <2>2, <3>2 DEF ShellExits, CloseRemoves, CloseAsked, ReapFinds, ReapCloses, TypeInv, TypeOK
    <2>3. ASSUME CloseTells(s) PROVE TypeOK'
      <3>1. session' \in [Sessions -> Session]
        BY <1>0, <2>0, <2>3, SessionUpdates DEF CloseTells
      <3>2. conn' \in [Conns -> Conn]
        BY <1>0, <2>0, <2>3, ToldType DEF CloseTells
      <3> QED BY <2>3, <3>1, <3>2 DEF CloseTells, TypeInv, TypeOK
    <2> QED BY <2>1, <2>2, <2>3
  <1>c. ASSUME NEW c \in Conns
        PROVE  (Upgrade(c) \/ AttachTake(c) \/ AttachFails(c) \/ AttachFlush(c) \/ HandleInput(c) \/ HandlerEnds(c)) => TypeOK'
    <2> DEFINE s == conn[c].to
    <2>0. conn[c] \in Conn /\ s \in Sessions \cup {None} /\ conn[c].carry \in Seq(1..MaxOutput) /\ conn[c].up \in Seq(Inputs)
      BY <1>0, <1>c, ConnFields
    <2>1. ASSUME Upgrade(c) PROVE TypeOK'
      <3>1. conn' \in [Conns -> Conn]
        BY <1>0, <2>0, <2>1, ConnUpdates DEF Upgrade
      <3> QED BY <2>1, <3>1 DEF Upgrade, TypeInv, TypeOK
    <2>2. ASSUME AttachTake(c) PROVE TypeOK'
      <3> DEFINE old == session[s].on
                 w == [conn[c] EXCEPT !.at = "taken", !.carry = session[s].buf]
      <3>0. s \in Sessions
        BY <1>0, <2>0, <2>2 DEF AttachTake, Used
      <3>1. session[s] \in Session /\ session[s].buf \in Seq(1..MaxOutput) /\ old \in Conns \cup {None}
        BY <1>0, <3>0, SessionFields
      <3>2. Taken(s, c) \in Session
        BY <1>0, <3>1 DEF Taken, Session
      <3>3. session' \in [Sessions -> Session]
        BY <1>0, <2>2, <3>0, <3>2 DEF AttachTake
      <3>4. w \in Conn
        BY <2>0, <3>1, ConnUpdates
      <3>5. [conn EXCEPT ![c].at = "taken", ![c].carry = session[s].buf] = [conn EXCEPT ![c] = w]
        BY <1>0 DEF Conn
      <3>6. [conn EXCEPT ![c] = w] \in [Conns -> Conn]
        <4> HIDE DEF w
        <4> QED BY <1>0, <3>4
      <3>7. conn' \in [Conns -> Conn]
        <4>1. \A f \in [Conns -> Conn], b \in Conns : [f EXCEPT ![b].ended = TRUE] \in [Conns -> Conn]
          BY ConnUpdates, Zenon
        <4>2. \/ conn' = [conn EXCEPT ![c] = w]
              \/ old # None /\ conn' = [[conn EXCEPT ![c] = w] EXCEPT ![old].ended = TRUE]
          BY <2>2, <3>5, Zenon DEF AttachTake
        <4> DEFINE f == [conn EXCEPT ![c] = w]
        <4>3. f \in [Conns -> Conn] /\ old \in Conns \cup {None} /\ (conn' = f \/ (old # None /\ conn' = [f EXCEPT ![old].ended = TRUE]))
          BY <3>1, <3>6, <4>2
        <4> HIDE DEF f, old
        <4> QED BY <4>1, <4>3
      <3> QED BY <2>2, <3>3, <3>7 DEF AttachTake, TypeInv, TypeOK
    <2>3. ASSUME AttachFails(c) PROVE TypeOK'
      <3>1. Sent(c, NotFound) \in Conn
        BY <1>0, MessageTypes, SentType
      <3>2. [Sent(c, NotFound) EXCEPT !.at = "done", !.ended = TRUE] \in Conn
        BY <3>1, ConnUpdates
      <3>3. conn' \in [Conns -> Conn]
        BY <1>0, <2>3, <3>2 DEF AttachFails
      <3> QED BY <2>3, <3>3 DEF AttachFails, TypeInv, TypeOK
    <2>4. ASSUME AttachFlush(c) PROVE TypeOK'
      <3> DEFINE carry == conn[c].carry
                 w == IF carry = <<>> THEN conn[c] ELSE Sent(c, Output(carry))
      <3>0. s \in Sessions
        BY <1>0, <2>0, <2>4 DEF AttachFlush, Used
      <3>1. w \in Conn
        BY <1>0, <2>0, MessageTypes, SentType
      <3>2. Flushed(c, w) \in Conn /\ Flushed(c, conn[c]) \in Conn
        <4> HIDE DEF w
        <4> QED BY <1>0, <2>0, <3>1, FlushedType
      <3>3. conn' \in [Conns -> Conn]
        <4>1. conn' = [conn EXCEPT ![c] = Flushed(c, w)] \/ conn' = [conn EXCEPT ![c] = Flushed(c, conn[c])]
          BY <2>4 DEF AttachFlush
        <4> HIDE DEF w
        <4> QED BY <1>0, <3>2, <4>1
      <3>4. [Detached(s, c) EXCEPT !.buf = Kept(Detached(s, c).buf \o carry)] \in Session
        <4>1. Detached(s, c) \in Session
          BY <1>0, <3>0, DetachedType
        <4>2. Detached(s, c).buf \in Seq(1..MaxOutput)
          BY <4>1 DEF Session
        <4>3. Kept(Detached(s, c).buf \o carry) \in Seq(1..MaxOutput)
          BY <2>0, <4>2, ConcatProperties, KeptType
        <4> QED BY <4>1, <4>3, SessionUpdates
      <3>5. session' \in [Sessions -> Session]
        <4>1. \/ session' = session
              \/ session' = [session EXCEPT ![s] = [Detached(s, c) EXCEPT !.buf = Kept(Detached(s, c).buf \o carry)]]
          BY <2>4 DEF AttachFlush
        <4> QED BY <1>0, <3>0, <3>4, <4>1
      <3> QED BY <2>4, <3>3, <3>5 DEF AttachFlush, TypeInv, TypeOK
    <2>5. ASSUME HandleInput(c) PROVE TypeOK'
      <3> DEFINE i == Head(conn[c].up)
                 w == IF InMap(s) THEN conn[c] ELSE Sent(c, NotFound)
      <3>0. s \in Sessions
        BY <1>0, <2>0, <2>5 DEF HandleInput, Used
      <3>1. i \in Inputs /\ Tail(conn[c].up) \in Seq(Inputs)
        BY <2>0, <2>5, HeadTailProperties DEF HandleInput
      <3>2. w \in Conn
        BY <1>0, <2>0, MessageTypes, SentType
      <3>3. [w EXCEPT !.ended = TRUE] \in Conn
        <4> HIDE DEF w
        <4> QED BY <3>2, ConnUpdates
      <3>4. conn' \in [Conns -> Conn]
        <4>1. conn' = [conn EXCEPT ![c].up = Tail(conn[c].up)] \/ conn' = [conn EXCEPT ![c] = [w EXCEPT !.ended = TRUE]]
          BY <1>0, <2>5 DEF HandleInput
        <4>2. [conn[c] EXCEPT !.up = Tail(conn[c].up)] \in Conn
          BY <2>0, <3>1, ConnUpdates
        <4> HIDE DEF w
        <4> QED BY <1>0, <3>3, <4>1, <4>2
      <3>5. written' \in [Inputs -> Seq(Sessions)]
        <4>1. written \in [Inputs -> Seq(Sessions)]
          BY DEF TypeInv, TypeOK
        <4>2. Append(written[i], s) \in Seq(Sessions)
          BY <3>0, <3>1, <4>1, AppendProperties
        <4>3. written' = written \/ written' = [written EXCEPT ![i] = Append(written[i], s)]
          BY <2>5 DEF HandleInput
        <4> HIDE DEF i
        <4> QED BY <4>1, <4>2, <4>3
      <3> QED BY <2>5, <3>4, <3>5 DEF HandleInput, TypeInv, TypeOK
    <2>6. ASSUME HandlerEnds(c) PROVE TypeOK'
      <3>0. s \in Sessions
        BY <1>0, <2>0, <2>6 DEF HandlerEnds, Used
      <3>1. session' \in [Sessions -> Session]
        BY <1>0, <2>6, <3>0, DetachedType DEF HandlerEnds
      <3>2. [conn[c] EXCEPT !.at = "done", !.ended = TRUE] \in Conn
        BY <2>0, ConnUpdates
      <3>3. conn' = [conn EXCEPT ![c] = [conn[c] EXCEPT !.at = "done", !.ended = TRUE]]
        BY <1>0, <2>6 DEF HandlerEnds, Conn
      <3>4. conn' \in [Conns -> Conn]
        BY <1>0, <3>2, <3>3
      <3> QED BY <2>6, <3>1, <3>4 DEF HandlerEnds, TypeInv, TypeOK
    <2> QED BY <2>1, <2>2, <2>3, <2>4, <2>5, <2>6
  <1>1. ASSUME StartArrives PROVE TypeOK'
    <2>1. hook.epoch \in Sessions
      BY <1>0, <1>1 DEF StartArrives, Calling
    <2>2. session' \in [Sessions -> Session]
      BY <1>0, <1>1, <2>1, SessionUpdates DEF StartArrives
    <2> QED BY <1>1, <2>2 DEF StartArrives, TypeInv, TypeOK
  <1> QED BY <1>s, <1>c, <1>1 DEF Agent

-----------------------------------------------------------------------------
(* What the agent does to a websocket *)

\* the fields a message leaves alone
LEMMA SentFields == ASSUME conn \in [Conns -> Conn], NEW c \in Conns, NEW m \in Message
                    PROVE  /\ Sent(c, m).to = conn[c].to /\ Sent(c, m).at = conn[c].at /\ Sent(c, m).end = conn[c].end
                           /\ Sent(c, m).ended = conn[c].ended /\ Sent(c, m).cut = conn[c].cut /\ Sent(c, m).up = conn[c].up
  BY ConnFields DEF Sent, Conn

LEMMA ToldFields == ASSUME conn \in [Conns -> Conn], NEW c \in Conns
                    PROVE  /\ ToldClosed(c).to = conn[c].to /\ ToldClosed(c).at = conn[c].at /\ ToldClosed(c).end = conn[c].end
                           /\ ToldClosed(c).ended = TRUE /\ ToldClosed(c).cut = conn[c].cut /\ ToldClosed(c).up = conn[c].up
  <1>1. conn[c] \in Conn /\ Sent(c, Closed) \in Conn
    BY ConnFields, SentType, MessageTypes
  <1> QED BY <1>1, SentFields, MessageTypes DEF ToldClosed, Conn

LEMMA FlushedFields == ASSUME NEW c \in Conns, NEW w \in Conn
                       PROVE  /\ Flushed(c, w).to = w.to /\ Flushed(c, w).at = "serving" /\ Flushed(c, w).end = w.end
                              /\ w.ended => Flushed(c, w).ended
                              /\ Flushed(c, w).cut = w.cut /\ Flushed(c, w).up = w.up
  BY DEF Flushed, Conn

LEMMA BrokenFields == ASSUME conn \in [Conns -> Conn], NEW c \in Conns
                      PROVE  /\ Broken(c).to = conn[c].to /\ Broken(c).end = conn[c].end /\ Broken(c).cut = TRUE
                             /\ Broken(c).ended = conn[c].ended /\ Broken(c).up = <<>>
                             /\ Broken(c).at = IF conn[c].at = "asked" THEN "refused" ELSE conn[c].at
  BY ConnFields DEF Broken, Conn

\* an open end stays as it is, what failed goes on failing, and only the read loop takes a key
Onward(d) == /\ conn'[d].to = conn[d].to /\ conn'[d].end = conn[d].end /\ conn'[d].cut = conn[d].cut
             /\ conn[d].ended => conn'[d].ended
             /\ conn'[d].at # conn[d].at => conn[d].to # None
LEMMA AgentConns == ASSUME TypeInv, Agent
                    PROVE  /\ hook' = hook
                           /\ \A d \in Conns : Onward(d) /\ (conn'[d].up = conn[d].up \/ HandleInput(d))
  <1>0. conn \in [Conns -> Conn] /\ session \in [Sessions -> Session] /\ Used
    BY DEF TypeInv, TypeOK
  <1>h. hook' = hook
    BY Zenon DEF Agent, Deliver, ShellExits, CloseTells, CloseRemoves, CloseAsked, ReapFinds, ReapCloses, Upgrade, AttachTake,
           AttachFails, AttachFlush, HandleInput, HandlerEnds, StartArrives
  <1>u. ASSUME UNCHANGED conn PROVE \A d \in Conns : Onward(d) /\ conn'[d].up = conn[d].up
    BY <1>u DEF Onward
  <1>w. ASSUME NEW c \in Conns, NEW w, conn' = [conn EXCEPT ![c] = w],
               w.to = conn[c].to, w.end = conn[c].end, w.cut = conn[c].cut, conn[c].ended => w.ended,
               w.at # conn[c].at => conn[c].to # None, w.up = conn[c].up \/ HandleInput(c)
        PROVE  \A d \in Conns : Onward(d) /\ (conn'[d].up = conn[d].up \/ HandleInput(d))
    BY <1>0, <1>w DEF Onward
  <1>1. ASSUME NEW s \in Sessions, Deliver(s)
        PROVE  \A d \in Conns : Onward(d) /\ (conn'[d].up = conn[d].up \/ HandleInput(d))
    <2> DEFINE c == session[s].on
               n == session[s].made + 1
    <2>1. CASE c # None /\ conn' = [conn EXCEPT ![c] = Sent(c, Output(<<n>>))]
      <3>1. c \in Conns /\ n \in 1..MaxOutput
        BY <1>0, <1>1, <2>1, SessionFields DEF Deliver
      <3>2. Output(<<n>>) \in Message
        <4>1. <<n>> \in Seq(1..MaxOutput)
          BY <3>1
        <4> QED BY <4>1, MessageTypes
      <3> HIDE DEF c, n
      <3> QED BY <1>0, <1>w, <2>1, <3>1, <3>2, SentFields
    <2>2. CASE UNCHANGED conn
      BY <1>u, <2>2
    <2> QED BY <1>1, <2>1, <2>2 DEF Deliver
  <1>2. ASSUME NEW s \in Sessions, ShellExits(s) \/ CloseRemoves(s) \/ CloseAsked(s) \/ ReapFinds(s) \/ ReapCloses(s)
        PROVE  UNCHANGED conn
    BY <1>2 DEF ShellExits, CloseRemoves, CloseAsked, ReapFinds, ReapCloses
  <1>3. ASSUME NEW s \in Sessions, CloseTells(s)
        PROVE  \A d \in Conns : Onward(d) /\ (conn'[d].up = conn[d].up \/ HandleInput(d))
    <2>1. session[s].on \in Conns \cup {None}
      BY <1>0, SessionFields
    <2>2. CASE session[s].on = None
      BY <1>3, <1>u, <2>2 DEF CloseTells
    <2>3. CASE session[s].on # None
      BY <1>0, <1>3, <1>w, <2>1, <2>3, ToldFields DEF CloseTells
    <2> QED BY <2>2, <2>3
  <1>4. ASSUME NEW c \in Conns, Upgrade(c)
        PROVE  \A d \in Conns : Onward(d) /\ (conn'[d].up = conn[d].up \/ HandleInput(d))
    BY <1>0, <1>4 DEF Upgrade, Onward, Used, Conn
  <1>5. ASSUME NEW c \in Conns, AttachTake(c)
        PROVE  \A d \in Conns : Onward(d) /\ (conn'[d].up = conn[d].up \/ HandleInput(d))
    <2>1. conn[c].to # None
      BY <1>0, <1>5 DEF AttachTake, Used
    <2> DEFINE s == conn[c].to
               old == session[s].on
               w == [conn[c] EXCEPT !.at = "taken", !.carry = session[s].buf]
               f == [conn EXCEPT ![c] = w]
    <2>2. conn[c] \in Conn
      BY <1>0
    <2>3. w.to = s /\ w.end = conn[c].end /\ w.cut = conn[c].cut /\ w.ended = conn[c].ended /\ w.up = conn[c].up
      BY <2>2 DEF Conn
    <2>4. s \in Sessions /\ old \in Conns \cup {None}
      BY <1>0, <2>1, ConnFields, SessionFields
    <2>5. conn' = IF old = None THEN f ELSE [f EXCEPT ![old].ended = TRUE]
      <3>1. [conn EXCEPT ![c].at = "taken", ![c].carry = session[s].buf] = f
        BY <1>0, <2>2 DEF Conn
      <3> HIDE DEF f
      <3> QED BY <1>5, <3>1, Zenon DEF AttachTake
    <2> HIDE DEF w
    <2>6. \A d \in Conns : /\ f[d].to = conn[d].to /\ f[d].end = conn[d].end /\ f[d].cut = conn[d].cut
                           /\ f[d].ended = conn[d].ended /\ f[d].up = conn[d].up
      BY <1>0, <2>3
    <2>7. DOMAIN f = Conns /\ w \in Conn
      <3>1. session[s].buf \in Seq(1..MaxOutput)
        BY <1>0, <2>4, SessionFields
      <3>2. w \in Conn
        BY <2>2, <3>1 DEF w, Conn
      <3> QED BY <1>0, <3>2
    <2>8. \A d \in Conns : f[d] \in Conn
      BY <1>0, <2>7
    <2> HIDE DEF f, old
    <2>9. \A d \in Conns : /\ conn'[d].to = f[d].to /\ conn'[d].end = f[d].end /\ conn'[d].cut = f[d].cut
                           /\ conn'[d].up = f[d].up /\ (f[d].ended => conn'[d].ended)
      <3>1. CASE old = None
        BY <2>5, <3>1
      <3>2. CASE old # None
        <4> DEFINE v == [f[old] EXCEPT !.ended = TRUE]
        <4>1. v.to = f[old].to /\ v.end = f[old].end /\ v.cut = f[old].cut /\ v.up = f[old].up /\ v.ended
          BY <2>4, <2>8, <3>2 DEF Conn
        <4>2. conn' = [f EXCEPT ![old] = v]
          BY <2>5, <3>2
        <4> HIDE DEF v
        <4> QED BY <2>4, <2>7, <3>2, <4>1, <4>2
      <3> QED BY <3>1, <3>2
    <2>10. \A d \in Conns : conn'[d].at # conn[d].at => conn[d].to # None
      BY <1>0, <1>5, <2>1, <2>2 DEF AttachTake, Conn
    <2> QED BY <2>6, <2>9, <2>10 DEF Onward
  <1>6. ASSUME NEW c \in Conns, AttachFails(c)
        PROVE  \A d \in Conns : Onward(d) /\ (conn'[d].up = conn[d].up \/ HandleInput(d))
    <2> DEFINE w == [Sent(c, NotFound) EXCEPT !.at = "done", !.ended = TRUE]
    <2>1. /\ w.to = conn[c].to /\ w.end = conn[c].end /\ w.cut = conn[c].cut /\ w.ended /\ w.up = conn[c].up
          /\ conn[c].to # None
      <3>1. Sent(c, NotFound) \in Conn
        BY <1>0, SentType, MessageTypes
      <3> QED BY <1>0, <1>6, <3>1, SentFields, MessageTypes DEF AttachFails, Used, Conn
    <2>2. conn' = [conn EXCEPT ![c] = w]
      BY <1>6 DEF AttachFails
    <2> HIDE DEF w
    <2> QED BY <1>w, <2>1, <2>2
  <1>7. ASSUME NEW c \in Conns, AttachFlush(c)
        PROVE  \A d \in Conns : Onward(d) /\ (conn'[d].up = conn[d].up \/ HandleInput(d))
    <2> DEFINE carry == conn[c].carry
               v == IF carry = <<>> THEN conn[c] ELSE Sent(c, Output(carry))
    <2>0. conn[c].to # None /\ carry \in Seq(1..MaxOutput) /\ conn[c] \in Conn
      BY <1>0, <1>7, ConnFields DEF AttachFlush, Used
    <2>1. /\ v \in Conn /\ v.to = conn[c].to /\ v.end = conn[c].end /\ v.cut = conn[c].cut
          /\ v.ended = conn[c].ended /\ v.up = conn[c].up
      BY <1>0, <2>0, SentFields, SentType, MessageTypes
    <2>2. conn' = [conn EXCEPT ![c] = Flushed(c, v)] \/ conn' = [conn EXCEPT ![c] = Flushed(c, conn[c])]
      BY <1>7 DEF AttachFlush
    <2> HIDE DEF v, carry
    <2>3. CASE conn' = [conn EXCEPT ![c] = Flushed(c, v)]
      BY <1>w, <2>0, <2>1, <2>3, FlushedFields, ZenonT(60)
    <2>4. CASE conn' = [conn EXCEPT ![c] = Flushed(c, conn[c])]
      BY <1>w, <2>0, <2>4, FlushedFields, ZenonT(60)
    <2> QED BY <2>2, <2>3, <2>4
  <1>8. ASSUME NEW c \in Conns, HandleInput(c)
        PROVE  \A d \in Conns : Onward(d) /\ (conn'[d].up = conn[d].up \/ HandleInput(d))
    <2> DEFINE v == IF InMap(conn[c].to) THEN conn[c] ELSE Sent(c, NotFound)
    <2>0. conn[c].to # None /\ conn[c] \in Conn
      BY <1>0, <1>8 DEF HandleInput, Used
    <2>1. v \in Conn /\ v.to = conn[c].to /\ v.end = conn[c].end /\ v.cut = conn[c].cut
      BY <1>0, <2>0, SentFields, SentType, MessageTypes
    <2>2. \/ conn' = [conn EXCEPT ![c] = [conn[c] EXCEPT !.up = Tail(conn[c].up)]]
          \/ conn' = [conn EXCEPT ![c] = [v EXCEPT !.ended = TRUE]]
      BY <1>8 DEF HandleInput
    <2> HIDE DEF v
    <2>3. CASE conn' = [conn EXCEPT ![c] = [conn[c] EXCEPT !.up = Tail(conn[c].up)]]
      <3> DEFINE w == [conn[c] EXCEPT !.up = Tail(conn[c].up)]
      <3>1. w.to = conn[c].to /\ w.end = conn[c].end /\ w.cut = conn[c].cut /\ w.ended = conn[c].ended
        BY <2>0 DEF Conn
      <3> HIDE DEF w
      <3> QED BY <1>8, <1>w, <2>0, <2>3, <3>1 DEF w
    <2>4. CASE conn' = [conn EXCEPT ![c] = [v EXCEPT !.ended = TRUE]]
      <3> DEFINE w == [v EXCEPT !.ended = TRUE]
      <3>1. w.to = conn[c].to /\ w.end = conn[c].end /\ w.cut = conn[c].cut /\ w.ended
        BY <2>1 DEF Conn
      <3> HIDE DEF w
      <3> QED BY <1>8, <1>w, <2>0, <2>4, <3>1 DEF w
    <2> QED BY <2>2, <2>3, <2>4
  <1>9. ASSUME NEW c \in Conns, HandlerEnds(c)
        PROVE  \A d \in Conns : Onward(d) /\ (conn'[d].up = conn[d].up \/ HandleInput(d))
    <2>1. conn[c].to # None /\ \A d \in Conns : conn[d] \in Conn
      BY <1>0, <1>9 DEF HandlerEnds, Used
    <2> QED BY <1>0, <1>9, <2>1 DEF HandlerEnds, Onward, Conn
  <1>10. ASSUME StartArrives PROVE UNCHANGED conn
    BY <1>10 DEF StartArrives
  <1> QED BY <1>h, <1>u, <1>1, <1>2, <1>3, <1>4, <1>5, <1>6, <1>7, <1>8, <1>9, <1>10 DEF Agent

-----------------------------------------------------------------------------
(* Types: the tab and the faults *)

\* connectSocket
LEMMA ConnectTypes == ASSUME conn \in [Conns -> Conn], NEW h \in Hook, h.sid # None, NEW c \in Conns, Connect(h, c)
                      PROVE  /\ conn' \in [Conns -> Conn] /\ hook' \in Hook
                             /\ hook'.sock = c /\ hook'.sid = h.sid /\ hook'.call = h.call /\ hook'.attempt = h.attempt
                             /\ hook'.timer = h.timer /\ hook'.epoch = h.epoch /\ hook'.prev = h.prev /\ hook'.pending = h.pending
                             /\ hook'.mounted = h.mounted
                             /\ conn'[c] = Asked(h.sid) /\ conn'[c].to = h.sid /\ conn'[c].at = "asked" /\ conn'[c].up = <<>>
                             /\ \A d \in Conns \ {c} : /\ conn'[d].to = conn[d].to /\ conn'[d].at = conn[d].at
                                                       /\ conn'[d].end \in {conn[d].end, "closed"}
                                                       /\ conn'[d].ended = conn[d].ended /\ conn'[d].cut = conn[d].cut
                                                       /\ conn'[d].up = conn[d].up
  <1>1. h.sid \in Sessions /\ h.sock \in Conns \cup {None}
    BY DEF Hook
  <1>2. Asked(h.sid) \in Conn /\ Asked(h.sid).to = h.sid /\ Asked(h.sid).at = "asked" /\ Asked(h.sid).up = <<>>
    BY <1>1, AskedType DEF Asked, NoConn
  <1>3. Dropped(h.sock) \in [Conns -> Conn]
    BY <1>1, DroppedType
  <1>4. \A d \in Conns : /\ Dropped(h.sock)[d].to = conn[d].to /\ Dropped(h.sock)[d].at = conn[d].at
                         /\ Dropped(h.sock)[d].end \in {conn[d].end, "closed"}
                         /\ Dropped(h.sock)[d].ended = conn[d].ended /\ Dropped(h.sock)[d].cut = conn[d].cut
                         /\ Dropped(h.sock)[d].up = conn[d].up
    BY <1>1 DEF Dropped, Conn
  <1>5. conn' = [Dropped(h.sock) EXCEPT ![c] = Asked(h.sid)] /\ hook' = [h EXCEPT !.sock = c]
    BY DEF Connect
  <1>6. hook' \in Hook
    BY <1>5 DEF Hook
  <1>7. /\ hook'.sock = c /\ hook'.sid = h.sid /\ hook'.call = h.call /\ hook'.attempt = h.attempt
        /\ hook'.timer = h.timer /\ hook'.epoch = h.epoch /\ hook'.prev = h.prev /\ hook'.pending = h.pending
        /\ hook'.mounted = h.mounted
    BY <1>5 DEF Hook
  <1> QED BY <1>2, <1>3, <1>4, <1>5, <1>6, <1>7

\* one websocket changes, and neither its session nor the handler of it
LEMMA OneConn == ASSUME conn \in [Conns -> Conn], NEW c \in Conns, NEW w \in Conn, conn' = [conn EXCEPT ![c] = w],
                        w.to = conn[c].to, w.at = conn[c].at
                 PROVE  /\ conn' \in [Conns -> Conn] /\ conn'[c] = w
                        /\ \A d \in Conns : conn'[d].to = conn[d].to /\ conn'[d].at = conn[d].at /\ (d = c \/ conn'[d] = conn[d])
  OBVIOUS

\* the socket the hook lets go of
LEMMA DroppedFields == ASSUME conn \in [Conns -> Conn], hook \in Hook, conn' = Dropped(hook.sock)
                       PROVE  /\ conn' \in [Conns -> Conn]
                              /\ \A d \in Conns : /\ conn'[d].to = conn[d].to /\ conn'[d].at = conn[d].at
                                                   /\ conn'[d].end \in {conn[d].end, "closed"}
                                                   /\ conn'[d].ended = conn[d].ended /\ conn'[d].cut = conn[d].cut
                                                   /\ conn'[d].up = conn[d].up
  <1>1. hook.sock \in Conns \cup {None}
    BY HookFields
  <1>2. conn' \in [Conns -> Conn]
    BY <1>1, DroppedType
  <1> QED BY <1>1, <1>2 DEF Dropped, Conn

LEMMA AgentInv == ASSUME TypeInv, Agent
                  PROVE  TypeInv'
  <1>1. TypeOK'
    BY AgentTypes
  <1>2. hook' = hook /\ \A d \in Conns : Onward(d)
    BY AgentConns
  <1>3. hook.sock \in Conns \cup {None}
    BY HookFields DEF TypeInv, TypeOK
  <1>4. Used' /\ Attached' /\ Calling' /\ Counted' /\ Waiting'
    BY <1>2, <1>3 DEF TypeInv, Used, Attached, Calling, Counted, Waiting, Onward
  <1> QED BY <1>1, <1>4 DEF TypeInv

LEMMA TabInv == ASSUME TypeInv, Tab
                PROVE  TypeInv'
  <1>0. /\ session \in [Sessions -> Session] /\ conn \in [Conns -> Conn] /\ hook \in Hook
        /\ Used /\ Attached /\ Calling /\ Counted /\ Waiting
        /\ screen \in Seq(Sessions \X (1..MaxOutput)) /\ deletes \subseteq Sessions /\ typed \in Seq(Sessions)
    BY DEF TypeInv, TypeOK
  <1>f. /\ hook.mounted \in BOOLEAN /\ hook.epoch \in 0..MaxStarts /\ hook.epoch \in Nat
        /\ hook.call \in {"none", "releasing", "posting"} /\ hook.prev \in Sessions \cup {None}
        /\ hook.sid \in Sessions \cup {None} /\ hook.sock \in Conns \cup {None}
        /\ hook.manual \in BOOLEAN /\ hook.ended \in BOOLEAN /\ hook.timer \in BOOLEAN
        /\ hook.attempt \in 0..(MaxAttempts + 1) /\ hook.attempt \in Nat /\ hook.pending \in Seq(Inputs)
        /\ hook.ui \in SUBSET {"starting", "connected", "reconnecting", "closed", "error"}
        /\ MaxAttempts \in Nat /\ 0 \in 0..(MaxAttempts + 1) /\ <<>> \in Seq(Inputs) /\ MaxStarts \in Nat
    BY <1>0, HookFields, TerminalAssumption
  <1>1. ASSUME Start PROVE TypeInv'
    <2>1. hook.epoch + 1 \in Sessions /\ hook.epoch + 1 \in 0..MaxStarts
      BY <1>1, <1>f DEF Start, Sessions
    <2>2. Renewed \in Hook
      BY <1>0, <1>f, <2>1, ZenonT(60) DEF Renewed, Hook
    <2>3. /\ hook' = Renewed /\ hook'.sid = None /\ hook'.sock = None /\ hook'.epoch = hook.epoch + 1
          /\ hook'.attempt = 0 /\ hook'.pending = <<>> /\ hook'.prev = hook.sid
          /\ hook'.call = "releasing" => hook.sid # None
      BY <1>0, <1>1 DEF Start, Renewed, Hook
    <2>4. /\ conn' \in [Conns -> Conn]
          /\ \A d \in Conns : conn'[d].to = conn[d].to /\ conn'[d].at = conn[d].at /\ conn'[d].end \in {conn[d].end, "closed"}
      BY <1>0, <1>1, DroppedFields DEF Start
    <2>5. <<>> \in Seq(Sessions \X (1..MaxOutput)) /\ deletes' \subseteq Sessions
      BY <1>0, <1>1, <1>f DEF Start
    <2>6. TypeOK'
      BY <1>1, <2>2, <2>3, <2>4, <2>5 DEF Start, TypeInv, TypeOK
    <2>7. Used' /\ Attached' /\ Calling' /\ Counted' /\ Waiting'
      BY <1>0, <1>f, <2>1, <2>3, <2>4, SMTT(30) DEF Used, Attached, Calling, Counted, Waiting
    <2> QED BY <2>6, <2>7 DEF TypeInv
  <1>2. ASSUME PreviousReleased PROVE TypeInv'
    <2>1. hook' \in Hook
      BY <1>0, <1>2 DEF PreviousReleased, Hook
    <2>2. TypeOK'
      BY <1>2, <2>1 DEF PreviousReleased, TypeInv, TypeOK
    <2>3. Used' /\ Attached' /\ Calling' /\ Counted' /\ Waiting'
      BY <1>0, <1>2 DEF PreviousReleased, Used, Attached, Calling, Counted, Waiting, Hook
    <2> QED BY <2>2, <2>3 DEF TypeInv
  <1>3. ASSUME StartFails PROVE TypeInv'
    <2>1. hook' \in Hook
      BY <1>0, <1>f, <1>3 DEF StartFails, Hook
    <2>2. faults' \in 0..MaxFaults
      BY <1>3, TerminalAssumption, SMTT(30) DEF StartFails, TypeInv, TypeOK
    <2>3. TypeOK'
      BY <1>3, <2>1, <2>2 DEF StartFails, TypeInv, TypeOK
    <2>4. Used' /\ Attached' /\ Calling' /\ Counted' /\ Waiting'
      BY <1>0, <1>3 DEF StartFails, Used, Attached, Calling, Counted, Waiting, Hook
    <2> QED BY <2>3, <2>4 DEF TypeInv
  <1>4. ASSUME Kick PROVE TypeInv'
    <2> DEFINE h == [hook EXCEPT !.attempt = 0]
    <2>h. h \in Hook
      BY <1>0, <1>f DEF Hook
    <2>1. h \in Hook /\ h.attempt = 0 /\ h.attempt <= MaxAttempts /\ h.sid = hook.sid /\ h.sock = hook.sock
          /\ h.epoch = hook.epoch /\ h.call = hook.call /\ h.prev = hook.prev /\ h.pending = hook.pending
      <3>1. /\ h.attempt = 0 /\ h.sid = hook.sid /\ h.sock = hook.sock
            /\ h.epoch = hook.epoch /\ h.call = hook.call /\ h.prev = hook.prev /\ h.pending = hook.pending
        BY <1>0 DEF Hook
      <3>2. 0 <= MaxAttempts
        BY <1>f
      <3> HIDE DEF h
      <3> QED BY <2>h, <3>1, <3>2
    <2>2. hook' = Scheduled(h, TRUE) /\ MaxAttempts # 0
      BY <1>4, TerminalAssumption DEF Kick
    <2> HIDE DEF h
    <2>3. /\ hook' \in Hook /\ hook'.sid = hook.sid /\ hook'.sock = hook.sock /\ hook'.epoch = hook.epoch
          /\ hook'.call = hook.call /\ hook'.prev = hook.prev /\ hook'.pending = hook.pending
          /\ ~(hook'.attempt > MaxAttempts)
      BY <2>1, <2>2, ScheduledHook
    <2>4. kicks' \in 0..MaxKicks
      BY <1>4, TerminalAssumption DEF Kick, TypeInv, TypeOK
    <2>5. TypeOK'
      BY <1>4, <2>3, <2>4 DEF Kick, TypeInv, TypeOK
    <2>6. conn' = conn
      BY <1>4 DEF Kick
    <2>7. Used' /\ Attached' /\ Calling' /\ Counted' /\ Waiting'
      BY <1>0, <2>3, <2>6 DEF Used, Attached, Calling, Counted, Waiting
    <2> QED BY <2>5, <2>7 DEF TypeInv
  <1>5. ASSUME SendInput PROVE TypeInv'
    <2> DEFINE i == Len(typed) + 1
               c == hook.sock
    <2>1. i \in Inputs /\ Len(typed) \in Nat /\ hook.sid \in Sessions
      BY <1>0, <1>5, <1>f, LenProperties DEF SendInput, Inputs
    <2>2. typed' \in Seq(Sessions) /\ Len(typed') <= MaxInput
      BY <1>0, <1>5, <2>1, AppendProperties DEF SendInput
    <2>3. conn' = conn \/ (c \in Conns /\ conn' = [conn EXCEPT ![c] = [conn[c] EXCEPT !.up = Append(conn[c].up, i)]])
      BY <1>5, <1>f DEF SendInput
    <2>4. c \in Conns => Append(conn[c].up, i) \in Seq(Inputs) /\ conn[c] \in Conn
      BY <1>0, <2>1, ConnFields, AppendProperties
    <2>5. /\ conn' \in [Conns -> Conn]
          /\ \A d \in Conns : conn'[d].to = conn[d].to /\ conn'[d].at = conn[d].at /\ conn'[d].end = conn[d].end
      <3>1. CASE c \in Conns /\ conn' = [conn EXCEPT ![c] = [conn[c] EXCEPT !.up = Append(conn[c].up, i)]]
        <4> DEFINE w == [conn[c] EXCEPT !.up = Append(conn[c].up, i)]
        <4>1. w \in Conn /\ w.to = conn[c].to /\ w.at = conn[c].at /\ w.end = conn[c].end
          BY <2>4, <3>1 DEF Conn
        <4> HIDE DEF c, w
        <4> QED BY <1>0, <3>1, <4>1, OneConn DEF w
      <3> QED BY <1>0, <2>3, <3>1
    <2>6. hook' = hook \/ hook' = [hook EXCEPT !.pending = Append(hook.pending, i)]
      BY <1>5 DEF SendInput
    <2>7. Append(hook.pending, i) \in Seq(Inputs)
      BY <1>f, <2>1, AppendProperties
    <2>8. /\ hook' \in Hook /\ hook'.sid = hook.sid /\ hook'.sock = hook.sock /\ hook'.epoch = hook.epoch
          /\ hook'.call = hook.call /\ hook'.prev = hook.prev /\ hook'.attempt = hook.attempt /\ hook'.timer = hook.timer
      <3> HIDE DEF i
      <3> QED BY <1>0, <2>6, <2>7 DEF Hook
    <2>9. TypeOK'
      BY <1>5, <2>2, <2>5, <2>8 DEF SendInput, TypeInv, TypeOK
    <2>10. Used' /\ Attached' /\ Calling' /\ Counted' /\ Waiting'
      <3>1. hook'.sid # None
        BY <2>1, <2>8 DEF Sessions, None
      <3> QED BY <1>0, <1>f, <2>5, <2>8, <3>1 DEF Used, Attached, Calling, Counted, Waiting
    <2> QED BY <2>9, <2>10 DEF TypeInv
  <1>6. ASSUME Unmount \/ Leave PROVE TypeInv'
    <2>1. /\ hook' \in Hook /\ hook'.sid = None /\ hook'.sock = None /\ hook'.pending = <<>> /\ ~hook'.timer
          /\ hook'.epoch = hook.epoch /\ hook'.call \in {hook.call, "none"} /\ hook'.prev = hook.prev /\ hook'.attempt = hook.attempt
      <3>1. CASE Unmount
        <4>1. hook' \in Hook
          BY <1>0, <1>f, <3>1 DEF Unmount, Hook
        <4> QED BY <1>0, <3>1, <4>1 DEF Unmount, Hook
      <3>2. CASE Leave
        <4>1. hook' \in Hook
          BY <1>0, <1>f, <3>2 DEF Leave, Hook
        <4> QED BY <1>0, <3>2, <4>1 DEF Leave, Hook
      <3> QED BY <1>6, <3>1, <3>2
    <2>2. /\ conn' \in [Conns -> Conn]
          /\ \A d \in Conns : conn'[d].to = conn[d].to /\ conn'[d].at = conn[d].at /\ conn'[d].end \in {conn[d].end, "closed"}
      BY <1>0, <1>6, DroppedFields DEF Unmount, Leave
    <2>3. deletes' \subseteq Sessions
      BY <1>0, <1>6, <1>f DEF Unmount, Leave
    <2>4. TypeOK'
      BY <1>6, <2>1, <2>2, <2>3 DEF Unmount, Leave, TypeInv, TypeOK
    <2>5. Used' /\ Attached' /\ Calling' /\ Counted' /\ Waiting'
      BY <1>0, <2>1, <2>2 DEF Used, Attached, Calling, Counted, Waiting
    <2> QED BY <2>4, <2>5 DEF TypeInv
  <1>c. ASSUME NEW c \in Conns
        PROVE  (StartAnswered(c) \/ OnOpen(c) \/ OnMessage(c) \/ Watchdog(c) \/ OnClose(c) \/ Reconnect(c)) => TypeInv'
    <2>0. conn[c] \in Conn /\ conn[c].down \in Seq(Message) /\ (conn[c].end # "closed" => conn[c].to \in Sessions)
      BY <1>0, ConnFields DEF Used
    <2>1. ASSUME StartAnswered(c) PROVE TypeInv'
      <3> DEFINE h == [hook EXCEPT !.call = "none", !.sid = hook.epoch, !.ui = hook.ui \ {"starting"}]
      <3>1. /\ h \in Hook /\ h.sid # None /\ h.call = "none" /\ h.attempt <= MaxAttempts /\ h.sid = hook.epoch
        <4>1. hook.epoch \in Sessions /\ hook.epoch # None /\ ~(hook.attempt > MaxAttempts)
          BY <1>0, <1>f, <2>1 DEF StartAnswered, Calling, Counted, Sessions, None
        <4>2. h \in Hook
          BY <1>0, <1>f, <4>1 DEF Hook
        <4> QED BY <1>0, <1>f, <4>1, <4>2 DEF Hook
      <3>2. Connect(h, c)
        BY <2>1 DEF StartAnswered
      <3> HIDE DEF h
      <3>3. TypeOK'
        BY <1>0, <2>1, <3>1, <3>2, ConnectTypes DEF StartAnswered, TypeInv, TypeOK
      <3>4. /\ hook'.sock = c /\ hook'.sid = h.sid /\ hook'.call = "none" /\ ~(hook'.attempt > MaxAttempts)
            /\ conn'[c].to = h.sid
            /\ \A d \in Conns \ {c} : conn'[d].to = conn[d].to /\ conn'[d].at = conn[d].at /\ conn'[d].end \in {conn[d].end, "closed"}
        <4>1. /\ hook'.sock = c /\ hook'.sid = h.sid /\ hook'.call = h.call /\ hook'.attempt = h.attempt /\ conn'[c].to = h.sid
              /\ \A d \in Conns \ {c} : conn'[d].to = conn[d].to /\ conn'[d].at = conn[d].at /\ conn'[d].end \in {conn[d].end, "closed"}
          BY <1>0, <3>1, <3>2, ConnectTypes
        <4>2. h.attempt \in Nat /\ MaxAttempts \in Nat
          BY <1>f, <3>1 DEF Hook
        <4>3. ~(h.attempt > MaxAttempts)
          BY <3>1, <4>2
        <4> QED BY <3>1, <4>1, <4>3
      <3>5. Used' /\ Attached' /\ Calling' /\ Counted' /\ Waiting'
        BY <1>0, <3>1, <3>4 DEF Used, Attached, Calling, Counted, Waiting
      <3> QED BY <3>3, <3>5 DEF TypeInv
    <2>2. ASSUME OnOpen(c) PROVE TypeInv'
      <3>1. hook' \in Hook /\ hook'.sid = hook.sid /\ hook'.sock = hook.sock /\ hook'.attempt = 0 /\ hook'.pending = <<>>
            /\ hook'.epoch = hook.epoch /\ hook'.call = hook.call /\ hook'.prev = hook.prev
        BY <1>0, <1>f, <2>2 DEF OnOpen, Hook
      <3>2. [conn[c] EXCEPT !.end = "open", !.up = hook.pending] \in Conn
        BY <1>f, <2>0, ConnUpdates
      <3>3. conn' = [conn EXCEPT ![c] = [conn[c] EXCEPT !.end = "open", !.up = hook.pending]]
        BY <1>0, <2>2 DEF OnOpen, Conn
      <3>4. conn' \in [Conns -> Conn]
        BY <1>0, <3>2, <3>3
      <3>5. TypeOK'
        BY <2>2, <3>1, <3>4 DEF OnOpen, TypeInv, TypeOK
      <3>6. \A d \in Conns : conn'[d].to = conn[d].to /\ conn'[d].at = conn[d].at /\ (d = c \/ conn'[d].end = conn[d].end)
        BY <1>0, <2>0, <3>3 DEF Conn
      <3>7. conn[c].to # None
        BY <1>0, <2>2 DEF OnOpen, Used
      <3>8. Used' /\ Attached' /\ Calling' /\ Counted' /\ Waiting'
        <4>1. Used'
          BY <1>0, <3>6, <3>7 DEF Used
        <4> QED BY <1>0, <1>f, <3>1, <3>6, <4>1 DEF Attached, Calling, Counted, Waiting
      <3> QED BY <3>5, <3>8 DEF TypeInv
    <2>3. ASSUME OnMessage(c) PROVE TypeInv'
      <3> DEFINE msg == Head(conn[c].down)
      <3>1. msg \in Message /\ Tail(conn[c].down) \in Seq(Message) /\ conn[c].to \in Sessions
        BY <2>0, <2>3, HeadTailProperties DEF OnMessage
      <3>2. conn' = [conn EXCEPT ![c] = [conn[c] EXCEPT !.down = Tail(conn[c].down)]]
        BY <2>3 DEF OnMessage
      <3>3. /\ conn' \in [Conns -> Conn]
            /\ \A d \in Conns : conn'[d].to = conn[d].to /\ conn'[d].at = conn[d].at /\ conn'[d].end = conn[d].end
        <4> DEFINE w == [conn[c] EXCEPT !.down = Tail(conn[c].down)]
        <4>1. w \in Conn /\ w.to = conn[c].to /\ w.at = conn[c].at /\ w.end = conn[c].end
          BY <2>0, <3>1 DEF Conn
        <4>2. conn' = [conn EXCEPT ![c] = w]
          BY <3>2
        <4> HIDE DEF w
        <4> QED BY <1>0, <4>1, <4>2, OneConn
      <3>4. /\ hook' \in Hook /\ hook'.sid = hook.sid /\ hook'.sock = hook.sock /\ hook'.attempt = hook.attempt
            /\ hook'.pending = hook.pending /\ hook'.timer = hook.timer
            /\ hook'.epoch = hook.epoch /\ hook'.call = hook.call /\ hook'.prev = hook.prev
        <4> DEFINE g == [hook EXCEPT !.ended = TRUE, !.ui = (hook.ui \ {"connected", "reconnecting"}) \cup {"closed"}]
        <4>1. g \in Hook
          BY <1>0, <1>f DEF Hook
        <4>2. hook' = hook \/ hook' = g
          BY <2>3 DEF OnMessage
        <4> QED BY <1>0, <4>1, <4>2, ZenonT(60) DEF Hook
      <3>5. screen' \in Seq(Sessions \X (1..MaxOutput))
        <4>1. CASE msg.kind = "output"
          <5>1. msg.data \in Seq(1..MaxOutput)
            BY <3>1, <4>1 DEF Message
          <5>2. Len(msg.data) \in Nat /\ DOMAIN msg.data = 1..Len(msg.data) /\ \A k \in 1..Len(msg.data) : msg.data[k] \in 1..MaxOutput
            BY <5>1, LenProperties, ElementOfSeq
          <5>3. [k \in DOMAIN msg.data |-> <<conn[c].to, msg.data[k]>>] \in Seq(Sessions \X (1..MaxOutput))
            <6>1. [k \in 1..Len(msg.data) |-> <<conn[c].to, msg.data[k]>>] \in [1..Len(msg.data) -> Sessions \X (1..MaxOutput)]
              BY <3>1, <5>2, SMTT(30)
            <6> HIDE DEF msg
            <6> QED BY <5>2, <6>1
          <5>4. screen' = screen \o [k \in DOMAIN msg.data |-> <<conn[c].to, msg.data[k]>>]
            BY <2>3, <4>1 DEF OnMessage
          <5> HIDE DEF msg
          <5> QED BY <1>0, <5>3, <5>4, ConcatProperties
        <4>2. CASE msg.kind # "output"
          BY <1>0, <2>3, <4>2 DEF OnMessage
        <4> QED BY <4>1, <4>2
      <3>6. TypeOK'
        BY <2>3, <3>3, <3>4, <3>5 DEF OnMessage, TypeInv, TypeOK
      <3>7. Used' /\ Attached' /\ Calling' /\ Counted' /\ Waiting'
        BY <1>0, <1>f, <3>3, <3>4 DEF Used, Attached, Calling, Counted, Waiting
      <3> QED BY <3>6, <3>7 DEF TypeInv
    <2>4. ASSUME Watchdog(c) PROVE TypeInv'
      <3>1. /\ conn' \in [Conns -> Conn]
            /\ \A d \in Conns : conn'[d].to = conn[d].to /\ conn'[d].at = conn[d].at /\ (d = c \/ conn'[d].end = conn[d].end)
        <4> DEFINE w == [conn[c] EXCEPT !.end = "closing"]
        <4>1. w \in Conn /\ w.to = conn[c].to /\ w.at = conn[c].at
          BY <2>0 DEF Conn
        <4>2. conn' = [conn EXCEPT ![c] = w]
          BY <2>4 DEF Watchdog
        <4> HIDE DEF w
        <4> QED BY <1>0, <4>1, <4>2, OneConn
      <3>2. TypeOK'
        BY <2>4, <3>1 DEF Watchdog, TypeInv, TypeOK
      <3>3. conn[c].to # None /\ hook' = hook
        BY <1>0, <2>4 DEF Watchdog, Used
      <3>4. Used' /\ Attached' /\ Calling' /\ Counted' /\ Waiting'
        BY <1>0, <1>f, <3>1, <3>3 DEF Used, Attached, Calling, Counted, Waiting
      <3> QED BY <3>2, <3>4 DEF TypeInv
    <2>5. ASSUME OnClose(c) PROVE TypeInv'
      <3>1. /\ conn' \in [Conns -> Conn]
            /\ \A d \in Conns : conn'[d].to = conn[d].to /\ conn'[d].at = conn[d].at /\ conn'[d].end \in {conn[d].end, "closed"}
        <4> DEFINE w == [conn[c] EXCEPT !.end = "closed"]
        <4>1. w \in Conn /\ w.to = conn[c].to /\ w.at = conn[c].at /\ w.end = "closed"
          BY <2>0 DEF Conn
        <4>2. conn' = [conn EXCEPT ![c] = w]
          BY <2>5 DEF OnClose
        <4> HIDE DEF w
        <4> QED BY <1>0, <4>1, <4>2, OneConn
      <3> DEFINE h == [hook EXCEPT !.sock = None]
                 g == [h EXCEPT !.ui = h.ui \ {"connected"}]
      <3>2. /\ h \in Hook /\ h.sid = hook.sid /\ h.sock = None /\ h.attempt = hook.attempt /\ h.pending = hook.pending
            /\ h.epoch = hook.epoch /\ h.call = hook.call /\ h.prev = hook.prev /\ h.timer = hook.timer
            /\ hook.attempt <= MaxAttempts /\ hook.sid # None
        <4>1. hook.sock = c /\ c # None
          BY <2>5 DEF OnClose, None, Conns
        <4>2. hook.attempt <= MaxAttempts /\ hook.sid # None
          BY <1>0, <1>f, <4>1 DEF Counted, Attached
        <4>3. h \in Hook
          BY <1>0, <1>f DEF Hook
        <4> QED BY <1>0, <4>2, <4>3 DEF Hook
      <3>3. /\ g \in Hook /\ g.sid = hook.sid /\ g.sock = None /\ g.attempt = hook.attempt /\ g.pending = hook.pending
            /\ g.epoch = hook.epoch /\ g.call = hook.call /\ g.prev = hook.prev /\ g.timer = hook.timer
        <4> HIDE DEF h
        <4> QED BY <3>2 DEF Hook
      <3>4. hook' = h \/ hook' = Scheduled(g, FALSE)
        BY <2>5 DEF OnClose
      <3> HIDE DEF h, g
      <3>5. /\ hook' \in Hook /\ hook'.sid = hook.sid /\ hook'.sock = None /\ hook'.pending = hook.pending
            /\ hook'.epoch = hook.epoch /\ hook'.call = hook.call /\ hook'.prev = hook.prev
            /\ hook'.attempt > MaxAttempts => ~hook'.timer
        <4>1. CASE hook' = h
          BY <1>f, <3>2, <4>1
        <4>2. CASE hook' = Scheduled(g, FALSE)
          BY <3>2, <3>3, <4>2, ScheduledHook
        <4> QED BY <3>4, <4>1, <4>2
      <3>6. TypeOK'
        BY <2>5, <3>1, <3>5 DEF OnClose, TypeInv, TypeOK
      <3>7. Used' /\ Attached' /\ Calling' /\ Counted' /\ Waiting'
        BY <1>0, <3>1, <3>2, <3>5 DEF Used, Attached, Calling, Counted, Waiting
      <3> QED BY <3>6, <3>7 DEF TypeInv
    <2>6. ASSUME Reconnect(c) PROVE TypeInv'
      <3> DEFINE h == [hook EXCEPT !.timer = FALSE]
      <3>1. /\ h \in Hook /\ h.sid = hook.sid /\ h.sock = hook.sock /\ h.attempt = hook.attempt /\ h.pending = hook.pending
            /\ h.epoch = hook.epoch /\ h.call = hook.call /\ h.prev = hook.prev
            /\ ~(hook.attempt > MaxAttempts)
        BY <1>0, <2>6 DEF Reconnect, Counted, Hook
      <3>2. (hook' = h /\ conn' = conn) \/ (hook.sid # None /\ Connect(h, c))
        BY <2>6 DEF Reconnect
      <3> HIDE DEF h
      <3>3. CASE hook' = h /\ conn' = conn
        <4>1. TypeOK'
          BY <2>6, <3>1, <3>3 DEF Reconnect, TypeInv, TypeOK
        <4>2. Used' /\ Attached' /\ Calling' /\ Counted' /\ Waiting'
          BY <1>0, <3>1, <3>3 DEF Used, Attached, Calling, Counted, Waiting
        <4> QED BY <4>1, <4>2 DEF TypeInv
      <3>4. CASE hook.sid # None /\ Connect(h, c)
        <4>1. TypeOK'
          BY <1>0, <2>6, <3>1, <3>4, ConnectTypes DEF Reconnect, TypeInv, TypeOK
        <4>2. /\ hook'.sock = c /\ hook'.sid = hook.sid /\ hook'.call = hook.call /\ ~(hook'.attempt > MaxAttempts)
              /\ hook'.epoch = hook.epoch /\ hook'.prev = hook.prev /\ hook'.pending = hook.pending
              /\ conn'[c].to = hook.sid
              /\ \A d \in Conns \ {c} : conn'[d].to = conn[d].to /\ conn'[d].at = conn[d].at /\ conn'[d].end \in {conn[d].end, "closed"}
          BY <1>0, <1>f, <3>1, <3>4, ConnectTypes
        <4>3. Used' /\ Attached' /\ Calling' /\ Counted' /\ Waiting'
          BY <1>0, <3>4, <4>2 DEF Used, Attached, Calling, Counted, Waiting
        <4> QED BY <4>1, <4>3 DEF TypeInv
      <3> QED BY <3>2, <3>3, <3>4
    <2> QED BY <2>1, <2>2, <2>3, <2>4, <2>5, <2>6
  <1> QED BY <1>1, <1>2, <1>3, <1>4, <1>5, <1>6, <1>c DEF Tab

LEMMA FaultInv == ASSUME TypeInv, Fault
                  PROVE  TypeInv'
  <1>0. session \in [Sessions -> Session] /\ conn \in [Conns -> Conn] /\ hook \in Hook /\ deletes \subseteq Sessions
        /\ faults \in 0..MaxFaults /\ MaxFaults \in Nat
    BY TerminalAssumption DEF TypeInv, TypeOK
  <1>1. faults' \in 0..MaxFaults
    <2>1. faults < MaxFaults /\ faults' = faults + 1
      BY DEF Fault, Cut, LoseRequest, Restart
    <2> QED BY <1>0, <2>1
  <1>2. hook' = hook /\ hook.sock \in Conns \cup {None}
    BY <1>0, HookFields DEF Fault, Cut, LoseRequest, Restart
  <1>3. ASSUME NEW c \in Conns, Cut(c) PROVE TypeInv'
    <2> DEFINE w == Broken(c)
    <2>1. /\ w \in Conn /\ w.to = conn[c].to /\ w.end = conn[c].end
          /\ w.at = IF conn[c].at = "asked" THEN "refused" ELSE conn[c].at
      BY <1>0, BrokenType, BrokenFields
    <2>2. conn' = [conn EXCEPT ![c] = w]
      BY <1>3 DEF Cut
    <2> HIDE DEF w
    <2>3. conn' \in [Conns -> Conn]
      BY <1>0, <2>1, <2>2
    <2>4. TypeOK'
      BY <1>1, <1>3, <2>3 DEF Cut, TypeInv, TypeOK
    <2>5. \A d \in Conns : conn'[d].to = conn[d].to /\ conn'[d].end = conn[d].end /\ (conn[d].at = "done" => conn'[d].at = "done")
      BY <1>0, <2>1, <2>2
    <2>6. Used' /\ Attached' /\ Calling' /\ Counted' /\ Waiting'
      BY <1>2, <2>5 DEF TypeInv, Used, Attached, Calling, Counted, Waiting
    <2> QED BY <2>4, <2>6 DEF TypeInv
  <1>4. ASSUME LoseRequest PROVE TypeInv'
    <2>1. TypeOK'
      BY <1>0, <1>1, <1>4 DEF LoseRequest, TypeInv, TypeOK
    <2>2. Used' /\ Attached' /\ Calling' /\ Counted' /\ Waiting'
      BY <1>4 DEF LoseRequest, TypeInv, Used, Attached, Calling, Counted, Waiting
    <2> QED BY <2>1, <2>2 DEF TypeInv
  <1>5. ASSUME Restart PROVE TypeInv'
    <2>1. \A d \in Conns : /\ Broken(d) \in Conn /\ Broken(d).to = conn[d].to /\ Broken(d).end = conn[d].end
                           /\ Broken(d).at = IF conn[d].at = "asked" THEN "refused" ELSE conn[d].at
      BY <1>0, BrokenType, BrokenFields
    <2> DEFINE at(d) == IF Broken(d).at = "refused" THEN Broken(d).at ELSE "done"
               w(d) == [Broken(d) EXCEPT !.at = at(d), !.ended = TRUE, !.carry = <<>>]
    <2>2. conn' = [d \in Conns |-> w(d)]
      BY <1>5 DEF Restart
    <2>3. \A v \in Conn, a \in {"refused", "done"} :
            /\ [v EXCEPT !.at = a, !.ended = TRUE, !.carry = <<>>] \in Conn
            /\ [v EXCEPT !.at = a, !.ended = TRUE, !.carry = <<>>].to = v.to
            /\ [v EXCEPT !.at = a, !.ended = TRUE, !.carry = <<>>].end = v.end
            /\ [v EXCEPT !.at = a, !.ended = TRUE, !.carry = <<>>].at = a
      <3>1. <<>> \in Seq(1..MaxOutput)
        OBVIOUS
      <3> QED BY <3>1 DEF Conn
    <2>4. \A d \in Conns : /\ w(d) \in Conn /\ w(d).to = conn[d].to /\ w(d).end = conn[d].end
                           /\ conn[d].at = "done" => w(d).at = "done"
      <3>1. \A d \in Conns : at(d) \in {"refused", "done"} /\ (conn[d].at = "done" => at(d) = "done")
        BY <2>1
      <3> SUFFICES ASSUME NEW d \in Conns
                   PROVE  /\ w(d) \in Conn /\ w(d).to = conn[d].to /\ w(d).end = conn[d].end
                          /\ conn[d].at = "done" => w(d).at = "done"
        OBVIOUS
      <3> DEFINE v == Broken(d)
                 a == at(d)
      <3>2. v \in Conn /\ v.to = conn[d].to /\ v.end = conn[d].end /\ a \in {"refused", "done"} /\ (conn[d].at = "done" => a = "done")
        BY <2>1, <3>1
      <3>3. w(d) = [v EXCEPT !.at = a, !.ended = TRUE, !.carry = <<>>]
        OBVIOUS
      <3> HIDE DEF v, a, w
      <3>4. /\ [v EXCEPT !.at = a, !.ended = TRUE, !.carry = <<>>] \in Conn
            /\ [v EXCEPT !.at = a, !.ended = TRUE, !.carry = <<>>].to = v.to
            /\ [v EXCEPT !.at = a, !.ended = TRUE, !.carry = <<>>].end = v.end
            /\ [v EXCEPT !.at = a, !.ended = TRUE, !.carry = <<>>].at = a
        BY <2>3, <3>2
      <3> QED BY <3>2, <3>3, <3>4
    <2> HIDE DEF w
    <2>9. \A d \in Conns : w(d) \in Conn
      BY <2>4
    <2>10. [d \in Conns |-> w(d)] \in [Conns -> Conn]
      BY <2>9, Zenon
    <2>11. \A d \in Conns : conn'[d] = w(d)
      BY <2>2, Zenon
    <2>5. conn' \in [Conns -> Conn] /\ \A d \in Conns : conn'[d] = w(d)
      BY <2>2, <2>10, <2>11, Zenon
    <2>6. session' \in [Sessions -> Session]
      <3>1. [NoSession EXCEPT !.state = "gone"] \in Session
        <4>1. 0 \in 0..MaxOutput /\ <<>> \in Seq(1..MaxOutput)
          BY TerminalAssumption
        <4> QED BY <4>1 DEF NoSession, Session
      <3>2. session' = [s \in Sessions |-> IF InMap(s) THEN [NoSession EXCEPT !.state = "gone"] ELSE session[s]]
        BY <1>5 DEF Restart
      <3> QED BY <1>0, <3>1, <3>2
    <2>7. TypeOK'
      BY <1>1, <1>5, <2>5, <2>6 DEF Restart, TypeInv, TypeOK
    <2>8. Used' /\ Attached' /\ Calling' /\ Counted' /\ Waiting'
      <3>1. \A d \in Conns : conn'[d].to = conn[d].to /\ conn'[d].end = conn[d].end /\ (conn[d].at = "done" => conn'[d].at = "done")
        BY <2>4, <2>11
      <3> QED BY <1>2, <3>1 DEF TypeInv, Used, Attached, Calling, Counted, Waiting
    <2> QED BY <2>7, <2>8 DEF TypeInv
  <1> QED BY <1>3, <1>4, <1>5 DEF Fault

LEMMA NextInv == ASSUME TypeInv, [Next]_vars
                 PROVE  TypeInv'
  <1>1. CASE Next
    BY <1>1, AgentInv, TabInv, FaultInv DEF Next
  <1>2. CASE UNCHANGED vars
    <2>1. TypeOK'
      BY <1>2 DEF vars, TypeInv, TypeOK
    <2>2. Used' /\ Attached' /\ Calling' /\ Counted' /\ Waiting'
      BY <1>2 DEF vars, TypeInv, Used, Attached, Calling, Counted, Waiting
    <2> QED BY <2>1, <2>2 DEF TypeInv
  <1> QED BY <1>1, <1>2

LEMMA TypeInvAlways == Spec => []TypeInv
  <1>1. Init => TypeInv
    BY InitTypes
  <1>2. TypeInv /\ [Next]_vars => TypeInv'
    BY NextInv
  <1> QED BY <1>1, <1>2, PTL DEF Spec

\* The states are of the types declared: in particular a start under way always has a number,
\* the attempts never pass the limit by more than one, and no key is left for a tab without a shell.
THEOREM Types == Spec => []TypeOK
  <1>1. TypeInv => TypeOK
    BY DEF TypeInv
  <1> QED BY <1>1, TypeInvAlways, PTL

-----------------------------------------------------------------------------
(* The connection attached last keeps its callbacks *)

\* A connection whose Attach has taken the callbacks and whose both ends live. The flush of Attach is
\* part of it: a buffer that could not be sent detaches the connection it could not be sent to.
Serves(s, c) == /\ conn[c].to = s /\ session[s].gen = c
                /\ conn[c].at \in {"taken", "serving"} /\ ~CanFail(c)
Newest == \A s \in Sessions, c \in Conns : (InMap(s) /\ Serves(s, c)) => session[s].on = c

\* a session that was never started was never attached
Fresh == \A s \in Sessions : session[s].state = "none" => session[s].gen = None

\* the tab and the faults: a websocket goes on for the session it is for and fails for good, or is asked for anew
Aside(d) == \/ conn'[d].at \notin {"taken", "serving"}
            \/ conn'[d].to = conn[d].to /\ conn'[d].at = conn[d].at /\ (CanFail(d) => CanFail(d)')

LEMMA TabConns == ASSUME TypeInv, Tab
                  PROVE  session' = session /\ \A d \in Conns : Aside(d)
  <1>0. conn \in [Conns -> Conn] /\ hook \in Hook /\ Calling
    BY DEF TypeInv, TypeOK
  <1>1. session' = session
    BY Zenon DEF Tab, Start, PreviousReleased, StartFails, Kick, SendInput, Unmount, Leave, StartAnswered, OnOpen, OnMessage,
           Watchdog, OnClose, Reconnect
  <1>2. ASSUME conn' = conn PROVE \A d \in Conns : Aside(d)
    BY <1>2 DEF Aside, CanFail
  <1>3. ASSUME conn' = Dropped(hook.sock) PROVE \A d \in Conns : Aside(d)
    <2>1. \A d \in Conns : conn'[d].end = conn[d].end \/ conn'[d].end = "closed"
      BY <1>0, <1>3, DroppedFields
    <2> QED BY <1>0, <1>3, <2>1, DroppedFields DEF Aside, CanFail
  <1>4. ASSUME NEW h \in Hook, h.sid # None, NEW c \in Conns, Connect(h, c) PROVE \A d \in Conns : Aside(d)
    <2>1. conn'[c].at = "asked"
      BY <1>0, <1>4, ConnectTypes
    <2>2. \A d \in Conns \ {c} : /\ conn'[d].to = conn[d].to /\ conn'[d].at = conn[d].at
                                 /\ conn'[d].ended = conn[d].ended /\ conn'[d].cut = conn[d].cut
                                 /\ (conn[d].end = "closed" => conn'[d].end = "closed")
      BY <1>0, <1>4, ConnectTypes
    <2> QED BY <2>1, <2>2 DEF Aside, CanFail
  <1>5. ASSUME NEW c \in Conns, NEW w \in Conn, conn' = [conn EXCEPT ![c] = w], w.to = conn[c].to, w.at = conn[c].at,
               w.ended = conn[c].ended, w.cut = conn[c].cut, conn[c].end # "closed" \/ w.end = "closed"
        PROVE  \A d \in Conns : Aside(d)
    BY <1>0, <1>5, OneConn DEF Aside, CanFail
  <1>6. ASSUME SendInput PROVE \A d \in Conns : Aside(d)
    <2> DEFINE c == hook.sock
               u == Append(conn[c].up, Len(typed) + 1)
    <2>1. conn' = conn \/ (c \in Conns /\ conn' = [conn EXCEPT ![c] = [conn[c] EXCEPT !.up = u]])
      BY <1>0, <1>6, HookFields DEF SendInput
    <2>2. CASE c \in Conns /\ conn' = [conn EXCEPT ![c] = [conn[c] EXCEPT !.up = u]]
      <3> DEFINE w == [conn[c] EXCEPT !.up = u]
      <3>0. Len(typed) + 1 \in Inputs /\ conn[c].up \in Seq(Inputs) /\ conn[c] \in Conn
        BY <1>0, <1>6, <2>2, ConnFields, LenProperties DEF SendInput, Inputs, TypeInv, TypeOK
      <3>1. u \in Seq(Inputs)
        BY <3>0, AppendProperties
      <3>2. w \in Conn /\ w.to = conn[c].to /\ w.at = conn[c].at /\ w.ended = conn[c].ended /\ w.cut = conn[c].cut /\ w.end = conn[c].end
        <4> HIDE DEF u
        <4> QED BY <3>0, <3>1 DEF Conn
      <3> HIDE DEF w, c
      <3> QED BY <1>5, <2>2, <3>2 DEF w
    <2> QED BY <1>2, <2>1, <2>2
  <1>7. ASSUME NEW c \in Conns, OnOpen(c) PROVE \A d \in Conns : Aside(d)
    <2> DEFINE w == [conn[c] EXCEPT !.end = "open", !.up = hook.pending]
    <2>1. w \in Conn /\ w.to = conn[c].to /\ w.at = conn[c].at /\ w.ended = conn[c].ended /\ w.cut = conn[c].cut
          /\ conn[c].end # "closed"
      <3>1. conn[c].end # "closed" /\ conn[c] \in Conn /\ hook.pending \in Seq(Inputs)
        BY <1>0, <1>7, HookFields DEF OnOpen
      <3> QED BY <3>1 DEF Conn
    <2>2. conn' = [conn EXCEPT ![c] = w]
      BY <1>0, <1>7 DEF OnOpen, Conn
    <2> HIDE DEF w
    <2> QED BY <1>5, <2>1, <2>2
  <1>8. ASSUME NEW c \in Conns, OnMessage(c) PROVE \A d \in Conns : Aside(d)
    <2> DEFINE w == [conn[c] EXCEPT !.down = Tail(conn[c].down)]
    <2>1. w \in Conn /\ w.to = conn[c].to /\ w.at = conn[c].at /\ w.ended = conn[c].ended /\ w.cut = conn[c].cut
          /\ conn[c].end # "closed"
      <3>1. conn[c].end # "closed" /\ conn[c] \in Conn /\ Tail(conn[c].down) \in Seq(Message)
        BY <1>0, <1>8, ConnFields, HeadTailProperties DEF OnMessage
      <3> QED BY <3>1 DEF Conn
    <2>2. conn' = [conn EXCEPT ![c] = w]
      BY <1>8 DEF OnMessage
    <2> HIDE DEF w
    <2> QED BY <1>5, <2>1, <2>2
  <1>9. ASSUME NEW c \in Conns, Watchdog(c) \/ OnClose(c) PROVE \A d \in Conns : Aside(d)
    <2>1. PICK e \in {"closing", "closed"} : conn' = [conn EXCEPT ![c] = [conn[c] EXCEPT !.end = e]]
      BY <1>9 DEF Watchdog, OnClose
    <2> DEFINE w == [conn[c] EXCEPT !.end = e]
    <2>2. w \in Conn /\ w.to = conn[c].to /\ w.at = conn[c].at /\ w.ended = conn[c].ended /\ w.cut = conn[c].cut
          /\ conn[c].end # "closed"
      <3>1. conn[c].end # "closed" /\ conn[c] \in Conn
        BY <1>0, <1>9 DEF Watchdog, OnClose
      <3> QED BY <3>1 DEF Conn
    <2> HIDE DEF w
    <2> QED BY <1>5, <2>1, <2>2 DEF w
  <1>10. ASSUME NEW c \in Conns, StartAnswered(c) PROVE \A d \in Conns : Aside(d)
    <2> DEFINE h == [hook EXCEPT !.call = "none", !.sid = hook.epoch, !.ui = hook.ui \ {"starting"}]
    <2>1. hook.epoch \in Sessions /\ hook.epoch # None /\ Connect(h, c)
      BY <1>0, <1>10 DEF StartAnswered, Calling, Sessions, None
    <2>2. h \in Hook /\ h.sid # None
      BY <1>0, <2>1, HookFields DEF Hook
    <2> HIDE DEF h
    <2> QED BY <1>4, <2>1, <2>2
  <1>11. ASSUME NEW c \in Conns, Reconnect(c) PROVE \A d \in Conns : Aside(d)
    <2> DEFINE h == [hook EXCEPT !.timer = FALSE]
    <2>1. conn' = conn \/ (h.sid # None /\ Connect(h, c))
      BY <1>0, <1>11 DEF Reconnect, Hook
    <2>2. h \in Hook
      BY <1>0 DEF Hook
    <2> HIDE DEF h
    <2> QED BY <1>2, <1>4, <2>1, <2>2
  <1>12. ASSUME Start \/ Unmount \/ Leave PROVE \A d \in Conns : Aside(d)
    BY <1>3, <1>12 DEF Start, Unmount, Leave
  <1>13. ASSUME PreviousReleased \/ StartFails \/ Kick PROVE \A d \in Conns : Aside(d)
    BY <1>2, <1>13 DEF PreviousReleased, StartFails, Kick
  <1>14. \A d \in Conns : Aside(d)
    BY <1>6, <1>7, <1>8, <1>9, <1>10, <1>11, <1>12, <1>13 DEF Tab
  <1> QED BY <1>1, <1>14

LEMMA NewestTab == ASSUME TypeInv, Newest, Tab
                   PROVE  Newest'
  BY TabConns DEF Aside, Newest, Serves, InMap

LEMMA NewestFault == ASSUME TypeInv, Newest, Fault
                     PROVE  Newest'
  <1>0. conn \in [Conns -> Conn] /\ session \in [Sessions -> Session]
    BY DEF TypeInv, TypeOK
  <1>1. ASSUME NEW c \in Conns, Cut(c) PROVE Newest'
    <2>1. session' = session /\ \A d \in Conns : d = c \/ conn'[d] = conn[d]
      BY <1>0, <1>1 DEF Cut
    <2>2. conn'[c].cut = TRUE
      BY <1>0, <1>1, BrokenFields DEF Cut
    <2> QED BY <2>1, <2>2 DEF Newest, Serves, InMap, CanFail
  <1>2. ASSUME LoseRequest PROVE Newest'
    BY <1>2 DEF LoseRequest, Newest, Serves, InMap, CanFail
  <1>3. ASSUME Restart PROVE Newest'
    <2>1. \A s \in Sessions : ~InMap(s)'
      BY <1>0, <1>3, SessionFields DEF Restart, InMap, NoSession
    <2> QED BY <2>1 DEF Newest
  <1> QED BY <1>1, <1>2, <1>3 DEF Fault

\* what the agent does to one session s, seen from a connection c that serves it afterwards
LEMMA NewestAgent == ASSUME TypeInv, Newest, Fresh, Agent
                     PROVE  Newest'
  <1>0. conn \in [Conns -> Conn] /\ session \in [Sessions -> Session] /\ Used /\ hook \in Hook /\ Calling
    BY DEF TypeInv, TypeOK
  <1>1. \A d \in Conns : conn'[d].to = conn[d].to /\ (CanFail(d) => CanFail(d)')
    BY AgentConns DEF Onward, CanFail
  <1> SUFFICES ASSUME NEW s \in Sessions, NEW c \in Conns, InMap(s)', Serves(s, c)'
               PROVE  session'[s].on = c
    BY DEF Newest
  <1>2. conn[c].to = s /\ ~CanFail(c) /\ conn'[c].at \in {"taken", "serving"} /\ session'[s].gen = c
    BY <1>1 DEF Serves
  \* nothing of it changed: the invariant speaks of it already
  <1>3. ASSUME InMap(s), session'[s].on = session[s].on, session'[s].gen = session[s].gen, conn[c].at \in {"taken", "serving"}
        PROVE  session'[s].on = c
    BY <1>2, <1>3 DEF Newest, Serves
  <1>s. ASSUME NEW r \in Sessions
        PROVE  (Deliver(r) \/ ShellExits(r) \/ CloseTells(r) \/ CloseRemoves(r) \/ CloseAsked(r) \/ ReapFinds(r) \/ ReapCloses(r))
                 => session'[s].on = c
    <2>1. ASSUME Deliver(r) PROVE session'[s].on = c
      <3> DEFINE b == session[r].on
      <3>0. session' = [session EXCEPT ![r].made = session[r].made + 1]
            \/ ((IF b = None THEN TRUE ELSE CanFail(b))
                /\ session' = [session EXCEPT ![r].made = session[r].made + 1, ![r].on = None,
                                              ![r].buf = Kept(Append(session[r].buf, session[r].made + 1))])
        BY <2>1 DEF Deliver
      <3>1. InMap(s) /\ session'[s].gen = session[s].gen
        <4>1. \A x \in Session : \A n, k : /\ [x EXCEPT !.made = n].state = x.state /\ [x EXCEPT !.made = n].gen = x.gen
                                           /\ [x EXCEPT !.made = n, !.on = None, !.buf = k].state = x.state
                                           /\ [x EXCEPT !.made = n, !.on = None, !.buf = k].gen = x.gen
                                           BY DEF Session
        <4>2. session[r] \in Session
          BY <1>0
        <4>3. session'[r].state = session[r].state /\ session'[r].gen = session[r].gen
          <5>1. CASE session' = [session EXCEPT ![r].made = session[r].made + 1]
            BY <1>0, <4>1, <4>2, <5>1
          <5>2. CASE session' = [session EXCEPT ![r].made = session[r].made + 1, ![r].on = None,
                                                ![r].buf = Kept(Append(session[r].buf, session[r].made + 1))]
            BY <1>0, <4>1, <4>2, <5>2
          <5> QED BY <3>0, <5>1, <5>2
        <4>4. s # r => session'[s] = session[s]
          BY <1>0, <3>0
        <4> QED BY <4>3, <4>4 DEF InMap
      <3>2. \A d \in Conns : conn'[d].at = conn[d].at
        <4>1. CASE conn' = conn
          BY <4>1
        <4>2. CASE b # None /\ conn' = [conn EXCEPT ![b] = Sent(b, Output(<<session[r].made + 1>>))]
          <5>1. b \in Conns /\ <<session[r].made + 1>> \in Seq(1..MaxOutput)
            <6>1. session[r].made + 1 \in 1..MaxOutput /\ b \in Conns
              BY <1>0, <2>1, <4>2, SessionFields DEF Deliver
            <6> QED BY <6>1
          <5>2. Sent(b, Output(<<session[r].made + 1>>)).at = conn[b].at
            BY <1>0, <5>1, SentFields, MessageTypes
          <5> QED BY <1>0, <4>2, <5>1, <5>2
        <4> QED BY <2>1, <4>1, <4>2 DEF Deliver
      <3>3. session[s].on = c
        BY <1>2, <3>1, <3>2 DEF Newest, Serves
      <3>4. session'[s].on = session[s].on
        <4>1. CASE r = s
          <5>1. b = c /\ c # None /\ ~CanFail(b)
            BY <1>2, <3>3, <4>1 DEF Conns, None
          <5> QED BY <1>0, <3>0, <4>1, <5>1 DEF Session
        <4>2. CASE r # s
          BY <1>0, <3>0, <4>2
        <4> QED BY <4>1, <4>2
      <3> QED BY <3>3, <3>4
    <2>2. ASSUME ShellExits(r) \/ CloseAsked(r) \/ ReapFinds(r) \/ ReapCloses(r) PROVE session'[s].on = c
      <3>1. conn' = conn /\ (session' = session \/ (session[r].state = "live" /\ session' = [session EXCEPT ![r].state = "closed"]))
        BY <2>2 DEF ShellExits, CloseAsked, ReapFinds, ReapCloses, CloseBegins
      <3>2. InMap(s) /\ session'[s].on = session[s].on /\ session'[s].gen = session[s].gen
        <4>1. CASE session' = session
          BY <4>1 DEF InMap
        <4>2. CASE session[r].state = "live" /\ session' = [session EXCEPT ![r].state = "closed"]
          BY <1>0, <4>2 DEF InMap, Session
        <4> QED BY <3>1, <4>1, <4>2
      <3> QED BY <1>2, <1>3, <3>1, <3>2
    <2>3. ASSUME CloseTells(r) PROVE session'[s].on = c
      <3>1. InMap(s) /\ session'[s].on = session[s].on /\ session'[s].gen = session[s].gen
        BY <1>0, <2>3 DEF CloseTells, InMap, Session
      <3>2. conn'[c].at = conn[c].at
        <4>1. session[r].on \in Conns \cup {None}
          BY <1>0, SessionFields
        <4>2. \A d \in Conns : ToldClosed(d).at = conn[d].at
          BY <1>0, ToldFields
        <4> QED BY <1>0, <2>3, <4>1, <4>2 DEF CloseTells
      <3> QED BY <1>2, <1>3, <3>1, <3>2
    <2>4. ASSUME CloseRemoves(r) PROVE session'[s].on = c
      <3>1. s # r
        BY <1>0, <2>4 DEF CloseRemoves, InMap, NoSession
      <3>2. session'[s] = session[s] /\ conn' = conn
        BY <1>0, <2>4, <3>1 DEF CloseRemoves
      <3>3. InMap(s)
        BY <3>2 DEF InMap
      <3> QED BY <1>2, <1>3, <3>2, <3>3
    <2> QED BY <2>1, <2>2, <2>3, <2>4
  <1>c. ASSUME NEW d \in Conns
        PROVE  (Upgrade(d) \/ AttachTake(d) \/ AttachFails(d) \/ AttachFlush(d) \/ HandleInput(d) \/ HandlerEnds(d))
                 => session'[s].on = c
    <2>1. ASSUME Upgrade(d) \/ AttachFails(d) PROVE session'[s].on = c
      <3>1. session' = session
        BY <2>1 DEF Upgrade, AttachFails
      <3>2. conn[c].at \in {"taken", "serving"}
        <4>1. CASE c # d
          BY <1>0, <1>2, <2>1, <4>1 DEF Upgrade, AttachFails
        <4>2. CASE c = d /\ Upgrade(d)
          BY <1>0, <1>2, <4>2 DEF Upgrade, Conn
        <4>3. CASE c = d /\ AttachFails(d)
          <5>1. Sent(d, NotFound) \in Conn
            BY <1>0, SentType, MessageTypes
          <5>2. [Sent(d, NotFound) EXCEPT !.at = "done", !.ended = TRUE].at = "done"
            BY <5>1 DEF Conn
          <5> QED BY <1>0, <1>2, <4>3, <5>2 DEF AttachFails
        <4> QED BY <2>1, <4>1, <4>2, <4>3
      <3>3. InMap(s)
        BY <3>1 DEF InMap
      <3> QED BY <1>2, <1>3, <3>1, <3>2, <3>3
    <2>2. ASSUME AttachTake(d) PROVE session'[s].on = c
      <3> DEFINE r == conn[d].to
      <3>0. r \in Sessions /\ InMap(r) /\ session' = [session EXCEPT ![r] = Taken(r, d)]
        BY <1>0, <2>2, ConnFields DEF AttachTake, Used
      <3>1. CASE r = s
        <4>1. session'[s] = Taken(s, d)
          BY <1>0, <3>0, <3>1
        <4>2. session[s] \in Session
          BY <1>0
        <4>3. session'[s].on = d /\ session'[s].gen = d
          BY <4>1, <4>2 DEF Taken, Session
        <4> QED BY <1>2, <4>3
      <3>2. CASE r # s
        <4>1. session'[s] = session[s] /\ c # d
          BY <1>0, <1>2, <3>0, <3>2
        <4>2. conn'[c].at = conn[c].at
          BY <1>0, <2>2, <4>1 DEF AttachTake, Conn
        <4>3. InMap(s)
          BY <4>1 DEF InMap
        <4> QED BY <1>2, <1>3, <4>1, <4>2, <4>3
      <3> QED BY <3>1, <3>2
    <2>3. ASSUME AttachFlush(d) PROVE session'[s].on = c
      <3> DEFINE r == conn[d].to
                 carry == conn[d].carry
      <3>0. r \in Sessions /\ conn[d].at = "taken" /\ session[r] \in Session
        BY <1>0, <2>3, ConnFields DEF AttachFlush, Used
      <3>1. conn[c].at \in {"taken", "serving"}
        <4>1. CASE c = d
          BY <3>0, <4>1
        <4>2. CASE c # d
          BY <1>0, <1>2, <2>3, <4>2 DEF AttachFlush
        <4> QED BY <4>1, <4>2
      <3>2. session' = session
            \/ (CanFail(d) /\ session' = [session EXCEPT ![r] = [Detached(r, d) EXCEPT !.buf = Kept(Detached(r, d).buf \o carry)]])
        BY <2>3 DEF AttachFlush
      <3>3. CASE session' = session
        BY <1>2, <1>3, <3>1, <3>3 DEF InMap
      <3>4. CASE CanFail(d) /\ session' = [session EXCEPT ![r] = [Detached(r, d) EXCEPT !.buf = Kept(Detached(r, d).buf \o carry)]]
        <4>1. c # d
          BY <1>2, <3>4
        <4>2. CASE r = s
          <5>1. Detached(r, d) \in Session /\ Detached(r, d).gen = session[r].gen /\ Detached(r, d).state = session[r].state
                /\ (session[r].gen # d => Detached(r, d) = session[r])
            BY <1>0, <3>0, DetachedType DEF Detached, Session
          <5>2. session'[s] = [Detached(r, d) EXCEPT !.buf = Kept(Detached(r, d).buf \o carry)]
            BY <1>0, <3>4, <4>2
          <5>3. session'[s].gen = Detached(r, d).gen /\ session'[s].on = Detached(r, d).on /\ session'[s].state = Detached(r, d).state
            BY <5>1, <5>2 DEF Session
          <5>4. session[r].gen # d
            BY <1>2, <4>1, <5>1, <5>3
          <5>5. InMap(s) /\ session'[s].on = session[s].on /\ session'[s].gen = session[s].gen
            BY <4>2, <5>1, <5>3, <5>4 DEF InMap
          <5> QED BY <1>3, <3>1, <5>5
        <4>3. CASE r # s
          <5>1. session'[s] = session[s]
            BY <1>0, <3>4, <4>3
          <5> QED BY <1>3, <3>1, <5>1 DEF InMap
        <4> QED BY <4>2, <4>3
      <3> QED BY <3>2, <3>3, <3>4
    <2>4. ASSUME HandleInput(d) PROVE session'[s].on = c
      <3>1. session' = session
        BY <2>4 DEF HandleInput
      <3>2. conn[c].at \in {"taken", "serving"}
        <4>1. CASE c = d
          BY <2>4, <4>1 DEF HandleInput
        <4>2. CASE c # d
          BY <1>0, <1>2, <2>4, <4>2 DEF HandleInput
        <4> QED BY <4>1, <4>2
      <3> QED BY <1>2, <1>3, <3>1, <3>2 DEF InMap
    <2>5. ASSUME HandlerEnds(d) PROVE session'[s].on = c
      <3> DEFINE r == conn[d].to
      <3>0. r \in Sessions /\ session[r] \in Session
        BY <1>0, <2>5, ConnFields DEF HandlerEnds, Used
      <3>1. c # d
        BY <1>0, <1>2, <2>5 DEF HandlerEnds, Conn
      <3>2. conn[c].at \in {"taken", "serving"}
        BY <1>0, <1>2, <2>5, <3>1 DEF HandlerEnds, Conn
      <3>3. session' = session \/ session' = [session EXCEPT ![r] = Detached(r, d)]
        BY <2>5 DEF HandlerEnds
      <3>4. session'[s].gen = session[s].gen /\ session'[s].state = session[s].state
        BY <1>0, <3>0, <3>3 DEF Detached, Session
      <3>5. session[s].gen = c
        BY <1>2, <3>4
      <3>6. session'[s].on = session[s].on
        BY <1>0, <3>0, <3>1, <3>3, <3>5 DEF Detached
      <3> QED BY <1>3, <3>2, <3>4, <3>6 DEF InMap
    <2> QED BY <2>1, <2>2, <2>3, <2>4, <2>5
  <1>4. ASSUME StartArrives PROVE session'[s].on = c
    <2>1. hook.epoch \in Sessions /\ session[hook.epoch].state = "none" /\ session' = [session EXCEPT ![hook.epoch].state = "live"] /\ conn' = conn
      BY <1>0, <1>4 DEF StartArrives, Calling
    <2>2. CASE s = hook.epoch
      <3>1. session[s].gen = None /\ session'[s].gen = session[s].gen
        BY <1>0, <2>1, <2>2 DEF Fresh, Session
      <3>2. c # None
        BY DEF Conns, None
      <3> QED BY <1>2, <3>1, <3>2
    <2>3. CASE s # hook.epoch
      <3>1. session'[s] = session[s]
        BY <1>0, <2>1, <2>3
      <3> QED BY <1>2, <1>3, <2>1, <3>1 DEF InMap
    <2> QED BY <2>2, <2>3
  <1> QED BY <1>s, <1>c, <1>4 DEF Agent

LEMMA FreshNext == ASSUME TypeInv, Fresh, [Next]_vars
                   PROVE  Fresh'
  <1>0. session \in [Sessions -> Session] /\ conn \in [Conns -> Conn]
    BY DEF TypeInv, TypeOK
  <1>1. CASE session' = session
    BY <1>1 DEF Fresh
  <1>w. ASSUME NEW r \in Sessions, NEW x, session' = [session EXCEPT ![r] = x], x.state # "none" PROVE Fresh'
    BY <1>0, <1>w DEF Fresh
  <1>2. ASSUME NEW r \in Sessions, Deliver(r) PROVE Fresh'
    <2> DEFINE x == [session[r] EXCEPT !.made = session[r].made + 1]
               y == [session[r] EXCEPT !.made = session[r].made + 1, !.on = None,
                                       !.buf = Kept(Append(session[r].buf, session[r].made + 1))]
    <2>1. session' = [session EXCEPT ![r] = x] \/ session' = [session EXCEPT ![r] = y]
      BY <1>0, <1>2 DEF Deliver, Session
    <2>2. session[r] \in Session /\ session[r].state # "none"
      BY <1>0, <1>2 DEF Deliver, InMap
    <2>3. x.state # "none" /\ y.state # "none"
      BY <2>2 DEF Session
    <2> HIDE DEF x, y
    <2> QED BY <1>w, <2>1, <2>3
  <1>3. ASSUME NEW r \in Sessions, ShellExits(r) \/ CloseTells(r) \/ CloseRemoves(r) \/ CloseAsked(r) \/ ReapFinds(r) \/ ReapCloses(r)
        PROVE  Fresh'
    <2>1. \/ session' = session
          \/ \E a \in {"closed", "told"} : session' = [session EXCEPT ![r] = [session[r] EXCEPT !.state = a]]
          \/ session' = [session EXCEPT ![r] = [NoSession EXCEPT !.state = "gone"]]
      BY <1>3 DEF ShellExits, CloseTells, CloseRemoves, CloseAsked, ReapFinds, ReapCloses, CloseBegins
    <2>2. \A a \in {"closed", "told"} : [session[r] EXCEPT !.state = a].state # "none"
      <3>1. session[r] \in Session
        BY <1>0
      <3> QED BY <3>1 DEF Session
    <2>3. [NoSession EXCEPT !.state = "gone"].state # "none"
      BY DEF NoSession
    <2> QED BY <1>1, <1>w, <2>1, <2>2, <2>3
  <1>4. ASSUME NEW d \in Conns, AttachTake(d) \/ AttachFlush(d) \/ HandlerEnds(d) PROVE Fresh'
    <2> DEFINE r == conn[d].to
    <2>1. r \in Sessions
      BY <1>0, <1>4, ConnFields DEF AttachTake, AttachFlush, HandlerEnds, TypeInv, Used
    <2>2. session[r] \in Session /\ Detached(r, d) \in Session /\ Detached(r, d).state = session[r].state
      BY <1>0, <2>1, DetachedType DEF Detached, Session
    <2>3. session' = session \/ InMap(r)
      BY <1>4, Zenon DEF AttachTake, AttachFlush, HandlerEnds
    <2>4. \/ session' = session
          \/ session' = [session EXCEPT ![r] = Taken(r, d)] \/ session' = [session EXCEPT ![r] = Detached(r, d)]
          \/ session' = [session EXCEPT ![r] = [Detached(r, d) EXCEPT !.buf = Kept(Detached(r, d).buf \o conn[d].carry)]]
      BY <1>4, Zenon DEF AttachTake, AttachFlush, HandlerEnds
    <2>5. /\ Taken(r, d).state = session[r].state
          /\ [Detached(r, d) EXCEPT !.buf = Kept(Detached(r, d).buf \o conn[d].carry)].state = session[r].state
      BY <2>2 DEF Taken, Session
    <2>6. InMap(r) => session[r].state # "none"
      BY DEF InMap
    <2> QED BY <1>1, <1>w, <2>1, <2>2, <2>3, <2>4, <2>5, <2>6
  <1>5. ASSUME StartArrives PROVE Fresh'
    <2>1. hook.epoch \in Sessions /\ session' = [session EXCEPT ![hook.epoch] = [session[hook.epoch] EXCEPT !.state = "live"]]
      BY <1>5 DEF StartArrives, TypeInv, Calling
    <2>2. [session[hook.epoch] EXCEPT !.state = "live"].state # "none"
      <3>1. session[hook.epoch] \in Session
        BY <1>0, <2>1
      <3> QED BY <3>1 DEF Session
    <2> QED BY <1>w, <2>1, <2>2
  <1>6. ASSUME Restart PROVE Fresh'
    BY <1>0, <1>6 DEF Restart, Fresh, NoSession, InMap
  <1>7. ASSUME NEW d \in Conns, Upgrade(d) \/ AttachFails(d) \/ HandleInput(d) \/ Cut(d) PROVE Fresh'
    BY <1>1, <1>7 DEF Upgrade, AttachFails, HandleInput, Cut
  <1>8. ASSUME Tab \/ LoseRequest \/ UNCHANGED vars PROVE Fresh'
    BY <1>1, <1>8, TabConns DEF LoseRequest, vars
  <1> QED BY <1>2, <1>3, <1>4, <1>5, <1>6, <1>7, <1>8 DEF Next, Agent, Fault

\* The websocket attached last keeps its callbacks for as long as both its ends live, whatever older
\* connections of the session end late: the invariant Newest also covers one that is still flushing.
THEOREM NewestKeeps == Spec => []NewestKeepsCallbacks
  <1> DEFINE I == TypeInv /\ Newest /\ Fresh
  <1>1. Init => I
    <2>1. Init => Newest /\ Fresh
      BY DEF Init, NoSession, Newest, Fresh, InMap
    <2> QED BY <2>1, InitTypes
  <1>2. I /\ [Next]_vars => I'
    <2> SUFFICES ASSUME I, [Next]_vars PROVE I'
      OBVIOUS
    <2>1. TypeInv' /\ Fresh'
      BY NextInv, FreshNext
    <2>2. CASE Next
      BY <2>1, <2>2, NewestAgent, NewestTab, NewestFault DEF Next
    <2>3. CASE UNCHANGED vars
      <3>1. Newest'
        BY <2>3 DEF vars, Newest, Serves, InMap, CanFail
      <3> QED BY <2>1, <3>1
    <2> QED BY <2>2, <2>3
  <1>3. I => NewestKeepsCallbacks
    BY DEF Newest, Serves, NewestKeepsCallbacks
  <1> HIDE DEF I
  <1> QED BY <1>1, <1>2, <1>3, PTL DEF Spec

-----------------------------------------------------------------------------
(* A key reaches its shell *)

\* A key waits in the hook (None) or is on its way on a websocket, for the session of the hook or of the websocket.
Places == Conns \cup {None}
Queues == [q \in Places |-> IF q = None THEN hook.pending ELSE conn[q].up]
Owners == [q \in Places |-> IF q = None THEN hook.sid ELSE conn[q].to]

\* a key is in one place only, once, and not written yet; it was typed for the owner of the place
OncePlaced(Q) == \A p, q \in Places : \A j \in DOMAIN Q[p], k \in DOMAIN Q[q] : Q[p][j] = Q[q][k] => (p = q /\ j = k)
ForOwner(Q, O, T, W) == \A q \in Places : \A j \in DOMAIN Q[q] :
                          Q[q][j] \in 1..Len(T) /\ T[Q[q][j]] = O[q] /\ W[Q[q][j]] = <<>>
OnceWritten(T, W) == \A i \in Inputs : W[i] # <<>> => (i \in 1..Len(T) /\ Len(W[i]) = 1 /\ Head(W[i]) = T[i])
Keys(Q, O, T, W) == OncePlaced(Q) /\ ForOwner(Q, O, T, W) /\ OnceWritten(T, W)
KeyInv == Keys(Queues, Owners, typed, written)

\* places are left as they are or emptied
LEMMA KeysStay == ASSUME NEW Q, NEW O, NEW T, NEW W, NEW P, NEW N, Keys(Q, O, T, W),
                         \A q \in Places : P[q] = <<>> \/ (P[q] = Q[q] /\ N[q] = O[q])
                  PROVE  Keys(P, N, T, W)
  <1>1. \A q \in Places : \A j \in DOMAIN P[q] : P[q] = Q[q] /\ N[q] = O[q]
    OBVIOUS
  <1> QED BY <1>1 DEF Keys, OncePlaced, ForOwner, OnceWritten

\* a key is typed, and dropped or put at the end of one place
LEMMA KeysTyped == ASSUME NEW Q \in [Places -> Seq(Inputs)], NEW O, NEW T \in Seq(Sessions), NEW s \in Sessions,
                          NEW W, Keys(Q, O, T, W), NEW P \in [Places -> Seq(Inputs)], Len(T) + 1 \in Inputs,
                          \/ P = Q
                          \/ \E q \in Places : O[q] = s /\ P = [Q EXCEPT ![q] = Append(Q[q], Len(T) + 1)]
                   PROVE  Keys(P, O, Append(T, s), W)
  <1> DEFINE n == Len(T) + 1
             U == Append(T, s)
  <1>1. Len(T) \in Nat /\ Len(U) = n /\ U[n] = s /\ \A i \in 1..Len(T) : U[i] = T[i] /\ i \in 1..n /\ i # n
    BY LenProperties, AppendProperties
  <1>2. W[n] = <<>>
    BY <1>1 DEF Keys, OnceWritten
  <1>3. OnceWritten(U, W)
    BY <1>1 DEF Keys, OnceWritten
  <1>4. ForOwner(Q, O, U, W)
    BY <1>1 DEF Keys, ForOwner
  <1>5. CASE P = Q
    BY <1>3, <1>4, <1>5 DEF Keys
  <1>6. ASSUME NEW q \in Places, O[q] = s, P = [Q EXCEPT ![q] = Append(Q[q], n)]
        PROVE  Keys(P, O, U, W)
    <2>1. Q[q] \in Seq(Inputs) /\ n \in Inputs
      OBVIOUS
    <2>2. /\ Len(Q[q]) \in Nat /\ DOMAIN Q[q] = 1..Len(Q[q]) /\ P[q] = Append(Q[q], n)
          /\ Len(P[q]) = Len(Q[q]) + 1 /\ DOMAIN P[q] = 1..(Len(Q[q]) + 1) /\ P[q][Len(Q[q]) + 1] = n
          /\ \A j \in 1..Len(Q[q]) : P[q][j] = Q[q][j]
      BY <1>6, <2>1, LenProperties, AppendProperties
    <2>3. \A p \in Places : \A j \in DOMAIN P[p] : \/ j \in DOMAIN Q[p] /\ P[p][j] = Q[p][j]
                                                   \/ p = q /\ j = Len(Q[q]) + 1 /\ P[p][j] = n
      <3>1. P[q] = Append(Q[q], n) /\ \A p \in Places \ {q} : P[p] = Q[p]
        BY <1>6, Zenon
      <3>2. \A j \in DOMAIN P[q] : j \in DOMAIN Q[q] \/ j = Len(Q[q]) + 1
        BY <2>2
      <3> QED BY <2>2, <3>1, <3>2
    <2>4. \A p \in Places : \A j \in DOMAIN Q[p] : Q[p][j] # n
      BY <1>1 DEF Keys, ForOwner
    <2>5. OncePlaced(P)
      BY <2>3, <2>4 DEF Keys, OncePlaced
    <2>6. ForOwner(P, O, U, W)
      <3>1. n \in 1..Len(U)
        BY <1>1
      <3> HIDE DEF n, U
      <3> QED BY <1>1, <1>2, <1>4, <1>6, <2>3, <3>1 DEF ForOwner
    <2> QED BY <1>3, <2>5, <2>6 DEF Keys
  <1> QED BY <1>5, <1>6

\* what waited in one place moves to another
LEMMA KeysMoved == ASSUME NEW Q, NEW O, NEW T, NEW W, Keys(Q, O, T, W), NEW p \in Places, NEW q \in Places, p # q, O[p] = O[q],
                          NEW P, \A r \in Places \ {p, q} : P[r] = Q[r], P[p] = <<>>, P[q] = Q[p]
                   PROVE  Keys(P, O, T, W)
  <1>1. \A r \in Places : \A j \in DOMAIN P[r] : \/ r \notin {p, q} /\ P[r] = Q[r]
                                                 \/ r = q /\ P[r] = Q[p]
    OBVIOUS
  <1>2. OncePlaced(P)
    BY <1>1 DEF Keys, OncePlaced
  <1>3. ForOwner(P, O, T, W)
    BY <1>1 DEF Keys, ForOwner
  <1> QED BY <1>2, <1>3 DEF Keys

\* the first key of a place is written to its owner
LEMMA KeysWritten == ASSUME NEW Q \in [Places -> Seq(Inputs)], NEW O, NEW T, NEW W \in [Inputs -> Seq(Sessions)],
                            Keys(Q, O, T, W), NEW q \in Places, Q[q] # <<>>, O[q] \in Sessions,
                            NEW P, P = [Q EXCEPT ![q] = Tail(Q[q])],
                            NEW V, V = [W EXCEPT ![Head(Q[q])] = Append(W[Head(Q[q])], O[q])]
                     PROVE  Keys(P, O, T, V)
  <1> DEFINE i == Head(Q[q])
             s == Q[q]
  <1>1. /\ s \in Seq(Inputs) /\ s # <<>>
        /\ Len(s) \in Nat /\ Len(s) >= 1 /\ i \in Inputs /\ i = s[1] /\ 1 \in DOMAIN s /\ DOMAIN s = 1..Len(s)
        /\ Tail(s) \in Seq(Inputs) /\ Len(Tail(s)) = Len(s) - 1 /\ DOMAIN Tail(s) = 1..(Len(s) - 1)
        /\ \A j \in 1..(Len(s) - 1) : Tail(s)[j] = s[j + 1]
    <2>1. s \in Seq(Inputs) /\ s # <<>>
      OBVIOUS
    <2> HIDE DEF s
    <2>2. Head(s) \in Inputs /\ Head(s) = s[1] /\ Len(s) \in Nat /\ Len(s) >= 1 /\ DOMAIN s = 1..Len(s)
      BY <2>1, LenProperties, HeadTailProperties, EmptySeq
    <2>3. /\ Tail(s) \in Seq(Inputs) /\ Len(Tail(s)) = Len(s) - 1 /\ DOMAIN Tail(s) = 1..(Len(s) - 1)
          /\ \A j \in 1..(Len(s) - 1) : Tail(s)[j] = s[j + 1]
      BY <2>1, LenProperties, HeadTailProperties
    <2> QED BY <2>1, <2>2, <2>3 DEF s
  <1>2. W[i] = <<>> /\ i \in 1..Len(T) /\ T[i] = O[q]
    BY <1>1 DEF Keys, ForOwner
  <1>3. V[i] = <<O[q]>> /\ \A k \in Inputs \ {i} : V[k] = W[k]
    <2>1. Append(<<>>, O[q]) = <<O[q]>>
      OBVIOUS
    <2> QED BY <1>1, <1>2, <2>1
  <1>4. Len(<<O[q]>>) = 1 /\ Head(<<O[q]>>) = O[q]
    OBVIOUS
  <1> HIDE DEF i
  <1>5. OnceWritten(T, V)
    BY <1>2, <1>3, <1>4 DEF Keys, OnceWritten
  <1>6. \A p \in Places : \A j \in DOMAIN P[p] : \/ p # q /\ j \in DOMAIN Q[p] /\ P[p][j] = Q[p][j]
                                                 \/ p = q /\ j \in Nat /\ j + 1 \in DOMAIN s /\ P[p][j] = s[j + 1]
    BY <1>1
  <1>7. \A p \in Places : \A j \in DOMAIN P[p] : P[p][j] # i /\ P[p][j] \in Inputs
    <2>1. \A p \in Places : \A j \in DOMAIN Q[p] : Q[p][j] \in Inputs
      BY ElementOfSeq, LenProperties
    <2>2. \A p \in Places : \A j \in DOMAIN Q[p] : Q[p][j] = i => (p = q /\ j = 1)
      BY <1>1 DEF Keys, OncePlaced
    <2> QED BY <1>6, <2>1, <2>2
  <1>8. OncePlaced(P)
    <2> SUFFICES ASSUME NEW p \in Places, NEW r \in Places, NEW j \in DOMAIN P[p], NEW k \in DOMAIN P[r], P[p][j] = P[r][k]
                 PROVE  p = r /\ j = k
      BY DEF OncePlaced
    <2>1. PICK a \in DOMAIN Q[p] : P[p][j] = Q[p][a] /\ ((p # q /\ a = j) \/ (p = q /\ j \in Nat /\ a = j + 1))
      BY <1>6
    <2>2. PICK b \in DOMAIN Q[r] : P[r][k] = Q[r][b] /\ ((r # q /\ b = k) \/ (r = q /\ k \in Nat /\ b = k + 1))
      BY <1>6
    <2>3. p = r /\ a = b
      BY <2>1, <2>2 DEF Keys, OncePlaced
    <2> QED BY <2>1, <2>2, <2>3
  <1>9. ForOwner(P, O, T, V)
    <2> SUFFICES ASSUME NEW p \in Places, NEW j \in DOMAIN P[p]
                 PROVE  P[p][j] \in 1..Len(T) /\ T[P[p][j]] = O[p] /\ V[P[p][j]] = <<>>
      BY DEF ForOwner
    <2>1. PICK a \in DOMAIN Q[p] : P[p][j] = Q[p][a]
      BY <1>6
    <2>2. P[p][j] \in 1..Len(T) /\ T[P[p][j]] = O[p] /\ W[P[p][j]] = <<>>
      BY <2>1, ZenonT(60) DEF Keys, ForOwner
    <2>3. V[P[p][j]] = W[P[p][j]]
      BY <1>3, <1>7
    <2> QED BY <2>2, <2>3
  <1> QED BY <1>5, <1>8, <1>9 DEF Keys

\* the places, one by one
LEMMA QueueFacts == ASSUME TypeInv
                    PROVE  /\ Queues \in [Places -> Seq(Inputs)] /\ Queues[None] = hook.pending /\ Owners[None] = hook.sid
                           /\ \A c \in Conns : Queues[c] = conn[c].up /\ Owners[c] = conn[c].to /\ c \in Places /\ c # None
                           /\ None \in Places
  <1>1. hook.pending \in Seq(Inputs) /\ \A c \in Conns : conn[c].up \in Seq(Inputs) /\ c # None
    BY HookFields, ConnFields DEF TypeInv, TypeOK, Conns, None
  <1> QED BY <1>1 DEF Queues, Owners, Places

\* a step that writes nothing and types nothing, and leaves each place alone or empties it
LEMMA PlacesStay == ASSUME KeyInv, typed' = typed, written' = written,
                           hook'.pending = <<>> \/ (hook'.pending = hook.pending /\ hook'.sid = hook.sid),
                           \A d \in Conns : conn'[d].up = <<>> \/ (conn'[d].up = conn[d].up /\ conn'[d].to = conn[d].to)
                    PROVE  KeyInv'
  <1>1. \A q \in Places : Queues'[q] = <<>> \/ (Queues'[q] = Queues[q] /\ Owners'[q] = Owners[q])
    BY DEF Queues, Owners, Places
  <1>2. Keys(Queues', Owners', typed, written)
    BY <1>1, KeysStay DEF KeyInv
  <1> QED BY <1>2 DEF KeyInv

LEMMA KeysAgent == ASSUME TypeInv, KeyInv, Agent
                   PROVE  KeyInv'
  <1>0. conn \in [Conns -> Conn] /\ Used /\ written \in [Inputs -> Seq(Sessions)] /\ typed' = typed
    BY DEF TypeInv, TypeOK, Agent, Deliver, ShellExits, CloseTells, CloseRemoves, CloseAsked, ReapFinds, ReapCloses, Upgrade,
           AttachTake, AttachFails, AttachFlush, HandleInput, HandlerEnds, StartArrives
  <1>1. hook' = hook /\ \A d \in Conns : conn'[d].to = conn[d].to /\ (conn'[d].up = conn[d].up \/ HandleInput(d))
    BY AgentConns DEF Onward
  <1>2. ASSUME NEW c \in Conns, HandleInput(c), session[conn[c].to].state = "live" PROVE KeyInv'
    <2> DEFINE i == Head(conn[c].up)
               s == conn[c].to
               Q == [Queues EXCEPT ![c] = Tail(Queues[c])]
    <2>1. /\ written' = [written EXCEPT ![i] = Append(written[i], s)]
          /\ conn' = [conn EXCEPT ![c] = [conn[c] EXCEPT !.up = Tail(conn[c].up)]]
          /\ conn[c].up # <<>> /\ s \in Sessions
      BY <1>0, <1>2, ConnFields DEF HandleInput, Used
    <2>2. Owners' = Owners
      BY <1>1 DEF Owners, Places
    <2>3. conn'[c].up = Tail(conn[c].up) /\ \A d \in Conns \ {c} : conn'[d] = conn[d]
      <3>1. conn[c] \in Conn
        BY <1>0
      <3>2. [conn[c] EXCEPT !.up = Tail(conn[c].up)].up = Tail(conn[c].up)
        BY <3>1 DEF Conn
      <3> QED BY <1>0, <2>1, <3>2
    <2>4. Queues' = Q
      <3>1. \A q \in Places : (IF q = None THEN hook'.pending ELSE conn'[q].up) = IF q = c THEN Tail(Queues[c]) ELSE Queues[q]
        BY <1>1, <2>3, QueueFacts DEF Queues, Places
      <3>2. Queues' = [q \in Places |-> IF q = c THEN Tail(Queues[c]) ELSE Queues[q]]
        BY <3>1 DEF Queues
      <3>3. Q = [q \in Places |-> IF q = c THEN Tail(Queues[c]) ELSE Queues[q]]
        BY QueueFacts
      <3> QED BY <3>2, <3>3
    <2>5. Keys(Q, Owners, typed, written')
      <3>1. /\ Queues[c] = conn[c].up /\ Owners[c] = s /\ c \in Places /\ Queues \in [Places -> Seq(Inputs)]
            /\ Queues[c] # <<>> /\ Owners[c] \in Sessions
            /\ written' = [written EXCEPT ![Head(Queues[c])] = Append(written[Head(Queues[c])], Owners[c])]
        BY <2>1, QueueFacts
      <3> QED BY <1>0, <3>1, KeysWritten DEF KeyInv
    <2> QED BY <1>0, <2>2, <2>4, <2>5 DEF KeyInv
  <1>3. ASSUME NEW c \in Conns, HandleInput(c), session[conn[c].to].state # "live" PROVE KeyInv'
    <2> DEFINE v == IF InMap(conn[c].to) THEN conn[c] ELSE Sent(c, NotFound)
    <2>1. written' = written /\ conn' = [conn EXCEPT ![c] = [v EXCEPT !.ended = TRUE]]
      BY <1>3 DEF HandleInput
    <2>2. v \in Conn /\ v.up = conn[c].up /\ v.to = conn[c].to
      BY <1>0, SentType, SentFields, MessageTypes
    <2>3. [v EXCEPT !.ended = TRUE].up = conn[c].up /\ [v EXCEPT !.ended = TRUE].to = conn[c].to
      <3> HIDE DEF v
      <3> QED BY <2>2 DEF Conn
    <2>4. \A d \in Conns : conn'[d].up = conn[d].up /\ conn'[d].to = conn[d].to
      <3> HIDE DEF v
      <3> QED BY <1>0, <2>1, <2>3
    <2> QED BY <1>0, <1>1, <2>1, <2>4, PlacesStay
  <1>4. ASSUME \A c \in Conns : ~HandleInput(c) PROVE KeyInv'
    <2>1. written' = written
      BY <1>4, Zenon DEF Agent, Deliver, ShellExits, CloseTells, CloseRemoves, CloseAsked, ReapFinds, ReapCloses, Upgrade,
                  AttachTake, AttachFails, AttachFlush, HandlerEnds, StartArrives
    <2> QED BY <1>0, <1>1, <1>4, <2>1, PlacesStay
  <1> QED BY <1>2, <1>3, <1>4

LEMMA KeysTab == ASSUME TypeInv, KeyInv, Tab
                 PROVE  KeyInv'
  <1>0. conn \in [Conns -> Conn] /\ hook \in Hook /\ Calling /\ Waiting /\ Attached /\ typed \in Seq(Sessions)
    BY DEF TypeInv, TypeOK
  <1>1. ASSUME SendInput PROVE KeyInv'
    <2> DEFINE c == hook.sock
               i == Len(typed) + 1
    <2>1. typed' = Append(typed, hook.sid) /\ written' = written /\ hook.sid \in Sessions /\ i \in Inputs
      BY <1>0, <1>1, HookFields, LenProperties DEF SendInput, Inputs
    <2>2. \/ conn' = conn /\ (hook' = hook \/ hook' = [hook EXCEPT !.pending = Append(hook.pending, i)])
          \/ c \in Conns /\ hook' = hook /\ conn' = [conn EXCEPT ![c] = [conn[c] EXCEPT !.up = Append(conn[c].up, i)]]
      BY <1>0, <1>1, HookFields DEF SendInput
    <2> HIDE DEF i
    <2>3. ASSUME Owners' = Owners, Queues' = Queues \/ \E q \in Places : Owners[q] = hook.sid /\ Queues' = [Queues EXCEPT ![q] = Append(Queues[q], i)]
          PROVE  KeyInv'
      <3>1. Queues' \in [Places -> Seq(Inputs)]
        <4>1. TypeInv'
          BY TabInv
        <4>2. hook'.pending \in Seq(Inputs) /\ \A d \in Conns : conn'[d].up \in Seq(Inputs)
          BY <4>1 DEF TypeInv, TypeOK, Hook, Conn
        <4> QED BY <4>2 DEF Queues, Places
      <3>2. Queues \in [Places -> Seq(Inputs)] /\ Keys(Queues, Owners, typed, written)
        BY QueueFacts DEF KeyInv
      <3>3. Keys(Queues', Owners, Append(typed, hook.sid), written)
        BY <1>0, <2>1, <2>3, <3>1, <3>2, KeysTyped DEF i
      <3> QED BY <2>1, <2>3, <3>3 DEF KeyInv
    <2>4. CASE conn' = conn /\ hook' = hook
      BY <2>3, <2>4 DEF Queues, Owners
    <2>5. CASE conn' = conn /\ hook' = [hook EXCEPT !.pending = Append(hook.pending, i)]
      <3>1. hook'.pending = Append(hook.pending, i) /\ hook'.sid = hook.sid
        BY <1>0, <2>5 DEF Hook
      <3>2. Owners' = Owners
        BY <2>5, <3>1 DEF Owners
      <3>3. \A q \in Places : Queues'[q] = IF q = None THEN Append(Queues[None], i) ELSE Queues[q]
        BY <2>5, <3>1, QueueFacts DEF Queues
      <3>4. Queues' = [Queues EXCEPT ![None] = Append(Queues[None], i)]
        <4>1. Queues' = [q \in Places |-> Queues'[q]]
          BY DEF Queues
        <4> QED BY <3>3, <4>1, QueueFacts
      <3> QED BY <2>3, <3>2, <3>4, QueueFacts
    <2>6. CASE c \in Conns /\ hook' = hook /\ conn' = [conn EXCEPT ![c] = [conn[c] EXCEPT !.up = Append(conn[c].up, i)]]
      <3> DEFINE w == [conn[c] EXCEPT !.up = Append(conn[c].up, i)]
      <3>1. w.up = Append(conn[c].up, i) /\ w.to = conn[c].to /\ conn[c].to = hook.sid
        <4>1. conn[c] \in Conn /\ c # None
          BY <1>0, <2>6 DEF Conns, None
        <4> QED BY <1>0, <4>1 DEF Conn, Attached
      <3>2. \A d \in Conns : conn'[d].to = conn[d].to /\ conn'[d].up = IF d = c THEN Append(conn[d].up, i) ELSE conn[d].up
        <4> HIDE DEF c
        <4>1. conn' = [conn EXCEPT ![c] = w]
          BY <2>6
        <4> HIDE DEF w
        <4> QED BY <1>0, <2>6, <3>1, <4>1
      <3>3. Owners' = Owners
        BY <2>6, <3>2 DEF Owners, Places
      <3>4. \A q \in Places : Queues'[q] = IF q = c THEN Append(Queues[c], i) ELSE Queues[q]
        BY <2>6, <3>2, QueueFacts DEF Queues, Places
      <3>5. Queues' = [Queues EXCEPT ![c] = Append(Queues[c], i)]
        <4>1. Queues' = [q \in Places |-> Queues'[q]]
          BY DEF Queues
        <4> QED BY <3>4, <4>1, QueueFacts
      <3> QED BY <2>3, <2>6, <3>1, <3>3, <3>5, QueueFacts
    <2> QED BY <2>2, <2>4, <2>5, <2>6
  <1>2. ASSUME NEW c \in Conns, OnOpen(c) PROVE KeyInv'
    <2> DEFINE w == [conn[c] EXCEPT !.end = "open", !.up = hook.pending]
    <2>1. w.up = hook.pending /\ w.to = conn[c].to
      BY <1>0 DEF Conn
    <2>2. conn' = [conn EXCEPT ![c] = w] /\ hook.sid = conn[c].to
      BY <1>0, <1>2 DEF OnOpen, IsCurrent, Conn
    <2> HIDE DEF w
    <2>3. hook'.pending = <<>> /\ hook'.sid = hook.sid /\ typed' = typed /\ written' = written
      BY <1>0, <1>2 DEF OnOpen, Hook
    <2>4. \A d \in Conns : conn'[d].to = conn[d].to /\ conn'[d].up = IF d = c THEN hook.pending ELSE conn[d].up
      BY <1>0, <2>1, <2>2
    <2>5. Owners' = Owners
      BY <2>3, <2>4 DEF Owners, Places
    <2>6. Queues'[None] = <<>> /\ Queues'[c] = Queues[None] /\ \A q \in Places \ {None, c} : Queues'[q] = Queues[q]
      BY <2>3, <2>4, QueueFacts DEF Queues, Places
    <2>7. Owners[None] = Owners[c] /\ None \in Places /\ c \in Places /\ c # None
      BY <2>2, QueueFacts
    <2>8. Keys(Queues', Owners, typed, written)
      BY <2>6, <2>7, KeysMoved DEF KeyInv
    <2> QED BY <2>3, <2>5, <2>8 DEF KeyInv
  <1>3. ASSUME NEW h \in Hook, h.sid # None, NEW c \in Conns, Connect(h, c), typed' = typed, written' = written,
               h.pending = <<>> \/ (h.pending = hook.pending /\ h.sid = hook.sid)
        PROVE  KeyInv'
    <2>1. /\ hook'.sid = h.sid /\ hook'.pending = h.pending
          /\ conn'[c].up = <<>>
          /\ \A d \in Conns \ {c} : conn'[d].to = conn[d].to /\ conn'[d].up = conn[d].up
      BY <1>0, <1>3, ConnectTypes
    <2> QED BY <1>3, <2>1, PlacesStay
  <1>4. ASSUME NEW c \in Conns, StartAnswered(c) PROVE KeyInv'
    <2> DEFINE h == [hook EXCEPT !.call = "none", !.sid = hook.epoch, !.ui = hook.ui \ {"starting"}]
    <2>1. hook.epoch \in Sessions /\ hook.epoch # None /\ Connect(h, c) /\ typed' = typed /\ written' = written
      BY <1>0, <1>4 DEF StartAnswered, Calling, Sessions, None
    <2>2. h \in Hook /\ h.sid # None
      BY <1>0, <2>1, HookFields DEF Hook
    <2>3. h.pending = <<>>
      <3>1. hook.pending = <<>>
        BY <1>0, <1>4 DEF StartAnswered, Calling, Waiting
      <3> QED BY <1>0, <3>1 DEF Hook
    <2> HIDE DEF h
    <2> QED BY <1>3, <2>1, <2>2, <2>3
  <1>5. ASSUME NEW c \in Conns, Reconnect(c) PROVE KeyInv'
    <2> DEFINE h == [hook EXCEPT !.timer = FALSE]
    <2>1. h \in Hook /\ h.sid = hook.sid /\ h.pending = hook.pending
      BY <1>0 DEF Hook
    <2>2. (hook' = h /\ conn' = conn) \/ (h.sid # None /\ Connect(h, c))
      BY <1>5, <2>1 DEF Reconnect
    <2>3. typed' = typed /\ written' = written
      BY <1>5 DEF Reconnect
    <2> HIDE DEF h
    <2> QED BY <1>3, <2>1, <2>2, <2>3, PlacesStay
  <1>6. ASSUME Start \/ Unmount \/ Leave PROVE KeyInv'
    <2>1. hook'.pending = <<>> /\ typed' = typed /\ written' = written /\ conn' = Dropped(hook.sock)
      BY <1>0, <1>6 DEF Start, Renewed, Unmount, Leave, Hook
    <2>2. \A d \in Conns : conn'[d].to = conn[d].to /\ conn'[d].up = conn[d].up
      BY <1>0, <2>1, DroppedFields
    <2> QED BY <2>1, <2>2, PlacesStay
  <1>7. ASSUME PreviousReleased \/ StartFails PROVE KeyInv'
    <2>1. hook'.pending = hook.pending /\ hook'.sid = hook.sid /\ typed' = typed /\ written' = written /\ conn' = conn
      BY <1>0, <1>7 DEF PreviousReleased, StartFails, Hook
    <2> QED BY <2>1, PlacesStay
  <1>h. \A h \in Hook, b \in BOOLEAN : Scheduled(h, b).sid = h.sid /\ Scheduled(h, b).pending = h.pending
    BY DEF Scheduled, Hook
  <1>8. ASSUME Kick PROVE KeyInv'
    <2> DEFINE h == [hook EXCEPT !.attempt = 0]
    <2>1. h \in Hook /\ h.sid = hook.sid /\ h.pending = hook.pending
      <3>1. 0 \in 0..(MaxAttempts + 1)
        BY TerminalAssumption
      <3> QED BY <1>0, <3>1 DEF Hook
    <2>2. hook' = Scheduled(h, TRUE) /\ conn' = conn /\ typed' = typed /\ written' = written
      BY <1>8 DEF Kick
    <2> HIDE DEF h
    <2>3. hook'.sid = hook.sid /\ hook'.pending = hook.pending
      BY <1>h, <2>1, <2>2
    <2> QED BY <2>2, <2>3, PlacesStay
  <1>9. ASSUME NEW c \in Conns, OnMessage(c) \/ Watchdog(c) \/ OnClose(c) PROVE KeyInv'
    <2>1. typed' = typed /\ written' = written
      BY <1>9, Zenon DEF OnMessage, Watchdog, OnClose
    <2>2. \A d \in Conns : conn'[d].to = conn[d].to /\ conn'[d].up = conn[d].up
      <3>1. \/ conn' = [conn EXCEPT ![c] = [conn[c] EXCEPT !.down = Tail(conn[c].down)]]
            \/ \E e \in {"closing", "closed"} : conn' = [conn EXCEPT ![c] = [conn[c] EXCEPT !.end = e]]
        BY <1>9, Zenon DEF OnMessage, Watchdog, OnClose
      <3>2. \A d \in Conns : conn[d] \in Conn
        BY <1>0
      <3>3. CASE conn' = [conn EXCEPT ![c] = [conn[c] EXCEPT !.down = Tail(conn[c].down)]]
        BY <1>0, <3>2, <3>3 DEF Conn
      <3>4. ASSUME NEW e \in {"closing", "closed"}, conn' = [conn EXCEPT ![c] = [conn[c] EXCEPT !.end = e]]
            PROVE  \A d \in Conns : conn'[d].to = conn[d].to /\ conn'[d].up = conn[d].up
        BY <1>0, <3>2, <3>4 DEF Conn
      <3> QED BY <3>1, <3>3, <3>4
    <2>3. hook'.sid = hook.sid /\ hook'.pending = hook.pending
      <3>1. CASE OnMessage(c) \/ Watchdog(c)
        <4> DEFINE ui == (hook.ui \ {"connected", "reconnecting"}) \cup {"closed"}
        <4>1. hook' = hook \/ hook' = [hook EXCEPT !.ended = TRUE, !.ui = ui]
          BY <3>1, Zenon DEF OnMessage, Watchdog
        <4> HIDE DEF ui
        <4> QED BY <1>0, <4>1 DEF Hook
      <3>2. CASE OnClose(c)
        <4> DEFINE h == [hook EXCEPT !.sock = None]
                   g == [h EXCEPT !.ui = h.ui \ {"connected"}]
        <4>1. hook' = h \/ hook' = Scheduled(g, FALSE)
          BY <3>2 DEF OnClose
        <4>2. h \in Hook /\ h.sid = hook.sid /\ h.pending = hook.pending
          BY <1>0 DEF Hook
        <4>3. g \in Hook /\ g.sid = hook.sid /\ g.pending = hook.pending
          <5> HIDE DEF h
          <5> QED BY <4>2 DEF Hook
        <4> HIDE DEF h, g
        <4> QED BY <1>h, <4>1, <4>2, <4>3
      <3> QED BY <1>9, <3>1, <3>2
    <2> QED BY <2>1, <2>2, <2>3, PlacesStay
  <1> QED BY <1>1, <1>2, <1>4, <1>5, <1>6, <1>7, <1>8, <1>9 DEF Tab

LEMMA KeysFault == ASSUME TypeInv, KeyInv, Fault
                   PROVE  KeyInv'
  <1>0. conn \in [Conns -> Conn] /\ hook' = hook /\ typed' = typed /\ written' = written
    BY DEF TypeInv, TypeOK, Fault, Cut, LoseRequest, Restart
  <1>1. \A d \in Conns : Broken(d) \in Conn /\ Broken(d).up = <<>> /\ Broken(d).to = conn[d].to
    BY <1>0, BrokenType, BrokenFields
  <1>2. \A d \in Conns : conn'[d].up = <<>> \/ (conn'[d].up = conn[d].up /\ conn'[d].to = conn[d].to)
    <2>1. CASE \E c \in Conns : Cut(c)
      BY <1>0, <1>1, <2>1 DEF Cut
    <2>2. CASE LoseRequest
      BY <2>2 DEF LoseRequest
    <2>3. CASE Restart
      <3>1. \A w \in Conn : \A a, b : [w EXCEPT !.at = a, !.ended = TRUE, !.carry = b].up = w.up
        BY DEF Conn
      <3> SUFFICES ASSUME NEW d \in Conns PROVE conn'[d].up = <<>>
        OBVIOUS
      <3> DEFINE w == Broken(d)
                 a == IF w.at = "refused" THEN w.at ELSE "done"
      <3>2. conn'[d] = [w EXCEPT !.at = a, !.ended = TRUE, !.carry = <<>>]
        BY <2>3 DEF Restart
      <3>3. w \in Conn /\ w.up = <<>>
        BY <1>1
      <3> HIDE DEF w, a
      <3> QED BY <3>1, <3>2, <3>3
    <2> QED BY <2>1, <2>2, <2>3 DEF Fault
  <1> QED BY <1>0, <1>2, PlacesStay

\* A key reaches the shell that was on the screen when it was typed, and at most once: it is in one
\* place at a time, the queue of the hook or one websocket, and each place belongs to one shell.
THEOREM InputArrives == Spec => []InputReachesItsShell
  <1> DEFINE I == TypeInv /\ KeyInv
  <1>1. Init => I
    <2>1. ASSUME Init PROVE KeyInv
      <3>1. /\ \A q \in Places : Queues[q] = <<>>
            /\ \A i \in Inputs : written[i] = <<>>
        BY <2>1 DEF Init, NoConn, Queues, Places
      <3> QED BY <3>1 DEF KeyInv, Keys, OncePlaced, ForOwner, OnceWritten
    <2> QED BY <2>1, InitTypes
  <1>2. I /\ [Next]_vars => I'
    <2> SUFFICES ASSUME I, [Next]_vars PROVE I'
      OBVIOUS
    <2>1. TypeInv'
      BY NextInv
    <2>2. CASE Next
      BY <2>1, <2>2, KeysAgent, KeysTab, KeysFault DEF Next
    <2>3. CASE UNCHANGED vars
      BY <2>1, <2>3 DEF vars, KeyInv, Queues, Owners
    <2> QED BY <2>2, <2>3
  <1>3. I => InputReachesItsShell
    <2> SUFFICES ASSUME I, NEW i \in Inputs PROVE Len(written[i]) <= 1 /\ (written[i] # <<>> => Head(written[i]) = typed[i])
      BY DEF InputReachesItsShell
    <2>1. CASE written[i] = <<>>
      BY <2>1
    <2>2. CASE written[i] # <<>>
      <3>1. OnceWritten(typed, written)
        BY DEF KeyInv, Keys
      <3>2. Len(written[i]) = 1 /\ Head(written[i]) = typed[i]
        BY <2>2, <3>1, Zenon DEF OnceWritten
      <3>3. Len(written[i]) <= 1
        BY <3>2
      <3> QED BY <3>2, <3>3
    <2> QED BY <2>1, <2>2
  <1> HIDE DEF I
  <1> QED BY <1>1, <1>2, <1>3, PTL DEF Spec


=============================================================================
