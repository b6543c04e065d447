----------------------------- MODULE WidgetSync -----------------------------
(***************************************************************************)
(* The widgets and notes of an account: one tab of a browser keeps them in *)
(* localStorage, the server keeps a copy for each account. useWidgetSync   *)
(* takes the copy over when the desktop opens and sends changes back after *)
(* a delay, while accounts come and go, the page is left and requests fail.*)
(*                                                                         *)
(* A layout is the set of the edits that went into it.                     *)
(***************************************************************************)
EXTENDS Naturals, Sequences, FiniteSets

CONSTANTS
  Users,      \* accounts that use this browser
  None,       \* nobody
  MaxEdits,   \* changes in one run
  MaxMounts,  \* how often the desktop opens
  MaxNet,     \* requests on their way at once
  MaxFaults   \* lost requests, expired sessions, failed logouts and session checks

Edits == 1..MaxEdits
Mounts == 1..MaxMounts

ASSUME WidgetAssumption ==
  /\ None \notin Users
  /\ MaxEdits \in Nat /\ MaxMounts \in Nat /\ MaxNet \in Nat /\ MaxFaults \in Nat

VARIABLES
  server,     \* user_preferences.widgets_data of each account
  local,      \* the widget store, which localStorage keeps
  owner,      \* OWNER_KEY
  mark,       \* DIRTY_KEY
  user,       \* the account in the auth store
  cookie,     \* the account of the session the browser sends
  hook,       \* the effect of useWidgetSync that runs now
  dirty,      \* the flag of each effect, also of those that were cleaned up
  net,        \* requests that are not answered yet, in the order they were sent
  by,         \* history: who made each edit
  sure,       \* history: the edits made while the effect was listening
  left,       \* history: accounts that were marked dirty when they left
  overtaken,  \* history: a request or an answer overtook another
  faults

vars == <<server, local, owner, mark, user, cookie, hook, dirty, net, by, sure, left, overtaken, faults>>

\* main: the placed widgets and the notes; mobile: the order and the locks of the phone layout,
\* which a copy stored by an older version does not have
Layout == [main : SUBSET Edits, mobile : SUBSET Edits]
Copy == [main : SUBSET Edits, mobile : (SUBSET Edits) \cup {{None}}]
NoCopy == [main |-> {None}, mobile |-> {None}]
OldCopy == [main |-> {}, mobile |-> {None}]
Empty == [main |-> {}, mobile |-> {}]

Request == [kind : {"get", "push", "unsynced", "first"}, of : Mounts \cup {0}, as : Users \cup {None},
            data : Copy \cup {NoCopy}, at : {"sent", "done", "denied", "failed"}]

TypeOK == /\ server \in [Users -> Copy \cup {NoCopy}]
          /\ local \in Layout
          /\ {owner, mark, user, cookie} \subseteq Users \cup {None}
          /\ hook \in [phase : {"off", "asking", "on", "deaf"}, no : Mounts \cup {0}, timer : BOOLEAN]
          /\ dirty \in [Mounts -> BOOLEAN]
          /\ net \in Seq(Request)
          /\ by \in Seq(Users) /\ Len(by) <= MaxEdits
          /\ sure \subseteq Edits /\ left \subseteq Users
          /\ overtaken \in BOOLEAN
          /\ faults \in 0..MaxFaults

\* one account may have a copy already, with an edit made in another browser
Init == /\ \/ by = <<>> /\ sure = {} /\ server \in [Users -> {NoCopy, OldCopy}]
           \/ /\ MaxEdits > 0
              /\ sure = {1}
              /\ \E u \in Users :
                   /\ by = <<u>>
                   /\ server \in [Users -> {NoCopy, OldCopy, [Empty EXCEPT !.main = {1}]}]
                   /\ \A v \in Users : server[v].main = {1} <=> v = u
        /\ local = Empty
        /\ owner = None /\ mark = None /\ user = None /\ cookie = None
        /\ hook = [phase |-> "off", no |-> 0, timer |-> FALSE]
        /\ dirty = [n \in Mounts |-> FALSE]
        /\ net = <<>> /\ left = {}
        /\ overtaken = FALSE /\ faults = 0

-----------------------------------------------------------------------------
(* The effect and the requests it makes                                    *)

Sent(kind, n, as, data) == [kind |-> kind, of |-> n, as |-> as, data |-> data, at |-> "sent"]

\* push, in an effect whose flag is d, while the browser sends the session of c
Pushes(d, c) == IF d THEN <<Sent("push", hook.no, c, local)>> ELSE <<>>

\* mutant: the flag stays down when the request has failed
CaughtSilently(r) == dirty

\* .catch of push
Caught(r) == IF r.kind = "push" /\ r.of # 0 THEN [dirty EXCEPT ![r.of] = TRUE] ELSE dirty

\* the desktop opens: the effect asks for the copy
Mount ==
  /\ user # None /\ hook.phase = "off" /\ hook.no < MaxMounts /\ Len(net) < MaxNet
  /\ hook' = [phase |-> "asking", no |-> hook.no + 1, timer |-> FALSE]
  /\ net' = Append(net, Sent("get", hook.no + 1, cookie, NoCopy))
  /\ UNCHANGED <<server, local, owner, mark, user, cookie, dirty, by, sure, left, overtaken, faults>>

\* a change of the widget store; only a subscribed effect learns of it
Edit(part) ==
  LET e == Len(by) + 1
      on == hook.phase = "on"
  IN /\ hook.phase # "off" /\ e <= MaxEdits
     /\ by' = Append(by, user)
     /\ local' = [local EXCEPT ![part] = @ \cup {e}]
     /\ IF on
        THEN /\ dirty' = [dirty EXCEPT ![hook.no] = TRUE]
             /\ mark' = user
             /\ hook' = [hook EXCEPT !.timer = TRUE]
             /\ sure' = sure \cup {e}
        ELSE UNCHANGED <<dirty, mark, hook, sure>>
     /\ UNCHANGED <<server, owner, user, cookie, net, left, overtaken, faults>>

\* the timer of PUSH_DELAY_MS fires, or the tab is hidden
Push ==
  /\ hook.phase = "on" /\ Len(net) < MaxNet
  /\ hook.timer \/ dirty[hook.no]
  /\ net' = net \o Pushes(dirty[hook.no], cookie)
  /\ dirty' = [dirty EXCEPT ![hook.no] = FALSE]
  /\ hook' = [hook EXCEPT !.timer = FALSE]
  /\ UNCHANGED <<server, local, owner, mark, user, cookie, by, sure, left, overtaken, faults>>

\* the cleanup of the effect, with the flags at d, while the browser sends the session of c
CleansUp(d, c) ==
  /\ hook' = [hook EXCEPT !.phase = "off", !.timer = FALSE]
  /\ IF hook.phase = "off" THEN dirty' = d /\ net' = net
     ELSE /\ dirty' = [d EXCEPT ![hook.no] = FALSE]
          /\ net' = net \o Pushes(d[hook.no], c)

\* another page, or the other of the desktop and the phone layout
Unmount ==
  /\ hook.phase # "off" /\ Len(net) < MaxNet
  /\ CleansUp(dirty, cookie)
  /\ UNCHANGED <<server, local, owner, mark, user, cookie, by, sure, left, overtaken, faults>>

-----------------------------------------------------------------------------
(* Accounts                                                                *)

Leaves == /\ user' = None
          /\ left' = left \cup ({mark} \ {None})

\* logout: the session is ended first, then the desktop goes
Logout ==
  /\ user # None /\ Len(net) < MaxNet
  /\ \/ cookie' = None /\ UNCHANGED faults
     \/ /\ faults < MaxFaults
        /\ faults' = faults + 1
        /\ UNCHANGED cookie
  /\ Leaves
  /\ CleansUp(dirty, cookie')
  /\ UNCHANGED <<server, local, owner, mark, by, sure, overtaken>>

\* loginSuccess, which overtakes what is still on its way
Login(u) ==
  /\ user = None
  /\ user' = u /\ cookie' = u
  /\ overtaken' = (overtaken \/ net # <<>>)
  /\ UNCHANGED <<server, local, owner, mark, hook, dirty, net, by, sure, left, faults>>

\* nobody waits for the answer any more
Unheard(r) == [r EXCEPT !.of = 0]

\* the page is reloaded or goes away and comes back: initSession asks who is signed in,
\* and takes no answer for nobody
Reload ==
  /\ user # None
  /\ hook' = [hook EXCEPT !.phase = "off", !.timer = FALSE]
  /\ net' = <<>> \/ net' = [i \in DOMAIN net |-> Unheard(net[i])]
  /\ \/ cookie = None /\ Leaves /\ UNCHANGED faults
     \/ cookie # None /\ UNCHANGED <<user, left, faults>>
     \/ cookie # None /\ faults < MaxFaults /\ faults' = faults + 1 /\ Leaves
  /\ UNCHANGED <<server, local, owner, mark, cookie, dirty, by, sure, overtaken>>

\* the session ends on the server
Expire ==
  /\ cookie # None /\ faults < MaxFaults
  /\ faults' = faults + 1
  /\ cookie' = None
  /\ UNCHANGED <<server, local, owner, mark, user, hook, dirty, net, by, sure, left, overtaken>>

-----------------------------------------------------------------------------
(* Requests                                                                *)

\* handleGetMyWidgets and handlePutMyWidgets: a get takes the copy along, a put is refused without a session
Handled(r) == [r EXCEPT !.at = IF r.as = None THEN "denied" ELSE "done",
                        !.data = IF r.kind = "get" /\ r.as # None THEN server[r.as] ELSE @]
Handle(i) ==
  LET r == net[i]
  IN /\ r.at = "sent"
     /\ overtaken' = (overtaken \/ \E j \in 1..(i - 1) : net[j].at = "sent")
     /\ net' = [net EXCEPT ![i] = Handled(r)]
     /\ server' = IF r.kind = "get" \/ r.as = None THEN server ELSE [server EXCEPT ![r.as] = r.data]
     /\ UNCHANGED <<local, owner, mark, user, cookie, hook, dirty, by, sure, left, faults>>

\* a request does not arrive, or its answer does not
Lost(r) == [r EXCEPT !.at = "failed"]
Lose(i) ==
  /\ net[i].at # "failed" /\ faults < MaxFaults
  /\ faults' = faults + 1
  /\ net' = [net EXCEPT ![i] = Lost(net[i])]
  /\ UNCHANGED <<server, local, owner, mark, user, cookie, hook, dirty, by, sure, left, overtaken>>

\* request i leaves the list; its answer may have overtaken an earlier one
Answered(i) == /\ net[i].at # "sent"
               /\ overtaken' = (overtaken \/ i # 1)
Without(i) == SubSeq(net, 1, i - 1) \o SubSeq(net, i + 1, Len(net))

\* .then of a put
Confirmed(r) ==
  IF r.of # 0 /\ (r.kind = "unsynced" \/ (r.kind = "push" /\ ~dirty[r.of])) THEN None ELSE mark

PutAnswered(i) ==
  /\ net[i].kind # "get" /\ net[i].at = "done"
  /\ Answered(i)
  /\ mark' = Confirmed(net[i])
  /\ net' = Without(i)
  /\ UNCHANGED <<server, local, owner, user, cookie, hook, dirty, by, sure, left, faults>>

PutFails(i) ==
  /\ net[i].kind # "get" /\ net[i].at = "failed"
  /\ Answered(i)
  /\ dirty' = Caught(net[i])
  /\ net' = Without(i)
  /\ UNCHANGED <<server, local, owner, mark, user, cookie, hook, by, sure, left, faults>>

\* 401: the interceptor of agentApi has handleSessionExpired end the desktop
Denied(i) ==
  LET d == Caught(net[i])
      n == hook.no
  IN /\ net[i].at = "denied"
     /\ Answered(i)
     /\ IF net[i].of = 0 \/ user = None
        THEN dirty' = d /\ net' = Without(i) /\ UNCHANGED <<hook, user, left>>
        ELSE /\ Leaves
             /\ hook' = [hook EXCEPT !.phase = "off", !.timer = FALSE]
             /\ IF hook.phase = "off" THEN dirty' = d /\ net' = Without(i)
                ELSE /\ dirty' = [d EXCEPT ![n] = FALSE]
                     /\ net' = Without(i) \o Pushes(d[n], cookie)
     /\ UNCHANGED <<server, local, owner, mark, cookie, by, sure, faults>>

\* the answer to an effect that was cleaned up
GetIgnored(i) ==
  /\ net[i].kind = "get" /\ net[i].at # "denied"
  /\ Answered(i)
  /\ net[i].of # hook.no \/ hook.phase # "asking"
  /\ net' = Without(i)
  /\ UNCHANGED <<server, local, owner, mark, user, cookie, hook, dirty, by, sure, left, faults>>

\* mutant: a copy without a phone layout is taken as it is
TakenAsRead(remote) ==
  IF remote # NoCopy THEN IF mark = user THEN local ELSE remote
  ELSE IF owner \in {None, user} THEN local ELSE [local EXCEPT !.main = {}]

\* mutant: the owner is not looked at
KeptAnyway(remote) ==
  IF remote = NoCopy \/ mark = user THEN local
  ELSE [main |-> remote.main, mobile |-> IF remote.mobile = {None} THEN local.mobile ELSE remote.mobile]

\* what the store holds after the copy was read: the copy wins, but for local edits that never
\* arrived; without a copy the layout of another account goes, but not its phone layout
TakenOver(remote) ==
  IF remote # NoCopy
  THEN IF mark = user THEN local
       ELSE [main |-> remote.main, mobile |-> IF remote.mobile = {None} THEN local.mobile ELSE remote.mobile]
  ELSE IF owner \in {None, user} THEN local ELSE [local EXCEPT !.main = {}]

\* the effect has its answer: it takes over, sends what the server lacks, and listens
GetAnswered(i) ==
  LET r == net[i]
      reachable == r.at = "done"
      remote == IF reachable THEN r.data ELSE NoCopy
      layout == TakenOver(remote)
      puts == IF reachable /\ remote = NoCopy THEN <<Sent("first", r.of, cookie, layout)>>
              ELSE IF reachable /\ mark = user THEN <<Sent("unsynced", r.of, cookie, layout)>>
              ELSE <<>>
  IN /\ r.kind = "get" /\ r.at \in {"done", "failed"}
     /\ r.of = hook.no /\ hook.phase = "asking"
     /\ Answered(i)
     /\ local' = layout
     /\ owner' = user
     /\ hook' = [hook EXCEPT !.phase = IF reachable THEN "on" ELSE "deaf"]
     /\ net' = Without(i) \o puts
     /\ UNCHANGED <<server, mark, user, cookie, dirty, by, sure, left, faults>>

-----------------------------------------------------------------------------

Next == \/ Mount \/ Push \/ Unmount \/ Logout \/ Reload \/ Expire
        \/ \E part \in {"main", "mobile"} : Edit(part)
        \/ \E u \in Users : Login(u)
        \/ \E i \in DOMAIN net : \/ Handle(i) \/ Lose(i) \/ PutAnswered(i) \/ PutFails(i)
                                 \/ Denied(i) \/ GetIgnored(i) \/ GetAnswered(i)

Spec == Init /\ [][Next]_vars

-----------------------------------------------------------------------------
(* What holds                                                              *)

Own(u) == {e \in Edits : e <= Len(by) /\ by[e] = u}

\* An account that never left with an edit unsent keeps to its own widgets and notes: neither its
\* copy nor its desktop shows an edit another account made on a desktop that was in step.
OnlyOwnWidgets ==
  \A u \in Users \ left :
    /\ server[u] # NoCopy => server[u].main \cap sure \subseteq Own(u)
    /\ (user = u /\ hook.phase \in {"on", "deaf"}) => local.main \cap sure \subseteq Own(u)

\* While nothing overtakes, what the desktop shows and the server lacks is remembered: in the
\* flag, in the mark, or in the last request that is on its way.
Remembered == \/ dirty[hook.no]
              \/ mark = user
              \/ \E i \in DOMAIN net : net[i].kind # "get" /\ net[i].at # "done" /\ net[i].data = local
Agrees(copy) == copy.main = local.main /\ copy.mobile \in {local.mobile, {None}}
NothingForgotten ==
  (~overtaken /\ hook.phase = "on" /\ server[user] # NoCopy /\ ~Agrees(server[user])) => Remembered

\* The comment of useWidgetSync: widgets and notes "belong to the signed-in account" and are
\* "never carried over to a different account".
NeverCarriedOver == \A u \in Users : server[u] # NoCopy => server[u].main \cap sure \subseteq Own(u)
=============================================================================
