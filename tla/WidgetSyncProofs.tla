-------------------------- MODULE WidgetSyncProofs --------------------------
(***************************************************************************)
(* Theorems about WidgetSync, for any accounts, any number of edits, of    *)
(* openings of the desktop, of requests on their way and of faults.        *)
(***************************************************************************)
EXTENDS WidgetSync, SequenceTheorems, TLAPS

-----------------------------------------------------------------------------
(* The list of requests *)

\* what is left of the list when one request was answered
LEMMA WithoutIn == ASSUME NEW S, net \in Seq(S), NEW i \in DOMAIN net
                   PROVE  Without(i) \in Seq(S)
  <1>1. Len(net) \in Nat /\ DOMAIN net = 1..Len(net) /\ \A k \in 1..Len(net) : net[k] \in S
    BY LenProperties, ElementOfSeq
  <1>2. SubSeq(net, 1, i - 1) \in Seq(S)
    BY <1>1, SubSeqProperties
  <1>3. SubSeq(net, i + 1, Len(net)) \in Seq(S)
    BY <1>1, SubSeqProperties
  <1> QED BY <1>2, <1>3, ConcatProperties DEF Without

\* a request of the list, and the list with that request changed
LEMMA ElementIn == ASSUME NEW S, net \in Seq(S), NEW i \in DOMAIN net
                   PROVE  /\ net[i] \in S
                          /\ \A r \in S : [net EXCEPT ![i] = r] \in Seq(S)
  BY LenProperties, ElementOfSeq, ExceptSeq

\* the list of a page that is gone
LEMMA UnheardIn == ASSUME NEW S, NEW T, net \in Seq(S), \A r \in S : Unheard(r) \in T
                   PROVE  [i \in DOMAIN net |-> Unheard(net[i])] \in Seq(T)
  <1>1. Len(net) \in Nat /\ DOMAIN net = 1..Len(net) /\ \A k \in 1..Len(net) : net[k] \in S
    BY LenProperties, ElementOfSeq
  <1>2. [i \in DOMAIN net |-> Unheard(net[i])] \in [1..Len(net) -> T]
    BY <1>1
  <1> QED BY <1>1, <1>2

\* what an effect with the flag d pushes is one good request or none
LEMMA PushesIn == ASSUME NEW S, NEW d, NEW c, NEW s \in Seq(S),
                         d => Sent("push", hook.no, c, local) \in S
                  PROVE  s \o Pushes(d, c) \in Seq(S)
  <1>1. Pushes(d, c) \in Seq(S)
    BY DEF Pushes
  <1> QED BY <1>1, ConcatProperties

-----------------------------------------------------------------------------
(* Types *)

LEMMA SentType == ASSUME NEW k \in {"get", "push", "unsynced", "first"}, NEW n \in Mounts \cup {0},
                         NEW c \in Users \cup {None}, NEW d \in Copy \cup {NoCopy}
                  PROVE  Sent(k, n, c, d) \in Request
  BY DEF Sent, Request

LEMMA LayoutIsCopy == Layout \subseteq Copy
  BY DEF Layout, Copy

\* a request keeps its type when it is handled, lost or no longer heard
LEMMA RequestTypes == ASSUME NEW r \in Request, server \in [Users -> Copy \cup {NoCopy}]
                      PROVE  Handled(r) \in Request /\ Lost(r) \in Request /\ Unheard(r) \in Request
  <1>1. Lost(r) \in Request /\ Unheard(r) \in Request
    BY DEF Lost, Unheard, Request
  <1>2. CASE r.kind = "get" /\ r.as # None
    <2>1. server[r.as] \in Copy \cup {NoCopy}
      BY <1>2 DEF Request
    <2> QED BY <1>1, <1>2, <2>1 DEF Handled, Request
  <1>3. CASE ~(r.kind = "get" /\ r.as # None)
    BY <1>1, <1>3 DEF Handled, Request
  <1> QED BY <1>2, <1>3

LEMMA CaughtType == ASSUME NEW r \in Request, dirty \in [Mounts -> BOOLEAN]
                    PROVE  Caught(r) \in [Mounts -> BOOLEAN]
  BY DEF Caught

\* what the effect takes over is a layout
LEMMA TakenOverType == ASSUME local \in Layout, NEW c \in Copy \cup {NoCopy}
                       PROVE  TakenOver(c) \in Layout
  <1>1. c # NoCopy => c \in Copy
    OBVIOUS
  <1>2. [local EXCEPT !.main = {}] \in Layout
    BY DEF Layout
  <1> QED BY <1>1, <1>2 DEF TakenOver, Layout, Copy

\* the parts of TypeOK, in a form the provers use
LEMMA TypeParts == ASSUME TypeOK
                   PROVE  /\ owner \in Users \cup {None} /\ mark \in Users \cup {None}
                          /\ user \in Users \cup {None} /\ cookie \in Users \cup {None}
                          /\ hook.no \in Mounts \cup {0} /\ hook.no \in Nat /\ hook.timer \in BOOLEAN
                          /\ hook.phase \in {"off", "asking", "on", "deaf"}
                          /\ local \in Copy \cup {NoCopy}
                          /\ Mounts \subseteq Nat /\ MaxMounts \in Nat
  BY LayoutIsCopy, WidgetAssumption DEF TypeOK, Mounts

\* the requests of the list when an effect was cleaned up
LEMMA CleanUpTypes == ASSUME TypeOK, NEW d \in [Mounts -> BOOLEAN], NEW c \in Users \cup {None}, CleansUp(d, c)
                      PROVE  /\ hook' \in [phase : {"off", "asking", "on", "deaf"}, no : Mounts \cup {0}, timer : BOOLEAN]
                             /\ dirty' \in [Mounts -> BOOLEAN] /\ net' \in Seq(Request)
  <1>1. hook' \in [phase : {"off", "asking", "on", "deaf"}, no : Mounts \cup {0}, timer : BOOLEAN]
    BY DEF CleansUp, TypeOK
  <1>2. dirty' \in [Mounts -> BOOLEAN]
    BY DEF CleansUp, TypeOK
  <1>3. Sent("push", hook.no, c, local) \in Request
    BY SentType, TypeParts
  <1>4. net' \in Seq(Request)
    <2>1. CASE hook.phase = "off"
      BY <2>1 DEF CleansUp, TypeOK
    <2>2. CASE hook.phase # "off"
      <3>1. net' = net \o Pushes(d[hook.no], c)
        BY <2>2 DEF CleansUp
      <3>2. net \o Pushes(d[hook.no], c) \in Seq(Request)
        BY <1>3, PushesIn DEF TypeOK
      <3> QED BY <3>1, <3>2
    <2> QED BY <2>1, <2>2
  <1> QED BY <1>1, <1>2, <1>4

LEMMA InitTypes == Init => TypeOK
  <1>1. NoCopy \in Copy \cup {NoCopy} /\ OldCopy \in Copy /\ Empty \in Layout
    BY DEF NoCopy, OldCopy, Empty, Copy, Layout
  <1>2. MaxEdits > 0 => [Empty EXCEPT !.main = {1}] \in Copy
    BY WidgetAssumption DEF Empty, Copy, Edits
  <1>3. 0 \in Nat /\ 0 \in 0..MaxFaults /\ <<>> \in Seq(Request) /\ <<>> \in Seq(Users)
    BY WidgetAssumption
  <1>4. [phase |-> "off", no |-> 0, timer |-> FALSE] \in [phase : {"off", "asking", "on", "deaf"}, no : Mounts \cup {0}, timer : BOOLEAN]
    BY <1>3
  <1>5. ASSUME Init PROVE TypeOK
    <2>1. server \in [Users -> Copy \cup {NoCopy}]
      BY <1>1, <1>2, <1>5 DEF Init
    <2>2. by \in Seq(Users) /\ Len(by) <= MaxEdits /\ sure \subseteq Edits
      <3>1. \A u \in Users : <<u>> \in Seq(Users) /\ Len(<<u>>) = 1
        OBVIOUS
      <3>2. Len(<<>>) = 0
        OBVIOUS
      <3>3. CASE by = <<>> /\ sure = {}
        BY <1>3, <3>2, <3>3, WidgetAssumption
      <3>4. CASE MaxEdits > 0 /\ sure = {1} /\ \E u \in Users : by = <<u>>
        BY <3>1, <3>4, WidgetAssumption DEF Edits
      <3> QED BY <1>5, <3>3, <3>4 DEF Init
    <2> QED BY <1>1, <1>3, <1>4, <1>5, <2>1, <2>2 DEF Init, TypeOK
  <1> QED BY <1>5

\* the desktop is open for somebody
SignedIn == hook.phase # "off" => user # None

LEMMA StepSignedIn == ASSUME TypeOK, SignedIn, [Next]_vars
                      PROVE  SignedIn'
  <1>0. \A n, t : [phase |-> "asking", no |-> n, timer |-> t].phase = "asking"
    OBVIOUS
  <1>1. CASE Mount
    BY <1>1 DEF Mount, SignedIn
  <1>2. ASSUME NEW part \in {"main", "mobile"}, Edit(part) PROVE SignedIn'
    BY <1>2 DEF Edit, SignedIn, TypeOK
  <1>3. CASE Push
    BY <1>3 DEF Push, SignedIn, TypeOK
  <1>4. CASE Unmount \/ Logout
    BY <1>4 DEF Unmount, Logout, CleansUp, SignedIn, TypeOK
  <1>5. ASSUME NEW u \in Users, Login(u) PROVE SignedIn'
    BY <1>5, WidgetAssumption DEF Login, SignedIn
  <1>6. CASE Reload
    BY <1>6 DEF Reload, SignedIn, TypeOK
  <1>7. CASE Expire
    BY <1>7 DEF Expire, SignedIn
  <1>8. ASSUME NEW i \in DOMAIN net, Handle(i) \/ Lose(i) \/ PutAnswered(i) \/ PutFails(i) \/ GetIgnored(i)
        PROVE  SignedIn'
    BY <1>8 DEF Handle, Lose, PutAnswered, PutFails, GetIgnored, SignedIn
  <1>9. ASSUME NEW i \in DOMAIN net, Denied(i) PROVE SignedIn'
    BY <1>9 DEF Denied, SignedIn, TypeOK
  <1>10. ASSUME NEW i \in DOMAIN net, GetAnswered(i) PROVE SignedIn'
    BY <1>10 DEF GetAnswered, SignedIn, TypeOK
  <1>11. CASE UNCHANGED vars
    BY <1>11 DEF vars, SignedIn
  <1> QED BY <1>1, <1>2, <1>3, <1>4, <1>5, <1>6, <1>7, <1>8, <1>9, <1>10, <1>11 DEF Next

LEMMA StepTypes == ASSUME TypeOK, SignedIn, [Next]_vars
                   PROVE  TypeOK'
  <1>t. /\ owner \in Users \cup {None} /\ mark \in Users \cup {None}
        /\ user \in Users \cup {None} /\ cookie \in Users \cup {None}
        /\ hook.no \in Mounts \cup {0} /\ hook.no \in Nat /\ hook.timer \in BOOLEAN
        /\ hook.phase \in {"off", "asking", "on", "deaf"}
        /\ local \in Copy \cup {NoCopy}
        /\ Mounts \subseteq Nat /\ MaxMounts \in Nat
    BY TypeParts
  <1>n. NoCopy \in Copy \cup {NoCopy} /\ \A i \in DOMAIN net : net[i] \in Request
    BY ElementIn DEF TypeOK
  <1>f. faults < MaxFaults => faults + 1 \in 0..MaxFaults
    BY WidgetAssumption DEF TypeOK
  <1>l. Leaves => user' \in Users \cup {None} /\ left' \subseteq Users
    BY <1>t DEF Leaves, TypeOK
  <1>1. CASE Mount
    <2>1. hook.no + 1 \in Mounts
      BY <1>1, <1>t DEF Mount, Mounts
    <2>2. Sent("get", hook.no + 1, cookie, NoCopy) \in Request
      BY <1>t, <1>n, <2>1, SentType
    <2>3. net' \in Seq(Request)
      BY <1>1, <2>2, AppendProperties DEF Mount, TypeOK
    <2>4. hook' \in [phase : {"off", "asking", "on", "deaf"}, no : Mounts \cup {0}, timer : BOOLEAN]
      BY <1>1, <2>1 DEF Mount
    <2> QED BY <1>1, <2>3, <2>4 DEF Mount, TypeOK
  <1>2. ASSUME NEW part \in {"main", "mobile"}, Edit(part) PROVE TypeOK'
    <2>0. Len(by) + 1 \in Edits /\ user \in Users
      BY <1>2, <1>t, LenProperties DEF Edit, Edits, TypeOK, SignedIn
    <2>3. by' \in Seq(Users) /\ Len(by') <= MaxEdits
      BY <1>2, <2>0, AppendProperties, WidgetAssumption DEF Edit, Edits, TypeOK
    <2>1. local' \in Layout
      BY <1>2, <2>0 DEF Edit, TypeOK, Layout
    <2>2. CASE hook.phase = "on"
      <3>0. dirty' = [dirty EXCEPT ![hook.no] = TRUE] /\ mark' = user /\ sure' = sure \cup {Len(by) + 1}
        BY <1>2, <2>2 DEF Edit
      <3>1. dirty' \in [Mounts -> BOOLEAN] /\ mark' \in Users \cup {None} /\ sure' \subseteq Edits
        BY <1>t, <2>0, <3>0 DEF TypeOK
      <3>2. hook' \in [phase : {"off", "asking", "on", "deaf"}, no : Mounts \cup {0}, timer : BOOLEAN]
        BY <1>2, <1>t, <2>2 DEF Edit, TypeOK
      <3> QED BY <1>2, <2>1, <2>3, <3>1, <3>2 DEF Edit, TypeOK
    <2>4. CASE hook.phase # "on"
      BY <1>2, <2>1, <2>3, <2>4 DEF Edit, TypeOK
    <2> QED BY <2>2, <2>4
  <1>3. CASE Push
    <2>1. Sent("push", hook.no, cookie, local) \in Request
      BY <1>t, SentType
    <2>2. net' \in Seq(Request)
      BY <1>3, <2>1, PushesIn DEF Push, TypeOK
    <2>3. hook' \in [phase : {"off", "asking", "on", "deaf"}, no : Mounts \cup {0}, timer : BOOLEAN]
      BY <1>3, <1>t DEF Push, TypeOK
    <2>4. dirty' \in [Mounts -> BOOLEAN]
      BY <1>3 DEF Push, TypeOK
    <2> QED BY <1>3, <2>2, <2>3, <2>4 DEF Push, TypeOK
  <1>4. CASE Unmount
    <2>1. dirty \in [Mounts -> BOOLEAN] /\ CleansUp(dirty, cookie)
      BY <1>4 DEF Unmount, TypeOK
    <2> QED BY <1>4, <1>t, <2>1, CleanUpTypes DEF Unmount, TypeOK
  <1>5. CASE Logout
    <2>1. dirty \in [Mounts -> BOOLEAN] /\ CleansUp(dirty, cookie')
      BY <1>5 DEF Logout, TypeOK
    <2>2. cookie' \in Users \cup {None} /\ faults' \in 0..MaxFaults
      BY <1>5, <1>t, <1>f DEF Logout, TypeOK
    <2> QED BY <1>5, <1>l, <2>1, <2>2, CleanUpTypes DEF Logout, TypeOK
  <1>6. ASSUME NEW u \in Users, Login(u) PROVE TypeOK'
    BY <1>6, <1>t DEF Login, TypeOK
  <1>7. CASE Reload
    <2>1. \A r \in Request : Unheard(r) \in Request
      BY RequestTypes DEF TypeOK
    <2>2. net' \in Seq(Request)
      <3>1. [i \in DOMAIN net |-> Unheard(net[i])] \in Seq(Request) /\ <<>> \in Seq(Request)
        BY <2>1, UnheardIn DEF TypeOK
      <3> QED BY <1>7, <3>1 DEF Reload
    <2>3. hook' \in [phase : {"off", "asking", "on", "deaf"}, no : Mounts \cup {0}, timer : BOOLEAN]
      BY <1>7, <1>t DEF Reload, TypeOK
    <2>4. user' \in Users \cup {None} /\ left' \subseteq Users /\ faults' \in 0..MaxFaults
      BY <1>7, <1>t, <1>l, <1>f DEF Reload, TypeOK
    <2> QED BY <1>7, <2>2, <2>3, <2>4 DEF Reload, TypeOK
  <1>8. CASE Expire
    BY <1>8, <1>t, <1>f DEF Expire, TypeOK
  <1>9. ASSUME NEW i \in DOMAIN net, Handle(i) PROVE TypeOK'
    <2>1. net' \in Seq(Request)
      BY <1>9, <1>n, RequestTypes, ElementIn DEF Handle, TypeOK
    <2>2. overtaken' \in BOOLEAN
      BY <1>9 DEF Handle, TypeOK
    <2>3. server' \in [Users -> Copy \cup {NoCopy}]
      BY <1>9, <1>n DEF Handle, TypeOK, Request
    <2> QED BY <1>9, <2>1, <2>2, <2>3 DEF Handle, TypeOK
  <1>10. ASSUME NEW i \in DOMAIN net, Lose(i) PROVE TypeOK'
    <2>1. net' \in Seq(Request)
      BY <1>10, <1>n, RequestTypes, ElementIn DEF Lose, TypeOK
    <2> QED BY <1>10, <1>f, <2>1 DEF Lose, TypeOK
  <1>a. ASSUME NEW i \in DOMAIN net, Answered(i)
        PROVE  Without(i) \in Seq(Request) /\ overtaken' \in BOOLEAN
    BY <1>a, WithoutIn DEF Answered, TypeOK
  <1>11. ASSUME NEW i \in DOMAIN net, PutAnswered(i) PROVE TypeOK'
    <2>1. Confirmed(net[i]) \in Users \cup {None}
      BY <1>t DEF Confirmed
    <2> QED BY <1>11, <1>a, <1>t, <2>1 DEF PutAnswered, TypeOK
  <1>12. ASSUME NEW i \in DOMAIN net, PutFails(i) PROVE TypeOK'
    <2>1. Caught(net[i]) \in [Mounts -> BOOLEAN]
      BY <1>n, CaughtType DEF TypeOK
    <2> QED BY <1>12, <1>a, <2>1 DEF PutFails, TypeOK
  <1>13. ASSUME NEW i \in DOMAIN net, Denied(i) PROVE TypeOK'
    <2> DEFINE d == Caught(net[i])
    <2>1. d \in [Mounts -> BOOLEAN]
      BY <1>n, CaughtType DEF TypeOK
    <2>2. Without(i) \in Seq(Request) /\ overtaken' \in BOOLEAN
      BY <1>13, <1>a DEF Denied
    <2>3. Sent("push", hook.no, cookie, local) \in Request
      BY <1>t, SentType
    <2>4. Without(i) \o Pushes(d[hook.no], cookie) \in Seq(Request)
      BY <2>2, <2>3, PushesIn
    <2>5. net' \in Seq(Request) /\ dirty' \in [Mounts -> BOOLEAN]
      BY <1>13, <2>1, <2>2, <2>4 DEF Denied, TypeOK
    <2>6. hook' \in [phase : {"off", "asking", "on", "deaf"}, no : Mounts \cup {0}, timer : BOOLEAN]
      BY <1>13, <1>t DEF Denied, TypeOK
    <2>7. user' \in Users \cup {None} /\ left' \subseteq Users
      BY <1>13, <1>t, <1>l DEF Denied, TypeOK
    <2> QED BY <1>13, <2>2, <2>5, <2>6, <2>7 DEF Denied, TypeOK
  <1>14. ASSUME NEW i \in DOMAIN net, GetIgnored(i) PROVE TypeOK'
    BY <1>14, <1>a DEF GetIgnored, TypeOK
  <1>15. ASSUME NEW i \in DOMAIN net, GetAnswered(i) PROVE TypeOK'
    <2> DEFINE r == net[i]
               remote == IF r.at = "done" THEN r.data ELSE NoCopy
               layout == TakenOver(remote)
               puts == IF r.at = "done" /\ remote = NoCopy THEN <<Sent("first", r.of, cookie, layout)>>
                       ELSE IF r.at = "done" /\ mark = user THEN <<Sent("unsynced", r.of, cookie, layout)>>
                       ELSE <<>>
    <2>1. r \in Request /\ r.of \in Mounts \cup {0} /\ remote \in Copy \cup {NoCopy}
      BY <1>n DEF Request
    <2>2. layout \in Layout /\ layout \in Copy \cup {NoCopy}
      BY <2>1, TakenOverType, LayoutIsCopy DEF TypeOK
    <2>3. Sent("first", r.of, cookie, layout) \in Request /\ Sent("unsynced", r.of, cookie, layout) \in Request
      <3> HIDE DEF r, layout
      <3> QED BY <1>t, <2>1, <2>2, SentType
    <2>4. puts \in Seq(Request)
      <3> HIDE DEF r, layout, remote
      <3> QED BY <2>3
    <2>5. Without(i) \in Seq(Request) /\ overtaken' \in BOOLEAN
      BY <1>15, <1>a DEF GetAnswered
    <2>6. net' = Without(i) \o puts /\ local' = layout
      BY <1>15 DEF GetAnswered
    <2>7. net' \in Seq(Request)
      <3> HIDE DEF puts
      <3> QED BY <2>4, <2>5, <2>6, ConcatProperties
    <2>8. hook' \in [phase : {"off", "asking", "on", "deaf"}, no : Mounts \cup {0}, timer : BOOLEAN]
      BY <1>15, <1>t DEF GetAnswered, TypeOK
    <2>9. local' \in Layout
      BY <2>2, <2>6
    <2> QED BY <1>15, <1>t, <2>5, <2>7, <2>8, <2>9 DEF GetAnswered, TypeOK
  <1>16. CASE UNCHANGED vars
    BY <1>16 DEF vars, TypeOK
  <1> QED BY <1>1, <1>2, <1>3, <1>4, <1>5, <1>6, <1>7, <1>8, <1>9, <1>10, <1>11, <1>12, <1>13, <1>14, <1>15, <1>16 DEF Next

\* The store, the copies of the accounts, the flags and the requests keep their types (useWidgetSync,
\* handlers_widgets): whatever comes, goes or fails, an edit has an author and a request an effect.
THEOREM Types == Spec => []TypeOK
  <1>1. Init => SignedIn
    BY DEF Init, SignedIn
  <1>2. TypeOK /\ SignedIn /\ [Next]_vars => (TypeOK /\ SignedIn)'
    BY StepTypes, StepSignedIn
  <1> QED BY <1>1, <1>2, InitTypes, PTL DEF Spec

-----------------------------------------------------------------------------
(* Only own widgets: the inductive invariant *)

Known == 1..Len(by)

\* effect n has read the copy
Started(n) == n < hook.no \/ (n = hook.no /\ hook.phase # "asking")

\* a request carries nothing to an account in step, or nothing but its own
Clean(copy, u) == u \in Users \ left => copy.main \cap sure \subseteq Own(u)
Good == {r \in Request :
           /\ r.of <= hook.no
           /\ r.data # NoCopy => (r.data.main \subseteq Known /\ Clean(r.data, r.as))
           /\ (r.kind = "get" /\ r.at = "done") => r.as # None
           /\ (r.kind = "get" /\ r.of = hook.no /\ hook.phase = "asking") => r.as \in {user, None}
           /\ r.kind = "push" => (r.of = 0 \/ Started(r.of))}

MadeBy == /\ sure \subseteq Known /\ local.main \subseteq Known
          /\ \A u \in Users : server[u] # NoCopy => server[u].main \subseteq Known
CopiesClean == \A u \in Users : server[u] # NoCopy => Clean(server[u], u)
LocalClean == owner \notin left => local.main \cap sure \subseteq Own(owner)
MarkInStep == (mark # None /\ mark \notin left) => (owner = mark /\ user = mark)
SessionOfUser == user # None => cookie \in {user, None}
Opened == /\ hook.phase # "off" => (user # None /\ hook.no \in Mounts)
          /\ hook.phase \in {"on", "deaf"} => owner = user
FlagsStarted == \A n \in Mounts : dirty[n] => Started(n)

OwnInv == /\ TypeOK /\ MadeBy /\ CopiesClean /\ LocalClean /\ MarkInStep
          /\ SessionOfUser /\ Opened /\ FlagsStarted
          /\ net \in Seq(Good)

\* a request stays good while no edit is made and no effect but a new one asks
LEMMA GoodStays == ASSUME TypeOK, TypeOK', by' = by, sure' = sure, left \subseteq left',
                          \/ hook'.no > hook.no
                          \/ hook'.no = hook.no /\ (hook'.phase = "asking" => (hook.phase = "asking" /\ user' = user))
                   PROVE  /\ Good \subseteq Good' /\ \A n \in Mounts : Started(n) => Started(n)'
                          /\ \A copy, u : Clean(copy, u) => Clean(copy, u)'
                          /\ \A u : Own(u)' = Own(u)
  <1>0. hook.no \in Nat /\ hook'.no \in Nat /\ Mounts \subseteq Nat
    BY WidgetAssumption DEF TypeOK, Mounts
  <1>1. hook.no \in Nat /\ hook'.no \in Nat /\ Mounts \subseteq Nat /\ hook.no <= hook'.no
    BY <1>0
  <1>2. \A u : Own(u)' = Own(u)
    BY DEF Own
  <1>3. \A copy, u : Clean(copy, u) => Clean(copy, u)'
    BY <1>2 DEF Clean
  <1>4. \A n \in Nat : (n <= hook.no /\ Started(n)) => Started(n)'
    BY <1>1 DEF Started
  <1>5. \A n \in Nat : Started(n) => n <= hook.no
    BY <1>1 DEF Started
  <1>6. ASSUME NEW r \in Good PROVE r \in Good'
    <2>1. r.of \in Nat /\ r.of <= hook.no /\ r.of <= hook'.no
      <3>1. r \in Request /\ r.of <= hook.no
        BY <1>6 DEF Good
      <3>2. r.of \in Mounts \cup {0} /\ 0 \in Nat
        BY <3>1 DEF Request
      <3>3. r.of \in Nat
        BY <1>1, <3>2
      <3>4. \A a, b, c \in Nat : a <= b /\ b <= c => a <= c
        OBVIOUS
      <3> QED BY <1>1, <3>1, <3>3, <3>4
    <2>2. r.kind = "get" /\ r.of = hook'.no /\ hook'.phase = "asking" => r.as \in {user', None}
      BY <1>1, <1>6, <2>1 DEF Good
    <2>3. r.data # NoCopy => (r.data.main \subseteq Known' /\ Clean(r.data, r.as)')
      BY <1>3, <1>6 DEF Good, Known
    <2>4. r.kind = "push" => (r.of = 0 \/ Started(r.of)')
      BY <1>4, <1>6, <2>1 DEF Good
    <2> QED BY <1>6, <2>1, <2>2, <2>3, <2>4 DEF Good
  <1> QED BY <1>1, <1>2, <1>3, <1>4, <1>5, <1>6

\* what an effect that has read the copy pushes is good
LEMMA PushGood == ASSUME OwnInv, NEW c \in {user, None}, hook.phase \in {"on", "deaf"}
                  PROVE  Sent("push", hook.no, c, local) \in Good
  <1>1. Sent("push", hook.no, c, local) \in Request
    BY SentType, TypeParts DEF OwnInv
  <1>2. local.main \subseteq Known /\ Clean(local, c)
    BY WidgetAssumption DEF OwnInv, MadeBy, LocalClean, Opened, Clean
  <1>3. hook.no <= hook.no /\ Started(hook.no)
    BY TypeParts DEF OwnInv, Started
  <1> QED BY <1>1, <1>2, <1>3 DEF Good, Sent

\* so the cleanup of an effect sends a good request or none, and raises no flag
LEMMA CleanUpGood == ASSUME OwnInv, NEW d \in [Mounts -> BOOLEAN], \A n \in Mounts : d[n] => Started(n),
                            NEW c \in {user, None}, NEW s \in Seq(Good)
                     PROVE  hook.phase # "off" => s \o Pushes(d[hook.no], c) \in Seq(Good)
  <1>1. ASSUME hook.phase # "off", d[hook.no] PROVE Sent("push", hook.no, c, local) \in Good
    <2>1. hook.phase \in {"on", "deaf"}
      BY <1>1, TypeParts DEF OwnInv, Opened, Started
    <2> QED BY <2>1, PushGood
  <1> QED BY <1>1, PushesIn

LEMMA InitOwn == Init => OwnInv
  <1> SUFFICES ASSUME Init PROVE OwnInv
    OBVIOUS
  <1>1. TypeOK
    BY InitTypes
  <1>2. NoCopy.main = {None} /\ OldCopy.main = {} /\ Empty.main = {} /\ [Empty EXCEPT !.main = {1}].main = {1}
    BY DEF NoCopy, OldCopy, Empty
  <1>3. ASSUME by = <<>>, sure = {}, server \in [Users -> {NoCopy, OldCopy}]
        PROVE  MadeBy /\ CopiesClean /\ LocalClean
    <2>1. \A u \in Users : server[u] # NoCopy => server[u].main = {}
      BY <1>2, <1>3
    <2>2. MadeBy
      BY <1>2, <1>3, <2>1 DEF MadeBy, Init
    <2>3. CopiesClean
      BY <2>1 DEF CopiesClean, Clean
    <2>4. LocalClean
      BY <1>2 DEF LocalClean, Init
    <2> QED BY <2>2, <2>3, <2>4
  <1>4. ASSUME MaxEdits > 0, sure = {1}, NEW u \in Users, by = <<u>>,
               server \in [Users -> {NoCopy, OldCopy, [Empty EXCEPT !.main = {1}]}],
               \A v \in Users : server[v].main = {1} <=> v = u
        PROVE  MadeBy /\ CopiesClean /\ LocalClean
    <2>2. Len(by) = 1 /\ by[1] = u /\ 1 \in Edits
      BY <1>4, WidgetAssumption DEF Edits
    <2>3. 1 \in Own(u) /\ Known = {1}
      BY <2>2 DEF Own, Known
    <2>4. \A v \in Users : server[v] # NoCopy => (server[v].main = {} \/ (server[v].main = {1} /\ v = u))
      BY <1>2, <1>4
    <2>5. MadeBy
      BY <1>2, <1>4, <2>3, <2>4 DEF MadeBy, Init
    <2>6. CopiesClean
      BY <2>3, <2>4 DEF CopiesClean, Clean
    <2>7. LocalClean
      BY <1>2 DEF LocalClean, Init
    <2> QED BY <2>5, <2>6, <2>7
  <1>5. MadeBy /\ CopiesClean /\ LocalClean
    BY <1>3, <1>4 DEF Init
  <1>6. MarkInStep /\ SessionOfUser /\ Opened /\ FlagsStarted /\ net \in Seq(Good)
    BY DEF Init, MarkInStep, SessionOfUser, Opened, FlagsStarted
  <1> QED BY <1>1, <1>5, <1>6 DEF OwnInv

\* the copies and the store, where a step leaves them alone
LEMMA ContentsStay == ASSUME OwnInv, by' = by, sure' = sure, left \subseteq left',
                             server' = server, local' = local, owner' = owner
                      PROVE  MadeBy' /\ CopiesClean' /\ LocalClean'
  <1>1. \A u : Own(u)' = Own(u)
    BY DEF Own
  <1>2. MadeBy'
    BY DEF OwnInv, MadeBy, Known
  <1>3. CopiesClean'
    BY <1>1 DEF OwnInv, CopiesClean, Clean
  <1>4. LocalClean'
    BY <1>1 DEF OwnInv, LocalClean
  <1> QED BY <1>2, <1>3, <1>4

\* when the user goes, the mark counts as left behind
LEMMA LeavesInStep == ASSUME Leaves, mark' = mark
                      PROVE  MarkInStep' /\ SessionOfUser' /\ left \subseteq left' /\ user' = None
  BY DEF Leaves, MarkInStep, SessionOfUser

\* the effect that opens, pushes and goes
LEMMA EffectSteps == ASSUME OwnInv, TypeOK', Mount \/ Push \/ Unmount \/ Logout \/ Reload
                     PROVE  OwnInv'
  <1>t. /\ hook.no \in Nat /\ hook.phase \in {"off", "asking", "on", "deaf"} /\ Mounts \subseteq Nat
        /\ TypeOK /\ net \in Seq(Good) /\ dirty \in [Mounts -> BOOLEAN]
        /\ \A n \in Mounts : dirty[n] => Started(n)
    BY TypeParts DEF OwnInv, TypeOK, FlagsStarted
  <1>c. by' = by /\ sure' = sure /\ left \subseteq left' /\ server' = server /\ local' = local /\ owner' = owner
    BY DEF Mount, Push, Unmount, Logout, Reload, Leaves
  <1>d. MadeBy' /\ CopiesClean' /\ LocalClean'
    BY <1>c, ContentsStay
  <1>1. CASE Mount
    <2>1. hook'.no = hook.no + 1 /\ hook'.phase = "asking" /\ hook'.no \in Mounts /\ user # None
      BY <1>1, <1>t, WidgetAssumption DEF Mount, Mounts
    <2>2. Good \subseteq Good' /\ \A n \in Mounts : Started(n) => Started(n)'
      BY <1>1, <1>c, <1>t, <2>1, GoodStays
    <2> DEFINE r == Sent("get", hook.no + 1, cookie, NoCopy)
    <2>3. r \in Good'
      <3>1. r \in Request /\ r.of = hook'.no
        BY <1>t, <2>1, SentType, TypeParts DEF Sent
      <3>2. cookie \in {user, None} /\ user' = user
        BY <1>1, <2>1 DEF Mount, OwnInv, SessionOfUser
      <3> QED BY <1>t, <2>1, <3>1, <3>2 DEF Good, Sent
    <2>4. net \in Seq(Good') /\ net' = Append(net, r)
      BY <1>1, <1>t, <2>2, SeqMonotonic DEF Mount
    <2>5. net' \in Seq(Good)'
      <3> HIDE DEF r
      <3> QED BY <2>3, <2>4, AppendProperties
    <2>6. MarkInStep' /\ SessionOfUser' /\ Opened' /\ FlagsStarted'
      BY <1>1, <1>t, <2>1, <2>2 DEF Mount, OwnInv, MarkInStep, SessionOfUser, Opened, FlagsStarted
    <2> QED BY <1>d, <2>5, <2>6 DEF OwnInv
  <1>2. CASE Push
    <2>1. hook'.no = hook.no /\ hook'.phase = "on" /\ hook.phase = "on"
      BY <1>2, <1>t DEF Push, TypeOK
    <2>2. Good \subseteq Good' /\ \A n \in Mounts : Started(n) => Started(n)'
      BY <1>2, <1>c, <1>t, <2>1, GoodStays
    <2>3. cookie \in {user, None}
      BY <2>1 DEF OwnInv, Opened, SessionOfUser
    <2>4. net' \in Seq(Good)
      BY <1>2, <1>t, <2>1, <2>3, PushGood, PushesIn DEF Push
    <2>5. net' \in Seq(Good)'
      BY <2>2, <2>4, SeqMonotonic
    <2>6. MarkInStep' /\ SessionOfUser' /\ Opened' /\ FlagsStarted'
      BY <1>2, <1>t, <2>1, <2>2 DEF Push, OwnInv, MarkInStep, SessionOfUser, Opened, FlagsStarted
    <2> QED BY <1>d, <2>5, <2>6 DEF OwnInv
  <1>3. ASSUME NEW c \in {user, None}, CleansUp(dirty, c)
        PROVE  Opened' /\ FlagsStarted' /\ net' \in Seq(Good)'
    <2>1. hook'.no = hook.no /\ hook'.phase = "off"
      BY <1>3 DEF CleansUp, TypeOK, OwnInv
    <2>2. Good \subseteq Good' /\ \A n \in Mounts : Started(n) => Started(n)'
      BY <1>c, <1>t, <2>1, GoodStays
    <2>3. net' \in Seq(Good)
      <3>1. hook.phase # "off" => net \o Pushes(dirty[hook.no], c) \in Seq(Good)
        BY <1>3, <1>t, CleanUpGood
      <3>2. net' = net \/ (hook.phase # "off" /\ net' = net \o Pushes(dirty[hook.no], c))
        BY <1>3 DEF CleansUp
      <3> QED BY <1>t, <3>1, <3>2
    <2>4. net' \in Seq(Good)'
      BY <2>2, <2>3, SeqMonotonic
    <2>5. \A n \in Mounts : dirty'[n] => dirty[n]
      BY <1>3, <1>t DEF CleansUp
    <2> QED BY <1>t, <2>1, <2>2, <2>4, <2>5 DEF Opened, FlagsStarted
  <1>4. CASE Unmount
    <2>1. CleansUp(dirty, cookie) /\ cookie \in {user, None}
      BY <1>4 DEF Unmount, OwnInv, Opened, SessionOfUser
    <2>2. MarkInStep' /\ SessionOfUser'
      BY <1>4 DEF Unmount, OwnInv, MarkInStep, SessionOfUser
    <2> QED BY <1>3, <1>d, <2>1, <2>2 DEF OwnInv
  <1>5. CASE Logout
    <2>1. CleansUp(dirty, cookie') /\ cookie' \in {user, None}
      BY <1>5 DEF Logout, OwnInv, SessionOfUser
    <2>2. MarkInStep' /\ SessionOfUser'
      BY <1>5, LeavesInStep DEF Logout
    <2> QED BY <1>3, <1>d, <2>1, <2>2 DEF OwnInv
  <1>6. CASE Reload
    <2>1. hook'.no = hook.no /\ hook'.phase = "off"
      BY <1>6 DEF Reload, TypeOK, OwnInv
    <2>2. Good \subseteq Good' /\ \A n \in Mounts : Started(n) => Started(n)'
      BY <1>c, <1>t, <2>1, GoodStays
    <2>3. \A r \in Good : Unheard(r) \in Good'
      <3> SUFFICES ASSUME NEW r \in Good PROVE Unheard(r) \in Good'
        OBVIOUS
      <3>1. r \in Good' /\ r \in Request /\ Unheard(r) \in Request
        BY <1>t, <2>2, RequestTypes DEF Good, TypeOK
      <3>2. /\ Unheard(r).of = 0 /\ Unheard(r).data = r.data /\ Unheard(r).as = r.as
            /\ Unheard(r).kind = r.kind /\ Unheard(r).at = r.at
        BY <3>1 DEF Unheard, Request
      <3> QED BY <1>t, <2>1, <3>1, <3>2 DEF Good
    <2>4. net' \in Seq(Good)'
      <3>1. [i \in DOMAIN net |-> Unheard(net[i])] \in Seq(Good') /\ <<>> \in Seq(Good')
        BY <1>t, <2>3, UnheardIn
      <3> QED BY <1>6, <3>1 DEF Reload
    <2>5. MarkInStep' /\ SessionOfUser'
      BY <1>6, LeavesInStep DEF Reload, OwnInv, MarkInStep, SessionOfUser
    <2>6. Opened' /\ FlagsStarted'
      BY <1>6, <1>t, <2>1, <2>2 DEF Reload, Opened, FlagsStarted
    <2> QED BY <1>d, <2>4, <2>5, <2>6 DEF OwnInv
  <1> QED BY <1>1, <1>2, <1>4, <1>5, <1>6

\* a change of the widget store; the edit is new to every copy and every request
LEMMA EditStep == ASSUME OwnInv, TypeOK', NEW part \in {"main", "mobile"}, Edit(part)
                  PROVE  OwnInv'
  <1> DEFINE e == Len(by) + 1
  <1>1. /\ by' = Append(by, user) /\ user \in Users /\ Len(by) \in Nat /\ e \in Edits /\ e \notin Known
        /\ Len(by') = e /\ by'[e] = user /\ \A k \in 1..Len(by) : by'[k] = by[k]
    <2>1. user \in Users /\ by \in Seq(Users) /\ Len(by) \in Nat /\ by' = Append(by, user)
      BY TypeParts, LenProperties DEF Edit, OwnInv, Opened, TypeOK
    <2> QED BY <2>1, AppendProperties, WidgetAssumption DEF Edit, Known, Edits
  <1>2. Known \subseteq Known' /\ e \in Known' /\ Known' = 1..e
    BY <1>1 DEF Known
  <1>3. \A u : Own(u) \subseteq Own(u)'
    BY <1>1 DEF Own, Edits
  <1>5. sure' \in {sure, sure \cup {e}} /\ (hook.phase # "on" => sure' = sure) /\ sure \subseteq Known
    BY DEF Edit, OwnInv, MadeBy
  <1>6. hook'.no = hook.no /\ hook'.phase = hook.phase
    BY DEF Edit, OwnInv, TypeOK
  <1>7. /\ server' = server /\ owner' = owner /\ user' = user /\ cookie' = cookie /\ net' = net /\ left' = left
        /\ hook.phase # "off"
    BY DEF Edit
  <1>4. e \in Own(user)'
    BY <1>1, <1>7 DEF Own
  <1>8. \A copy, u : copy.main \subseteq Known /\ Clean(copy, u) => copy.main \subseteq Known' /\ Clean(copy, u)'
    BY <1>1, <1>2, <1>3, <1>5, <1>7 DEF Clean
  <1>9. Good \subseteq Good' /\ \A n : Started(n) => Started(n)'
    BY <1>6, <1>7, <1>8 DEF Good, Started
  <1>10. local'.main \in {local.main, local.main \cup {e}}
    BY DEF Edit, OwnInv, TypeOK, Layout
  <1>11. MadeBy'
    BY <1>2, <1>5, <1>7, <1>10 DEF OwnInv, MadeBy
  <1>12. CopiesClean'
    BY <1>7, <1>8 DEF OwnInv, MadeBy, CopiesClean
  <1>13. LocalClean'
    <2>1. CASE hook.phase = "on"
      BY <1>1, <1>3, <1>4, <1>5, <1>7, <1>10, <2>1 DEF OwnInv, MadeBy, LocalClean, Opened
    <2>2. CASE hook.phase # "on"
      BY <1>1, <1>3, <1>5, <1>7, <1>10, <2>2 DEF OwnInv, MadeBy, LocalClean
    <2> QED BY <2>1, <2>2
  <1>14. MarkInStep' /\ SessionOfUser' /\ Opened'
    BY <1>6, <1>7 DEF Edit, OwnInv, MarkInStep, SessionOfUser, Opened
  <1>15. FlagsStarted'
    <2>1. CASE hook.phase = "on"
      BY <1>6, <1>9, <2>1, TypeParts DEF Edit, OwnInv, TypeOK, FlagsStarted, Started
    <2>2. CASE hook.phase # "on"
      BY <1>9, <2>2 DEF Edit, OwnInv, FlagsStarted
    <2> QED BY <2>1, <2>2
  <1>16. net' \in Seq(Good)'
    BY <1>7, <1>9, SeqMonotonic DEF OwnInv
  <1> QED BY <1>11, <1>12, <1>13, <1>14, <1>15, <1>16 DEF OwnInv

\* a login and the end of a session
LEMMA AccountSteps == ASSUME OwnInv, TypeOK', Expire \/ \E u \in Users : Login(u)
                      PROVE  OwnInv'
  <1>t. /\ hook.no \in Nat /\ hook.phase \in {"off", "asking", "on", "deaf"} /\ TypeOK /\ net \in Seq(Good)
    BY TypeParts DEF OwnInv, TypeOK
  <1>c. /\ by' = by /\ sure' = sure /\ left' = left /\ server' = server /\ local' = local /\ owner' = owner
        /\ mark' = mark /\ hook' = hook /\ net' = net /\ dirty' = dirty
    BY DEF Expire, Login
  <1>1. user' = user \/ user = None
    BY DEF Expire, Login
  <1>2. hook.phase = "asking" => user' = user
    BY <1>1 DEF OwnInv, Opened
  <1>3. Good \subseteq Good' /\ \A n \in Mounts : Started(n) => Started(n)'
    BY <1>c, <1>t, <1>2, GoodStays
  <1>4. MadeBy' /\ CopiesClean' /\ LocalClean'
    BY <1>c, ContentsStay
  <1>5. MarkInStep' /\ SessionOfUser' /\ Opened' /\ FlagsStarted'
    <2>1. CASE Expire
      BY <1>c, <1>3, <2>1 DEF Expire, OwnInv, MarkInStep, SessionOfUser, Opened, FlagsStarted
    <2>2. ASSUME NEW u \in Users, Login(u) PROVE MarkInStep' /\ SessionOfUser' /\ Opened' /\ FlagsStarted'
      BY <1>c, <1>3, <2>2, WidgetAssumption DEF Login, OwnInv, MarkInStep, SessionOfUser, Opened, FlagsStarted
    <2> QED BY <2>1, <2>2
  <1>6. net' \in Seq(Good)'
    BY <1>c, <1>3, <1>t, SeqMonotonic
  <1> QED BY <1>4, <1>5, <1>6 DEF OwnInv

\* a request stays good when it is handled or lost
LEMMA HandledGood == ASSUME OwnInv, NEW r \in Good
                     PROVE  Handled(r) \in Good /\ Lost(r) \in Good
  <1>1. r \in Request /\ Handled(r) \in Request /\ Lost(r) \in Request
    BY RequestTypes DEF Good, OwnInv, TypeOK
  <1>2. /\ Handled(r).of = r.of /\ Handled(r).as = r.as /\ Handled(r).kind = r.kind
        /\ Handled(r).at = "done" => r.as # None
        /\ Handled(r).data = IF r.kind = "get" /\ r.as # None THEN server[r.as] ELSE r.data
    BY <1>1 DEF Handled, Request
  <1>3. /\ Lost(r).of = r.of /\ Lost(r).as = r.as /\ Lost(r).kind = r.kind
        /\ Lost(r).at = "failed" /\ Lost(r).data = r.data
    BY <1>1 DEF Lost, Request
  <1>4. (r.as # None /\ server[r.as] # NoCopy) => (server[r.as].main \subseteq Known /\ Clean(server[r.as], r.as))
    BY <1>1 DEF OwnInv, MadeBy, CopiesClean, Request
  <1>5. Handled(r) \in Good
    BY <1>1, <1>2, <1>4 DEF Good
  <1>6. Lost(r) \in Good
    BY <1>1, <1>3 DEF Good
  <1> QED BY <1>5, <1>6

\* the server handles a request, or the network loses one
LEMMA RequestSteps == ASSUME OwnInv, TypeOK', NEW i \in DOMAIN net, Handle(i) \/ Lose(i)
                      PROVE  OwnInv'
  <1>t. /\ hook.no \in Nat /\ hook.phase \in {"off", "asking", "on", "deaf"} /\ TypeOK /\ net \in Seq(Good) /\ net[i] \in Good
    BY TypeParts, ElementIn DEF OwnInv, TypeOK
  <1>c. /\ by' = by /\ sure' = sure /\ left' = left /\ local' = local /\ owner' = owner
        /\ mark' = mark /\ user' = user /\ cookie' = cookie /\ hook' = hook /\ dirty' = dirty
    BY DEF Handle, Lose
  <1>1. /\ Good \subseteq Good' /\ \A n \in Mounts : Started(n) => Started(n)'
        /\ \A copy, u : Clean(copy, u) => Clean(copy, u)'
        /\ \A u : Own(u)' = Own(u)
    BY <1>c, <1>t, GoodStays
  <1>2. net' \in Seq(Good)'
    <2>1. [net EXCEPT ![i] = Handled(net[i])] \in Seq(Good) /\ [net EXCEPT ![i] = Lost(net[i])] \in Seq(Good)
      BY <1>t, HandledGood, ElementIn
    <2>2. net' \in Seq(Good)
      BY <2>1 DEF Handle, Lose
    <2> QED BY <1>1, <2>2, SeqMonotonic
  <1>3. \A u \in Users : server'[u] \in {server[u]} \/ (server'[u] = net[i].data /\ u = net[i].as)
    BY <1>t DEF Handle, Lose, TypeOK
  <1>4. \A u \in Users : server'[u] # NoCopy => (server'[u].main \subseteq Known /\ Clean(server'[u], u))
    BY <1>3, <1>t DEF OwnInv, MadeBy, CopiesClean, Good
  <1>5. MadeBy' /\ CopiesClean'
    BY <1>1, <1>4, <1>c DEF OwnInv, MadeBy, CopiesClean, Known
  <1>6. LocalClean'
    BY <1>1, <1>c DEF OwnInv, LocalClean
  <1>7. MarkInStep' /\ SessionOfUser' /\ Opened' /\ FlagsStarted'
    BY <1>1, <1>c DEF OwnInv, MarkInStep, SessionOfUser, Opened, FlagsStarted
  <1> QED BY <1>2, <1>5, <1>6, <1>7 DEF OwnInv

\* an answer that nobody takes the copy from
LEMMA AnswerSteps == ASSUME OwnInv, TypeOK', NEW i \in DOMAIN net,
                            PutAnswered(i) \/ PutFails(i) \/ Denied(i) \/ GetIgnored(i)
                     PROVE  OwnInv'
  <1>t. /\ hook.no \in Nat /\ hook.phase \in {"off", "asking", "on", "deaf"} /\ Mounts \subseteq Nat
        /\ TypeOK /\ net \in Seq(Good) /\ net[i] \in Good /\ net[i] \in Request /\ Without(i) \in Seq(Good)
    BY TypeParts, ElementIn, WithoutIn DEF OwnInv, TypeOK, Good
  <1>c. by' = by /\ sure' = sure /\ left \subseteq left' /\ server' = server /\ local' = local /\ owner' = owner /\ cookie' = cookie
    BY DEF PutAnswered, PutFails, Denied, GetIgnored, Leaves
  <1>d. MadeBy' /\ CopiesClean' /\ LocalClean'
    BY <1>c, ContentsStay
  <1>1. CASE PutAnswered(i) \/ PutFails(i) \/ GetIgnored(i)
    <2>1. hook' = hook /\ user' = user /\ left' = left /\ net' = Without(i)
      BY <1>1 DEF PutAnswered, PutFails, GetIgnored
    <2>2. Good \subseteq Good' /\ \A n \in Mounts : Started(n) => Started(n)'
      BY <1>c, <1>t, <2>1, GoodStays
    <2>3. net' \in Seq(Good)'
      BY <1>t, <2>1, <2>2, SeqMonotonic
    <2>4. mark' \in {mark, None}
      BY <1>1 DEF PutAnswered, PutFails, GetIgnored, Confirmed
    <2>5. MarkInStep' /\ SessionOfUser' /\ Opened'
      BY <1>c, <2>1, <2>4 DEF OwnInv, MarkInStep, SessionOfUser, Opened
    <2>6. \A n \in Mounts : dirty'[n] => Started(n)
      BY <1>1, <1>t DEF PutAnswered, PutFails, GetIgnored, Caught, OwnInv, TypeOK, FlagsStarted, Good
    <2>7. FlagsStarted'
      BY <2>2, <2>6 DEF FlagsStarted
    <2> QED BY <1>d, <2>3, <2>5, <2>7 DEF OwnInv
  <1>2. CASE Denied(i)
    <2> DEFINE d == Caught(net[i])
    <2>1. d \in [Mounts -> BOOLEAN] /\ \A n \in Mounts : d[n] => Started(n)
      BY <1>t, CaughtType DEF Caught, OwnInv, TypeOK, FlagsStarted, Good
    <2>2. CASE net[i].of = 0 \/ user = None
      <3>1. hook' = hook /\ user' = user /\ left' = left /\ mark' = mark /\ net' = Without(i) /\ dirty' = d
        BY <1>2, <2>2 DEF Denied
      <3>2. Good \subseteq Good' /\ \A n \in Mounts : Started(n) => Started(n)'
        BY <1>c, <1>t, <3>1, GoodStays
      <3>3. net' \in Seq(Good)'
        BY <1>t, <3>1, <3>2, SeqMonotonic
      <3>4. MarkInStep' /\ SessionOfUser' /\ Opened' /\ FlagsStarted'
        BY <1>c, <2>1, <3>1, <3>2 DEF OwnInv, MarkInStep, SessionOfUser, Opened, FlagsStarted
      <3> QED BY <1>d, <3>3, <3>4 DEF OwnInv
    <2>3. CASE ~(net[i].of = 0 \/ user = None)
      <3>1. /\ hook'.no = hook.no /\ hook'.phase = "off" /\ Leaves /\ mark' = mark
            /\ IF hook.phase = "off" THEN dirty' = d /\ net' = Without(i)
               ELSE /\ dirty' = [d EXCEPT ![hook.no] = FALSE]
                    /\ net' = Without(i) \o Pushes(d[hook.no], cookie)
        BY <1>2, <1>t, <2>3 DEF Denied, TypeOK
      <3>2. Good \subseteq Good' /\ \A n \in Mounts : Started(n) => Started(n)'
        BY <1>c, <1>t, <3>1, GoodStays
      <3>3. cookie \in {user, None}
        BY <2>3 DEF OwnInv, SessionOfUser
      <3>4. hook.phase # "off" => Without(i) \o Pushes(d[hook.no], cookie) \in Seq(Good)
        <4> HIDE DEF d
        <4> QED BY <1>t, <2>1, <3>3, CleanUpGood
      <3>5. net' \in Seq(Good)
        BY <1>t, <3>1, <3>4
      <3>6. net' \in Seq(Good)'
        BY <3>2, <3>5, SeqMonotonic
      <3>7. \A n \in Mounts : dirty'[n] => d[n]
        BY <2>1, <3>1
      <3>8. Opened' /\ FlagsStarted'
        BY <2>1, <3>1, <3>2, <3>7 DEF Opened, FlagsStarted
      <3> QED BY <1>d, <3>1, <3>6, <3>8, LeavesInStep DEF OwnInv
    <2> QED BY <2>2, <2>3
  <1> QED BY <1>1, <1>2

\* what an account in step takes over is its own: its copy, its own unsent layout, or nothing
LEMMA TakesOwn == ASSUME OwnInv, NEW c \in Copy \cup {NoCopy},
                         c # NoCopy => (c.main \subseteq Known /\ Clean(c, user))
                  PROVE  TakenOver(c).main \subseteq Known /\ Clean(TakenOver(c), user)
  <1>1. local.main \subseteq Known /\ local \in Layout
    BY DEF OwnInv, MadeBy, TypeOK
  <1>2. CASE c # NoCopy /\ mark # user
    BY <1>2 DEF TakenOver, Clean
  <1>3. CASE c # NoCopy /\ mark = user
    BY <1>1, <1>3, WidgetAssumption DEF TakenOver, Clean, OwnInv, MarkInStep, LocalClean
  <1>4. CASE c = NoCopy /\ owner \notin {None, user}
    BY <1>1, <1>4 DEF TakenOver, Clean, Layout
  <1>5. CASE c = NoCopy /\ owner = user
    BY <1>1, <1>5 DEF TakenOver, Clean, OwnInv, LocalClean
  <1>6. CASE c = NoCopy /\ owner = None
    <2>1. None \notin left /\ Own(None) = {}
      BY WidgetAssumption, LenProperties, ElementOfSeq DEF OwnInv, TypeOK, Own, Edits
    <2>2. local.main \cap sure = {}
      BY <1>6, <2>1 DEF OwnInv, LocalClean
    <2> QED BY <1>1, <1>6, <2>2 DEF TakenOver, Clean
  <1> QED BY <1>2, <1>3, <1>4, <1>5, <1>6

\* the answer the effect has waited for
LEMMA GetStep == ASSUME OwnInv, TypeOK', NEW i \in DOMAIN net, GetAnswered(i)
                 PROVE  OwnInv'
  <1> DEFINE r == net[i]
             remote == IF r.at = "done" THEN r.data ELSE NoCopy
             layout == TakenOver(remote)
             puts == IF r.at = "done" /\ remote = NoCopy THEN <<Sent("first", r.of, cookie, layout)>>
                     ELSE IF r.at = "done" /\ mark = user THEN <<Sent("unsynced", r.of, cookie, layout)>>
                     ELSE <<>>
  <1>t. /\ hook.no \in Nat /\ TypeOK /\ net \in Seq(Good) /\ r \in Good /\ r \in Request /\ Without(i) \in Seq(Good)
    BY TypeParts, ElementIn, WithoutIn DEF OwnInv, Good
  <1>c. /\ by' = by /\ sure' = sure /\ left' = left /\ server' = server /\ mark' = mark /\ user' = user
        /\ cookie' = cookie /\ dirty' = dirty
    BY DEF GetAnswered
  <1>1. /\ hook'.no = hook.no /\ hook'.phase \in {"on", "deaf"} /\ hook.phase = "asking" /\ r.of = hook.no
        /\ r.kind = "get" /\ owner' = user /\ local' = layout /\ net' = Without(i) \o puts
    BY <1>t DEF GetAnswered, TypeOK
  <1>2. user \in Users /\ cookie \in {user, None} /\ hook.no \in Mounts
    BY <1>1, TypeParts DEF OwnInv, Opened, SessionOfUser
  <1>3. /\ Good \subseteq Good' /\ \A n \in Mounts : Started(n) => Started(n)'
        /\ \A copy, u : Clean(copy, u) => Clean(copy, u)'
        /\ \A u : Own(u)' = Own(u)
    BY <1>c, <1>t, <1>1, GoodStays
  <1>4. remote \in Copy \cup {NoCopy} /\ (remote # NoCopy => (remote.main \subseteq Known /\ Clean(remote, user)))
    BY <1>t, <1>1, <1>2 DEF Good, Request, Clean
  <1>5. layout.main \subseteq Known /\ Clean(layout, user) /\ layout \in Layout /\ layout \in Copy
    <2> HIDE DEF remote
    <2> QED BY <1>4, TakesOwn, TakenOverType, LayoutIsCopy DEF OwnInv, TypeOK
  <1>6. puts \in Seq(Good)'
    <2> HIDE DEF r, remote, layout
    <2>1. Sent("first", r.of, cookie, layout) \in Request /\ Sent("unsynced", r.of, cookie, layout) \in Request
      BY <1>1, <1>2, <1>5, SentType, TypeParts DEF OwnInv
    <2>2. Clean(layout, cookie) /\ layout.main \subseteq Known
      BY <1>2, <1>5, WidgetAssumption DEF Clean, OwnInv, TypeOK
    <2>3. \A k \in {"first", "unsynced"} : Sent(k, r.of, cookie, layout) \in Good'
      BY <1>1, <1>3, <1>c, <1>t, <2>1, <2>2 DEF Good, Sent, Known
    <2> QED BY <2>3
  <1>7. net' \in Seq(Good)'
    <2> HIDE DEF puts
    <2>1. Without(i) \in Seq(Good')
      BY <1>3, <1>t, SeqMonotonic
    <2> QED BY <1>1, <1>6, <2>1, ConcatProperties
  <1>8. MadeBy' /\ CopiesClean' /\ LocalClean'
    <2> HIDE DEF layout
    <2>1. MadeBy'
      BY <1>1, <1>5, <1>c DEF OwnInv, MadeBy, Known
    <2>2. CopiesClean'
      BY <1>3, <1>c DEF OwnInv, CopiesClean
    <2>3. LocalClean'
      BY <1>1, <1>2, <1>3, <1>5, <1>c DEF LocalClean, Clean
    <2> QED BY <2>1, <2>2, <2>3
  <1>9. MarkInStep' /\ SessionOfUser' /\ Opened' /\ FlagsStarted'
    BY <1>1, <1>2, <1>3, <1>c DEF OwnInv, MarkInStep, SessionOfUser, Opened, FlagsStarted
  <1> QED BY <1>7, <1>8, <1>9 DEF OwnInv

LEMMA StepOwn == ASSUME OwnInv, [Next]_vars
                 PROVE  OwnInv'
  <1>1. TypeOK'
    BY StepTypes DEF OwnInv, Opened, SignedIn
  <1>2. CASE UNCHANGED vars
    <2>1. \A u : Own(u)' = Own(u)
      BY <1>2 DEF vars, Own
    <2>2. /\ Good \subseteq Good' /\ \A n \in Mounts : Started(n) => Started(n)'
          /\ \A copy, u : Clean(copy, u) => Clean(copy, u)'
      BY <1>2, <1>1, TypeParts, GoodStays DEF vars, OwnInv
    <2>3. net' \in Seq(Good)'
      BY <1>2, <2>2, SeqMonotonic DEF vars, OwnInv
    <2>4. MadeBy' /\ CopiesClean' /\ LocalClean'
      BY <1>2, ContentsStay DEF vars
    <2>5. MarkInStep' /\ SessionOfUser' /\ Opened' /\ FlagsStarted'
      BY <1>2, <2>2 DEF vars, OwnInv, MarkInStep, SessionOfUser, Opened, FlagsStarted
    <2> QED BY <1>1, <2>3, <2>4, <2>5 DEF OwnInv
  <1> QED BY <1>1, <1>2, EffectSteps, EditStep, AccountSteps, RequestSteps, AnswerSteps, GetStep DEF Next

\* The comment of useWidgetSync (72-74) for the accounts that never left inside the delay of a push:
\* neither their copy nor their desktop shows what another account made on a desktop in step. The
\* mark is what makes it hold: while it names an account in step, that account is signed in and owns
\* the store, so the layout that wins over its copy is its own.
THEOREM OnlyOwn == Spec => []OnlyOwnWidgets
  <1>1. OwnInv /\ [Next]_vars => OwnInv'
    BY StepOwn
  <1>2. OwnInv => OnlyOwnWidgets
    BY DEF OwnInv, CopiesClean, LocalClean, Opened, Clean, OnlyOwnWidgets
  <1> QED BY <1>1, <1>2, InitOwn, PTL DEF Spec

-----------------------------------------------------------------------------
(* Nothing is forgotten: the inductive invariant *)

\* requests are handled in the order they were sent
Ordered(q) == \A i, j \in DOMAIN q : (i < j /\ q[i].at = "sent") => q[j].at \in {"sent", "failed"}

\* while the effect asks: its question is the last request, and the answer is still true
Asked == \A i \in DOMAIN net : (net[i].kind = "get" /\ net[i].of = hook.no) =>
           i = Len(net) /\ (net[i].at = "done" => net[i].data = server[user])

\* while the effect listens: the requests are its own, and with the flag down the last one
\* has what the store has
Final == net[Len(net)]
Agreed == server[user] = NoCopy \/ Agrees(server[user])
OwnPuts == \A i \in DOMAIN net : /\ net[i].kind # "get" /\ net[i].of = hook.no /\ net[i].as \in {user, None}
                                 /\ i # 1 => net[i].kind = "push"
                                 /\ net[i].kind = "unsynced" => mark = user
Flushed == IF net = <<>> THEN mark = user \/ Agreed
           ELSE /\ Final.data = local
                /\ Final.at = "done" => Agrees(server[user])
                /\ Final.kind = "first" => Agreed
Listening == OwnPuts /\ (~dirty[hook.no] => Flushed)

KeepInv == ~overtaken => /\ Ordered(net)
                         /\ hook.phase = "asking" => Asked
                         /\ hook.phase = "on" => Listening

LEMMA NetFacts == ASSUME OwnInv
                  PROVE  /\ net \in Seq(Request) /\ Len(net) \in Nat /\ DOMAIN net = 1..Len(net)
                         /\ net = <<>> <=> Len(net) = 0
                         /\ \A i \in DOMAIN net : net[i] \in Good /\ net[i] \in Request
  <1>1. net \in Seq(Request) /\ net \in Seq(Good)
    BY DEF OwnInv, TypeOK
  <1>2. Len(net) \in Nat /\ DOMAIN net = 1..Len(net)
    BY <1>1, LenProperties
  <1>3. net = <<>> <=> Len(net) = 0
    BY <1>1, EmptySeq
  <1>4. \A i \in DOMAIN net : net[i] \in Good
    BY <1>1, <1>2, ElementOfSeq
  <1>5. \A i \in DOMAIN net : net[i] \in Request
    BY <1>1, <1>2, ElementOfSeq
  <1> QED BY <1>1, <1>2, <1>3, <1>4, <1>5

\* the oldest request leaves the list
LEMMA WithoutFirst == ASSUME OwnInv, 1 \in DOMAIN net
                      PROVE  /\ Without(1) \in Seq(Request) /\ Len(Without(1)) = Len(net) - 1
                             /\ DOMAIN Without(1) = 1..(Len(net) - 1)
                             /\ Without(1) = <<>> <=> Len(net) = 1
                             /\ \A j \in 1..(Len(net) - 1) : Without(1)[j] = net[j + 1]
  <1>1. net \in Seq(Request) /\ Len(net) \in Nat /\ Len(net) >= 1
    BY NetFacts
  <1> DEFINE a == SubSeq(net, 1, 0)
             b == SubSeq(net, 2, Len(net))
  <1>2. a \in Seq(Request) /\ Len(a) = 0 /\ b \in Seq(Request) /\ Len(b) = Len(net) - 1
        /\ \A j \in 1..(Len(net) - 1) : b[j] = net[j + 1]
    <2>1. a \in Seq(Request) /\ Len(a) = 0
      BY <1>1, NetFacts, SubSeqProperties
    <2>2. b \in Seq(Request) /\ Len(b) = Len(net) - 1 /\ \A j \in 1..(Len(net) - 1) : b[j] = net[j + 1]
      BY <1>1, NetFacts, SubSeqProperties
    <2> QED BY <2>1, <2>2
  <1>3. Without(1) = a \o b
    BY DEF Without
  <1> HIDE DEF a, b
  <1>4. a = <<>>
    BY <1>2, EmptySeq
  <1>5. Without(1) = b
    BY <1>2, <1>3, <1>4
  <1>6. DOMAIN b = 1..Len(b)
    BY <1>2, LenProperties
  <1>7. b = <<>> <=> Len(b) = 0
    BY <1>2, EmptySeq
  <1> QED BY <1>1, <1>2, <1>5, <1>6, <1>7

\* a request is added at the end
LEMMA Longer == ASSUME NEW q \in Seq(Request), NEW x \in Request, NEW r, r = Append(q, x) \/ r = q \o <<x>>
                PROVE  /\ Len(r) = Len(q) + 1 /\ DOMAIN r = 1..(Len(q) + 1) /\ DOMAIN q = 1..Len(q) /\ Len(q) \in Nat
                       /\ r[Len(q) + 1] = x /\ \A j \in 1..Len(q) : r[j] = q[j]
  <1>1. Len(q) \in Nat /\ DOMAIN q = 1..Len(q)
    BY LenProperties
  <1>2. CASE r = Append(q, x)
    <2>1. r \in Seq(Request) /\ Len(r) = Len(q) + 1 /\ r[Len(q) + 1] = x /\ \A j \in 1..Len(q) : r[j] = q[j]
      BY <1>1, <1>2, AppendProperties
    <2> QED BY <1>1, <2>1, LenProperties
  <1>3. CASE r = q \o <<x>>
    <2>1. <<x>> \in Seq(Request) /\ Len(<<x>>) = 1 /\ <<x>>[1] = x
      OBVIOUS
    <2>2. r \in Seq(Request) /\ Len(r) = Len(q) + 1 /\ \A j \in 1..(Len(q) + 1) : r[j] = IF j <= Len(q) THEN q[j] ELSE <<x>>[j - Len(q)]
      BY <1>3, <2>1, ConcatProperties
    <2>3. DOMAIN r = 1..(Len(q) + 1)
      BY <2>2, LenProperties
    <2>4. r[Len(q) + 1] = <<x>>[1]
      BY <1>1, <2>2
    <2> QED BY <1>1, <2>1, <2>2, <2>3, <2>4
  <1> QED BY <1>2, <1>3

LEMMA OrderedMore == ASSUME NEW q \in Seq(Request), Ordered(q), NEW x \in Request, x.at = "sent",
                            NEW r, r = Append(q, x) \/ r = q \o <<x>>
                     PROVE  Ordered(r)
  <1>1. /\ Len(r) = Len(q) + 1 /\ DOMAIN r = 1..(Len(q) + 1) /\ DOMAIN q = 1..Len(q) /\ Len(q) \in Nat
        /\ r[Len(q) + 1] = x /\ \A j \in 1..Len(q) : r[j] = q[j]
    BY Longer
  <1> SUFFICES ASSUME NEW i \in 1..(Len(q) + 1), NEW j \in 1..(Len(q) + 1), i < j, r[i].at = "sent"
               PROVE  r[j].at \in {"sent", "failed"}
    BY <1>1 DEF Ordered
  <1>2. CASE j = Len(q) + 1
    BY <1>1, <1>2
  <1>3. CASE j # Len(q) + 1
    <2>1. i \in 1..Len(q) /\ j \in 1..Len(q)
      BY <1>1, <1>3
    <2> QED BY <1>1, <2>1 DEF Ordered
  <1> QED BY <1>2, <1>3

LEMMA OrderedPushes == ASSUME TypeOK, NEW q \in Seq(Request), Ordered(q), NEW d, NEW c \in Users \cup {None}
                       PROVE  Ordered(q \o Pushes(d, c))
  <1> DEFINE x == Sent("push", hook.no, c, local)
  <1>1. x \in Request /\ x.at = "sent"
    BY SentType, TypeParts DEF Sent
  <1>2. CASE d
    <2>1. Pushes(d, c) = <<x>>
      BY <1>2 DEF Pushes
    <2> HIDE DEF x
    <2> QED BY <1>1, <2>1, OrderedMore
  <1>3. CASE ~d
    <2>1. Pushes(d, c) = <<>>
      BY <1>3 DEF Pushes
    <2>2. q \o <<>> = q
      OBVIOUS
    <2> QED BY <2>1, <2>2
  <1> QED BY <1>2, <1>3

LEMMA OrderedRest == ASSUME OwnInv, 1 \in DOMAIN net, Ordered(net)
                     PROVE  Ordered(Without(1))
  <1>1. /\ Len(net) \in Nat /\ DOMAIN net = 1..Len(net) /\ DOMAIN Without(1) = 1..(Len(net) - 1)
        /\ \A j \in 1..(Len(net) - 1) : Without(1)[j] = net[j + 1] /\ j + 1 \in DOMAIN net /\ j \in Nat
    BY NetFacts, WithoutFirst
  <1> SUFFICES ASSUME NEW i \in 1..(Len(net) - 1), NEW j \in 1..(Len(net) - 1), i < j, Without(1)[i].at = "sent"
               PROVE  Without(1)[j].at \in {"sent", "failed"}
    BY <1>1 DEF Ordered
  <1>2. net[i + 1].at = "sent" /\ i + 1 < j + 1
    BY <1>1
  <1> QED BY <1>1, <1>2 DEF Ordered


LEMMA KeepSame == ASSUME KeepInv, net' = net, server' = server, local' = local, user' = user, mark' = mark,
                         hook'.phase = hook.phase, hook'.no = hook.no, dirty' = dirty, overtaken' = overtaken
                  PROVE  KeepInv'
  BY DEF KeepInv, Asked, Listening, OwnPuts, Flushed, Final, Agreed, Agrees

\* what the cleanup of an effect leaves on its way
LEMMA KeepCleanUp == ASSUME OwnInv, KeepInv, NEW c \in Users \cup {None}, CleansUp(dirty, c), overtaken' = overtaken
                     PROVE  KeepInv'
  <1>1. hook'.phase = "off"
    BY DEF CleansUp, OwnInv, TypeOK
  <1>2. net' = net \/ net' = net \o Pushes(dirty[hook.no], c)
    BY DEF CleansUp
  <1>3. ~overtaken => Ordered(net')
    <2>1. TypeOK /\ net \in Seq(Request)
      BY NetFacts DEF OwnInv
    <2> QED BY <1>2, <2>1, OrderedPushes DEF KeepInv
  <1> QED BY <1>1, <1>3 DEF KeepInv

LEMMA KeepMount == ASSUME OwnInv, KeepInv, Mount
                   PROVE  KeepInv'
  <1> DEFINE x == Sent("get", hook.no + 1, cookie, NoCopy)
  <1>1. /\ net' = Append(net, x) /\ hook'.no = hook.no + 1 /\ hook'.phase = "asking" /\ overtaken' = overtaken
        /\ hook.no + 1 \in Mounts /\ hook.no \in Nat
    <2>1. hook.no \in Nat /\ hook.no < MaxMounts /\ MaxMounts \in Nat
      BY TypeParts DEF Mount, OwnInv
    <2> QED BY <2>1 DEF Mount, Mounts
  <1>2. x \in Request /\ x.at = "sent"
    BY <1>1, SentType, TypeParts DEF Sent, OwnInv
  <1> HIDE DEF x
  <1>3. net \in Seq(Request)
    BY NetFacts
  <1>4. ~overtaken => Ordered(net')
    BY <1>1, <1>2, <1>3, OrderedMore DEF KeepInv
  <1>5. /\ Len(net') = Len(net) + 1 /\ DOMAIN net' = 1..(Len(net) + 1) /\ DOMAIN net = 1..Len(net) /\ Len(net) \in Nat
        /\ net'[Len(net) + 1] = x /\ \A j \in 1..Len(net) : net'[j] = net[j]
    BY <1>1, <1>2, <1>3, Longer
  <1>6. \A j \in 1..Len(net) : net[j].of # hook.no + 1
    <2> SUFFICES ASSUME NEW j \in 1..Len(net) PROVE net[j].of # hook.no + 1
      OBVIOUS
    <2>1. net[j].of <= hook.no /\ net[j].of \in Mounts \cup {0}
      BY <1>5, NetFacts DEF Good, Request
    <2>2. net[j].of \in Nat
      BY <2>1, TypeParts DEF OwnInv
    <2> QED BY <1>1, <2>1, <2>2
  <1>7. Asked'
    <2> SUFFICES ASSUME NEW i \in 1..(Len(net) + 1), net'[i].kind = "get", net'[i].of = hook.no + 1
                 PROVE  i = Len(net') /\ (net'[i].at = "done" => net'[i].data = server'[user'])
      BY <1>1, <1>5 DEF Asked
    <2>1. i = Len(net) + 1
      BY <1>5, <1>6
    <2> QED BY <1>2, <1>5, <2>1
  <1> QED BY <1>1, <1>4, <1>7 DEF KeepInv

LEMMA KeepEdit == ASSUME OwnInv, KeepInv, NEW part \in {"main", "mobile"}, Edit(part)
                  PROVE  KeepInv'
  <1>1. /\ net' = net /\ server' = server /\ user' = user /\ overtaken' = overtaken
        /\ hook'.phase = hook.phase /\ hook'.no = hook.no
    BY DEF Edit, OwnInv, TypeOK
  <1>2. hook.phase = "on" => dirty'[hook.no] /\ mark' = user
    BY DEF Edit, OwnInv, TypeOK, Opened
  <1>3. hook.phase = "on" /\ Listening => Listening'
    BY <1>1, <1>2 DEF Listening, OwnPuts
  <1>4. Asked => Asked'
    BY <1>1 DEF Asked
  <1> QED BY <1>1, <1>3, <1>4 DEF KeepInv

LEMMA KeepPush == ASSUME OwnInv, KeepInv, Push
                  PROVE  KeepInv'
  <1> DEFINE x == Sent("push", hook.no, cookie, local)
  <1>0. /\ hook.phase = "on" /\ hook'.phase = "on" /\ hook'.no = hook.no /\ overtaken' = overtaken
        /\ server' = server /\ local' = local /\ user' = user /\ mark' = mark /\ hook.no \in Mounts
        /\ dirty' = [dirty EXCEPT ![hook.no] = FALSE] /\ dirty \in [Mounts -> BOOLEAN]
    BY DEF Push, OwnInv, TypeOK, Opened
  <1>1. CASE ~dirty[hook.no]
    <2>1. net' = net
      <3>1. Pushes(dirty[hook.no], cookie) = <<>>
        BY <1>1 DEF Pushes
      <3>2. net \in Seq(Request)
        BY NetFacts
      <3> QED BY <3>1, <3>2 DEF Push
    <2>2. dirty' = dirty
      BY <1>0, <1>1
    <2> QED BY <1>0, <2>1, <2>2, KeepSame
  <1>2. CASE dirty[hook.no]
    <2>1. net' = net \o <<x>>
      BY <1>2 DEF Push, Pushes
    <2>2. x \in Request /\ x.at = "sent" /\ x.kind = "push" /\ x.of = hook.no /\ x.as = cookie /\ x.data = local
      BY SentType, TypeParts DEF Sent, OwnInv
    <2> HIDE DEF x
    <2>3. net \in Seq(Request)
      BY NetFacts
    <2>4. ~overtaken => Ordered(net')
      BY <2>1, <2>2, <2>3, OrderedMore DEF KeepInv
    <2>5. /\ Len(net') = Len(net) + 1 /\ DOMAIN net' = 1..(Len(net) + 1) /\ DOMAIN net = 1..Len(net) /\ Len(net) \in Nat
          /\ net'[Len(net) + 1] = x /\ \A j \in 1..Len(net) : net'[j] = net[j]
      BY <2>1, <2>2, <2>3, Longer
    <2>6. cookie \in {user, None}
      BY <1>0 DEF OwnInv, SessionOfUser, Opened
    <2>7. OwnPuts => OwnPuts'
      <3> SUFFICES ASSUME OwnPuts, NEW i \in 1..(Len(net) + 1)
                   PROVE  /\ net'[i].kind # "get" /\ net'[i].of = hook.no /\ net'[i].as \in {user, None}
                          /\ i # 1 => net'[i].kind = "push"
                          /\ net'[i].kind = "unsynced" => mark = user
        BY <1>0, <2>5 DEF OwnPuts
      <3>1. CASE i = Len(net) + 1
        BY <2>2, <2>5, <2>6, <3>1
      <3>2. CASE i # Len(net) + 1
        <4>1. i \in DOMAIN net /\ net'[i] = net[i]
          BY <2>5, <3>2
        <4> QED BY <4>1 DEF OwnPuts
      <3> QED BY <3>1, <3>2
    <2>8. Flushed'
      <3>1. net' # <<>> /\ Final' = x
        BY <2>5 DEF Final
      <3> QED BY <1>0, <2>2, <3>1 DEF Flushed
    <2> QED BY <1>0, <2>4, <2>7, <2>8 DEF KeepInv, Listening
  <1> QED BY <1>1, <1>2

LEMMA KeepReload == ASSUME OwnInv, KeepInv, Reload
                    PROVE  KeepInv'
  <1>1. hook'.phase = "off" /\ overtaken' = overtaken
    BY DEF Reload, OwnInv, TypeOK
  <1>2. ASSUME Ordered(net) PROVE Ordered(net')
    <2>1. CASE net' = <<>>
      BY <2>1 DEF Ordered
    <2>2. CASE net' = [i \in DOMAIN net |-> Unheard(net[i])]
      <3>1. \A i \in DOMAIN net : Unheard(net[i]).at = net[i].at
        BY NetFacts DEF Unheard, Request
      <3> QED BY <1>2, <2>2, <3>1 DEF Ordered
    <2> QED BY <2>1, <2>2 DEF Reload
  <1> QED BY <1>1, <1>2 DEF KeepInv

LEMMA KeepLogin == ASSUME OwnInv, KeepInv, NEW u \in Users, Login(u)
                   PROVE  KeepInv'
  <1>1. hook'.phase = "off" /\ net' = net /\ (overtaken => overtaken')
    BY TypeParts DEF Login, OwnInv, Opened
  <1> QED BY <1>1 DEF KeepInv

\* a request that is handled or lost stays in its place
LEMMA KeepPlace == ASSUME OwnInv, NEW i \in DOMAIN net, NEW r, net' = [net EXCEPT ![i] = r]
                   PROVE  /\ DOMAIN net' = DOMAIN net /\ Len(net') = Len(net) /\ net # <<>> /\ net' # <<>>
                          /\ net'[i] = r /\ \A j \in DOMAIN net \ {i} : net'[j] = net[j]
  <1>1. /\ net \in Seq(Request) /\ Len(net) \in Nat /\ DOMAIN net = 1..Len(net)
        /\ (net = <<>> <=> Len(net) = 0)
    BY NetFacts
  <1>2. DOMAIN net' = 1..Len(net) /\ net'[i] = r /\ \A j \in DOMAIN net \ {i} : net'[j] = net[j]
    BY <1>1
  <1>3. Len(net') = Len(net)
    BY <1>1, <1>2
  <1>4. net # <<>>
    BY <1>1
  <1>5. net' # <<>>
    BY <1>1, <1>2
  <1> QED BY <1>1, <1>2, <1>3, <1>4, <1>5

LEMMA KeepHandle == ASSUME OwnInv, KeepInv, NEW i \in DOMAIN net, Handle(i)
                    PROVE  KeepInv'
  <1> DEFINE r == Handled(net[i])
  <1>1. /\ Len(net) \in Nat /\ DOMAIN net = 1..Len(net) /\ net[i] \in Request /\ net[i] \in Good
        /\ \A j \in DOMAIN net : net[j] \in Request
    BY NetFacts
  <1>2. /\ net' = [net EXCEPT ![i] = r] /\ net[i].at = "sent"
        /\ local' = local /\ user' = user /\ mark' = mark /\ hook' = hook /\ dirty' = dirty
        /\ net[i].kind = "get" \/ net[i].as = None => server' = server
        /\ net[i].kind # "get" /\ net[i].as # None => server' = [server EXCEPT ![net[i].as] = net[i].data]
    BY DEF Handle
  <1>3. /\ r.kind = net[i].kind /\ r.of = net[i].of /\ r.as = net[i].as
        /\ r.at = (IF net[i].as = None THEN "denied" ELSE "done")
        /\ net[i].kind # "get" => r.data = net[i].data
        /\ net[i].kind = "get" /\ net[i].as # None => r.data = server[net[i].as]
    BY <1>1 DEF Handled, Request
  <1> HIDE DEF r
  <1>4. /\ DOMAIN net' = DOMAIN net /\ Len(net') = Len(net) /\ net # <<>> /\ net' # <<>>
        /\ net'[i] = r /\ \A j \in DOMAIN net \ {i} : net'[j] = net[j]
    BY <1>2, KeepPlace
  <1> SUFFICES ASSUME ~overtaken' PROVE KeepInv'
    BY DEF KeepInv
  <1>5. ~overtaken /\ Ordered(net) /\ \A j \in 1..(i - 1) : net[j].at # "sent"
    BY DEF Handle, KeepInv
  <1>6. Ordered(net')
    <2> SUFFICES ASSUME NEW j \in DOMAIN net, NEW k \in DOMAIN net, j < k, net'[j].at = "sent"
                 PROVE  net'[k].at \in {"sent", "failed"}
      BY <1>4 DEF Ordered
    <2>1. j # i /\ net[j].at = "sent"
      BY <1>3, <1>4
    <2>2. k # i
      BY <1>1, <1>5, <2>1
    <2> QED BY <1>4, <1>5, <2>1, <2>2 DEF Ordered
  <1>7. \A j \in DOMAIN net : i < j => net[j].at \in {"sent", "failed"}
    BY <1>2, <1>5 DEF Ordered
  <1>8. ASSUME hook.phase = "asking", Asked PROVE Asked'
    <2> SUFFICES ASSUME NEW j \in DOMAIN net, net'[j].kind = "get", net'[j].of = hook.no
                 PROVE  j = Len(net) /\ (net'[j].at = "done" => net'[j].data = server'[user])
      BY <1>2, <1>4 DEF Asked
    <2>1. net[j].kind = "get" /\ net[j].of = hook.no /\ j = Len(net)
      BY <1>3, <1>4, <1>8 DEF Asked
    <2>2. CASE j = i
      <3>1. net[i].as \in {user, None}
        BY <1>1, <1>8, <2>1, <2>2 DEF Good
      <3> QED BY <1>2, <1>3, <1>4, <2>1, <2>2, <3>1
    <2>3. CASE j # i
      <3>1. net'[j] = net[j] /\ i < j
        BY <1>1, <1>4, <2>1, <2>3
      <3>2. net'[j].at # "done"
        BY <1>7, <3>1
      <3> QED BY <2>1, <3>2
    <2> QED BY <2>2, <2>3
  <1>9. ASSUME hook.phase = "on", Listening PROVE Listening'
    <2>1. OwnPuts'
      <3> SUFFICES ASSUME NEW j \in DOMAIN net
                   PROVE  /\ net'[j].kind # "get" /\ net'[j].of = hook.no /\ net'[j].as \in {user, None}
                          /\ j # 1 => net'[j].kind = "push"
                          /\ net'[j].kind = "unsynced" => mark = user
        BY <1>2, <1>4 DEF OwnPuts
      <3>1. net'[j].kind = net[j].kind /\ net'[j].of = net[j].of /\ net'[j].as = net[j].as
        BY <1>3, <1>4
      <3> QED BY <1>9, <3>1 DEF Listening, OwnPuts
    <2>2. ASSUME ~dirty[hook.no] PROVE Flushed'
      <3>1. /\ Final.data = local /\ (Final.at = "done" => Agrees(server[user])) /\ (Final.kind = "first" => Agreed)
            /\ net[i].kind # "get" /\ net[i].as \in {user, None} /\ user \in Users
        BY <1>4, <1>9, <2>2, TypeParts DEF Listening, Flushed, OwnPuts, OwnInv, Opened
      <3>2. CASE i = Len(net)
        <4>1. Final' = r /\ r.data = local /\ Final = net[i]
          BY <1>3, <1>4, <3>1, <3>2 DEF Final
        <4>2. CASE net[i].as = None
          <5>1. Final'.at # "done" /\ server' = server /\ Final'.kind = Final.kind
            BY <1>2, <1>3, <4>1, <4>2
          <5> QED BY <1>2, <1>4, <3>1, <4>1, <5>1 DEF Flushed, Agreed, Agrees
        <4>3. CASE net[i].as # None
          <5>1. server'[user] = local
            <6>1. server \in [Users -> Copy \cup {NoCopy}]
              BY DEF OwnInv, TypeOK
            <6> QED BY <1>2, <3>1, <4>1, <4>3, <6>1
          <5>2. server'[user].main = local.main /\ server'[user].mobile = local.mobile
            BY <5>1
          <5>3. Agrees(server[user])'
            BY <1>2, <5>2 DEF Agrees
          <5> QED BY <1>2, <1>4, <4>1, <5>3 DEF Flushed, Agreed
        <4> QED BY <4>2, <4>3
      <3>3. CASE i # Len(net)
        <4>1. Len(net) \in DOMAIN net /\ i < Len(net) /\ Len(net) # 1
          BY <1>1, <3>3
        <4>2. Final' = Final /\ Final.at # "done"
          BY <1>4, <1>7, <3>3, <4>1 DEF Final
        <4>3. Final.kind = "push"
          BY <1>9, <4>1 DEF Final, Listening, OwnPuts
        <4> QED BY <1>2, <1>4, <3>1, <4>2, <4>3 DEF Flushed
      <3> QED BY <3>2, <3>3
    <2> QED BY <1>2, <2>1, <2>2 DEF Listening
  <1> QED BY <1>2, <1>5, <1>6, <1>8, <1>9 DEF KeepInv

LEMMA KeepLose == ASSUME OwnInv, KeepInv, NEW i \in DOMAIN net, Lose(i)
                  PROVE  KeepInv'
  <1> DEFINE r == Lost(net[i])
  <1>1. Len(net) \in Nat /\ DOMAIN net = 1..Len(net) /\ net[i] \in Request
    BY NetFacts
  <1>2. /\ net' = [net EXCEPT ![i] = r]
        /\ local' = local /\ user' = user /\ mark' = mark /\ hook' = hook /\ dirty' = dirty
        /\ server' = server /\ overtaken' = overtaken
    BY DEF Lose
  <1>3. r.kind = net[i].kind /\ r.of = net[i].of /\ r.as = net[i].as /\ r.at = "failed" /\ r.data = net[i].data
    BY <1>1 DEF Lost, Request
  <1> HIDE DEF r
  <1>4. /\ DOMAIN net' = DOMAIN net /\ Len(net') = Len(net) /\ net # <<>> /\ net' # <<>>
        /\ net'[i] = r /\ \A j \in DOMAIN net \ {i} : net'[j] = net[j]
    BY <1>2, KeepPlace
  <1>5. \A j \in DOMAIN net : /\ net'[j].kind = net[j].kind /\ net'[j].of = net[j].of /\ net'[j].as = net[j].as
                              /\ net'[j].data = net[j].data /\ net'[j].at \in {net[j].at, "failed"}
    BY <1>3, <1>4
  <1>6. Ordered(net) => Ordered(net')
    BY <1>4, <1>5 DEF Ordered
  <1>7. Asked => Asked'
    BY <1>2, <1>4, <1>5 DEF Asked
  <1>8. OwnPuts => OwnPuts'
    BY <1>2, <1>4, <1>5 DEF OwnPuts
  <1>9. Flushed => Flushed'
    <2>1. Len(net) \in DOMAIN net
      BY <1>1
    <2>2. Final'.kind = Final.kind /\ Final'.data = Final.data /\ Final'.at \in {Final.at, "failed"}
      BY <1>4, <1>5, <2>1 DEF Final
    <2> QED BY <1>2, <1>4, <2>2 DEF Flushed, Agreed, Agrees
  <1> QED BY <1>2, <1>6, <1>7, <1>8, <1>9 DEF KeepInv, Listening

\* the oldest request was answered, and the effect goes on as it was
LEMMA KeepRest == ASSUME OwnInv, KeepInv, ~overtaken, 1 \in DOMAIN net, net' = Without(1), hook' = hook,
                         server' = server, local' = local, user' = user,
                         (hook.phase = "on" /\ ~dirty'[hook.no]) =>
                            /\ ~dirty[hook.no]
                            /\ (net[1].at = "done" \/ net[1].kind = "first" \/ mark = user)
                            /\ (mark' = mark \/ net[1].at = "done")
                  PROVE  KeepInv'
  <1>1. /\ Len(net) \in Nat /\ Len(net) >= 1 /\ DOMAIN net = 1..Len(net) /\ DOMAIN net' = 1..(Len(net) - 1) /\ Len(net') = Len(net) - 1
        /\ net' = <<>> <=> Len(net) = 1
        /\ \A j \in 1..(Len(net) - 1) : net'[j] = net[j + 1] /\ j + 1 \in DOMAIN net /\ j + 1 # 1
    <2>1. Len(net) \in Nat /\ DOMAIN net = 1..Len(net) /\ Len(net) >= 1
      BY NetFacts
    <2>2. /\ DOMAIN net' = 1..(Len(net) - 1) /\ Len(net') = Len(net) - 1
          /\ net' = <<>> <=> Len(net) = 1
          /\ \A j \in 1..(Len(net) - 1) : net'[j] = net[j + 1]
      BY WithoutFirst
    <2>3. \A j \in 1..(Len(net) - 1) : j + 1 \in 1..Len(net) /\ j + 1 # 1
      BY <2>1
    <2> QED BY <2>1, <2>2, <2>3
  <1>2. Ordered(net')
    BY OrderedRest DEF KeepInv
  <1>3. ASSUME Asked PROVE Asked'
    <2> SUFFICES ASSUME NEW j \in 1..(Len(net) - 1), net'[j].kind = "get", net'[j].of = hook.no
                 PROVE  j = Len(net') /\ (net'[j].at = "done" => net'[j].data = server[user])
      BY <1>1 DEF Asked
    <2>1. j + 1 = Len(net) /\ (net[j + 1].at = "done" => net[j + 1].data = server[user])
      BY <1>1, <1>3 DEF Asked
    <2> QED BY <1>1, <2>1
  <1>4. ASSUME hook.phase = "on", Listening PROVE Listening'
    <2>1. OwnPuts'
      <3> SUFFICES ASSUME NEW j \in 1..(Len(net) - 1)
                   PROVE  net'[j].kind = "push" /\ net'[j].of = hook.no /\ net'[j].as \in {user, None}
        BY <1>1 DEF OwnPuts
      <3> QED BY <1>1, <1>4 DEF Listening, OwnPuts
    <2>2. ASSUME ~dirty'[hook.no] PROVE Flushed'
      <3>1. Flushed /\ net # <<>>
        BY <1>1, <1>4, <2>2 DEF Listening
      <3>2. CASE Len(net) = 1
        <4>1. Final = net[1] /\ net' = <<>>
          BY <1>1, <3>2 DEF Final
        <4>2. mark' = user \/ Agreed
          BY <1>4, <2>2, <3>1, <4>1 DEF Flushed, Agreed
        <4> QED BY <4>1, <4>2 DEF Flushed, Agreed, Agrees
      <3>3. CASE Len(net) # 1
        <4>1. net' # <<>> /\ Final' = Final /\ Final.kind = "push"
          <5>1. Len(net) - 1 \in 1..(Len(net) - 1) /\ Len(net) \in DOMAIN net /\ (Len(net) - 1) + 1 = Len(net)
            BY <1>1, <3>3
          <5> QED BY <1>1, <1>4, <3>3, <5>1 DEF Final, Listening, OwnPuts
        <4> QED BY <3>1, <4>1 DEF Flushed, Agrees
      <3> QED BY <3>2, <3>3
    <2> QED BY <2>1, <2>2 DEF Listening
  <1> QED BY <1>2, <1>3, <1>4 DEF KeepInv

LEMMA KeepAnswers == ASSUME OwnInv, KeepInv, NEW i \in DOMAIN net,
                            PutAnswered(i) \/ PutFails(i) \/ GetIgnored(i) \/ Denied(i)
                     PROVE  KeepInv'
  <1> SUFFICES ASSUME ~overtaken' PROVE KeepInv'
    BY DEF KeepInv
  <1>1. ~overtaken /\ i = 1 /\ 1 \in DOMAIN net
    BY DEF PutAnswered, PutFails, GetIgnored, Denied, Answered
  <1>2. net[1] \in Request
    BY <1>1, NetFacts
  <1>3. hook.phase = "on" =>
          /\ net[1].kind # "get" /\ net[1].of = hook.no /\ (net[1].kind = "unsynced" => mark = user)
          /\ hook.no \in Mounts /\ hook.no # 0 /\ user # None
    <2>1. 0 \notin Mounts
      BY DEF Mounts
    <2>2. hook.phase = "on" => hook.no \in Mounts /\ user # None
      BY DEF OwnInv, Opened
    <2> QED BY <1>1, <2>1, <2>2 DEF KeepInv, Listening, OwnPuts
  <1>4. CASE PutAnswered(i)
    <2>1. /\ net[1].at = "done" /\ net' = Without(1) /\ hook' = hook /\ server' = server /\ local' = local
          /\ user' = user /\ dirty' = dirty
      BY <1>1, <1>4 DEF PutAnswered
    <2> QED BY <1>1, <2>1, KeepRest
  <1>5. CASE PutFails(i)
    <2>1. /\ net' = Without(1) /\ hook' = hook /\ server' = server /\ local' = local
          /\ user' = user /\ mark' = mark /\ dirty' = Caught(net[1])
      BY <1>1, <1>5 DEF PutFails
    <2>2. ASSUME hook.phase = "on", ~dirty'[hook.no]
          PROVE  ~dirty[hook.no] /\ (net[1].kind = "first" \/ mark = user)
      <3>1. dirty \in [Mounts -> BOOLEAN]
        BY DEF OwnInv, TypeOK
      <3>2. net[1].kind # "push"
        BY <1>3, <2>1, <2>2, <3>1 DEF Caught
      <3>3. net[1].kind \in {"unsynced", "first"}
        BY <1>2, <1>3, <2>2, <3>2 DEF Request
      <3> QED BY <1>3, <2>1, <2>2, <3>2, <3>3 DEF Caught
    <2> QED BY <1>1, <2>1, <2>2, KeepRest
  <1>6. CASE GetIgnored(i)
    <2>1. /\ net' = Without(1) /\ hook' = hook /\ server' = server /\ local' = local
          /\ user' = user /\ net[1].kind = "get"
      BY <1>1, <1>6 DEF GetIgnored
    <2> QED BY <1>1, <1>3, <2>1, KeepRest
  <1>7. CASE Denied(i)
    <2>1. CASE net[1].of = 0 \/ user = None
      <3>1. /\ net' = Without(1) /\ hook' = hook /\ server' = server /\ local' = local /\ user' = user
        BY <1>1, <1>7, <2>1 DEF Denied
      <3> QED BY <1>1, <1>3, <2>1, <3>1, KeepRest
    <2>2. CASE ~(net[1].of = 0 \/ user = None)
      <3> DEFINE d == Caught(net[1])[hook.no]
      <3>1. hook'.phase = "off"
        BY <1>1, <1>7, <2>2 DEF Denied, OwnInv, TypeOK
      <3>2. net' = Without(1) \/ net' = Without(1) \o Pushes(d, cookie)
        BY <1>1, <1>7, <2>2 DEF Denied
      <3> HIDE DEF d
      <3>3. Without(1) \in Seq(Request) /\ Ordered(Without(1))
        BY <1>1, WithoutFirst, OrderedRest DEF KeepInv
      <3>4. TypeOK /\ cookie \in Users \cup {None}
        BY TypeParts DEF OwnInv
      <3>5. Ordered(net')
        BY <3>2, <3>3, <3>4, OrderedPushes
      <3> QED BY <3>1, <3>5 DEF KeepInv
    <2> QED BY <2>1, <2>2
  <1> QED BY <1>4, <1>5, <1>6, <1>7

\* the effect starts to listen: the store agrees with the copy, or its layout is on its way
LEMMA KeepGet == ASSUME OwnInv, KeepInv, NEW i \in DOMAIN net, GetAnswered(i)
                 PROVE  KeepInv'
  <1> DEFINE reachable == net[i].at = "done"
             remote == IF reachable THEN net[i].data ELSE NoCopy
             layout == TakenOver(remote)
             puts == IF reachable /\ remote = NoCopy THEN <<Sent("first", net[i].of, cookie, layout)>>
                     ELSE IF reachable /\ mark = user THEN <<Sent("unsynced", net[i].of, cookie, layout)>>
                     ELSE <<>>
  <1> SUFFICES ASSUME ~overtaken' PROVE KeepInv'
    BY DEF KeepInv
  <1>1. ~overtaken /\ i = 1 /\ 1 \in DOMAIN net
    BY DEF GetAnswered, Answered
  <1>2. /\ net[1].kind = "get" /\ net[1].of = hook.no /\ hook.phase = "asking"
        /\ local' = layout /\ hook'.no = hook.no /\ hook'.phase = (IF reachable THEN "on" ELSE "deaf")
        /\ net' = Without(i) \o puts /\ server' = server /\ mark' = mark /\ user' = user /\ cookie' = cookie
    <2>1. hook' = [hook EXCEPT !.phase = IF reachable THEN "on" ELSE "deaf"]
      BY DEF GetAnswered
    <2>2. hook'.no = hook.no /\ hook'.phase = (IF reachable THEN "on" ELSE "deaf")
      BY <2>1 DEF OwnInv, TypeOK
    <2> QED BY <1>1, <2>2 DEF GetAnswered
  <1>3. Len(net) = 1 /\ (reachable => remote = server[user])
    BY <1>1, <1>2 DEF KeepInv, Asked
  <1>4. net' = puts
    <2>1. Without(1) = <<>>
      BY <1>1, <1>3, WithoutFirst
    <2>2. puts = <<>> \/ \E x : puts = <<x>>
      OBVIOUS
    <2> HIDE DEF puts
    <2>3. <<>> \o puts = puts
      <3>1. <<>> \o <<>> = <<>>
        OBVIOUS
      <3>2. \A x : <<>> \o <<x>> = <<x>>
        <4> SUFFICES ASSUME NEW x PROVE <<>> \o <<x>> = <<x>>
          OBVIOUS
        <4>1. <<>> \in Seq({x}) /\ <<x>> \in Seq({x})
          OBVIOUS
        <4> QED BY <4>1, ConcatEmptySeq
      <3> QED BY <2>2, <3>1, <3>2
    <2> QED BY <1>1, <1>2, <2>1, <2>3
  <1>5. cookie \in {user, None}
    BY <1>2 DEF OwnInv, SessionOfUser, Opened
  <1>6. CASE puts = <<>>
    <2>1. Ordered(net')
      BY <1>4, <1>6 DEF Ordered
    <2>2. hook'.phase = "on" => Listening'
      <3> SUFFICES ASSUME hook'.phase = "on" PROVE Listening'
        OBVIOUS
      <3>1. reachable /\ remote # NoCopy /\ mark # user
        BY <1>2, <1>6
      <3>2. layout = [main |-> remote.main, mobile |-> IF remote.mobile = {None} THEN local.mobile ELSE remote.mobile]
        BY <3>1 DEF TakenOver
      <3>3. local'.main = server[user].main /\ (server[user].mobile = {None} \/ local'.mobile = server[user].mobile)
        <4> HIDE DEF remote, layout
        <4> QED BY <1>2, <1>3, <3>1, <3>2
      <3>4. Agrees(server[user])'
        BY <1>2, <3>3 DEF Agrees
      <3> QED BY <1>4, <1>6, <3>4 DEF Listening, OwnPuts, Flushed, Agreed
    <2>3. hook'.phase # "asking"
      BY <1>2
    <2> QED BY <2>1, <2>2, <2>3 DEF KeepInv
  <1>7. CASE puts # <<>>
    <2>1. PICK k \in {"first", "unsynced"} : /\ puts = <<Sent(k, hook.no, cookie, layout)>> /\ reachable
                                             /\ k = "first" => server[user] = NoCopy
                                             /\ k = "unsynced" => mark = user
      BY <1>1, <1>2, <1>3, <1>7
    <2> DEFINE x == Sent(k, hook.no, cookie, layout)
    <2>2. x.kind = k /\ x.of = hook.no /\ x.as = cookie /\ x.data = local' /\ x.at = "sent"
      BY <1>2 DEF Sent
    <2>3. net' = <<x>>
      BY <1>4, <2>1
    <2> HIDE DEF x, puts, layout
    <2>4. DOMAIN net' = {1} /\ net'[1] = x /\ Len(net') = 1 /\ net' # <<>>
      BY <2>3
    <2>5. Ordered(net')
      BY <2>4 DEF Ordered
    <2>6. OwnPuts'
      BY <1>2, <1>5, <2>1, <2>2, <2>4 DEF OwnPuts
    <2>7. Flushed'
      BY <1>2, <2>1, <2>2, <2>4 DEF Flushed, Final, Agreed
    <2>8. hook'.phase = "on"
      BY <1>2, <2>1
    <2> QED BY <2>5, <2>6, <2>7, <2>8 DEF KeepInv, Listening
  <1> QED BY <1>6, <1>7

LEMMA StepKeep == ASSUME OwnInv, KeepInv, [Next]_vars
                  PROVE  KeepInv'
  <1>1. CASE UNCHANGED vars
    BY <1>1, KeepSame DEF vars
  <1>2. CASE Unmount \/ Logout
    <2>1. cookie \in Users \cup {None} /\ None \in Users \cup {None}
      BY TypeParts DEF OwnInv
    <2>2. CASE Unmount
      BY <2>1, <2>2, KeepCleanUp DEF Unmount
    <2>3. CASE Logout
      <3>1. cookie' \in {None, cookie} /\ CleansUp(dirty, cookie') /\ overtaken' = overtaken
        BY <2>3 DEF Logout
      <3> QED BY <2>1, <3>1, KeepCleanUp
    <2> QED BY <1>2, <2>2, <2>3
  <1>3. CASE Expire
    BY <1>3, KeepSame DEF Expire
  <1> QED BY <1>1, <1>2, <1>3, KeepMount, KeepPush, KeepReload, KeepEdit, KeepLogin, KeepHandle, KeepLose,
             KeepAnswers, KeepGet DEF Next

\* What the desktop shows and the server lacks is remembered, as long as nothing overtakes: the flag
\* is up, the mark names the account, or a request with just this layout is on its way or has failed
\* unheard. While an effect listens with its flag down, the last request it sent has what the store
\* has, and it is the last one the server handles.
THEOREM Remembers == Spec => []NothingForgotten
  <1>1. Init => KeepInv
    BY DEF Init, KeepInv, Ordered
  <1>2. OwnInv /\ KeepInv /\ [Next]_vars => (OwnInv /\ KeepInv)'
    BY StepOwn, StepKeep
  <1>3. OwnInv /\ KeepInv => NothingForgotten
    <2> SUFFICES ASSUME OwnInv, KeepInv, ~overtaken, hook.phase = "on", server[user] # NoCopy, ~Agrees(server[user]),
                        ~dirty[hook.no], mark # user
                 PROVE  \E i \in DOMAIN net : net[i].kind # "get" /\ net[i].at # "done" /\ net[i].data = local
      BY DEF NothingForgotten, Remembered
    <2>1. OwnPuts /\ Flushed /\ ~Agreed
      BY DEF KeepInv, Listening, Agreed
    <2>2. net # <<>> /\ Final.data = local /\ Final.at # "done"
      BY <2>1 DEF Flushed
    <2>3. Len(net) \in DOMAIN net
      BY <2>2, NetFacts
    <2> QED BY <2>1, <2>2, <2>3 DEF OwnPuts, Final
  <1> QED BY <1>1, <1>2, <1>3, InitOwn, PTL DEF Spec
=============================================================================
