------------------------ MODULE TerminalScreenProofs ------------------------
(***************************************************************************)
(* What the screen of a terminal shows, for any number of shells,          *)
(* websockets, chunks of output and faults, and any limits. A chunk of a   *)
(* shell is in one place at a time: the buffer of its session, the hands   *)
(* of an Attach, a message on a websocket, or the screen.                  *)
(***************************************************************************)
EXTENDS TerminalSessionProofs

-----------------------------------------------------------------------------
(* The places a chunk may be in *)

Buffer(s) == <<"buffer", s, 0>>
Carry(c) == <<"carry", c, 0>>
Down(c, i) == <<"down", c, i>>   \* the i-th message on its way to the browser
Shown == <<"shown", 0, 0>>
Nth == Nat \ {0}
Spots == {Buffer(s) : s \in Sessions} \cup {Carry(c) : c \in Conns} \cup {Down(c, i) : c \in Conns, i \in Nth} \cup {Shown}

\* the names are all different
LEMMA SpotNames == /\ \A s, r : Buffer(s) = Buffer(r) => s = r
                   /\ \A c, d : Carry(c) = Carry(d) => c = d
                   /\ \A c, d, i, j : Down(c, i) = Down(d, j) => c = d /\ i = j
                   /\ \A s, c, i : /\ Buffer(s) # Carry(c) /\ Buffer(s) # Down(c, i) /\ Buffer(s) # Shown
                                   /\ Carry(s) # Down(c, i) /\ Carry(c) # Shown /\ Down(c, i) # Shown
  BY DEF Buffer, Carry, Down, Shown

LEMMA SpotKinds == /\ \A s \in Sessions : Buffer(s) \in Spots
                   /\ \A c \in Conns : Carry(c) \in Spots /\ \A i \in Nth : Down(c, i) \in Spots
                   /\ Shown \in Spots
                   /\ \A p \in Spots : \/ \E s \in Sessions : p = Buffer(s)
                                       \/ \E c \in Conns : p = Carry(c) \/ \E i \in Nth : p = Down(c, i)
                                       \/ p = Shown
  BY DEF Spots

\* L: what is in each place; F: the session it came from; S: the sessions
Apart(L, F) == \A p, q \in Spots : \A j \in DOMAIN L[p], k \in DOMAIN L[q] : (F[p] = F[q] /\ L[p][j] = L[q][k]) => (p = q /\ j = k)
\* what a session has not made yet is nowhere
Known(L, F, S) == \A p \in Spots : \A j \in DOMAIN L[p] :
                    F[p] \in Sessions /\ (S[F[p]].state = "gone" \/ L[p][j] \in 1..S[F[p]].made)
Chunks(L, F, S) == Apart(L, F) /\ Known(L, F, S)

\* a session makes more, or is gone for good
Grows(S, T) == \A s \in Sessions : T[s].state = "gone" \/ (S[s].state # "gone" /\ 1..S[s].made \subseteq 1..T[s].made)

\* r is a piece of q
Window(r, q) == \E a \in Nat : \A k \in DOMAIN r : k + a \in DOMAIN q /\ r[k] = q[k + a]

\* places keep a piece of what they had, or are emptied
LEMMA LoadShrinks == ASSUME NEW L, NEW F, NEW S, Chunks(L, F, S), NEW M, NEW G, NEW T, Grows(S, T),
                            \A p \in Spots : M[p] = <<>> \/ (G[p] = F[p] /\ Window(M[p], L[p])),
                            \A p \in Spots : DOMAIN M[p] \subseteq Nat
                     PROVE  Chunks(M, G, T)
  <1>1. \A p \in Spots : \A j \in DOMAIN M[p] : G[p] = F[p] /\ Window(M[p], L[p])
    OBVIOUS
  <1>2. Apart(M, G)
    <2> SUFFICES ASSUME NEW p \in Spots, NEW q \in Spots, NEW j \in DOMAIN M[p], NEW k \in DOMAIN M[q],
                        G[p] = G[q], M[p][j] = M[q][k]
                 PROVE  p = q /\ j = k
      BY DEF Apart
    <2>1. PICK a \in Nat : \A i \in DOMAIN M[p] : i + a \in DOMAIN L[p] /\ M[p][i] = L[p][i + a]
      BY <1>1 DEF Window
    <2>2. PICK b \in Nat : \A i \in DOMAIN M[q] : i + b \in DOMAIN L[q] /\ M[q][i] = L[q][i + b]
      BY <1>1 DEF Window
    <2>3. p = q /\ j + a = k + b
      BY <1>1, <2>1, <2>2 DEF Chunks, Apart
    \* both places are one: the two windows are the same one, or hold no chunk in common
    <2>4. k + a \in DOMAIN L[p] /\ M[p][k] = L[p][k + a]
      BY <2>1, <2>3
    <2>5. M[p][j] = L[p][k + a]
      BY <2>3, <2>4
    <2>6. j + a = k + a
      BY <2>1, <2>4, <2>5 DEF Chunks, Apart
    <2> QED BY <2>3, <2>6
  <1>3. Known(M, G, T)
    <2> SUFFICES ASSUME NEW p \in Spots, NEW j \in DOMAIN M[p]
                 PROVE  G[p] \in Sessions /\ (T[G[p]].state = "gone" \/ M[p][j] \in 1..T[G[p]].made)
      BY DEF Known
    <2>1. PICK a \in Nat : j + a \in DOMAIN L[p] /\ M[p][j] = L[p][j + a]
      BY <1>1 DEF Window
    <2>2. F[p] \in Sessions /\ (S[F[p]].state = "gone" \/ M[p][j] \in 1..S[F[p]].made)
      BY <2>1 DEF Chunks, Known
    <2> QED BY <1>1, <2>2 DEF Grows
  <1> QED BY <1>2, <1>3 DEF Chunks

\* what is in place p goes to the end of place q
LEMMA LoadMoves == ASSUME NEW L \in [Spots -> Seq(Nat)], NEW F, NEW S, Chunks(L, F, S),
                          NEW p \in Spots, NEW q \in Spots, p # q, F[p] = F[q]
                   PROVE  Chunks([L EXCEPT ![q] = L[q] \o L[p], ![p] = <<>>], F, S)
  <1> DEFINE M == [L EXCEPT ![q] = L[q] \o L[p], ![p] = <<>>]
  <1>1. M[p] = <<>> /\ M[q] = L[q] \o L[p] /\ \A r \in Spots \ {p, q} : M[r] = L[r]
    OBVIOUS
  <1>2. /\ Len(L[p]) \in Nat /\ Len(L[q]) \in Nat /\ DOMAIN L[p] = 1..Len(L[p]) /\ DOMAIN L[q] = 1..Len(L[q])
        /\ DOMAIN (L[q] \o L[p]) = 1..(Len(L[q]) + Len(L[p]))
        /\ \A k \in 1..(Len(L[q]) + Len(L[p])) : (L[q] \o L[p])[k] = IF k <= Len(L[q]) THEN L[q][k] ELSE L[p][k - Len(L[q])]
    BY ConcatProperties, LenProperties
  \* where each chunk came from
  <1> DEFINE Spot(r, k) == IF r = q /\ k > Len(L[q]) THEN p ELSE r
             At(r, k) == IF r = q /\ k > Len(L[q]) THEN k - Len(L[q]) ELSE k
  <1>3. \A r \in Spots : \A k \in DOMAIN M[r] :
          /\ Spot(r, k) \in Spots /\ F[Spot(r, k)] = F[r] /\ At(r, k) \in DOMAIN L[Spot(r, k)] /\ M[r][k] = L[Spot(r, k)][At(r, k)]
          /\ r # p
    <2> SUFFICES ASSUME NEW r \in Spots, NEW k \in DOMAIN M[r]
                 PROVE  /\ Spot(r, k) \in Spots /\ F[Spot(r, k)] = F[r] /\ At(r, k) \in DOMAIN L[Spot(r, k)]
                        /\ M[r][k] = L[Spot(r, k)][At(r, k)] /\ r # p
      OBVIOUS
    <2>1. r # p
      BY <1>1
    <2>2. CASE r # q
      BY <1>1, <2>1, <2>2
    <2>3. CASE r = q
      <3>1. k \in 1..(Len(L[q]) + Len(L[p])) /\ M[r][k] = IF k <= Len(L[q]) THEN L[q][k] ELSE L[p][k - Len(L[q])]
        BY <1>1, <1>2, <2>3
      <3>2. CASE k <= Len(L[q])
        BY <1>2, <2>1, <2>3, <3>1, <3>2
      <3>3. CASE k > Len(L[q])
        <4>1. k - Len(L[q]) \in 1..Len(L[p]) /\ ~(k <= Len(L[q]))
          BY <1>2, <3>1, <3>3
        <4> QED BY <1>2, <2>1, <2>3, <3>1, <3>3, <4>1
      <3> QED BY <1>2, <3>1, <3>2, <3>3
    <2> QED BY <2>2, <2>3
  <1>4. \A r, t \in Spots : \A j \in DOMAIN M[r], k \in DOMAIN M[t] : (Spot(r, j) = Spot(t, k) /\ At(r, j) = At(t, k)) => (r = t /\ j = k)
    <2> SUFFICES ASSUME NEW r \in Spots, NEW t \in Spots, NEW j \in DOMAIN M[r], NEW k \in DOMAIN M[t],
                        Spot(r, j) = Spot(t, k), At(r, j) = At(t, k)
                 PROVE  r = t /\ j = k
      OBVIOUS
    <2>1. r # p /\ t # p
      BY <1>3
    <2>2. (r = q => j \in Nat) /\ (t = q => k \in Nat)
      BY <1>1, <1>2
    <2> QED BY <1>2, <2>1, <2>2
  <1> HIDE DEF M, Spot, At
  <1>5. Apart(M, F)
    <2> SUFFICES ASSUME NEW r \in Spots, NEW t \in Spots, NEW j \in DOMAIN M[r], NEW k \in DOMAIN M[t], F[r] = F[t], M[r][j] = M[t][k]
                 PROVE  r = t /\ j = k
      BY DEF Apart
    <2>1. Spot(r, j) = Spot(t, k) /\ At(r, j) = At(t, k)
      BY <1>3 DEF Chunks, Apart
    <2> QED BY <1>4, <2>1
  <1>6. Known(M, F, S)
    <2> SUFFICES ASSUME NEW r \in Spots, NEW k \in DOMAIN M[r]
                 PROVE  F[r] \in Sessions /\ (S[F[r]].state = "gone" \/ M[r][k] \in 1..S[F[r]].made)
      BY DEF Known
    <2>1. PICK t \in Spots : \E j \in DOMAIN L[t] : F[t] = F[r] /\ M[r][k] = L[t][j]
      BY <1>3
    <2> QED BY <2>1 DEF Chunks, Known
  <1> QED BY <1>5, <1>6 DEF Chunks, M

\* a session makes its next chunk, at the end of a place of it
LEMMA LoadAdds == ASSUME NEW L \in [Spots -> Seq(Nat)], NEW F, NEW S, Chunks(L, F, S), NEW T, Grows(S, T),
                         NEW q \in Spots, F[q] \in Sessions, S[F[q]].state # "gone", S[F[q]].made \in Nat,
                         T[F[q]].made = S[F[q]].made + 1
                  PROVE  Chunks([L EXCEPT ![q] = Append(L[q], S[F[q]].made + 1)], F, T)
  <1> DEFINE n == S[F[q]].made + 1
             M == [L EXCEPT ![q] = Append(L[q], n)]
  <1>1. M[q] = Append(L[q], n) /\ \A r \in Spots \ {q} : M[r] = L[r]
    OBVIOUS
  <1>2. /\ Len(L[q]) \in Nat /\ DOMAIN L[q] = 1..Len(L[q]) /\ DOMAIN M[q] = 1..(Len(L[q]) + 1)
        /\ M[q][Len(L[q]) + 1] = n /\ \A k \in 1..Len(L[q]) : M[q][k] = L[q][k]
    <2>1. L[q] \in Seq(Nat) /\ n \in Nat
      OBVIOUS
    <2>2. /\ Append(L[q], n) \in Seq(Nat) /\ Len(Append(L[q], n)) = Len(L[q]) + 1 /\ \A k \in 1..Len(L[q]) : Append(L[q], n)[k] = L[q][k]
          /\ Append(L[q], n)[Len(L[q]) + 1] = n
      BY <2>1, AppendProperties
    <2> QED BY <1>1, <2>1, <2>2, LenProperties
  <1>3. \A r \in Spots : \A k \in DOMAIN M[r] : \/ (k \in DOMAIN L[r] /\ M[r][k] = L[r][k])
                                               \/ (r = q /\ k = Len(L[q]) + 1 /\ M[r][k] = n)
    BY <1>1, <1>2
  <1>4. \A r \in Spots : \A k \in DOMAIN L[r] : F[r] = F[q] => L[r][k] # n
    <2>1. ASSUME NEW r \in Spots, NEW k \in DOMAIN L[r], F[r] = F[q] PROVE L[r][k] # n
      <3>1. L[r][k] \in 1..S[F[q]].made
        BY <2>1 DEF Chunks, Known
      <3> QED BY <3>1
    <2> QED BY <2>1
  <1> HIDE DEF M
  <1>5. Apart(M, F)
    <2> SUFFICES ASSUME NEW r \in Spots, NEW t \in Spots, NEW j \in DOMAIN M[r], NEW k \in DOMAIN M[t], F[r] = F[t], M[r][j] = M[t][k]
                 PROVE  r = t /\ j = k
      BY DEF Apart
    <2>1. CASE j \in DOMAIN L[r] /\ M[r][j] = L[r][j] /\ k \in DOMAIN L[t] /\ M[t][k] = L[t][k]
      <3>1. Apart(L, F)
        BY DEF Chunks
      <3>2. j \in DOMAIN L[r] /\ k \in DOMAIN L[t] /\ L[r][j] = L[t][k]
        BY <2>1
      <3> QED BY <3>1, <3>2 DEF Apart
    <2>2. CASE r = q /\ j = Len(L[q]) + 1 /\ M[r][j] = n
      BY <1>3, <1>4, <2>2
    <2>3. CASE t = q /\ k = Len(L[q]) + 1 /\ M[t][k] = n
      BY <1>3, <1>4, <2>3
    <2>4. (j \in DOMAIN L[r] /\ M[r][j] = L[r][j]) \/ (r = q /\ j = Len(L[q]) + 1 /\ M[r][j] = n)
      BY <1>3
    <2>5. (k \in DOMAIN L[t] /\ M[t][k] = L[t][k]) \/ (t = q /\ k = Len(L[q]) + 1 /\ M[t][k] = n)
      BY <1>3
    <2> QED BY <2>1, <2>2, <2>3, <2>4, <2>5
  <1>6. Known(M, F, T)
    <2> SUFFICES ASSUME NEW r \in Spots, NEW k \in DOMAIN M[r]
                 PROVE  F[r] \in Sessions /\ (T[F[r]].state = "gone" \/ M[r][k] \in 1..T[F[r]].made)
      BY DEF Known
    <2>1. CASE k \in DOMAIN L[r] /\ M[r][k] = L[r][k]
      BY <2>1 DEF Chunks, Known, Grows
    <2>2. CASE r = q /\ M[r][k] = n
      BY <2>2
    <2> QED BY <1>3, <2>1, <2>2
  <1> QED BY <1>5, <1>6 DEF Chunks, M

\* the first message of a websocket leaves, the others move up
LEMMA LoadShifts == ASSUME NEW L, NEW F, NEW S, Chunks(L, F, S), NEW c \in Conns, NEW M,
                           \A i \in Nth : M[Down(c, i)] = L[Down(c, i + 1)] /\ F[Down(c, i)] = F[Down(c, 1)],
                           \A p \in Spots : (\A i \in Nth : p # Down(c, i)) => M[p] = L[p]
                    PROVE  Chunks(M, F, S)
  <1> DEFINE Is(p) == \E i \in Nth : p = Down(c, i)
  <1>1. \A i \in Nth : Down(c, i) \in Spots /\ Down(c, i + 1) \in Spots /\ i + 1 \in Nth
    BY SpotKinds DEF Nth
  \* where each place had its chunks before
  <1>2. \A p \in Spots : \E r \in Spots : /\ M[p] = L[r] /\ F[p] = F[r]
                                          /\ \/ p = r /\ ~Is(p)
                                             \/ \E i \in Nth : p = Down(c, i) /\ r = Down(c, i + 1)
    <2> TAKE p \in Spots
    <2>1. CASE Is(p)
      <3>1. PICK i \in Nth : p = Down(c, i)
        BY <2>1
      <3>2. Down(c, i + 1) \in Spots /\ M[p] = L[Down(c, i + 1)] /\ F[p] = F[Down(c, i + 1)]
        BY <1>1, <3>1, Zenon
      <3> QED BY <3>1, <3>2, Zenon
    <2>2. CASE ~Is(p)
      BY <2>2
    <2> QED BY <2>1, <2>2
  <1>3. Apart(M, F)
    <2> SUFFICES ASSUME NEW p \in Spots, NEW q \in Spots, NEW j \in DOMAIN M[p], NEW k \in DOMAIN M[q], F[p] = F[q], M[p][j] = M[q][k]
                 PROVE  p = q /\ j = k
      BY DEF Apart
    <2>1. PICK r \in Spots : /\ M[p] = L[r] /\ F[p] = F[r]
                             /\ (p = r /\ ~Is(p)) \/ \E i \in Nth : p = Down(c, i) /\ r = Down(c, i + 1)
      BY <1>2
    <2>2. PICK t \in Spots : /\ M[q] = L[t] /\ F[q] = F[t]
                             /\ (q = t /\ ~Is(q)) \/ \E i \in Nth : q = Down(c, i) /\ t = Down(c, i + 1)
      BY <1>2
    <2>3. r = t /\ j = k
      <3>1. j \in DOMAIN L[r] /\ k \in DOMAIN L[t] /\ L[r][j] = L[t][k] /\ F[r] = F[t]
        BY <2>1, <2>2
      <3>2. Apart(L, F)
        BY DEF Chunks
      <3> QED BY <3>1, <3>2 DEF Apart
    <2>4. p = q
      <3>1. CASE p = r /\ ~Is(p)
        BY <1>1, <2>2, <2>3, <3>1
      <3>2. ASSUME NEW i \in Nth, p = Down(c, i), r = Down(c, i + 1) PROVE p = q
        <4>1. i + 1 \in Nth
          BY <1>1
        <4>2. PICK m \in Nth : q = Down(c, m) /\ t = Down(c, m + 1)
          BY <2>2, <2>3, <3>2, <4>1
        <4>3. i + 1 = m + 1
          <5>1. Down(c, i + 1) = Down(c, m + 1)
            BY <2>3, <3>2, <4>2
          <5>2. \A x, y : Down(c, x) = Down(c, y) => x = y
            BY SpotNames
          <5> QED BY <5>1, <5>2
        <4> QED BY <3>2, <4>2, <4>3 DEF Nth
      <3> QED BY <2>1, <3>1, <3>2
    <2> QED BY <2>3, <2>4
  <1>4. Known(M, F, S)
    <2> SUFFICES ASSUME NEW p \in Spots, NEW j \in DOMAIN M[p]
                 PROVE  F[p] \in Sessions /\ (S[F[p]].state = "gone" \/ M[p][j] \in 1..S[F[p]].made)
      BY DEF Known
    <2>1. PICK r \in Spots : M[p] = L[r] /\ F[p] = F[r]
      BY <1>2
    <2> QED BY <2>1 DEF Chunks, Known
  <1> QED BY <1>3, <1>4 DEF Chunks

-----------------------------------------------------------------------------
(* What is where *)

\* ses, con, scr and epoch stand for session, conn, screen and the epoch of the hook, before or after a step
Data(con, c, i) == IF i \in DOMAIN con[c].down THEN con[c].down[i].data ELSE <<>>
LoadOf(ses, con, scr) == [p \in Spots |-> CASE p[1] = "buffer" -> ses[p[2]].buf
                                            [] p[1] = "carry" -> con[p[2]].carry
                                            [] p[1] = "down" -> Data(con, p[2], p[3])
                                            [] OTHER -> [k \in DOMAIN scr |-> scr[k][2]]]
FromOf(con, epoch) == [p \in Spots |-> CASE p[1] = "buffer" -> p[2]
                                         [] p[1] = "carry" \/ p[1] = "down" -> con[p[2]].to
                                         [] OTHER -> epoch]
Load == LoadOf(session, conn, screen)
From == FromOf(conn, hook.epoch)

\* the callbacks of a session are those of a connection of its own that is being attached or served
OnServes == \A s \in Sessions :
  session[s].on # None => /\ InMap(s) /\ session[s].gen = session[s].on
                          /\ conn[session[s].on].to = s /\ conn[session[s].on].at \in {"taken", "serving"}
OneShell == \A j \in DOMAIN screen : screen[j][1] = hook.epoch
ScreenInv == OnServes /\ OneShell /\ Chunks(Load, From, session)

LEMMA LoadFacts == ASSUME NEW ses, NEW con, NEW scr
                   PROVE  /\ \A s \in Sessions : LoadOf(ses, con, scr)[Buffer(s)] = ses[s].buf
                          /\ \A c \in Conns : LoadOf(ses, con, scr)[Carry(c)] = con[c].carry
                          /\ \A c \in Conns, i \in Nth : LoadOf(ses, con, scr)[Down(c, i)] = Data(con, c, i)
                          /\ LoadOf(ses, con, scr)[Shown] = [k \in DOMAIN scr |-> scr[k][2]]
  <1>1. \A s \in Sessions : Buffer(s) \in Spots /\ Buffer(s)[1] = "buffer" /\ Buffer(s)[2] = s
    BY SpotKinds DEF Buffer
  <1>2. \A c \in Conns : Carry(c) \in Spots /\ Carry(c)[1] = "carry" /\ Carry(c)[2] = c
    BY SpotKinds DEF Carry
  <1>3. \A c \in Conns, i \in Nth : Down(c, i) \in Spots /\ Down(c, i)[1] = "down" /\ Down(c, i)[2] = c /\ Down(c, i)[3] = i
    BY SpotKinds DEF Down
  <1>4. Shown \in Spots /\ Shown[1] = "shown"
    BY SpotKinds DEF Shown
  <1> QED BY <1>1, <1>2, <1>3, <1>4 DEF LoadOf

LEMMA FromFacts == ASSUME NEW con, NEW epoch
                   PROVE  /\ \A s \in Sessions : FromOf(con, epoch)[Buffer(s)] = s
                          /\ \A c \in Conns : FromOf(con, epoch)[Carry(c)] = con[c].to
                          /\ \A c \in Conns, i \in Nth : FromOf(con, epoch)[Down(c, i)] = con[c].to
                          /\ FromOf(con, epoch)[Shown] = epoch
  <1>1. \A s \in Sessions : Buffer(s) \in Spots /\ Buffer(s)[1] = "buffer" /\ Buffer(s)[2] = s
    BY SpotKinds DEF Buffer
  <1>2. \A c \in Conns : Carry(c) \in Spots /\ Carry(c)[1] = "carry" /\ Carry(c)[2] = c
    BY SpotKinds DEF Carry
  <1>3. \A c \in Conns, i \in Nth : Down(c, i) \in Spots /\ Down(c, i)[1] = "down" /\ Down(c, i)[2] = c
    BY SpotKinds DEF Down
  <1>4. Shown \in Spots /\ Shown[1] = "shown"
    BY SpotKinds DEF Shown
  <1> QED BY <1>1, <1>2, <1>3, <1>4 DEF FromOf

LEMMA LoadType == ASSUME NEW ses \in [Sessions -> Session], NEW con \in [Conns -> Conn],
                         NEW scr \in Seq(Sessions \X (1..MaxOutput))
                  PROVE  LoadOf(ses, con, scr) \in [Spots -> Seq(Nat)]
  <1>1. Seq(1..MaxOutput) \subseteq Seq(Nat)
    <2>1. 1..MaxOutput \subseteq Nat
      BY TerminalAssumption
    <2> QED BY <2>1, SeqMonotonic
  <1>2. \A s \in Sessions : ses[s].buf \in Seq(Nat)
    BY <1>1 DEF Session
  <1>3. \A c \in Conns : con[c].carry \in Seq(Nat)
    BY <1>1 DEF Conn
  <1>4. \A c \in Conns : \A i \in Nth : Data(con, c, i) \in Seq(Nat)
    <2> SUFFICES ASSUME NEW c \in Conns, NEW i \in Nth, i \in DOMAIN con[c].down PROVE con[c].down[i].data \in Seq(Nat)
      <3>1. <<>> \in Seq(Nat)
        OBVIOUS
      <3> QED BY <3>1 DEF Data
    <2>1. con[c].down \in Seq(Message)
      BY DEF Conn
    <2>2. con[c].down[i] \in Message
      BY <2>1, ElementOfSeq, LenProperties
    <2>3. con[c].down[i].data \in Seq(1..MaxOutput)
      <3>1. <<>> \in Seq(1..MaxOutput)
        OBVIOUS
      <3> QED BY <2>2, <3>1 DEF Message
    <2> QED BY <1>1, <2>3
  <1>5. [k \in DOMAIN scr |-> scr[k][2]] \in Seq(Nat)
    <2>1. Len(scr) \in Nat /\ DOMAIN scr = 1..Len(scr) /\ \A k \in 1..Len(scr) : scr[k] \in Sessions \X (1..MaxOutput)
      BY LenProperties, ElementOfSeq
    <2>2. \A k \in 1..Len(scr) : scr[k][2] \in Nat
      BY <2>1, TerminalAssumption
    <2> QED BY <2>1, <2>2, IsASeq
  <1> DEFINE L == LoadOf(ses, con, scr)
  <1>6. /\ \A s \in Sessions : L[Buffer(s)] = ses[s].buf
        /\ \A c \in Conns : L[Carry(c)] = con[c].carry
        /\ \A c \in Conns, i \in Nth : L[Down(c, i)] = Data(con, c, i)
        /\ L[Shown] = [k \in DOMAIN scr |-> scr[k][2]]
    BY LoadFacts
  <1>8. L = [p \in Spots |-> L[p]]
    BY DEF LoadOf
  <1> HIDE DEF L
  <1>7. \A p \in Spots : L[p] \in Seq(Nat)
    <2> SUFFICES ASSUME NEW p \in Spots PROVE L[p] \in Seq(Nat)
      OBVIOUS
    <2>1. CASE \E s \in Sessions : p = Buffer(s)
      BY <1>2, <1>6, <2>1
    <2>2. CASE \E c \in Conns : p = Carry(c)
      BY <1>3, <1>6, <2>2
    <2>3. CASE \E c \in Conns : \E i \in Nth : p = Down(c, i)
      BY <1>4, <1>6, <2>3
    <2>4. CASE p = Shown
      BY <1>5, <1>6, <2>4
    <2> QED BY <2>1, <2>2, <2>3, <2>4, SpotKinds
  <1> QED BY <1>7, <1>8 DEF L

LEMMA LoadTyped == ASSUME TypeOK PROVE Load \in [Spots -> Seq(Nat)]
  BY LoadType DEF Load, TypeOK

LEMMA LoadWillType == ASSUME TypeOK' PROVE Load' \in [Spots -> Seq(Nat)]
  BY LoadType DEF Load, TypeOK

LEMMA LoadIs == /\ \A s \in Sessions : Load[Buffer(s)] = session[s].buf
                /\ \A c \in Conns : Load[Carry(c)] = conn[c].carry
                /\ \A c \in Conns, i \in Nth : Load[Down(c, i)] = Data(conn, c, i)
                /\ Load[Shown] = [k \in DOMAIN screen |-> screen[k][2]]
                /\ \A s \in Sessions : From[Buffer(s)] = s
                /\ \A c \in Conns : From[Carry(c)] = conn[c].to
                /\ \A c \in Conns, i \in Nth : From[Down(c, i)] = conn[c].to
                /\ From[Shown] = hook.epoch
  BY LoadFacts, FromFacts DEF Load, From

LEMMA LoadWillBe == /\ \A s \in Sessions : Load'[Buffer(s)] = session'[s].buf
                    /\ \A c \in Conns : Load'[Carry(c)] = conn'[c].carry
                    /\ \A c \in Conns, i \in Nth : Load'[Down(c, i)] = Data(conn', c, i)
                    /\ Load'[Shown] = [k \in DOMAIN screen' |-> screen'[k][2]]
                    /\ \A s \in Sessions : From'[Buffer(s)] = s
                    /\ \A c \in Conns : From'[Carry(c)] = conn'[c].to
                    /\ \A c \in Conns, i \in Nth : From'[Down(c, i)] = conn'[c].to
                    /\ From'[Shown] = hook'.epoch
  BY LoadFacts, FromFacts DEF Load, From

\* a session keeps its callbacks, and they their connection, or they are taken away
Calls(s) == \/ session'[s].on = None
            \/ /\ session'[s].on = session[s].on /\ session'[s].gen = session[s].gen /\ (InMap(s) => InMap(s)')
               /\ conn'[session[s].on].to = conn[session[s].on].to /\ conn'[session[s].on].at \in {"taken", "serving"}

\* a session that at most stops, or lets go of its output or its callbacks
Milder(s) == /\ session'[s].buf = session[s].buf \/ session'[s].buf = <<>>
             /\ session'[s].state = "gone" \/ (session[s].state # "gone" /\ session'[s].made = session[s].made)
             /\ Calls(s)

\* w is the websocket v with no more output on its way
Lighter(v, w) == /\ w.carry = <<>> \/ (w.carry = v.carry /\ w.to = v.to)
                 /\ \A i \in DOMAIN w.down :
                      \/ w.down[i].data = <<>>
                      \/ i \in DOMAIN v.down /\ w.down[i].data = v.down[i].data /\ w.to = v.to

LEMMA OnCalm == ASSUME OnServes, \A s \in Sessions : Calls(s) PROVE OnServes'
  BY DEF OnServes, Calls

LEMMA Same == ASSUME NEW q \in Seq(Nat) PROVE Window(q, q) /\ DOMAIN q \subseteq Nat
  <1>1. DOMAIN q \subseteq Nat
    BY LenProperties
  <1>2. 0 \in Nat /\ \A k \in DOMAIN q : k + 0 \in DOMAIN q /\ q[k] = q[k + 0]
    BY <1>1
  <1> QED BY <1>1, <1>2 DEF Window

\* nothing but removals, wherever they are
LEMMA CalmStep == ASSUME TypeOK, TypeOK', ScreenInv, \A s \in Sessions : Milder(s), \A c \in Conns : Lighter(conn[c], conn'[c]),
                         screen' = <<>> \/ (screen' = screen /\ hook'.epoch = hook.epoch)
                  PROVE  ScreenInv'
  <1>1. OnServes'
    BY OnCalm DEF ScreenInv, Milder
  <1>2. OneShell'
    BY DEF ScreenInv, OneShell
  <1>3. /\ Load \in [Spots -> Seq(Nat)] /\ Load' \in [Spots -> Seq(Nat)]
    BY LoadTyped, LoadWillType
  <1>4. Grows(session, session')
    BY DEF Milder, Grows
  <1>5. \A p \in Spots : Load'[p] = <<>> \/ (From'[p] = From[p] /\ Load'[p] = Load[p])
    <2> SUFFICES ASSUME NEW p \in Spots PROVE Load'[p] = <<>> \/ (From'[p] = From[p] /\ Load'[p] = Load[p])
      OBVIOUS
    <2>1. ASSUME NEW s \in Sessions, p = Buffer(s) PROVE Load'[p] = <<>> \/ (From'[p] = From[p] /\ Load'[p] = Load[p])
      BY <2>1, LoadIs, LoadWillBe DEF Milder
    <2>2. ASSUME NEW c \in Conns, p = Carry(c) PROVE Load'[p] = <<>> \/ (From'[p] = From[p] /\ Load'[p] = Load[p])
      BY <2>2, LoadIs, LoadWillBe DEF Lighter
    <2>3. ASSUME NEW c \in Conns, NEW i \in Nth, p = Down(c, i)
          PROVE  Load'[p] = <<>> \/ (From'[p] = From[p] /\ Load'[p] = Load[p])
      <3>1. Load[p] = Data(conn, c, i) /\ Load'[p] = Data(conn', c, i) /\ From[p] = conn[c].to /\ From'[p] = conn'[c].to
        BY <2>3, LoadIs, LoadWillBe
      <3> QED BY <3>1 DEF Data, Lighter
    <2>4. CASE p = Shown
      <3>1. /\ Load[p] = [k \in DOMAIN screen |-> screen[k][2]] /\ Load'[p] = [k \in DOMAIN screen' |-> screen'[k][2]]
            /\ From[p] = hook.epoch /\ From'[p] = hook'.epoch
        BY <2>4, LoadIs, LoadWillBe
      <3>2. CASE screen' = screen /\ hook'.epoch = hook.epoch
        BY <3>1, <3>2
      <3>3. CASE screen' = <<>>
        <4>1. Load'[p] \in Seq(Nat) /\ DOMAIN Load'[p] = {}
          BY <1>3, <3>1, <3>3
        <4>2. \A q \in Seq(Nat) : DOMAIN q = {} => q = <<>>
          <5> SUFFICES ASSUME NEW q \in Seq(Nat), DOMAIN q = {} PROVE q = <<>>
            OBVIOUS
          <5>1. Len(q) \in Nat /\ DOMAIN q = 1..Len(q)
            BY LenProperties
          <5>2. Len(q) = 0
            BY <5>1
          <5> QED BY <5>2, EmptySeq
        <4> QED BY <4>1, <4>2
      <3> QED BY <3>2, <3>3
    <2> QED BY <2>1, <2>2, <2>3, <2>4, SpotKinds
  <1>6. Chunks(Load', From', session')
    <2>1. \A p \in Spots : Load'[p] = <<>> \/ (From'[p] = From[p] /\ Window(Load'[p], Load[p]))
      BY <1>3, <1>5, Same
    <2>2. \A p \in Spots : DOMAIN Load'[p] \subseteq Nat
      BY <1>3, Same
    <2> QED BY <1>4, <2>1, <2>2, LoadShrinks DEF ScreenInv
  <1> QED BY <1>1, <1>2, <1>6 DEF ScreenInv

-----------------------------------------------------------------------------
(* Steps that take chunks away, or leave them where they are *)

\* a websocket that is being attached or served goes on
Served(c) == conn[c].at \in {"taken", "serving"} => (conn'[c].to = conn[c].to /\ conn'[c].at \in {"taken", "serving"})

LEMMA MildSame == ASSUME TypeOK, OnServes, session' = session, \A c \in Conns : Served(c)
                  PROVE  \A s \in Sessions : Milder(s)
  <1> SUFFICES ASSUME NEW s \in Sessions PROVE Milder(s)
    OBVIOUS
  <1>1. session[s].on \in Conns \cup {None}
    BY SessionFields DEF TypeOK
  <1> QED BY <1>1 DEF Milder, Calls, OnServes, Served, InMap

LEMMA MildOne == ASSUME TypeOK, OnServes, NEW s \in Sessions, NEW v, session' = [session EXCEPT ![s] = v],
                        v.buf = session[s].buf \/ v.buf = <<>>,
                        v.state = "gone" \/ (session[s].state # "gone" /\ v.made = session[s].made),
                        \/ v.on = None
                        \/ /\ v.on = session[s].on /\ v.gen = session[s].gen
                           /\ InMap(s) => v.state \in {"live", "closed", "told"},
                        \A c \in Conns : Served(c)
                 PROVE  \A r \in Sessions : Milder(r)
  <1> SUFFICES ASSUME NEW r \in Sessions PROVE Milder(r)
    OBVIOUS
  <1>1. session[r].on \in Conns \cup {None} /\ session \in [Sessions -> Session]
    BY SessionFields DEF TypeOK
  <1>2. CASE r # s
    <2>1. session'[r] = session[r]
      BY <1>1, <1>2
    <2> QED BY <1>1, <2>1 DEF Milder, Calls, OnServes, Served, InMap
  <1>3. CASE r = s
    <2>1. session'[r] = v
      BY <1>1, <1>3
    <2> QED BY <1>1, <1>3, <2>1 DEF Milder, Calls, OnServes, Served, InMap
  <1> QED BY <1>2, <1>3

\* a message without output may be added
LEMMA LighterBy == ASSUME NEW v \in Conn, NEW w, w.to = v.to, w.carry = v.carry \/ w.carry = <<>>,
                          w.down = v.down \/ w.down = <<>> \/ \E m \in Message : m.data = <<>> /\ w.down = Append(v.down, m)
                   PROVE  Lighter(v, w)
  <1>0. v.down \in Seq(Message)
    BY DEF Conn
  <1>1. CASE w.down = v.down \/ w.down = <<>>
    BY <1>1 DEF Lighter
  <1>2. ASSUME NEW m \in Message, m.data = <<>>, w.down = Append(v.down, m) PROVE Lighter(v, w)
    <2>1. /\ Len(v.down) \in Nat /\ DOMAIN v.down = 1..Len(v.down) /\ DOMAIN w.down = 1..(Len(v.down) + 1)
          /\ w.down[Len(v.down) + 1] = m /\ \A i \in 1..Len(v.down) : w.down[i] = v.down[i]
      <3>1. w.down \in Seq(Message) /\ Len(w.down) = Len(v.down) + 1
        BY <1>0, <1>2, AppendProperties
      <3>2. DOMAIN v.down = 1..Len(v.down) /\ DOMAIN w.down = 1..Len(w.down) /\ Len(v.down) \in Nat
        BY <1>0, <3>1, LenProperties
      <3> QED BY <1>0, <1>2, <3>1, <3>2, AppendProperties
    <2> QED BY <1>2, <2>1 DEF Lighter
  <1> QED BY <1>1, <1>2

LEMMA LighterOne == ASSUME TypeOK, NEW c \in Conns, NEW w, conn' = [conn EXCEPT ![c] = w], Lighter(conn[c], w)
                    PROVE  \A d \in Conns : Lighter(conn[d], conn'[d])
  <1> SUFFICES ASSUME NEW d \in Conns PROVE Lighter(conn[d], conn'[d])
    OBVIOUS
  <1>1. CASE d = c
    BY <1>1 DEF TypeOK
  <1>2. CASE d # c
    <2>1. conn'[d] = conn[d]
      BY <1>2 DEF TypeOK
    <2> QED BY <2>1 DEF Lighter
  <1> QED BY <1>1, <1>2

\* what a message adds to a websocket
LEMMA SentLoad == ASSUME TypeOK, NEW c \in Conns, NEW m \in Message
                  PROVE  /\ Sent(c, m).carry = conn[c].carry
                         /\ Sent(c, m).down = IF Heard(c) THEN Append(conn[c].down, m) ELSE conn[c].down
  <1>1. conn[c] \in Conn
    BY DEF TypeOK
  <1> QED BY <1>1 DEF Sent, Conn

LEMMA Wordless == Closed \in Message /\ Closed.data = <<>> /\ NotFound \in Message /\ NotFound.data = <<>>
  BY MessageTypes DEF Closed, NotFound

-----------------------------------------------------------------------------
(* The agent *)

\* a step of the agent that only takes away, and leaves the handlers at work as they are
LEMMA AgentCalm == ASSUME TypeInv, TypeInv', ScreenInv, hook' = hook, screen' = screen, \A s \in Sessions : Milder(s),
                          \A c \in Conns : Lighter(conn[c], conn'[c])
                   PROVE  ScreenInv'
  BY CalmStep DEF TypeInv

LEMMA CloseSteps == ASSUME TypeInv, TypeInv', ScreenInv, NEW s \in Sessions,
                           ShellExits(s) \/ CloseTells(s) \/ CloseRemoves(s) \/ CloseAsked(s) \/ ReapFinds(s) \/ ReapCloses(s)
                    PROVE  ScreenInv'
  <1>0. TypeOK /\ session \in [Sessions -> Session] /\ conn \in [Conns -> Conn] /\ session[s] \in Session /\ OnServes
    BY SessionFields DEF TypeInv, TypeOK, ScreenInv
  <1>1. hook' = hook /\ screen' = screen
    BY Zenon DEF ShellExits, CloseTells, CloseRemoves, CloseAsked, ReapFinds, ReapCloses
  <1>2. (\A c \in Conns : conn'[c] = conn[c]) \/ CloseTells(s)
    BY DEF ShellExits, CloseRemoves, CloseAsked, ReapFinds, ReapCloses
  <1>3. \A c \in Conns : Lighter(conn[c], conn'[c]) /\ Served(c)
    <2>1. CASE \A c \in Conns : conn'[c] = conn[c]
      BY <2>1 DEF Lighter, Served
    <2>2. CASE CloseTells(s)
      <3> DEFINE c == session[s].on
      <3>1. CASE c = None
        BY <2>2, <3>1 DEF CloseTells, Lighter, Served
      <3>2. CASE c # None
        <4>1. c \in Conns /\ conn' = [conn EXCEPT ![c] = ToldClosed(c)]
          BY <1>0, <2>2, <3>2, SessionFields DEF CloseTells
        <4> HIDE DEF c
        <4>2. /\ ToldClosed(c).to = conn[c].to /\ ToldClosed(c).at = conn[c].at /\ ToldClosed(c).carry = conn[c].carry
              /\ ToldClosed(c).down = conn[c].down \/ ToldClosed(c).down = Append(conn[c].down, Closed)
          <5>1. conn[c] \in Conn /\ Sent(c, Closed) \in Conn
            BY <1>0, <4>1, SentType, Wordless
          <5>2. ToldClosed(c).carry = conn[c].carry /\ (ToldClosed(c).down = conn[c].down \/ ToldClosed(c).down = Append(conn[c].down, Closed))
            BY <1>0, <4>1, <5>1, SentLoad, Wordless DEF ToldClosed, Conn
          <5> QED BY <1>0, <4>1, <5>2, ToldFields
        <4>3. Lighter(conn[c], ToldClosed(c))
          BY <1>0, <4>1, <4>2, LighterBy, Wordless
        <4>4. \A d \in Conns : Lighter(conn[d], conn'[d])
          BY <1>0, <4>1, <4>3, LighterOne
        <4>5. \A d \in Conns : Served(d)
          BY <1>0, <4>1, <4>2 DEF Served
        <4> QED BY <4>4, <4>5
      <3> QED BY <3>1, <3>2
    <2> QED BY <1>2, <2>1, <2>2
  <1>4. \A r \in Sessions : Milder(r)
    <2>1. CASE session' = session
      BY <1>0, <1>3, <2>1, MildSame
    <2>2. ASSUME NEW x \in {"closed", "told"}, session' = [session EXCEPT ![s].state = x], session[s].state \in {"live", "closed"}
          PROVE  \A r \in Sessions : Milder(r)
      <3> DEFINE v == [session[s] EXCEPT !.state = x]
      <3>1. session' = [session EXCEPT ![s] = v]
        BY <1>0, <2>2
      <3>2. v.buf = session[s].buf /\ v.made = session[s].made /\ v.on = session[s].on /\ v.gen = session[s].gen /\ v.state = x
        BY <1>0 DEF Session
      <3> HIDE DEF v
      <3> QED BY <1>0, <1>3, <2>2, <3>1, <3>2, MildOne
    <2>3. CASE CloseRemoves(s)
      <3> DEFINE v == [NoSession EXCEPT !.state = "gone"]
      <3>1. session' = [session EXCEPT ![s] = v]
        BY <2>3 DEF CloseRemoves
      <3>2. v.buf = <<>> /\ v.on = None /\ v.state = "gone"
        BY DEF NoSession
      <3> HIDE DEF v
      <3> QED BY <1>0, <1>3, <3>1, <3>2, MildOne
    <2> QED BY <2>1, <2>2, <2>3 DEF ShellExits, CloseTells, CloseAsked, ReapFinds, ReapCloses, CloseBegins
  <1> QED BY <1>1, <1>3, <1>4, AgentCalm

LEMMA StartStep == ASSUME TypeInv, TypeInv', ScreenInv, StartArrives
                   PROVE  ScreenInv'
  <1>0. TypeOK /\ session \in [Sessions -> Session] /\ OnServes /\ hook.epoch \in Sessions
    BY DEF TypeInv, TypeOK, ScreenInv, StartArrives, Calling
  <1> DEFINE s == hook.epoch
             v == [session[s] EXCEPT !.state = "live"]
  <1>1. session' = [session EXCEPT ![s] = v] /\ conn' = conn /\ hook' = hook /\ screen' = screen /\ session[s].state = "none"
    BY <1>0 DEF StartArrives
  <1>2. \A c \in Conns : Lighter(conn[c], conn'[c]) /\ Served(c)
    BY <1>1 DEF Lighter, Served
  <1>3. v.buf = session[s].buf /\ v.made = session[s].made /\ v.on = session[s].on /\ v.gen = session[s].gen /\ v.state = "live"
    BY <1>0 DEF Session
  <1>4. \A r \in Sessions : Milder(r)
    <2> HIDE DEF v, s
    <2>1. s \in Sessions
      BY <1>0 DEF s
    <2>2. session[s].state # "gone"
      BY <1>1
    <2> QED BY <1>0, <1>1, <1>2, <1>3, <2>1, <2>2, MildOne
  <1> QED BY <1>1, <1>2, <1>4, AgentCalm

\* one websocket, not being attached or served, or going on with that
LEMMA ConnStep == ASSUME TypeInv, TypeInv', ScreenInv, session' = session, hook' = hook, screen' = screen, NEW c \in Conns, NEW w,
                         conn' = [conn EXCEPT ![c] = w], Lighter(conn[c], w),
                         conn[c].at \in {"taken", "serving"} => (w.to = conn[c].to /\ w.at \in {"taken", "serving"})
                  PROVE  ScreenInv'
  <1>0. TypeOK /\ conn \in [Conns -> Conn] /\ OnServes
    BY DEF TypeInv, TypeOK, ScreenInv
  <1>1. \A d \in Conns : Served(d)
    BY <1>0 DEF Served
  <1>2. \A d \in Conns : Lighter(conn[d], conn'[d])
    BY <1>0, LighterOne
  <1> QED BY <1>0, <1>1, <1>2, MildSame, AgentCalm

LEMMA HandshakeSteps == ASSUME TypeInv, TypeInv', ScreenInv, NEW c \in Conns, Upgrade(c) \/ AttachFails(c) \/ HandleInput(c)
                        PROVE  ScreenInv'
  <1>0. TypeOK /\ conn \in [Conns -> Conn] /\ conn[c] \in Conn
    BY DEF TypeInv, TypeOK
  <1>1. CASE Upgrade(c)
    <2> DEFINE a == IF InMap(conn[c].to) THEN "upgraded" ELSE "refused"
               w == [conn[c] EXCEPT !.at = a]
    <2>1. conn' = [conn EXCEPT ![c] = w] /\ session' = session /\ hook' = hook /\ screen' = screen /\ conn[c].at = "asked"
      BY <1>1 DEF Upgrade
    <2>2. w.to = conn[c].to /\ w.carry = conn[c].carry /\ w.down = conn[c].down
      <3> HIDE DEF a
      <3> QED BY <1>0 DEF Conn
    <2>3. Lighter(conn[c], w)
      <3> HIDE DEF w
      <3> QED BY <1>0, <2>2, LighterBy
    <2> HIDE DEF w
    <2> QED BY <2>1, <2>3, ConnStep
  <1>2. CASE AttachFails(c)
    <2> DEFINE v == Sent(c, NotFound)
               w == [v EXCEPT !.at = "done", !.ended = TRUE]
    <2>1. conn' = [conn EXCEPT ![c] = w] /\ session' = session /\ hook' = hook /\ screen' = screen /\ conn[c].at = "upgraded"
      BY <1>2 DEF AttachFails
    <2>2. v \in Conn /\ v.to = conn[c].to /\ v.carry = conn[c].carry /\ (v.down = conn[c].down \/ v.down = Append(conn[c].down, NotFound))
      BY <1>0, SentType, SentFields, SentLoad, Wordless
    <2>3. w.to = conn[c].to /\ w.carry = conn[c].carry /\ (w.down = conn[c].down \/ w.down = Append(conn[c].down, NotFound))
      <3> HIDE DEF v
      <3> QED BY <2>2 DEF Conn
    <2>4. Lighter(conn[c], w)
      <3> HIDE DEF w
      <3> QED BY <1>0, <2>3, LighterBy, Wordless
    <2> HIDE DEF w
    <2> QED BY <2>1, <2>4, ConnStep
  <1>3. CASE HandleInput(c)
    <2> DEFINE v == IF InMap(conn[c].to) THEN conn[c] ELSE Sent(c, NotFound)
               w == IF session[conn[c].to].state = "live" THEN [conn[c] EXCEPT !.up = Tail(conn[c].up)] ELSE [v EXCEPT !.ended = TRUE]
    <2>1. conn' = [conn EXCEPT ![c] = w] /\ session' = session /\ hook' = hook /\ screen' = screen
      BY <1>3 DEF HandleInput
    <2>2. /\ v \in Conn /\ v.to = conn[c].to /\ v.at = conn[c].at /\ v.carry = conn[c].carry
          /\ v.down = conn[c].down \/ v.down = Append(conn[c].down, NotFound)
      BY <1>0, SentType, SentFields, SentLoad, Wordless
    <2>3. /\ w.to = conn[c].to /\ w.at = conn[c].at /\ w.carry = conn[c].carry
          /\ w.down = conn[c].down \/ w.down = Append(conn[c].down, NotFound)
      <3>1. /\ \A x : /\ [conn[c] EXCEPT !.up = x].to = conn[c].to /\ [conn[c] EXCEPT !.up = x].at = conn[c].at
                      /\ [conn[c] EXCEPT !.up = x].carry = conn[c].carry /\ [conn[c] EXCEPT !.up = x].down = conn[c].down
        BY <1>0 DEF Conn
      <3>2. /\ [v EXCEPT !.ended = TRUE].to = conn[c].to /\ [v EXCEPT !.ended = TRUE].at = conn[c].at
            /\ [v EXCEPT !.ended = TRUE].carry = conn[c].carry /\ [v EXCEPT !.ended = TRUE].down = v.down
        <4> HIDE DEF v
        <4> QED BY <2>2 DEF Conn
      <3> HIDE DEF v
      <3> QED BY <2>2, <3>1, <3>2
    <2>4. Lighter(conn[c], w)
      <3> HIDE DEF w
      <3> QED BY <1>0, <2>3, LighterBy, Wordless
    <2> HIDE DEF w
    <2> QED BY <2>1, <2>3, <2>4, ConnStep
  <1> QED BY <1>1, <1>2, <1>3

\* the handler that ends takes its callbacks with it
LEMMA EndStep == ASSUME TypeInv, TypeInv', ScreenInv, NEW c \in Conns, HandlerEnds(c)
                 PROVE  ScreenInv'
  <1> DEFINE s == conn[c].to
             w == [conn[c] EXCEPT !.at = "done", !.ended = TRUE]
  <1>0. TypeOK /\ conn \in [Conns -> Conn] /\ session \in [Sessions -> Session] /\ conn[c] \in Conn /\ OnServes /\ s \in Sessions
    BY ConnFields DEF TypeInv, TypeOK, ScreenInv, HandlerEnds, Used
  <1>1. /\ session' = IF InMap(s) THEN [session EXCEPT ![s] = Detached(s, c)] ELSE session
        /\ hook' = hook /\ screen' = screen /\ conn' = [conn EXCEPT ![c] = w]
    BY <1>0 DEF HandlerEnds, Conn
  <1>2. w.to = conn[c].to /\ w.carry = conn[c].carry /\ w.down = conn[c].down
    BY <1>0 DEF Conn
  <1>3. \A d \in Conns : Lighter(conn[d], conn'[d]) /\ (d # c => conn'[d] = conn[d])
    <2> HIDE DEF w
    <2>1. Lighter(conn[c], w)
      BY <1>0, <1>2, LighterBy
    <2> QED BY <1>0, <1>1, <2>1, LighterOne
  <1>4. \A r \in Sessions : Milder(r)
    <2> SUFFICES ASSUME NEW r \in Sessions PROVE Milder(r)
      OBVIOUS
    <2>1. \/ session'[r] = session[r] /\ session[r].on # c
          \/ /\ session'[r].buf = session[r].buf /\ session'[r].made = session[r].made /\ session'[r].state = session[r].state
             /\ session'[r].on = None
      <3>1. Detached(s, c) = IF session[s].gen = c THEN [session[s] EXCEPT !.on = None] ELSE session[s]
        BY DEF Detached
      <3>2. /\ [session[s] EXCEPT !.on = None].buf = session[s].buf /\ [session[s] EXCEPT !.on = None].made = session[s].made
            /\ [session[s] EXCEPT !.on = None].state = session[s].state /\ [session[s] EXCEPT !.on = None].on = None
        BY <1>0 DEF Session
      <3>3. c # None
        BY DEF Conns, None
      <3>4. session[r].on = c => (r = s /\ InMap(s) /\ session[s].gen = c)
        BY <1>0, <3>3 DEF OnServes
      <3> HIDE DEF s
      <3> QED BY <1>0, <1>1, <3>1, <3>2, <3>4
    <2>2. session[r].on \in Conns \cup {None}
      BY <1>0, SessionFields
    <2>3. session'[r] = session[r] /\ session[r].on # c => Milder(r)
      <3>1. session[r].on # None => InMap(r) /\ conn[session[r].on].at \in {"taken", "serving"} 
        BY <1>0 DEF OnServes
      <3> QED BY <1>3, <2>2, <3>1 DEF Milder, Calls, InMap
    <2> QED BY <2>1, <2>3 DEF Milder, Calls
  <1> QED BY <1>1, <1>3, <1>4, AgentCalm

-----------------------------------------------------------------------------
(* The agent moves output *)

LEMMA KeptWindow == ASSUME NEW q \in Seq(Nat) PROVE Window(Kept(q), q) /\ DOMAIN Kept(q) \subseteq Nat
  <1>1. Len(q) \in Nat /\ DOMAIN q = 1..Len(q) /\ MaxBuffer \in Nat \ {0}
    BY LenProperties, TerminalAssumption
  <1>2. CASE Len(q) <= MaxBuffer
    BY <1>2, Same DEF Kept
  <1>3. CASE ~(Len(q) <= MaxBuffer)
    <2> DEFINE a == Len(q) - MaxBuffer
               r == SubSeq(q, a + 1, Len(q))
    <2>1. a \in Nat /\ a + 1 \in 1..(Len(q) + 1)
      BY <1>1, <1>3
    <2>2. Len(r) = Len(q) - a /\ r \in Seq(Nat) /\ \A k \in 1..Len(r) : r[k] = q[a + 1 + k - 1]
      BY <1>1, <2>1, SubSeqProperties
    <2>3. DOMAIN r = 1..(Len(q) - a)
      BY <2>2, LenProperties
    <2>4. \A k \in DOMAIN r : k + a \in DOMAIN q /\ r[k] = q[k + a]
      BY <1>1, <2>1, <2>2, <2>3
    <2>5. Kept(q) = r
      BY <1>3 DEF Kept
    <2> HIDE DEF a, r
    <2>6. DOMAIN r \subseteq Nat
      BY <2>2, Same
    <2> QED BY <2>1, <2>4, <2>5, <2>6 DEF Window
  <1> QED BY <1>2, <1>3

LEMMA ConcatWindow == ASSUME NEW q \in Seq(Nat), NEW r \in Seq(Nat) PROVE Window(r, q \o r)
  <1>1. /\ Len(q) \in Nat /\ Len(r) \in Nat /\ DOMAIN r = 1..Len(r) /\ DOMAIN (q \o r) = 1..(Len(q) + Len(r))
        /\ \A k \in 1..(Len(q) + Len(r)) : (q \o r)[k] = IF k <= Len(q) THEN q[k] ELSE r[k - Len(q)]
    BY ConcatProperties, LenProperties
  <1>2. \A k \in DOMAIN r : k + Len(q) \in DOMAIN (q \o r) /\ r[k] = (q \o r)[k + Len(q)]
    <2> SUFFICES ASSUME NEW k \in DOMAIN r PROVE k + Len(q) \in DOMAIN (q \o r) /\ r[k] = (q \o r)[k + Len(q)]
      OBVIOUS
    <2>1. k + Len(q) \in 1..(Len(q) + Len(r)) /\ ~(k + Len(q) <= Len(q)) /\ (k + Len(q)) - Len(q) = k
      BY <1>1
    <2> QED BY <1>1, <2>1
  <1> QED BY <1>1, <1>2 DEF Window

\* the chunks after a step, when M says where they may be
LEMMA Settled == ASSUME TypeOK', NEW M, Chunks(M, From, session'),
                        \A p \in Spots : Load'[p] = <<>> \/ (From'[p] = From[p] /\ Window(Load'[p], M[p]))
                 PROVE  Chunks(Load', From', session')
  <1>1. Load' \in [Spots -> Seq(Nat)]
    BY LoadType DEF Load, TypeOK
  <1>2. \A p \in Spots : DOMAIN Load'[p] \subseteq Nat
    BY <1>1, Same
  <1>3. Grows(session', session')
    BY DEF Grows
  <1> QED BY <1>2, <1>3, LoadShrinks

\* a message at the end of what is on its way
DataAt(q, i) == IF i \in DOMAIN q THEN q[i].data ELSE <<>>

LEMMA DataAfter == ASSUME NEW q \in Seq(Message), NEW m \in Message
                   PROVE  /\ Len(q) + 1 \in Nth
                          /\ DataAt(q, Len(q) + 1) = <<>>
                          /\ \A i \in Nth : DataAt(Append(q, m), i) = IF i = Len(q) + 1 THEN m.data ELSE DataAt(q, i)
  <1> DEFINE r == Append(q, m)
  <1>2. /\ Len(q) \in Nat /\ DOMAIN q = 1..Len(q) /\ r \in Seq(Message) /\ Len(r) = Len(q) + 1
        /\ \A i \in 1..Len(q) : r[i] = q[i]
        /\ r[Len(q) + 1] = m
    BY LenProperties, AppendProperties
  <1>3. DOMAIN r = 1..(Len(q) + 1)
    BY <1>2, LenProperties
  <1> HIDE DEF r
  <1>4. Len(q) + 1 \in Nth /\ Len(q) + 1 \notin DOMAIN q
    BY <1>2 DEF Nth
  <1>5. \A i \in Nth : DataAt(r, i) = IF i = Len(q) + 1 THEN m.data ELSE DataAt(q, i)
    <2> SUFFICES ASSUME NEW i \in Nth PROVE DataAt(r, i) = IF i = Len(q) + 1 THEN m.data ELSE DataAt(q, i)
      OBVIOUS
    <2>1. i \in Nat \ {0}
      BY DEF Nth
    <2>2. CASE i = Len(q) + 1
      <3>1. i \in DOMAIN r
        BY <1>2, <1>3, <2>1, <2>2
      <3>2. r[i] = m
        BY <1>2, <2>2
      <3> QED BY <2>2, <3>1, <3>2 DEF DataAt
    <2>3. CASE i # Len(q) + 1
      <3>1. i \in DOMAIN r <=> i \in DOMAIN q
        BY <1>2, <1>3, <2>1, <2>3
      <3>2. i \in DOMAIN q => r[i] = q[i]
        BY <1>2
      <3>3. DataAt(r, i) = DataAt(q, i)
        BY <3>1, <3>2 DEF DataAt
      <3> QED BY <2>3, <3>3
    <2> QED BY <2>2, <2>3
  <1> QED BY <1>4, <1>5 DEF r, DataAt

LEMMA DeliverStep == ASSUME TypeInv, TypeInv', ScreenInv, NEW s \in Sessions, Deliver(s)
                     PROVE  ScreenInv'
  <1> DEFINE c == session[s].on
             n == session[s].made + 1
  <1>0. /\ TypeOK /\ TypeOK' /\ session \in [Sessions -> Session] /\ conn \in [Conns -> Conn] /\ session[s] \in Session /\ OnServes
        /\ c \in Conns \cup {None} /\ session[s].made \in Nat /\ session[s].buf \in Seq(Nat) /\ n \in 1..MaxOutput /\ n \in Nat
    <2>0. TypeOK /\ TypeOK' /\ OnServes /\ session \in [Sessions -> Session] /\ conn \in [Conns -> Conn]
      BY DEF TypeInv, ScreenInv, TypeOK
    <2>1. TypeOK /\ TypeOK' /\ session \in [Sessions -> Session] /\ conn \in [Conns -> Conn] /\ session[s] \in Session /\ OnServes
          /\ c \in Conns \cup {None} /\ session[s].made \in Nat /\ Load \in [Spots -> Seq(Nat)]
      BY <2>0, SessionFields, LoadTyped
    <2>2. Load[Buffer(s)] = session[s].buf /\ Buffer(s) \in Spots
      BY LoadIs, SpotKinds
    <2>3. n \in Nat /\ n \in 1..MaxOutput
      BY <2>1 DEF Deliver
    <2> QED BY <2>1, <2>2, <2>3
  <1>1. InMap(s) /\ hook' = hook /\ screen' = screen /\ Load \in [Spots -> Seq(Nat)] /\ Chunks(Load, From, session) /\ OneShell
    BY <1>0, LoadTyped DEF Deliver, ScreenInv
  <1>2. OneShell'
    BY <1>1 DEF OneShell
  \* the session after the step
  <1>a. ASSUME NEW v, session' = [session EXCEPT ![s] = v], v.state = session[s].state, v.made = n, v.gen = session[s].gen,
               v.on = session[s].on \/ v.on = None, \A d \in Conns : conn'[d].to = conn[d].to /\ conn'[d].at = conn[d].at
        PROVE  OnServes' /\ Grows(session, session') /\ session'[s].made = session[s].made + 1
    <2>1. session'[s] = v /\ \A r \in Sessions \ {s} : session'[r] = session[r]
      BY <1>0, <1>a
    <2>2. \A r \in Sessions : session[r].on \in Conns \cup {None}
      BY <1>0, SessionFields
    <2>3. \A r \in Sessions : Calls(r)
      BY <1>0, <1>a, <2>1, <2>2 DEF Calls, OnServes, InMap
    <2>4. 1..session[s].made \subseteq 1..n
      BY <1>0
    <2>5. session[s].state # "gone"
      BY <1>1 DEF InMap
    <2> HIDE DEF n
    <2>6. Grows(session, session')
      BY <1>a, <2>1, <2>4, <2>5 DEF Grows
    <2> QED BY <1>0, <1>a, <2>1, <2>3, <2>6, OnCalm DEF n
  <1>3. CASE /\ c # None /\ ~conn[c].ended
             /\ conn' = [conn EXCEPT ![c] = Sent(c, Output(<<n>>))]
             /\ session' = [session EXCEPT ![s].made = n]
    <2> DEFINE v == [session[s] EXCEPT !.made = n]
               m == Output(<<n>>)
               w == Sent(c, m)
               q == Down(c, Len(conn[c].down) + 1)
               M == [Load EXCEPT ![q] = Append(Load[q], n)]
    <2>0. c \in Conns /\ conn[c].to = s /\ m \in Message /\ m.data = <<n>>
      <3>1. <<n>> \in Seq(1..MaxOutput)
        BY <1>0
      <3> QED BY <1>0, <1>3, <3>1, MessageTypes DEF OnServes, Output
    <2>1. session' = [session EXCEPT ![s] = v]
      BY <1>0, <1>3
    <2>2. v.state = session[s].state /\ v.made = n /\ v.gen = session[s].gen /\ v.on = session[s].on /\ v.buf = session[s].buf
      BY <1>0 DEF Session
    <2>3. /\ w.to = conn[c].to /\ w.at = conn[c].at /\ w.carry = conn[c].carry
          /\ w.down = conn[c].down \/ w.down = Append(conn[c].down, m)
      BY <1>0, <2>0, SentFields, SentLoad
    <2>4. conn' = [conn EXCEPT ![c] = w]
      BY <1>3
    <2> HIDE DEF v, w, c, n, m
    <2>5. conn'[c] = w /\ \A d \in Conns \ {c} : conn'[d] = conn[d]
      BY <1>0, <2>0, <2>4
    <2>6. \A d \in Conns : conn'[d].to = conn[d].to /\ conn'[d].at = conn[d].at /\ conn'[d].carry = conn[d].carry
      BY <2>3, <2>5
    <2>7. OnServes' /\ Grows(session, session') /\ session'[s].made = session[s].made + 1
      BY <1>a, <2>1, <2>2, <2>6
    <2>8. q \in Spots /\ From[q] = s /\ Load[q] = <<>>
      <3>1. conn[c].down \in Seq(Message)
        BY <1>0, <2>0, ConnFields
      <3> QED BY <1>0, <2>0, <3>1, DataAfter, SpotKinds, LoadIs DEF Data, DataAt
    <2>9. Chunks(M, From, session')
      <3>1. session[s].state # "gone"
        BY <1>1 DEF InMap
      <3> QED BY <1>0, <1>1, <2>7, <2>8, <3>1, LoadAdds DEF n
    <2>10. M[q] = <<n>> /\ \A p \in Spots \ {q} : M[p] = Load[p]
      BY <1>1, <2>8
    <2> HIDE DEF M
    <2>11. \A p \in Spots : Load'[p] = <<>> \/ (From'[p] = From[p] /\ Load'[p] = M[p])
      <3> SUFFICES ASSUME NEW p \in Spots PROVE Load'[p] = <<>> \/ (From'[p] = From[p] /\ Load'[p] = M[p])
        OBVIOUS
      <3>1. ASSUME NEW r \in Sessions, p = Buffer(r) PROVE From'[p] = From[p] /\ Load'[p] = M[p]
        <4>1. session'[r].buf = session[r].buf /\ p # q
          BY <1>0, <2>1, <2>2, <3>1, SpotNames
        <4> QED BY <2>10, <3>1, <4>1, LoadIs, LoadWillBe
      <3>2. ASSUME NEW d \in Conns, p = Carry(d) PROVE From'[p] = From[p] /\ Load'[p] = M[p]
        <4>1. p # q
          BY <3>2, SpotNames
        <4> QED BY <2>6, <2>10, <3>2, <4>1, LoadIs, LoadWillBe
      <3>3. ASSUME NEW d \in Conns, NEW i \in Nth, p = Down(d, i) PROVE Load'[p] = <<>> \/ (From'[p] = From[p] /\ Load'[p] = M[p])
        <4>1. Load'[p] = Data(conn', d, i) /\ Load[p] = Data(conn, d, i) /\ From'[p] = From[p]
          BY <2>6, <3>3, LoadIs, LoadWillBe
        <4>2. CASE d # c
          <5>1. p # q
            BY <3>3, <4>2, SpotNames
          <5> QED BY <2>5, <2>10, <4>1, <4>2, <5>1 DEF Data
        <4>3. CASE d = c
          <5>1. p = q <=> i = Len(conn[c].down) + 1
            BY <3>3, <4>3, SpotNames
          <5>2. CASE w.down = Append(conn[c].down, m)
            <6>1. Data(conn', c, i) = IF i = Len(conn[c].down) + 1 THEN m.data ELSE Data(conn, c, i)
              <7>1. conn[c].down \in Seq(Message)
                BY <1>0, <2>0, ConnFields
              <7> QED BY <2>0, <2>5, <5>2, <7>1, DataAfter DEF Data, DataAt
            <6> QED BY <2>0, <2>10, <4>1, <4>3, <5>1, <6>1
          <5>3. CASE w.down = conn[c].down
            <6>1. Data(conn', c, i) = Data(conn, c, i)
              BY <2>5, <5>3 DEF Data
            <6> QED BY <2>8, <2>10, <4>1, <4>3, <6>1
          <5> QED BY <2>3, <5>2, <5>3
        <4> QED BY <4>2, <4>3
      <3>4. CASE p = Shown
        <4>1. p # q
          BY <3>4, SpotNames
        <4> QED BY <1>1, <2>10, <3>4, <4>1, LoadIs, LoadWillBe
      <3> QED BY <3>1, <3>2, <3>3, <3>4, SpotKinds
    <2>12. Chunks(Load', From', session')
      <3>1. \A p \in Spots : Load'[p] \in Seq(Nat)
        BY <1>0, LoadWillType
      <3>2. \A p \in Spots : Load'[p] = <<>> \/ (From'[p] = From[p] /\ Window(Load'[p], M[p]))
        BY <2>11, <3>1, Same
      <3> QED BY <1>0, <2>9, <3>2, Settled
    <2> QED BY <1>2, <2>7, <2>12 DEF ScreenInv
  <1>4. CASE session' = [session EXCEPT ![s].made = n, ![s].on = None, ![s].buf = Kept(Append(@, n))] /\ conn' = conn
    <2> DEFINE k == Kept(Append(session[s].buf, n))
               v == [session[s] EXCEPT !.made = n, !.on = None, !.buf = k]
               q == Buffer(s)
               M == [Load EXCEPT ![q] = Append(Load[q], n)]
    <2>1. session' = [session EXCEPT ![s] = v]
      BY <1>0, <1>4
    <2>2. v.state = session[s].state /\ v.made = n /\ v.gen = session[s].gen /\ v.on = None /\ v.buf = k
      <3> HIDE DEF k
      <3> QED BY <1>0 DEF Session
    <2> HIDE DEF v
    <2>3. OnServes' /\ Grows(session, session') /\ session'[s].made = session[s].made + 1
      BY <1>a, <1>4, <2>1, <2>2
    <2>4. q \in Spots /\ From[q] = s /\ Load[q] = session[s].buf
      BY SpotKinds, LoadIs
    <2>5. Chunks(M, From, session')
      <3>1. session[s].state # "gone"
        BY <1>1 DEF InMap
      <3> QED BY <1>0, <1>1, <2>3, <2>4, <3>1, LoadAdds
    <2>6. M[q] = Append(session[s].buf, n) /\ \A p \in Spots \ {q} : M[p] = Load[p]
      BY <1>1, <2>4
    <2> HIDE DEF M
    <2>7. \A p \in Spots : From'[p] = From[p] /\ Window(Load'[p], M[p])
      <3> SUFFICES ASSUME NEW p \in Spots PROVE From'[p] = From[p] /\ Window(Load'[p], M[p])
        OBVIOUS
      <3>1. CASE p = q
        <4>1. Load'[p] = k /\ From'[p] = From[p]
          BY <1>0, <2>1, <2>2, <3>1, LoadIs, LoadWillBe
        <4>2. Append(session[s].buf, n) \in Seq(Nat)
          BY <1>0, AppendProperties
        <4> QED BY <2>6, <3>1, <4>1, <4>2, KeptWindow
      <3>2. CASE p # q
        <4>1. From'[p] = From[p] /\ Load'[p] = Load[p]
          <5>1. ASSUME NEW r \in Sessions, p = Buffer(r) PROVE From'[p] = From[p] /\ Load'[p] = Load[p]
            <6>1. session'[r] = session[r]
              BY <1>0, <2>1, <3>2, <5>1
            <6> QED BY <5>1, <6>1, LoadIs, LoadWillBe
          <5>2. CASE \E d \in Conns : p = Carry(d)
            BY <1>4, <5>2, LoadIs, LoadWillBe
          <5>3. CASE \E d \in Conns : \E i \in Nth : p = Down(d, i)
            BY <1>4, <5>3, LoadIs, LoadWillBe
          <5>4. CASE p = Shown
            BY <1>1, <5>4, LoadIs, LoadWillBe
          <5> QED BY <5>1, <5>2, <5>3, <5>4, SpotKinds
        <4>2. Load[p] \in Seq(Nat)
          BY <1>1
        <4> QED BY <2>6, <3>2, <4>1, <4>2, Same
      <3> QED BY <3>1, <3>2
    <2>8. Chunks(Load', From', session')
      BY <1>0, <2>5, <2>7, Settled
    <2> QED BY <1>2, <2>3, <2>8 DEF ScreenInv
  <1> QED BY <1>3, <1>4 DEF Deliver

\* the buffer goes into the hands of the Attach that took the callbacks
LEMMA TakeStep == ASSUME TypeInv, TypeInv', ScreenInv, NEW c \in Conns, AttachTake(c)
                  PROVE  ScreenInv'
  <1> DEFINE s == conn[c].to
             old == session[s].on
             p == Buffer(s)
             q == Carry(c)
             M == [Load EXCEPT ![q] = Load[q] \o Load[p], ![p] = <<>>]
  <1>0. /\ TypeOK /\ TypeOK' /\ session \in [Sessions -> Session] /\ conn \in [Conns -> Conn] /\ OnServes
        /\ conn[c] \in Conn /\ s \in Sessions \cup {None} /\ conn[c].at = "upgraded" /\ InMap(s)
        /\ hook' = hook /\ screen' = screen /\ Chunks(Load, From, session) /\ OneShell
    <2>1. TypeOK /\ TypeOK' /\ session \in [Sessions -> Session] /\ conn \in [Conns -> Conn] /\ OnServes
          /\ Chunks(Load, From, session) /\ OneShell
      BY DEF TypeInv, ScreenInv, TypeOK
    <2> QED BY <2>1, ConnFields DEF AttachTake
  <1>1. s \in Sessions
    BY <1>0 DEF TypeInv, Used
  <1>2. old \in Conns \cup {None} /\ session[s] \in Session
    BY <1>0, <1>1, SessionFields
  <1>3. /\ session'[s].buf = <<>> /\ session'[s].on = c /\ session'[s].gen = c /\ session'[s].state = session[s].state
        /\ session'[s].made = session[s].made
        /\ \A r \in Sessions \ {s} : session'[r] = session[r]
    <2>1. session' = [session EXCEPT ![s] = Taken(s, c)]
      BY DEF AttachTake
    <2>2. Taken(s, c).buf = <<>> /\ Taken(s, c).on = c /\ Taken(s, c).gen = c /\ Taken(s, c).state = session[s].state
          /\ Taken(s, c).made = session[s].made
      BY <1>2 DEF Taken, Session
    <2> QED BY <1>0, <1>1, <2>1, <2>2
  <1>4. /\ conn'[c].carry = session[s].buf /\ conn'[c].at = "taken"
        /\ \A d \in Conns : conn'[d].to = conn[d].to /\ conn'[d].down = conn[d].down
        /\ \A d \in Conns \ {c} : conn'[d].carry = conn[d].carry /\ conn'[d].at = conn[d].at
    <2> DEFINE w == [conn[c] EXCEPT !.at = "taken", !.carry = session[s].buf]
               f == [conn EXCEPT ![c] = w]
    <2>1. w \in Conn /\ w.carry = session[s].buf /\ w.at = "taken" /\ w.to = conn[c].to /\ w.down = conn[c].down
      <3>1. session[s].buf \in Seq(1..MaxOutput)
        BY <1>0, <1>1, SessionFields
      <3> QED BY <1>0, <3>1 DEF Conn
    <2>2. [conn EXCEPT ![c].at = "taken", ![c].carry = session[s].buf] = f
      BY <1>0 DEF Conn
    <2>3. conn' = f \/ (old # None /\ conn' = [f EXCEPT ![old].ended = TRUE])
      BY <2>2, Zenon DEF AttachTake
    <2> HIDE DEF w
    <2>4. f[c] = w /\ \A d \in Conns \ {c} : f[d] = conn[d]
      BY <1>0
    <2>5. \A d \in Conns : f[d] \in Conn
      BY <1>0, <2>1, <2>4
    <2>6. f = [d \in Conns |-> f[d]]
      BY <1>0
    <2> HIDE DEF f
    <2>7. \A d \in Conns : conn'[d] = f[d] \/ conn'[d] = [f[d] EXCEPT !.ended = TRUE]
      <3>1. CASE conn' = f
        BY <3>1
      <3>2. CASE old # None /\ conn' = [f EXCEPT ![old].ended = TRUE]
        <4> HIDE DEF old
        <4>1. old \in Conns
          BY <1>2, <3>2
        <4> QED BY <2>6, <3>2, <4>1
      <3> QED BY <2>3, <3>1, <3>2
    <2>8. \A d \in Conns : conn'[d].to = f[d].to /\ conn'[d].down = f[d].down /\ conn'[d].carry = f[d].carry /\ conn'[d].at = f[d].at
      BY <2>5, <2>7 DEF Conn
    <2> QED BY <2>1, <2>4, <2>8
  <1>5. OneShell'
    BY <1>0 DEF OneShell
  <1>6. OnServes'
    <2> SUFFICES ASSUME NEW r \in Sessions, session'[r].on # None
                 PROVE  /\ InMap(r)' /\ session'[r].gen = session'[r].on
                        /\ conn'[session'[r].on].to = r /\ conn'[session'[r].on].at \in {"taken", "serving"}
      BY DEF OnServes
    <2>1. CASE r = s
      BY <1>0, <1>3, <1>4, <2>1 DEF InMap
    <2>2. CASE r # s
      <3>1. session'[r] = session[r]
        BY <1>3, <2>2
      <3>2. /\ InMap(r) /\ session[r].gen = session[r].on /\ conn[session[r].on].to = r
            /\ conn[session[r].on].at \in {"taken", "serving"} /\ session[r].on \in Conns
        BY <1>0, <3>1, SessionFields DEF OnServes
      <3>3. session[r].on # c
        BY <1>0, <3>2
      <3> QED BY <1>4, <3>1, <3>2, <3>3 DEF InMap
    <2> QED BY <2>1, <2>2
  <1>7. Grows(session, session')
    <2>1. session[s].state # "gone"
      BY <1>0 DEF InMap
    <2> QED BY <1>3, <2>1 DEF Grows
  <1>8. /\ p \in Spots /\ q \in Spots /\ p # q /\ From[p] = s /\ From[q] = s /\ Load[p] = session[s].buf
        /\ Load \in [Spots -> Seq(Nat)]
    <2>1. p \in Spots /\ q \in Spots /\ p # q
      BY <1>1, SpotKinds, SpotNames
    <2>2. From[p] = s /\ From[q] = s /\ Load[p] = session[s].buf
      BY <1>1, LoadIs
    <2> QED BY <1>0, <2>1, <2>2, LoadTyped
  <1>9. Chunks(M, From, session)
    BY <1>0, <1>8, LoadMoves
  <1>10. M[p] = <<>> /\ M[q] = Load[q] \o session[s].buf /\ \A r \in Spots \ {p, q} : M[r] = Load[r]
    BY <1>8
  <1> HIDE DEF M, s
  <1>11. \A r \in Spots : /\ From'[r] = From[r]
                          /\ r = p => Load'[r] = <<>>
                          /\ r = q => Load'[r] = session[s].buf
                          /\ r \notin {p, q} => Load'[r] = Load[r]
    <2> SUFFICES ASSUME NEW r \in Spots
                 PROVE  /\ From'[r] = From[r]
                        /\ r = p => Load'[r] = <<>>
                        /\ r = q => Load'[r] = session[s].buf
                        /\ r \notin {p, q} => Load'[r] = Load[r]
      OBVIOUS
    <2>1. ASSUME NEW t \in Sessions, r = Buffer(t)
          PROVE  From'[r] = From[r] /\ (r = p => Load'[r] = <<>>) /\ (r # p => Load'[r] = Load[r]) /\ r # q
      <3>1. r # q /\ (r = p <=> t = s)
        BY <2>1, SpotNames
      <3>2. From'[r] = From[r] /\ Load'[r] = session'[t].buf /\ Load[r] = session[t].buf
        BY <2>1, LoadIs, LoadWillBe
      <3> QED BY <1>3, <3>1, <3>2
    <2>2. ASSUME NEW d \in Conns, r = Carry(d)
          PROVE  From'[r] = From[r] /\ (r = q => Load'[r] = session[s].buf) /\ (r # q => Load'[r] = Load[r]) /\ r # p
      <3>1. r # p /\ (r = q <=> d = c)
        BY <2>2, SpotNames
      <3>2. From'[r] = From[r] /\ Load'[r] = conn'[d].carry /\ Load[r] = conn[d].carry
        BY <1>4, <2>2, LoadIs, LoadWillBe
      <3> QED BY <1>4, <3>1, <3>2
    <2>3. ASSUME NEW d \in Conns, NEW i \in Nth, r = Down(d, i)
          PROVE  From'[r] = From[r] /\ Load'[r] = Load[r] /\ r # p /\ r # q
      <3>1. r # p /\ r # q
        BY <2>3, SpotNames
      <3>2. From'[r] = From[r] /\ Load'[r] = Data(conn', d, i) /\ Load[r] = Data(conn, d, i)
        BY <1>4, <2>3, LoadIs, LoadWillBe
      <3> QED BY <1>4, <3>1, <3>2 DEF Data
    <2>4. CASE r = Shown
      BY <1>0, <2>4, SpotNames, LoadIs, LoadWillBe
    <2> QED BY <2>1, <2>2, <2>3, <2>4, SpotKinds
  <1>12. \A r \in Spots : Load'[r] = <<>> \/ (From'[r] = From[r] /\ Window(Load'[r], M[r]))
    <2> SUFFICES ASSUME NEW r \in Spots PROVE Load'[r] = <<>> \/ (From'[r] = From[r] /\ Window(Load'[r], M[r]))
      OBVIOUS
    <2>1. CASE r = p
      BY <1>11, <2>1
    <2>2. CASE r = q
      <3>1. Load[q] \in Seq(Nat) /\ session[s].buf \in Seq(Nat)
        BY <1>8
      <3> QED BY <1>10, <1>11, <2>2, <3>1, ConcatWindow
    <2>3. CASE r \notin {p, q}
      <3>1. Load[r] \in Seq(Nat)
        BY <1>8
      <3> QED BY <1>10, <1>11, <2>3, <3>1, Same
    <2> QED BY <2>1, <2>2, <2>3
  <1>13. Chunks(M, From, session')
    <2>1. M \in [Spots -> Seq(Nat)]
      <3>1. Load[q] \o Load[p] \in Seq(Nat) /\ <<>> \in Seq(Nat)
        BY <1>8, ConcatProperties
      <3> QED BY <1>8, <3>1 DEF M
    <2>2. \A r \in Spots : (From[r] = From[r] /\ Window(M[r], M[r])) /\ DOMAIN M[r] \subseteq Nat
      BY <2>1, Same
    <2> QED BY <1>7, <1>9, <2>2, LoadShrinks
  <1>14. Chunks(Load', From', session')
    BY <1>0, <1>12, <1>13, Settled
  <1> QED BY <1>5, <1>6, <1>14 DEF ScreenInv

LEMMA FlushedLoad == ASSUME NEW c \in Conns, NEW w \in Conn
                     PROVE  /\ Flushed(c, w).to = w.to /\ Flushed(c, w).at = "serving" /\ Flushed(c, w).carry = <<>>
                            /\ Flushed(c, w).down = w.down \/ Flushed(c, w).down = Append(w.down, Closed)
  BY DEF Flushed, Conn

\* what Attach holds goes out, or back into the buffer
LEMMA FlushStep == ASSUME TypeInv, TypeInv', ScreenInv, NEW c \in Conns, AttachFlush(c)
                   PROVE  ScreenInv'
  <1> DEFINE s == conn[c].to
             carry == conn[c].carry
             m == Output(carry)
             p == Carry(c)
             n == Len(conn[c].down) + 1
  <1>0. /\ TypeOK /\ TypeOK' /\ session \in [Sessions -> Session] /\ conn \in [Conns -> Conn] /\ OnServes
        /\ hook' = hook /\ screen' = screen /\ Chunks(Load, From, session) /\ OneShell /\ conn[c].at = "taken"
    BY DEF TypeInv, ScreenInv, TypeOK, AttachFlush
  <1>1. conn[c] \in Conn /\ s \in Sessions /\ carry \in Seq(1..MaxOutput) /\ conn[c].down \in Seq(Message)
    BY <1>0, ConnFields DEF TypeInv, Used
  <1>2. /\ p \in Spots /\ From[p] = s /\ Load[p] = carry /\ carry \in Seq(Nat) /\ Load \in [Spots -> Seq(Nat)]
    <2>1. p \in Spots /\ From[p] = s /\ Load[p] = carry
      BY SpotKinds, LoadIs
    <2> QED BY <1>0, <2>1, LoadTyped
  <1>3. OneShell'
    BY <1>0 DEF OneShell
  \* the websocket after the step
  <1>4. ASSUME NEW w, conn' = [conn EXCEPT ![c] = w], w.to = s, w.at = "serving", w.carry = <<>>
        PROVE  /\ \A d \in Conns : conn'[d].to = conn[d].to /\ Served(d) /\ (d # c => conn'[d] = conn[d])
               /\ conn'[c] = w
    BY <1>0, <1>4 DEF Served
  \* nothing to send, or nobody to hear it
  <1>5. ASSUME NEW v \in Conn, session' = session, conn' = [conn EXCEPT ![c] = Flushed(c, v)], v.to = s, v.down = conn[c].down
        PROVE  ScreenInv'
    <2> DEFINE w == Flushed(c, v)
    <2>1. w.to = s /\ w.at = "serving" /\ w.carry = <<>> /\ (w.down = conn[c].down \/ w.down = Append(conn[c].down, Closed))
      BY <1>5, FlushedLoad
    <2> HIDE DEF w
    <2>2. Lighter(conn[c], w)
      BY <1>1, <2>1, LighterBy, Wordless
    <2> QED BY <1>0, <1>5, <2>1, <2>2, ConnStep DEF w
  <1>6. ASSUME session' = session, carry # <<>>, Heard(c), conn' = [conn EXCEPT ![c] = Flushed(c, Sent(c, m))]
        PROVE  ScreenInv'
    <2> DEFINE v == Sent(c, m)
               w == Flushed(c, v)
               down == Append(conn[c].down, m)
               q == Down(c, n)
               M == [Load EXCEPT ![q] = Load[q] \o Load[p], ![p] = <<>>]
    <2>1. m \in Message /\ m.data = carry
      BY <1>1, MessageTypes DEF Output
    <2>2. v \in Conn /\ v.to = s /\ v.down = down
      BY <1>0, <1>6, <2>1, SentType, SentFields, SentLoad
    <2>3. w.to = s /\ w.at = "serving" /\ w.carry = <<>> /\ (w.down = down \/ w.down = Append(down, Closed))
      <3> HIDE DEF v
      <3> QED BY <2>2, FlushedLoad
    <2>4. down \in Seq(Message)
      BY <1>1, <2>1, AppendProperties
    <2>5. /\ n \in Nth /\ DataAt(conn[c].down, n) = <<>>
          /\ \A i \in Nth : DataAt(down, i) = IF i = n THEN carry ELSE DataAt(conn[c].down, i)
      BY <1>1, <2>1, DataAfter
    <2>6. \A i \in Nth : DataAt(Append(down, Closed), i) = <<>> \/ DataAt(Append(down, Closed), i) = DataAt(down, i)
      <3> HIDE DEF down
      <3> QED BY <2>4, DataAfter, Wordless
    <2> HIDE DEF w, v, down, n, carry
    <2>7. \A i \in Nth : \/ Data(conn', c, i) = <<>>
                         \/ i = n /\ Data(conn', c, i) = carry
                         \/ i # n /\ Data(conn', c, i) = Data(conn, c, i)
      <3>1. conn'[c].down = down \/ conn'[c].down = Append(down, Closed)
        BY <1>0, <1>6, <2>3 DEF v, w
      <3> QED BY <2>5, <2>6, <3>1 DEF Data, DataAt
    <2>8. /\ \A d \in Conns : conn'[d].to = conn[d].to /\ Served(d) /\ (d # c => conn'[d] = conn[d])
          /\ conn'[c].carry = <<>>
      BY <1>4, <1>6, <2>3 DEF v, w
    <2>9. q \in Spots /\ p # q /\ From[q] = s /\ Load[q] = <<>>
      <3>1. q \in Spots /\ p # q
        <4>1. q \in Spots
          BY <2>5, SpotKinds
        <4> QED BY <4>1, SpotNames
      <3>2. From[q] = s /\ Load[q] = <<>>
        BY <2>5, LoadIs DEF Data, DataAt
      <3> QED BY <3>1, <3>2
    <2>10. Chunks(M, From, session')
      BY <1>0, <1>2, <1>6, <2>9, LoadMoves
    <2>11. M[p] = <<>> /\ M[q] = <<>> \o carry /\ \A r \in Spots \ {p, q} : M[r] = Load[r]
      BY <1>2, <2>9
    <2> HIDE DEF M
    <2>12. \A r \in Spots : Load'[r] = <<>> \/ (From'[r] = From[r] /\ Window(Load'[r], M[r]))
      <3> SUFFICES ASSUME NEW r \in Spots, Load'[r] # <<>> PROVE From'[r] = From[r] /\ Window(Load'[r], M[r])
        OBVIOUS
      <3>1. From'[r] = From[r] /\ r # p /\ (r = q => Load'[r] = carry) /\ (r # q => Load'[r] = Load[r])
        <4>1. ASSUME NEW t \in Sessions, r = Buffer(t)
              PROVE  From'[r] = From[r] /\ Load'[r] = Load[r] /\ r # p /\ r # q
          <5>1. r # p /\ r # q
            BY <4>1, SpotNames
          <5> QED BY <1>6, <4>1, <5>1, LoadIs, LoadWillBe
        <4>2. ASSUME NEW d \in Conns, r = Carry(d)
              PROVE  From'[r] = From[r] /\ Load'[r] = Load[r] /\ r # p /\ r # q
          <5>1. r # q /\ (d = c <=> r = p)
            BY <4>2, SpotNames
          <5>2. From'[r] = From[r] /\ Load'[r] = conn'[d].carry /\ Load[r] = conn[d].carry
            BY <2>8, <4>2, LoadIs, LoadWillBe
          <5> QED BY <2>8, <5>1, <5>2
        <4>3. ASSUME NEW d \in Conns, NEW i \in Nth, r = Down(d, i)
              PROVE  From'[r] = From[r] /\ r # p /\ (r = q => Load'[r] = carry) /\ (r # q => Load'[r] = Load[r])
          <5>1. r # p /\ (r = q <=> (d = c /\ i = n))
            BY <4>3, SpotNames
          <5>2. From'[r] = From[r] /\ Load'[r] = Data(conn', d, i) /\ Load[r] = Data(conn, d, i)
            BY <2>8, <4>3, LoadIs, LoadWillBe
          <5>3. d # c => Data(conn', d, i) = Data(conn, d, i)
            BY <2>8 DEF Data
          <5> QED BY <2>7, <5>1, <5>2, <5>3
        <4>4. CASE r = Shown
          <5>1. r # p /\ r # q
            BY <4>4, SpotNames
          <5> QED BY <1>0, <4>4, <5>1, LoadIs, LoadWillBe
        <4> QED BY <4>1, <4>2, <4>3, <4>4, SpotKinds
      <3>2. CASE r = q
        <4>1. <<>> \in Seq(Nat)
          OBVIOUS
        <4>2. Window(carry, <<>> \o carry)
          BY <1>2, <4>1, ConcatWindow
        <4> QED BY <2>11, <3>1, <3>2, <4>2
      <3>3. CASE r # q
        <4>1. Load[r] \in Seq(Nat)
          BY <1>2
        <4> QED BY <2>11, <3>1, <3>3, <4>1, Same
      <3> QED BY <3>2, <3>3
    <2>13. Chunks(Load', From', session')
      BY <1>0, <2>10, <2>12, Settled
    <2>14. OnServes'
      <3>1. \A r \in Sessions : Milder(r)
        BY <1>0, <1>6, <2>8, MildSame
      <3> QED BY <1>0, <3>1, OnCalm DEF Milder
    <2> QED BY <1>3, <2>13, <2>14 DEF ScreenInv
  <1>7. ASSUME InMap(s), session' = [session EXCEPT ![s] = [Detached(s, c) EXCEPT !.buf = Kept(@ \o carry)]],
               conn' = [conn EXCEPT ![c] = Flushed(c, conn[c])]
        PROVE  ScreenInv'
    <2> DEFINE w == Flushed(c, conn[c])
               k == Kept(session[s].buf \o carry)
               v == [Detached(s, c) EXCEPT !.buf = Kept(Detached(s, c).buf \o carry)]
               q == Buffer(s)
               M == [Load EXCEPT ![q] = Load[q] \o Load[p], ![p] = <<>>]
    <2>1. w.to = s /\ w.at = "serving" /\ w.carry = <<>> /\ (w.down = conn[c].down \/ w.down = Append(conn[c].down, Closed))
      BY <1>1, FlushedLoad
    <2> HIDE DEF w
    <2>2. /\ \A d \in Conns : conn'[d].to = conn[d].to /\ Served(d) /\ (d # c => conn'[d] = conn[d])
          /\ conn'[c] = w
      BY <1>4, <1>7, <2>1 DEF w
    <2>3. /\ session'[s].buf = k /\ session'[s].state = session[s].state /\ session'[s].made = session[s].made
          /\ session'[s].gen = session[s].gen /\ (session'[s].on = None \/ session'[s].on = session[s].on)
          /\ \A r \in Sessions \ {s} : session'[r] = session[r]
      <3>1. session[s] \in Session
        BY <1>0, <1>1
      <3>2. /\ Detached(s, c) \in Session /\ Detached(s, c).buf = session[s].buf /\ Detached(s, c).state = session[s].state
            /\ Detached(s, c).made = session[s].made /\ Detached(s, c).gen = session[s].gen
            /\ Detached(s, c).on = None \/ Detached(s, c).on = session[s].on
        <4>1. Detached(s, c) \in Session
          BY <1>0, <1>1, DetachedType
        <4> QED BY <3>1, <4>1 DEF Detached, Session
      <3>3. /\ v.buf = k /\ v.state = session[s].state /\ v.made = session[s].made /\ v.gen = session[s].gen
            /\ v.on = None \/ v.on = session[s].on
        BY <3>2 DEF Session
      <3>4. session' = [session EXCEPT ![s] = v]
        BY <1>7
      <3> HIDE DEF v, s, k
      <3>5. s \in Sessions
        BY <1>1
      <3> QED BY <1>0, <3>3, <3>4, <3>5
    <2> HIDE DEF v
    <2>4. OnServes'
      <3>1. \A r \in Sessions : session[r].on \in Conns \cup {None}
        BY <1>0, SessionFields
      <3>2. \A r \in Sessions : Calls(r)
        <4> SUFFICES ASSUME NEW r \in Sessions PROVE Calls(r)
          OBVIOUS
        <4>1. session'[r].state = session[r].state /\ session'[r].gen = session[r].gen /\ (session'[r].on = None \/ session'[r].on = session[r].on)
          BY <2>3
        <4>2. session[r].on # None => (session[r].on \in Conns /\ Served(session[r].on) /\ conn[session[r].on].at \in {"taken", "serving"})
          BY <1>0, <2>2, <3>1 DEF OnServes
        <4> QED BY <4>1, <4>2 DEF Calls, Served, InMap
      <3> QED BY <1>0, <3>2, OnCalm
    <2>5. q \in Spots /\ p # q /\ From[q] = s /\ Load[q] = session[s].buf
      <3>1. q \in Spots /\ p # q
        BY <1>1, SpotKinds, SpotNames
      <3> QED BY <1>1, <3>1, LoadIs
    <2>6. Chunks(M, From, session)
      BY <1>0, <1>2, <2>5, LoadMoves
    <2>7. M[p] = <<>> /\ M[q] = session[s].buf \o carry /\ \A r \in Spots \ {p, q} : M[r] = Load[r]
      BY <1>2, <2>5
    <2>8. M \in [Spots -> Seq(Nat)] /\ session[s].buf \o carry \in Seq(Nat)
      <3>1. Load[q] \o Load[p] \in Seq(Nat) /\ <<>> \in Seq(Nat)
        BY <1>2, <2>5, ConcatProperties
      <3> QED BY <1>2, <2>5, <3>1
    <2> HIDE DEF M
    <2>9. Chunks(M, From, session')
      <3>1. Grows(session, session')
        <4>1. session[s].state # "gone"
          BY <1>7 DEF InMap
        <4> QED BY <2>3, <4>1 DEF Grows
      <3>2. \A r \in Spots : (From[r] = From[r] /\ Window(M[r], M[r])) /\ DOMAIN M[r] \subseteq Nat
        BY <2>8, Same
      <3> QED BY <2>6, <3>1, <3>2, LoadShrinks
    <2>10. \A r \in Spots : Load'[r] = <<>> \/ (From'[r] = From[r] /\ Window(Load'[r], M[r]))
      <3> SUFFICES ASSUME NEW r \in Spots, Load'[r] # <<>> PROVE From'[r] = From[r] /\ Window(Load'[r], M[r])
        OBVIOUS
      <3>1. From'[r] = From[r] /\ r # p /\ (r = q => Load'[r] = k) /\ (r # q => Load'[r] = Load[r])
        <4>1. ASSUME NEW t \in Sessions, r = Buffer(t)
              PROVE  From'[r] = From[r] /\ r # p /\ (r = q => Load'[r] = k) /\ (r # q => Load'[r] = Load[r])
          <5>1. r # p /\ (r = q <=> t = s)
            BY <4>1, SpotNames
          <5>2. From'[r] = From[r] /\ Load'[r] = session'[t].buf /\ Load[r] = session[t].buf
            BY <4>1, LoadIs, LoadWillBe
          <5> QED BY <2>3, <5>1, <5>2
        <4>2. ASSUME NEW d \in Conns, r = Carry(d)
              PROVE  From'[r] = From[r] /\ Load'[r] = Load[r] /\ r # p /\ r # q
          <5>1. r # q /\ (d = c <=> r = p)
            BY <4>2, SpotNames
          <5>2. From'[r] = From[r] /\ Load'[r] = conn'[d].carry /\ Load[r] = conn[d].carry
            BY <2>2, <4>2, LoadIs, LoadWillBe
          <5> QED BY <2>1, <2>2, <5>1, <5>2
        <4>3. ASSUME NEW d \in Conns, NEW i \in Nth, r = Down(d, i)
              PROVE  From'[r] = From[r] /\ Load'[r] = Load[r] /\ r # p /\ r # q
          <5>1. r # p /\ r # q
            BY <4>3, SpotNames
          <5>2. From'[r] = From[r] /\ Load'[r] = Data(conn', d, i) /\ Load[r] = Data(conn, d, i)
            BY <2>2, <4>3, LoadIs, LoadWillBe
          <5>3. Data(conn', d, i) = <<>> \/ Data(conn', d, i) = Data(conn, d, i)
            <6>1. CASE d # c
              BY <2>2, <6>1 DEF Data
            <6>2. CASE d = c
              <7>1. DataAt(w.down, i) = <<>> \/ DataAt(w.down, i) = DataAt(conn[c].down, i)
                BY <1>1, <2>1, DataAfter, Wordless
              <7> QED BY <2>2, <6>2, <7>1 DEF Data, DataAt
            <6> QED BY <6>1, <6>2
          <5> QED BY <5>1, <5>2, <5>3
        <4>4. CASE r = Shown
          <5>1. r # p /\ r # q
            BY <4>4, SpotNames
          <5> QED BY <1>0, <4>4, <5>1, LoadIs, LoadWillBe
        <4> QED BY <4>1, <4>2, <4>3, <4>4, SpotKinds
      <3>2. CASE r = q
        BY <2>7, <2>8, <3>1, <3>2, KeptWindow
      <3>3. CASE r # q
        <4>1. Load[r] \in Seq(Nat)
          BY <1>2
        <4> QED BY <2>7, <3>1, <3>3, <4>1, Same
      <3> QED BY <3>2, <3>3
    <2>11. Chunks(Load', From', session')
      BY <1>0, <2>9, <2>10, Settled
    <2> QED BY <1>3, <2>4, <2>11 DEF ScreenInv
  <1>8. CASE /\ carry = <<>> \/ ~conn[c].ended
             /\ conn' = [conn EXCEPT ![c] = Flushed(c, IF carry = <<>> THEN conn[c] ELSE Sent(c, Output(carry)))]
             /\ session' = session
    <2>1. CASE carry = <<>>
      BY <1>1, <1>5, <1>8, <2>1
    <2>2. CASE carry # <<>> /\ ~Heard(c)
      <3>1. Sent(c, m) \in Conn /\ Sent(c, m).to = s /\ Sent(c, m).down = conn[c].down
        BY <1>0, <1>1, <2>2, MessageTypes, SentType, SentFields, SentLoad
      <3> QED BY <1>5, <1>8, <2>2, <3>1
    <2>3. CASE carry # <<>> /\ Heard(c)
      BY <1>6, <1>8, <2>3
    <2> QED BY <2>1, <2>2, <2>3
  <1>9. CASE /\ session' = IF InMap(s) THEN [session EXCEPT ![s] = [Detached(s, c) EXCEPT !.buf = Kept(@ \o carry)]] ELSE session
             /\ conn' = [conn EXCEPT ![c] = Flushed(c, conn[c])]
    BY <1>1, <1>5, <1>7, <1>9
  <1> QED BY <1>8, <1>9 DEF AttachFlush

-----------------------------------------------------------------------------
(* The tab and the faults *)

\* nobody listens to a socket any more
LEMMA DroppedLoad == ASSUME TypeInv, NEW b \in Conns \cup {None}
                     PROVE  \A d \in Conns : /\ Dropped(b)[d].to = conn[d].to /\ Dropped(b)[d].at = conn[d].at
                                             /\ Lighter(conn[d], Dropped(b)[d])
  <1> SUFFICES ASSUME NEW d \in Conns
               PROVE  Dropped(b)[d].to = conn[d].to /\ Dropped(b)[d].at = conn[d].at /\ Lighter(conn[d], Dropped(b)[d])
    OBVIOUS
  <1>1. conn \in [Conns -> Conn] /\ conn[d] \in Conn
    BY DEF TypeInv, TypeOK
  <1>2. Dropped(b)[d] = conn[d] \/ Dropped(b)[d] = [conn[d] EXCEPT !.end = "closed", !.down = <<>>]
    BY <1>1 DEF Dropped
  <1> DEFINE w == Dropped(b)[d]
  <1>3. w.to = conn[d].to /\ w.at = conn[d].at /\ w.carry = conn[d].carry /\ (w.down = conn[d].down \/ w.down = <<>>)
    BY <1>1, <1>2 DEF Conn
  <1> HIDE DEF w
  <1>4. Lighter(conn[d], w)
    BY <1>1, <1>3, LighterBy
  <1> QED BY <1>3, <1>4 DEF w

\* a step of the tab that moves no output
LEMMA TabCalm == ASSUME TypeInv, TypeInv', ScreenInv, session' = session,
                        \A d \in Conns : Lighter(conn[d], conn'[d]) /\ Served(d),
                        screen' = <<>> \/ (screen' = screen /\ hook'.epoch = hook.epoch)
                 PROVE  ScreenInv'
  <1>1. TypeOK /\ TypeOK' /\ OnServes
    BY DEF TypeInv, ScreenInv
  <1>2. \A s \in Sessions : Milder(s)
    BY <1>1, MildSame
  <1> QED BY <1>1, <1>2, CalmStep

LEMMA DropStep == ASSUME TypeInv, TypeInv', ScreenInv, session' = session, conn' = Dropped(hook.sock),
                         screen' = <<>> \/ (screen' = screen /\ hook'.epoch = hook.epoch)
                  PROVE  ScreenInv'
  <1>1. hook.sock \in Conns \cup {None}
    BY HookFields DEF TypeInv, TypeOK
  <1>2. \A d \in Conns : Lighter(conn[d], conn'[d]) /\ Served(d)
    BY <1>1, DroppedLoad DEF Served
  <1> QED BY <1>2, TabCalm

LEMMA ConnectStep == ASSUME TypeInv, TypeInv', ScreenInv, session' = session, screen' = screen, NEW h \in Hook, h.epoch = hook.epoch,
                            h.sid # None, NEW c \in Conns, Connect(h, c)
                     PROVE  ScreenInv'
  <1>0. conn \in [Conns -> Conn] /\ h.sock \in Conns \cup {None}
    BY DEF TypeInv, TypeOK, Hook
  <1>1. hook'.epoch = hook.epoch
    BY <1>0, ConnectTypes
  <1>2. conn' = [Dropped(h.sock) EXCEPT ![c] = Asked(h.sid)] /\ conn[c].at \in {"refused", "done"}
    BY DEF Connect, Free
  <1>3. Dropped(h.sock) \in [Conns -> Conn]
    BY <1>0, DroppedType
  <1>4. Asked(h.sid).carry = <<>> /\ Asked(h.sid).down = <<>>
    BY DEF Asked, NoConn
  <1>5. \A d \in Conns : Lighter(conn[d], conn'[d]) /\ Served(d)
    <2> SUFFICES ASSUME NEW d \in Conns PROVE Lighter(conn[d], conn'[d]) /\ Served(d)
      OBVIOUS
    <2>1. CASE d = c
      <3>1. conn'[d] = Asked(h.sid)
        BY <1>2, <1>3, <2>1
      <3> QED BY <1>2, <1>4, <2>1, <3>1 DEF Lighter, Served
    <2>2. CASE d # c
      <3>1. conn'[d] = Dropped(h.sock)[d]
        BY <1>2, <1>3, <2>2
      <3> QED BY <1>0, <3>1, DroppedLoad DEF Served
    <2> QED BY <2>1, <2>2
  <1> QED BY <1>1, <1>5, TabCalm

\* one websocket changes at the end of the browser only
LEMMA SocketStep == ASSUME TypeInv, TypeInv', ScreenInv, session' = session, screen' = screen, hook'.epoch = hook.epoch,
                           NEW c \in Conns, NEW w, conn' = [conn EXCEPT ![c] = w], w.to = conn[c].to, w.at = conn[c].at,
                           w.carry = conn[c].carry, w.down = conn[c].down
                    PROVE  ScreenInv'
  <1>0. TypeOK /\ conn \in [Conns -> Conn] /\ conn[c] \in Conn
    BY DEF TypeInv, TypeOK
  <1>1. Lighter(conn[c], w)
    BY <1>0, LighterBy
  <1>2. \A d \in Conns : Lighter(conn[d], conn'[d])
    BY <1>0, <1>1, LighterOne
  <1>3. \A d \in Conns : Served(d)
    BY <1>0 DEF Served
  <1> QED BY <1>2, <1>3, TabCalm

LEMMA HookStep == ASSUME TypeInv, TypeInv', ScreenInv, session' = session, conn' = conn, screen' = screen, hook'.epoch = hook.epoch
                  PROVE  ScreenInv'
  <1>1. \A d \in Conns : Lighter(conn[d], conn'[d]) /\ Served(d)
    BY DEF Lighter, Served
  <1> QED BY <1>1, TabCalm

LEMMA CallSteps == ASSUME TypeInv, TypeInv', ScreenInv, PreviousReleased \/ StartFails \/ Kick \/ Start \/ Unmount \/ Leave
                   PROVE  ScreenInv'
  <1>0. hook \in Hook
    BY DEF TypeInv, TypeOK
  <1>1. CASE PreviousReleased \/ StartFails
    <2>1. hook'.epoch = hook.epoch /\ session' = session /\ conn' = conn /\ screen' = screen
      BY <1>0, <1>1 DEF PreviousReleased, StartFails, Hook
    <2> QED BY <2>1, HookStep
  <1>2. CASE Kick
    <2> DEFINE h == [hook EXCEPT !.attempt = 0]
    <2>1. h \in Hook /\ h.epoch = hook.epoch /\ h.attempt <= MaxAttempts
      <3>1. 0 \in 0..(MaxAttempts + 1) /\ 0 <= MaxAttempts
        BY TerminalAssumption
      <3> QED BY <1>0, <3>1 DEF Hook
    <2>2. hook' = Scheduled(h, TRUE) /\ session' = session /\ conn' = conn /\ screen' = screen
      BY <1>2 DEF Kick
    <2> HIDE DEF h
    <2>3. hook'.epoch = hook.epoch
      BY <2>1, <2>2, ScheduledHook
    <2> QED BY <2>2, <2>3, HookStep
  <1>3. CASE Start
    BY <1>3, DropStep DEF Start
  <1>4. CASE Unmount \/ Leave
    <2>1. hook'.epoch = hook.epoch /\ session' = session /\ conn' = Dropped(hook.sock) /\ screen' = screen
      BY <1>0, <1>4 DEF Unmount, Leave, Hook
    <2> QED BY <2>1, DropStep
  <1> QED BY <1>1, <1>2, <1>3, <1>4

LEMMA SocketSteps == ASSUME TypeInv, TypeInv', ScreenInv, NEW c \in Conns,
                            StartAnswered(c) \/ OnOpen(c) \/ Watchdog(c) \/ OnClose(c) \/ Reconnect(c)
                     PROVE  ScreenInv'
  <1>0. conn \in [Conns -> Conn] /\ hook \in Hook /\ Calling /\ conn[c] \in Conn
    BY DEF TypeInv, TypeOK
  <1>1. CASE StartAnswered(c)
    <2> DEFINE h == [hook EXCEPT !.call = "none", !.sid = hook.epoch, !.ui = hook.ui \ {"starting"}]
    <2>1. hook.epoch \in Sessions /\ hook.epoch # None /\ Connect(h, c) /\ session' = session /\ screen' = screen
      BY <1>0, <1>1 DEF StartAnswered, Calling, Sessions, None
    <2>2. h \in Hook /\ h.sid # None /\ h.epoch = hook.epoch
      BY <1>0, <2>1, HookFields DEF Hook
    <2> HIDE DEF h
    <2> QED BY <2>1, <2>2, ConnectStep
  <1>2. CASE Reconnect(c)
    <2> DEFINE h == [hook EXCEPT !.timer = FALSE]
    <2>1. h \in Hook /\ h.sid = hook.sid /\ h.epoch = hook.epoch
      BY <1>0 DEF Hook
    <2>2. (hook' = h /\ conn' = conn) \/ (h.sid # None /\ Connect(h, c))
      BY <1>2, <2>1 DEF Reconnect
    <2>3. session' = session /\ screen' = screen
      BY <1>2 DEF Reconnect
    <2> HIDE DEF h
    <2> QED BY <2>1, <2>2, <2>3, ConnectStep, HookStep
  <1>3. CASE OnOpen(c)
    <2> DEFINE w == [conn[c] EXCEPT !.end = "open", !.up = hook.pending]
    <2>1. w.to = conn[c].to /\ w.at = conn[c].at /\ w.carry = conn[c].carry /\ w.down = conn[c].down
      BY <1>0 DEF Conn
    <2>2. conn' = [conn EXCEPT ![c] = w] /\ session' = session /\ screen' = screen
      BY <1>0, <1>3 DEF OnOpen, Conn
    <2>3. hook'.epoch = hook.epoch
      BY <1>0, <1>3 DEF OnOpen, Hook
    <2> HIDE DEF w
    <2> QED BY <2>1, <2>2, <2>3, SocketStep
  <1>4. CASE Watchdog(c) \/ OnClose(c)
    <2>1. PICK e \in {"closing", "closed"} : conn' = [conn EXCEPT ![c] = [conn[c] EXCEPT !.end = e]]
      BY <1>4 DEF Watchdog, OnClose
    <2> DEFINE w == [conn[c] EXCEPT !.end = e]
    <2>2. w.to = conn[c].to /\ w.at = conn[c].at /\ w.carry = conn[c].carry /\ w.down = conn[c].down
      BY <1>0 DEF Conn
    <2>3. hook'.epoch = hook.epoch
      <3>1. CASE Watchdog(c)
        BY <3>1 DEF Watchdog
      <3>2. CASE OnClose(c)
        <4> DEFINE h == [hook EXCEPT !.sock = None]
                   g == [h EXCEPT !.ui = h.ui \ {"connected"}]
        <4>1. hook' = h \/ hook' = Scheduled(g, FALSE)
          BY <3>2 DEF OnClose
        <4>2. h.epoch = hook.epoch /\ h \in Hook
          BY <1>0 DEF Hook
        <4>3. g.epoch = hook.epoch /\ g \in Hook
          <5> HIDE DEF h
          <5> QED BY <4>2 DEF Hook
        <4>4. \A x \in Hook : Scheduled(x, FALSE).epoch = x.epoch
          BY DEF Scheduled, Hook
        <4> HIDE DEF h, g
        <4> QED BY <4>1, <4>2, <4>3, <4>4
      <3> QED BY <1>4, <3>1, <3>2
    <2>4. session' = session /\ screen' = screen
      BY <1>4 DEF Watchdog, OnClose
    <2> HIDE DEF w
    <2> QED BY <2>1, <2>2, <2>3, <2>4, SocketStep DEF w
  <1> QED BY <1>1, <1>2, <1>3, <1>4

LEMMA InputStep == ASSUME TypeInv, TypeInv', ScreenInv, SendInput
                   PROVE  ScreenInv'
  <1> DEFINE c == hook.sock
             u == Append(conn[c].up, Len(typed) + 1)
             w == [conn[c] EXCEPT !.up = u]
  <1>0. conn \in [Conns -> Conn] /\ hook \in Hook /\ c \in Conns \cup {None}
    BY HookFields DEF TypeInv, TypeOK
  <1>1. conn' = conn \/ (c \in Conns /\ conn' = [conn EXCEPT ![c] = w])
    BY <1>0 DEF SendInput
  <1>2. hook'.epoch = hook.epoch /\ session' = session /\ screen' = screen
    BY <1>0 DEF SendInput, Hook
  <1>3. ASSUME c \in Conns, conn' = [conn EXCEPT ![c] = w] PROVE ScreenInv'
    <2>1. conn[c] \in Conn
      BY <1>0, <1>3
    <2>2. w.to = conn[c].to /\ w.at = conn[c].at /\ w.carry = conn[c].carry /\ w.down = conn[c].down
      <3> HIDE DEF u
      <3> QED BY <2>1 DEF Conn
    <2> HIDE DEF w, c
    <2> QED BY <1>2, <1>3, <2>2, SocketStep
  <1> QED BY <1>1, <1>2, <1>3, HookStep

LEMMA ScreenFault == ASSUME TypeInv, TypeInv', ScreenInv, Fault
                     PROVE  ScreenInv'
  <1>0. TypeOK /\ TypeOK' /\ session \in [Sessions -> Session] /\ conn \in [Conns -> Conn] /\ OnServes
    BY DEF TypeInv, TypeOK, ScreenInv
  <1>h. hook' = hook /\ screen' = screen
    BY DEF Fault, Cut, LoseRequest, Restart
  <1>1. \A d \in Conns : /\ Broken(d) \in Conn /\ Broken(d).to = conn[d].to /\ Broken(d).carry = conn[d].carry /\ Broken(d).down = <<>>
                         /\ conn[d].at \in {"taken", "serving"} => Broken(d).at = conn[d].at
    <2> SUFFICES ASSUME NEW d \in Conns
                 PROVE  /\ Broken(d) \in Conn /\ Broken(d).to = conn[d].to /\ Broken(d).carry = conn[d].carry /\ Broken(d).down = <<>>
                        /\ conn[d].at \in {"taken", "serving"} => Broken(d).at = conn[d].at
      OBVIOUS
    <2>1. conn[d] \in Conn
      BY <1>0
    <2>2. Broken(d).carry = conn[d].carry /\ Broken(d).down = <<>>
      BY <2>1 DEF Broken, Conn
    <2> QED BY <1>0, <2>2, BrokenType, BrokenFields
  <1>2. ASSUME NEW c \in Conns, Cut(c) PROVE ScreenInv'
    <2> DEFINE w == Broken(c)
    <2>1. conn' = [conn EXCEPT ![c] = w] /\ session' = session
      BY <1>2 DEF Cut
    <2>2. conn[c] \in Conn /\ w.to = conn[c].to /\ w.carry = conn[c].carry /\ w.down = <<>> /\ (conn[c].at \in {"taken", "serving"} => w.at = conn[c].at)
      BY <1>0, <1>1
    <2> HIDE DEF w
    <2>3. Lighter(conn[c], w)
      BY <2>2, LighterBy
    <2> QED BY <1>h, <2>1, <2>2, <2>3, ConnStep
  <1>3. ASSUME LoseRequest PROVE ScreenInv'
    BY <1>3, HookStep DEF LoseRequest
  <1>4. ASSUME Restart PROVE ScreenInv'
    <2>1. \A s \in Sessions : Milder(s)
      <3> SUFFICES ASSUME NEW s \in Sessions PROVE Milder(s)
        OBVIOUS
      <3>1. session'[s] = IF InMap(s) THEN [NoSession EXCEPT !.state = "gone"] ELSE session[s]
        BY <1>4 DEF Restart
      <3>2. CASE InMap(s)
        BY <3>1, <3>2 DEF Milder, Calls, NoSession
      <3>3. CASE ~InMap(s)
        <4>1. session[s].on = None
          BY <1>0, <3>3 DEF OnServes
        <4> QED BY <3>1, <3>3, <4>1 DEF Milder, Calls
      <3> QED BY <3>2, <3>3
    <2>2. \A d \in Conns : Lighter(conn[d], conn'[d])
      <3> SUFFICES ASSUME NEW d \in Conns PROVE Lighter(conn[d], conn'[d])
        OBVIOUS
      <3> DEFINE v == Broken(d)
                 a == IF v.at = "refused" THEN v.at ELSE "done"
                 w == [v EXCEPT !.at = a, !.ended = TRUE, !.carry = <<>>]
      <3>1. conn'[d] = w
        BY <1>4 DEF Restart
      <3>2. v \in Conn /\ v.to = conn[d].to /\ v.down = <<>>
        BY <1>1
      <3>3. w.to = conn[d].to /\ w.down = <<>> /\ w.carry = <<>>
        <4> HIDE DEF v, a
        <4> QED BY <3>2 DEF Conn
      <3>4. conn[d] \in Conn
        BY <1>0
      <3> HIDE DEF w
      <3> QED BY <3>1, <3>3, <3>4, LighterBy
    <2> QED BY <1>0, <1>h, <2>1, <2>2, CalmStep
  <1> QED BY <1>2, <1>3, <1>4 DEF Fault

-----------------------------------------------------------------------------
(* The tab reads a message *)

LEMMA DataRest == ASSUME NEW q \in Seq(Message), q # <<>>
                  PROVE  /\ Head(q) \in Message /\ DataAt(q, 1) = Head(q).data
                         /\ \A i \in Nth : DataAt(Tail(q), i) = DataAt(q, i + 1)
  <1>1. /\ Len(q) \in Nat /\ DOMAIN q = 1..Len(q) /\ Len(q) # 0
    BY LenProperties, EmptySeq
  <1>2. /\ Head(q) \in Message /\ Head(q) = q[1] /\ Tail(q) \in Seq(Message) /\ Len(Tail(q)) = Len(q) - 1
        /\ \A i \in 1..Len(Tail(q)) : Tail(q)[i] = q[i + 1]
    BY HeadTailProperties, ElementOfSeq, <1>1
  <1>3. DOMAIN Tail(q) = 1..(Len(q) - 1)
    BY <1>2, LenProperties
  <1>4. DataAt(q, 1) = Head(q).data
    <2>1. 1 \in DOMAIN q
      BY <1>1
    <2> QED BY <1>2, <2>1 DEF DataAt
  <1>5. ASSUME NEW i \in Nth PROVE DataAt(Tail(q), i) = DataAt(q, i + 1)
    <2>1. i \in DOMAIN Tail(q) <=> i + 1 \in DOMAIN q
      BY <1>1, <1>3 DEF Nth
    <2>2. i \in DOMAIN Tail(q) => Tail(q)[i] = q[i + 1]
      BY <1>2, <1>3
    <2> QED BY <2>1, <2>2 DEF DataAt
  <1> QED BY <1>2, <1>4, <1>5

\* the chunks of what is shown, and what a message adds to it
Texts(r) == [k \in DOMAIN r |-> r[k][2]]
Marked(t, d) == [k \in DOMAIN d |-> <<t, d[k]>>]
Extends(r, q, t, d) == /\ Texts(r) = Texts(q) \o d
                       /\ \A k \in DOMAIN r : r[k][1] = t \/ (k \in DOMAIN q /\ r[k] = q[k])

LEMMA ShownAfter == ASSUME NEW q \in Seq(Sessions \X (1..MaxOutput)), NEW t \in Sessions, NEW d \in Seq(1..MaxOutput),
                           NEW r, r = q \o Marked(t, d)
                    PROVE  Extends(r, q, t, d)
  <1> DEFINE e == Marked(t, d)
             u == Texts(q)
             v == Texts(r)
  <1>1. /\ Len(q) \in Nat /\ DOMAIN q = 1..Len(q) /\ Len(d) \in Nat /\ DOMAIN d = 1..Len(d)
        /\ \A k \in 1..Len(q) : q[k] \in Sessions \X (1..MaxOutput)
        /\ \A k \in 1..Len(d) : d[k] \in 1..MaxOutput
    BY LenProperties, ElementOfSeq
  <1>2. e \in Seq(Sessions \X (1..MaxOutput)) /\ Len(e) = Len(d) /\ \A k \in 1..Len(d) : e[k] = <<t, d[k]>>
    <2>1. \A k \in 1..Len(d) : <<t, d[k]>> \in Sessions \X (1..MaxOutput)
      BY <1>1
    <2>2. e = [k \in 1..Len(d) |-> <<t, d[k]>>]
      BY <1>1 DEF Marked
    <2>3. e \in Seq(Sessions \X (1..MaxOutput))
      BY <1>1, <2>1, <2>2, IsASeq
    <2>4. DOMAIN e = 1..Len(e) /\ Len(e) \in Nat
      BY <2>3, LenProperties
    <2>5. 1..Len(e) = 1..Len(d)
      BY <1>1, <2>2, <2>4
    <2> HIDE DEF e
    <2> QED BY <1>1, <2>2, <2>3, <2>4, <2>5
  <1> HIDE DEF e
  <1>3. /\ r \in Seq(Sessions \X (1..MaxOutput)) /\ Len(r) = Len(q) + Len(d) /\ DOMAIN r = 1..(Len(q) + Len(d))
        /\ \A k \in 1..(Len(q) + Len(d)) : r[k] = IF k <= Len(q) THEN q[k] ELSE e[k - Len(q)]
    <2>1. r = q \o e
      BY DEF e
    <2>2. /\ q \o e \in Seq(Sessions \X (1..MaxOutput)) /\ Len(q \o e) = Len(q) + Len(e)
          /\ \A k \in 1..(Len(q) + Len(e)) : (q \o e)[k] = IF k <= Len(q) THEN q[k] ELSE e[k - Len(q)]
      BY <1>2, ConcatProperties
    <2>3. DOMAIN (q \o e) = 1..Len(q \o e)
      BY <2>2, LenProperties
    <2> QED BY <1>2, <2>1, <2>2, <2>3
  <1>4. /\ u \in Seq(1..MaxOutput) /\ Len(u) = Len(q) /\ \A k \in 1..Len(q) : u[k] = q[k][2]
    <2>1. \A k \in 1..Len(q) : q[k][2] \in 1..MaxOutput
      BY <1>1
    <2>2. u = [k \in 1..Len(q) |-> q[k][2]]
      BY <1>1 DEF Texts
    <2>3. u \in Seq(1..MaxOutput)
      BY <1>1, <2>1, <2>2, IsASeq
    <2>4. DOMAIN u = 1..Len(u) /\ Len(u) \in Nat
      BY <2>3, LenProperties
    <2>5. 1..Len(u) = 1..Len(q)
      BY <1>1, <2>2, <2>4
    <2> HIDE DEF u
    <2> QED BY <1>1, <2>2, <2>3, <2>4, <2>5
  <1> HIDE DEF u
  <1>5. /\ u \o d \in Seq(1..MaxOutput) /\ Len(u \o d) = Len(q) + Len(d) /\ DOMAIN (u \o d) = 1..(Len(q) + Len(d))
        /\ \A k \in 1..(Len(q) + Len(d)) : (u \o d)[k] = IF k <= Len(q) THEN u[k] ELSE d[k - Len(q)]
    <2>1. /\ u \o d \in Seq(1..MaxOutput) /\ Len(u \o d) = Len(u) + Len(d)
          /\ \A k \in 1..(Len(u) + Len(d)) : (u \o d)[k] = IF k <= Len(u) THEN u[k] ELSE d[k - Len(u)]
      <3>1. u \in Seq(Nat) /\ d \in Seq(Nat) /\ u \in Seq(1..MaxOutput) /\ d \in Seq(1..MaxOutput)
        <4>1. 1..MaxOutput \subseteq Nat
          BY TerminalAssumption
        <4> QED BY <1>4, <4>1, SeqMonotonic
      <3>2. Len(u \o d) = Len(u) + Len(d) /\ \A k \in 1..(Len(u) + Len(d)) : (u \o d)[k] = IF k <= Len(u) THEN u[k] ELSE d[k - Len(u)]
        BY <3>1, ConcatProperties
      <3>3. u \o d \in Seq(1..MaxOutput)
        BY <3>1, ConcatProperties
      <3> QED BY <3>2, <3>3
    <2>2. DOMAIN (u \o d) = 1..Len(u \o d)
      BY <2>1, LenProperties
    <2> QED BY <1>4, <2>1, <2>2
  <1>6. \A k \in 1..(Len(q) + Len(d)) : r[k][2] = (u \o d)[k] /\ (r[k][1] = t \/ (k \in 1..Len(q) /\ r[k] = q[k]))
    <2> SUFFICES ASSUME NEW k \in 1..(Len(q) + Len(d))
                 PROVE  r[k][2] = (u \o d)[k] /\ (r[k][1] = t \/ (k \in 1..Len(q) /\ r[k] = q[k]))
      OBVIOUS
    <2>1. CASE k <= Len(q)
      <3>1. k \in 1..Len(q) /\ r[k] = q[k] /\ (u \o d)[k] = u[k]
        BY <1>1, <1>3, <1>5, <2>1
      <3> QED BY <1>4, <3>1
    <2>2. CASE ~(k <= Len(q))
      <3>1. k - Len(q) \in 1..Len(d) /\ r[k] = e[k - Len(q)] /\ (u \o d)[k] = d[k - Len(q)]
        BY <1>1, <1>3, <1>5, <2>2
      <3>2. r[k] = <<t, d[k - Len(q)]>>
        BY <1>2, <3>1
      <3> QED BY <3>1, <3>2
    <2> QED BY <2>1, <2>2
  <1>7. v = u \o d
    <2>1. v = [k \in 1..(Len(q) + Len(d)) |-> (u \o d)[k]]
      BY <1>3, <1>6 DEF Texts
    <2>2. u \o d = [k \in 1..(Len(q) + Len(d)) |-> (u \o d)[k]]
      <3>1. \A x \in Seq(1..MaxOutput) : x = [k \in DOMAIN x |-> x[k]]
        OBVIOUS
      <3> QED BY <1>5, <3>1
    <2> QED BY <2>1, <2>2
  <1> QED BY <1>1, <1>3, <1>6, <1>7 DEF u, Extends

LEMMA MessageStep == ASSUME TypeInv, TypeInv', ScreenInv, NEW c \in Conns, OnMessage(c)
                     PROVE  ScreenInv'
  <1> DEFINE msg == Head(conn[c].down)
             p == Down(c, 1)
             M == [Load EXCEPT ![Shown] = Load[Shown] \o Load[p], ![p] = <<>>]
  <1>0. /\ TypeOK /\ TypeOK' /\ conn \in [Conns -> Conn] /\ OnServes /\ OneShell /\ Chunks(Load, From, session)
        /\ conn[c] \in Conn /\ screen \in Seq(Sessions \X (1..MaxOutput)) /\ hook \in Hook
    BY DEF TypeInv, ScreenInv, TypeOK
  <1>1. /\ conn[c].down \in Seq(Message) /\ conn[c].down # <<>> /\ session' = session
        /\ hook.epoch = conn[c].to /\ hook.sock = c /\ hook.sid = conn[c].to
    BY <1>0 DEF OnMessage, IsCurrent, Conn
  <1>2. /\ conn'[c].down = Tail(conn[c].down) /\ \A d \in Conns \ {c} : conn'[d] = conn[d]
        /\ \A d \in Conns : conn'[d].to = conn[d].to /\ conn'[d].at = conn[d].at /\ conn'[d].carry = conn[d].carry
    <2> DEFINE w == [conn[c] EXCEPT !.down = Tail(conn[c].down)]
    <2>1. conn' = [conn EXCEPT ![c] = w]
      BY DEF OnMessage
    <2>2. w.down = Tail(conn[c].down) /\ w.to = conn[c].to /\ w.at = conn[c].at /\ w.carry = conn[c].carry
      BY <1>0 DEF Conn
    <2> HIDE DEF w
    <2> QED BY <1>0, <2>1, <2>2
  <1>3. msg \in Message /\ DataAt(conn[c].down, 1) = msg.data
        /\ \A i \in Nth : DataAt(conn'[c].down, i) = DataAt(conn[c].down, i + 1)
    BY <1>1, <1>2, DataRest
  <1>4. hook'.epoch = hook.epoch
    BY <1>0 DEF OnMessage, Hook
  <1>5. /\ msg.kind = "output" => screen' = screen \o [k \in DOMAIN msg.data |-> <<conn[c].to, msg.data[k]>>]
        /\ msg.kind # "output" => screen' = screen /\ msg.data = <<>>
    <2>1. msg.kind = "output" \/ msg.data = <<>>
      BY <1>3 DEF Message
    <2> QED BY <2>1 DEF OnMessage
  <1> HIDE DEF msg
  <1>6. OnServes'
    <2>1. \A d \in Conns : Served(d)
      BY <1>2 DEF Served
    <2>2. \A s \in Sessions : Milder(s)
      BY <1>0, <1>1, <2>1, MildSame
    <2> QED BY <1>0, <2>2, OnCalm DEF Milder
  <1>7. \A r \in Spots : From'[r] = From[r]
    <2> SUFFICES ASSUME NEW r \in Spots PROVE From'[r] = From[r]
      OBVIOUS
    <2>1. CASE \E s \in Sessions : r = Buffer(s)
      BY <2>1, LoadIs, LoadWillBe
    <2>2. CASE \E d \in Conns : r = Carry(d) \/ \E i \in Nth : r = Down(d, i)
      BY <1>2, <2>2, LoadIs, LoadWillBe
    <2>3. CASE r = Shown
      BY <1>4, <2>3, LoadIs, LoadWillBe
    <2> QED BY <2>1, <2>2, <2>3, SpotKinds
  \* the places the step leaves alone, and the messages that move up
  <1>8. \A r \in Spots : (r # Shown /\ \A i \in Nth : r # Down(c, i)) => Load'[r] = Load[r]
    <2> SUFFICES ASSUME NEW r \in Spots, r # Shown, \A i \in Nth : r # Down(c, i) PROVE Load'[r] = Load[r]
      OBVIOUS
    <2>1. CASE \E s \in Sessions : r = Buffer(s)
      BY <1>1, <2>1, LoadIs, LoadWillBe
    <2>2. CASE \E d \in Conns : r = Carry(d)
      BY <1>2, <2>2, LoadIs, LoadWillBe
    <2>3. ASSUME NEW d \in Conns, NEW i \in Nth, r = Down(d, i) PROVE Load'[r] = Load[r]
      <3>1. Load[r] = Data(conn, d, i) /\ Load'[r] = Data(conn', d, i)
        BY <2>3, LoadIs, LoadWillBe
      <3>2. conn'[d] = conn[d]
        BY <1>2, <2>3
      <3> QED BY <3>1, <3>2 DEF Data
    <2> QED BY <2>1, <2>2, <2>3, SpotKinds
  <1>9. /\ Load[p] = msg.data
        /\ \A i \in Nth : Load'[Down(c, i)] = Load[Down(c, i + 1)]
    <2>1. 1 \in Nth /\ \A i \in Nth : i + 1 \in Nth
      BY DEF Nth
    <2>2. \A i \in Nth : Load[Down(c, i)] = DataAt(conn[c].down, i) /\ Load'[Down(c, i)] = DataAt(conn'[c].down, i)
      BY LoadIs, LoadWillBe DEF Data, DataAt
    <2> QED BY <1>3, <2>1, <2>2
  <1>10. /\ p \in Spots /\ Shown \in Spots /\ p # Shown /\ From[p] = hook.epoch /\ From[Shown] = hook.epoch
         /\ Load \in [Spots -> Seq(Nat)] /\ Load' \in [Spots -> Seq(Nat)]
         /\ Load[Shown] = [k \in DOMAIN screen |-> screen[k][2]] /\ Load'[Shown] = [k \in DOMAIN screen' |-> screen'[k][2]]
    <2>1. 1 \in Nth
      BY DEF Nth
    <2>2. p \in Spots /\ Shown \in Spots /\ p # Shown
      BY <2>1, SpotKinds, SpotNames
    <2>3. From[p] = hook.epoch /\ From[Shown] = hook.epoch
      BY <1>1, <2>1, LoadIs
    <2> QED BY <1>0, <2>2, <2>3, LoadTyped, LoadWillType, LoadIs, LoadWillBe
  <1>11. /\ \A i \in Nth : From[Down(c, i)] = From[Down(c, 1)]
         /\ \A i \in Nth : Down(c, i) \in Spots /\ Down(c, i + 1) \in Spots /\ Down(c, i + 1) # p /\ Down(c, i) # Shown /\ Down(c, i + 1) # Shown
    <2>1. 1 \in Nth /\ \A i \in Nth : i + 1 \in Nth /\ i + 1 # 1
      BY DEF Nth
    <2>2. \A i \in Nth : From[Down(c, i)] = conn[c].to
      BY LoadIs
    <2>3. \A i \in Nth : Down(c, i) \in Spots /\ Down(c, i + 1) \in Spots
      BY <2>1, SpotKinds
    <2>4. \A i \in Nth : Down(c, i + 1) # p
      BY <2>1, SpotNames
    <2>5. \A i \in Nth : Down(c, i) # Shown /\ Down(c, i + 1) # Shown
      BY SpotNames
    <2> QED BY <2>1, <2>2, <2>3, <2>4, <2>5
  <1> HIDE DEF p
  <1>12. OneShell' /\ Chunks(Load', From, session)
    <2>1. CASE msg.kind = "output"
      <3>0. conn[c].to \in Sessions /\ msg.data \in Seq(1..MaxOutput)
        <4>1. msg.data \in Seq(1..MaxOutput)
          <5>1. <<>> \in Seq(1..MaxOutput)
            OBVIOUS
          <5> QED BY <1>3, <5>1 DEF Message
        <4>2. conn[c].to \in Sessions
          <5>1. hook.sock # None
            BY <1>1, TerminalAssumption DEF Conns, None
          <5>2. hook.sid # None /\ conn[c].to \in Sessions \cup {None}
            BY <1>0, <5>1, ConnFields DEF TypeInv, Attached
          <5> QED BY <1>1, <5>2
        <4> QED BY <4>1, <4>2
      <3>1. /\ Load'[Shown] = Load[Shown] \o msg.data
            /\ \A k \in DOMAIN screen' : screen'[k][1] = conn[c].to \/ (k \in DOMAIN screen /\ screen'[k] = screen[k])
        <4>1. screen' = screen \o Marked(conn[c].to, msg.data)
          BY <1>5, <2>1 DEF Marked
        <4>2. Load[Shown] = Texts(screen) /\ Load'[Shown] = Texts(screen')
          BY <1>10 DEF Texts
        <4>3. Extends(screen', screen, conn[c].to, msg.data)
          BY <1>0, <3>0, <4>1, ShownAfter
        <4> QED BY <4>2, <4>3 DEF Extends
      <3>2. OneShell'
        BY <1>0, <1>1, <1>4, <3>1 DEF OneShell
      <3>3. Chunks(M, From, session)
        BY <1>0, <1>10, LoadMoves
      <3>4. M[p] = <<>> /\ M[Shown] = Load'[Shown] /\ \A r \in Spots \ {p, Shown} : M[r] = Load[r]
        BY <1>9, <1>10, <3>1
      <3> HIDE DEF M
      <3>5. \A i \in Nth : Load'[Down(c, i)] = M[Down(c, i + 1)]
        BY <1>9, <1>11, <3>4
      <3>6. \A r \in Spots : (\A i \in Nth : r # Down(c, i)) => Load'[r] = M[r]
        <4> SUFFICES ASSUME NEW r \in Spots, \A i \in Nth : r # Down(c, i) PROVE Load'[r] = M[r]
          OBVIOUS
        <4>1. r # p
          BY DEF p, Nth
        <4> QED BY <1>8, <3>4, <4>1
      <3>7. Chunks(Load', From, session)
        BY <1>11, <3>3, <3>5, <3>6, LoadShifts
      <3> QED BY <3>2, <3>7
    <2>2. CASE msg.kind # "output"
      <3>1. OneShell' /\ Load'[Shown] = Load[Shown]
        BY <1>0, <1>4, <1>5, <1>10, <2>2 DEF OneShell
      <3>2. \A r \in Spots : (\A i \in Nth : r # Down(c, i)) => Load'[r] = Load[r]
        BY <1>8, <3>1
      <3>3. Chunks(Load', From, session)
        BY <1>0, <1>9, <1>11, <3>2, LoadShifts
      <3> QED BY <3>1, <3>3
    <2> QED BY <2>1, <2>2
  <1>13. Chunks(Load', From', session')
    <2>1. \A r \in Spots : Window(Load'[r], Load'[r])
      BY <1>10, Same
    <2> QED BY <1>0, <1>1, <1>7, <1>12, <2>1, Settled
  <1> QED BY <1>6, <1>12, <1>13 DEF ScreenInv

-----------------------------------------------------------------------------
(* Every step *)

LEMMA ScreenAgent == ASSUME TypeInv, TypeInv', ScreenInv, Agent
                     PROVE  ScreenInv'
  BY CloseSteps, DeliverStep, StartStep, HandshakeSteps, EndStep, TakeStep, FlushStep DEF Agent

LEMMA ScreenTab == ASSUME TypeInv, TypeInv', ScreenInv, Tab
                   PROVE  ScreenInv'
  BY CallSteps, SocketSteps, InputStep, MessageStep DEF Tab

LEMMA ScreenNext == ASSUME TypeInv, ScreenInv, [Next]_vars
                    PROVE  ScreenInv'
  <1>1. TypeInv'
    BY NextInv
  <1>2. CASE Next
    BY <1>1, <1>2, ScreenAgent, ScreenTab, ScreenFault DEF Next
  <1>3. CASE UNCHANGED vars
    BY <1>1, <1>3, HookStep DEF vars
  <1> QED BY <1>2, <1>3

LEMMA ScreenInit == ASSUME Init PROVE ScreenInv
  <1>1. /\ \A s \in Sessions : session[s] = NoSession
        /\ \A c \in Conns : conn[c] = NoConn
        /\ screen = <<>>
    BY DEF Init
  <1>2. \A p \in Spots : DOMAIN Load[p] = {}
    <2> SUFFICES ASSUME NEW p \in Spots PROVE DOMAIN Load[p] = {}
      OBVIOUS
    <2>0. DOMAIN <<>> = {}
      OBVIOUS
    <2>1. CASE \E s \in Sessions : p = Buffer(s)
      BY <1>1, <2>0, <2>1, LoadIs DEF NoSession
    <2>2. CASE \E c \in Conns : p = Carry(c)
      BY <1>1, <2>0, <2>2, LoadIs DEF NoConn
    <2>3. CASE \E c \in Conns : \E i \in Nth : p = Down(c, i)
      BY <1>1, <2>0, <2>3, LoadIs DEF NoConn, Data
    <2>4. CASE p = Shown
      BY <1>1, <2>0, <2>4, LoadIs
    <2> QED BY <2>1, <2>2, <2>3, <2>4, SpotKinds
  <1>3. Chunks(Load, From, session)
    BY <1>2 DEF Chunks, Apart, Known
  <1>4. OnServes
    BY <1>1 DEF OnServes, NoSession
  <1>5. OneShell
    BY <1>1 DEF OneShell
  <1> QED BY <1>3, <1>4, <1>5 DEF ScreenInv

\* The screen shows chunks of the shell started last only, and each of them once: a chunk that was
\* buffered, taken out by an Attach, put back when a flush failed and sent again is still in one
\* place at a time, and an old socket brings nothing to the screen of a new shell.
THEOREM ShownOnce == Spec => []ScreenIsOneShell
  <1>1. Init => ScreenInv
    BY ScreenInit
  <1>2. TypeInv /\ ScreenInv /\ [Next]_vars => ScreenInv'
    BY ScreenNext
  <1>3. ScreenInv => ScreenIsOneShell
    <2> SUFFICES ASSUME ScreenInv, NEW j \in DOMAIN screen, NEW k \in DOMAIN screen
                 PROVE  screen[j][1] = hook.epoch /\ (j # k => screen[j] # screen[k])
      BY DEF ScreenIsOneShell
    <2>1. screen[j][1] = hook.epoch
      BY DEF ScreenInv, OneShell
    <2>2. ASSUME screen[j] = screen[k] PROVE j = k
      <3>1. Shown \in Spots /\ DOMAIN Load[Shown] = DOMAIN screen /\ Load[Shown][j] = screen[j][2] /\ Load[Shown][k] = screen[k][2]
        BY SpotKinds, LoadIs
      <3>2. Apart(Load, From)
        BY DEF ScreenInv, Chunks
      <3> QED BY <2>2, <3>1, <3>2 DEF Apart
    <2> QED BY <2>1, <2>2
  <1> QED BY <1>1, <1>2, <1>3, TypeInvAlways, PTL DEF Spec
=============================================================================
