-------------------------- MODULE NetSockets_proofs --------------------------
(***************************************************************************)
(* The theorems about NetSockets, for any processes, sockets, addresses    *)
(* and lengths: no socket or address list leaks, an empty string from recv *)
(* is the end of the stream, and last_errno is the error of the call that  *)
(* failed.                                                                 *)
(*                                                                         *)
(* The invariant is proved in three parts: one about the kernel's sockets  *)
(* alone, one about who owns them, one about the calls in progress.        *)
(***************************************************************************)
EXTENDS NetSockets, TLAPS

SocketType ==
  [state : {"free", "new", "bound", "listening", "pending", "connected"},
   addr : Addresses \cup {NULL}, peer : Sockets \cup {NULL, Gone},
   on : Sockets \cup {NULL}, inbox : 0..MaxBytes,
   rd : BOOLEAN, wr : BOOLEAN]

CallType ==
  [pc : {"idle", "dead", "bind", "listen", "socket", "connect", "undo"},
   fd : Sockets \cup {NULL}, addr : Addresses \cup {NULL}, errno : Errnos]

KernelInv ==
  /\ sockets \in [Sockets -> SocketType]
  /\ toldEnd \subseteq Sockets
  /\ \A s \in Sockets : SocketIsSound(s)
  /\ EmptyMeansEnd

CallsInv ==
  /\ held \in [Procs -> SUBSET Sockets]
  /\ call \in [Procs -> CallType]
  /\ addrinfo \in [Procs -> BOOLEAN]
  /\ last_errno \in [Procs -> Errnos]
  /\ \A p \in Procs : CallIsSound(p)

LEMMA InvariantIsOfTheParts ==
  /\ IInv => KernelInv /\ OwnersAgree /\ CallsInv
  /\ KernelInv /\ OwnersAgree /\ CallsInv => IInv
  /\ KernelInv' /\ OwnersAgree' /\ CallsInv' => IInv'
  BY DEF IInv, TypeOK, KernelInv, CallsInv, SocketType, CallType

(* The values that stand for no socket are none.                           *)
LEMMA NoSocket ==
  /\ NULL \notin Sockets /\ Gone \notin Sockets /\ NULL # Gone
  BY NetAssumption

-----------------------------------------------------------------------------
(* The kernel.                                                             *)

(* One socket changes, and keeps its peer: it may start or stop to wait,   *)
(* but not stop to listen nor to be shut down.                             *)
LEMMA OneSocketChanges ==
  ASSUME KernelInv, NEW s \in Sockets, NEW e \in SocketType,
         sockets' = [sockets EXCEPT ![s] = e],
         e.peer = sockets[s].peer,
         e.peer # NULL => e.state \in {"pending", "connected"},
         e.on # NULL <=> e.state = "pending",
         e.on # NULL => e.on = sockets[s].on,
         sockets[s].state = "listening" => e.state = "listening",
         e.wr => sockets[s].wr \/ sockets[s].peer = NULL,
         toldEnd \subseteq toldEnd', toldEnd' \subseteq toldEnd \cup {s},
         s \in toldEnd' => /\ e.state = "connected"
                           /\ ~e.rd \/ (PeerDone(s) /\ e.inbox = 0)
  PROVE  KernelInv'
<1>1. sockets'[s] = e /\ \A t \in Sockets : t # s => sockets'[t] = sockets[t]
  BY DEF KernelInv
<1>2. \A t \in Sockets : sockets[t] \in SocketType /\ SocketIsSound(t)
  BY DEF KernelInv
<1>3. \A t \in Sockets : sockets'[t].peer = sockets[t].peer
  BY <1>1
<1>4. ASSUME NEW t \in Sockets
      PROVE  SocketIsSound(t)'
  <2>1. CASE t = s
    <3>1. sockets[s].on # NULL => sockets[s].on \in Sockets /\ sockets[s].on # s
          /\ sockets[sockets[s].on].state = "listening"
      BY <1>2 DEF SocketIsSound, SocketType
    <3>2. e.peer \in Sockets => sockets'[e.peer].peer = s
      BY <1>2, <1>3 DEF SocketIsSound
    <3>3. QED
      BY <1>1, <2>1, <3>1, <3>2 DEF SocketIsSound
  <2>2. CASE t # s
    <3>1. sockets[t].on # NULL => sockets'[sockets[t].on].state = "listening"
      BY <1>1, <1>2 DEF SocketIsSound, SocketType
    <3>2. sockets[t].peer \in Sockets => sockets'[sockets[t].peer].peer = t
      BY <1>2, <1>3 DEF SocketIsSound
    <3>3. QED
      BY <1>1, <1>2, <2>2, <3>1, <3>2 DEF SocketIsSound
  <2>3. QED
    BY <2>1, <2>2
<1>5. ASSUME NEW t \in Sockets, PeerDone(t)
      PROVE  PeerDone(t)'
  <2>1. CASE sockets[t].peer = Gone
    BY <1>3, <2>1 DEF PeerDone
  <2>2. CASE sockets[t].peer \in Sockets /\ ~sockets[sockets[t].peer].wr
    <3>1. sockets[sockets[t].peer].peer = t
      BY <1>2, <2>2 DEF SocketIsSound
    <3>2. ~sockets'[sockets[t].peer].wr
      BY <1>1, <2>2, <3>1, NoSocket DEF SocketType
    <3>3. QED
      BY <1>3, <2>2, <3>2 DEF PeerDone
  <2>3. QED
    BY <1>5, <2>1, <2>2 DEF PeerDone
<1>6. EmptyMeansEnd'
  <2> SUFFICES ASSUME NEW t \in toldEnd'
               PROVE  ~sockets'[t].rd \/ (PeerDone(t)' /\ sockets'[t].inbox = 0)
    BY DEF EmptyMeansEnd
  <2>1. t \in Sockets
    BY DEF KernelInv
  <2>2. CASE t = s
    BY <1>1, <1>5, <2>1, <2>2
  <2>3. CASE t # s
    BY <1>1, <1>5, <2>1, <2>3 DEF KernelInv, EmptyMeansEnd
  <2>4. QED
    BY <2>2, <2>3
<1>7. QED
  BY <1>4, <1>6 DEF KernelInv

LEMMA OpensKeeps ==
  ASSUME KernelInv, NEW s \in FreeSockets, Opens(s), toldEnd' = toldEnd
  PROVE  KernelInv' /\ ~Owned(s) /\ Owned(s)'
         /\ \A t \in Sockets : t # s => (Owned(t)' <=> Owned(t))
<1> DEFINE e == [Free EXCEPT !.state = "new"]
<1>1. s \in Sockets /\ sockets[s].state = "free" /\ SocketIsSound(s)
  BY DEF FreeSockets, KernelInv
<1>2. /\ e \in SocketType /\ e.state = "new" /\ e.peer = NULL /\ e.on = NULL
  <2>1. 0 \in 0..MaxBytes
    BY NetAssumption
  <2>2. Free \in SocketType /\ Free.peer = NULL /\ Free.on = NULL
    BY <2>1 DEF Free, SocketType
  <2>3. QED
    BY <2>2 DEF SocketType
<1>3. sockets' = [sockets EXCEPT ![s] = e]
  BY DEF Opens
<1> HIDE DEF e
<1>4. sockets[s].peer = NULL /\ s \notin toldEnd
  BY <1>1 DEF SocketIsSound
<1>5. KernelInv'
  BY <1>1, <1>2, <1>3, <1>4, OneSocketChanges
<1>6. QED
  BY <1>1, <1>2, <1>3, <1>5 DEF KernelInv, Owned

LEMMA BindsKeeps ==
  ASSUME KernelInv, NEW s \in Sockets, NEW a \in Addresses \cup {NULL}, Binds(s, a),
         toldEnd' = toldEnd
  PROVE  KernelInv' /\ \A t \in Sockets : Owned(t)' <=> Owned(t)
<1> DEFINE e == [sockets[s] EXCEPT !.state = "bound", !.addr = a]
<1>1. sockets[s].state = "new" /\ SocketIsSound(s) /\ sockets[s] \in SocketType
  BY DEF Binds, KernelInv
<1>2. /\ e \in SocketType /\ e.state = "bound" /\ e.peer = sockets[s].peer
      /\ e.on = sockets[s].on /\ e.wr = sockets[s].wr
  BY <1>1 DEF SocketType
<1>3. sockets' = [sockets EXCEPT ![s] = e]
  BY DEF Binds, KernelInv
<1> HIDE DEF e
<1>4. sockets[s].peer = NULL /\ sockets[s].on = NULL /\ s \notin toldEnd
  BY <1>1 DEF SocketIsSound
<1>5. KernelInv'
  BY <1>1, <1>2, <1>3, <1>4, OneSocketChanges
<1>6. QED
  BY <1>1, <1>2, <1>3, <1>5 DEF KernelInv, Owned

LEMMA ListensKeeps ==
  ASSUME KernelInv, NEW s \in Sockets, Listens(s), toldEnd' = toldEnd
  PROVE  KernelInv' /\ \A t \in Sockets : Owned(t)' <=> Owned(t)
<1> DEFINE e == [sockets[s] EXCEPT !.state = "listening"]
<1>1. sockets[s].state = "bound" /\ SocketIsSound(s) /\ sockets[s] \in SocketType
  BY DEF Listens, KernelInv
<1>2. /\ e \in SocketType /\ e.state = "listening" /\ e.peer = sockets[s].peer
      /\ e.on = sockets[s].on /\ e.wr = sockets[s].wr
  BY <1>1 DEF SocketType
<1>3. sockets' = [sockets EXCEPT ![s] = e]
  BY DEF Listens, KernelInv
<1> HIDE DEF e
<1>4. sockets[s].peer = NULL /\ sockets[s].on = NULL /\ s \notin toldEnd
  BY <1>1 DEF SocketIsSound
<1>5. KernelInv'
  BY <1>1, <1>2, <1>3, <1>4, OneSocketChanges
<1>6. QED
  BY <1>1, <1>2, <1>3, <1>5 DEF KernelInv, Owned

(* A waiting connection is accepted.                                       *)
LEMMA AcceptsKeeps ==
  ASSUME KernelInv, NEW l \in Sockets, NEW s \in Sockets, sockets[s].on = l,
         sockets' = [sockets EXCEPT ![s].state = "connected", ![s].on = NULL],
         toldEnd' = toldEnd
  PROVE  KernelInv' /\ ~Owned(s) /\ Owned(s)'
         /\ \A t \in Sockets : t # s => (Owned(t)' <=> Owned(t))
<1> DEFINE e == [sockets[s] EXCEPT !.state = "connected", !.on = NULL]
<1>1. SocketIsSound(s) /\ sockets[s] \in SocketType /\ sockets[s].on # NULL
  BY NoSocket DEF KernelInv
<1>2. sockets[s].state = "pending" /\ s \notin toldEnd
  BY <1>1 DEF SocketIsSound
<1>3. /\ e \in SocketType /\ e.state = "connected" /\ e.peer = sockets[s].peer
      /\ e.on = NULL /\ e.wr = sockets[s].wr
  BY <1>1 DEF SocketType
<1>4. sockets' = [sockets EXCEPT ![s] = e]
  BY DEF KernelInv
<1> HIDE DEF e
<1>5. KernelInv'
  BY <1>1, <1>2, <1>3, <1>4, OneSocketChanges
<1>6. QED
  BY <1>2, <1>3, <1>4, <1>5 DEF KernelInv, Owned

LEMMA ShutdownKeeps ==
  ASSUME KernelInv, NEW s \in Sockets, NEW how \in SUBSET {"rd", "wr"},
         sockets[s].state = "connected",
         sockets' = [sockets EXCEPT
                       ![s].wr = @ /\ "wr" \notin how,
                       ![s].rd = @ /\ "rd" \notin how],
         toldEnd' = toldEnd
  PROVE  KernelInv' /\ \A t \in Sockets : Owned(t)' <=> Owned(t)
<1> DEFINE e == [sockets[s] EXCEPT !.wr = @ /\ "wr" \notin how,
                                   !.rd = @ /\ "rd" \notin how]
<1>1. SocketIsSound(s) /\ sockets[s] \in SocketType
  BY DEF KernelInv
<1>2. /\ e \in SocketType /\ e.state = "connected" /\ e.peer = sockets[s].peer
      /\ e.on = sockets[s].on /\ e.inbox = sockets[s].inbox
      /\ (e.wr => sockets[s].wr) /\ (e.rd => sockets[s].rd)
  BY <1>1 DEF SocketType
<1>3. sockets' = [sockets EXCEPT ![s] = e]
  BY DEF KernelInv
<1> HIDE DEF e
<1>4. sockets[s].on = NULL
        /\ (s \in toldEnd => ~e.rd \/ (PeerDone(s) /\ e.inbox = 0))
  BY <1>1, <1>2 DEF SocketIsSound, KernelInv, EmptyMeansEnd
<1>5. KernelInv'
  BY <1>2, <1>3, <1>4, OneSocketChanges
<1>6. QED
  BY <1>2, <1>3, <1>5 DEF KernelInv, Owned

(* n bytes more or fewer wait on socket t; toldEnd only gets t itself.     *)
LEMMA InboxKeeps ==
  ASSUME KernelInv, NEW t \in Sockets, NEW n \in 0..MaxBytes,
         sockets' = [sockets EXCEPT ![t].inbox = n],
         toldEnd \subseteq toldEnd', toldEnd' \subseteq toldEnd \cup {t},
         t \in toldEnd' => /\ sockets[t].state = "connected"
                           /\ ~sockets[t].rd \/ (PeerDone(t) /\ n = 0)
  PROVE  KernelInv' /\ \A s \in Sockets : Owned(s)' <=> Owned(s)
<1> DEFINE e == [sockets[t] EXCEPT !.inbox = n]
<1>1. SocketIsSound(t) /\ sockets[t] \in SocketType
  BY DEF KernelInv
<1>2. /\ e \in SocketType /\ e.state = sockets[t].state
      /\ e.peer = sockets[t].peer /\ e.on = sockets[t].on
      /\ e.inbox = n /\ e.wr = sockets[t].wr /\ e.rd = sockets[t].rd
  BY <1>1 DEF SocketType
<1>3. sockets' = [sockets EXCEPT ![t] = e]
  BY DEF KernelInv
<1> HIDE DEF e
<1>4. KernelInv'
  <2>1. /\ e.peer # NULL => e.state \in {"pending", "connected"}
        /\ e.on # NULL <=> e.state = "pending"
    BY <1>1, <1>2 DEF SocketIsSound
  <2>2. t \in toldEnd' => /\ e.state = "connected"
                          /\ ~e.rd \/ (PeerDone(t) /\ e.inbox = 0)
    BY <1>2
  <2>3. QED
    <3>1. /\ e \in SocketType /\ e.peer = sockets[t].peer
          /\ e.on # NULL => e.on = sockets[t].on
          /\ sockets[t].state = "listening" => e.state = "listening"
          /\ e.wr => sockets[t].wr \/ sockets[t].peer = NULL
      BY <1>2
    <3>2. QED
      BY <1>3, <2>1, <2>2, <3>1, OneSocketChanges
<1>5. QED
  BY <1>2, <1>3, <1>4 DEF KernelInv, Owned

LEMMA SendKeeps ==
  ASSUME KernelInv, NEW s \in Sockets, NEW t \in Sockets, t = sockets[s].peer,
         NEW n \in 0..MaxBytes, sockets[s].wr,
         sockets[t].inbox + n <= MaxBytes,
         sockets' = [sockets EXCEPT ![t].inbox = @ + n], toldEnd' = toldEnd
  PROVE  KernelInv' /\ \A u \in Sockets : Owned(u)' <=> Owned(u)
<1>1. sockets[t] \in SocketType /\ SocketIsSound(s) /\ SocketIsSound(t)
  BY DEF KernelInv
<1> DEFINE m == sockets[t].inbox + n
<1>2. m \in 0..MaxBytes
  <2>1. sockets[t].inbox \in 0..MaxBytes /\ MaxBytes \in Nat
    BY <1>1, NetAssumption DEF SocketType
  <2>2. QED
    BY <2>1
<1>3. sockets' = [sockets EXCEPT ![t].inbox = m]
  BY DEF KernelInv
<1>4. ~PeerDone(t)
  BY <1>1, NoSocket DEF SocketIsSound, PeerDone
<1>5. t \in toldEnd => sockets[t].state = "connected" /\ ~sockets[t].rd
  BY <1>1, <1>4 DEF SocketIsSound, KernelInv, EmptyMeansEnd
<1> HIDE DEF m
<1>6. QED
  BY <1>2, <1>3, <1>5, InboxKeeps

(* recv always asks for at least one byte.                                 *)
LEMMA WantedIsPositive ==
  ASSUME NEW max \in LengthArgs
  PROVE  Wanted(max) \in Nat \ {0}
<1>1. max \in Int /\ DefaultLen \in Nat \ {0}
  BY NetAssumption
<1>2. QED
  BY <1>1 DEF Wanted

(* What a recv that gets n bytes leaves.                                   *)
LEMMA RecvTakes ==
  ASSUME NEW bytes \in Nat, NEW wanted \in Nat \ {0}, NEW max \in Nat, bytes <= max,
         NEW most, most = IF wanted < bytes THEN wanted ELSE bytes,
         NEW n \in 0..most
  PROVE  /\ bytes - n \in 0..max
         /\ most = 0 => bytes = 0
         /\ bytes = 0 => n = 0
  OBVIOUS

LEMMA RecvKeeps ==
  ASSUME KernelInv, NEW p \in Procs, NEW s \in Sockets, NEW max \in LengthArgs,
         Recv(p, s, max)
  PROVE  KernelInv' /\ \A t \in Sockets : Owned(t)' <=> Owned(t)
<1> DEFINE here == sockets[s].inbox
           most == IF Wanted(max) < here THEN Wanted(max) ELSE here
<1>1. /\ sockets[s] \in SocketType /\ SocketIsSound(s)
      /\ sockets[s].state = "connected"
      /\ here > 0 \/ Wanted(max) = 0 \/ PeerDone(s) \/ ~sockets[s].rd
  BY DEF KernelInv, Recv
<1>2. here \in Nat /\ here <= MaxBytes /\ MaxBytes \in Nat
  <2>1. here \in 0..MaxBytes /\ MaxBytes \in Nat
    BY <1>1, NetAssumption DEF SocketType
  <2>2. QED
    BY <2>1
<1>3. Wanted(max) \in Nat \ {0}
  BY WantedIsPositive
<1>4. PICK n \in 0..most :
        /\ n = 0 => most = 0
        /\ sockets' = [sockets EXCEPT ![s].inbox = @ - n]
        /\ toldEnd' = IF n = 0 THEN toldEnd \cup {s} ELSE toldEnd
  BY DEF Recv
<1> DEFINE m == here - n
<1>5. m \in 0..MaxBytes /\ (most = 0 => here = 0) /\ (here = 0 => n = 0)
  BY <1>2, <1>3, RecvTakes
<1>6. sockets' = [sockets EXCEPT ![s].inbox = m]
  BY <1>4 DEF KernelInv
<1>7. n = 0 => here = 0 /\ m = 0 /\ (PeerDone(s) \/ ~sockets[s].rd)
  BY <1>1, <1>2, <1>3, <1>4, <1>5
<1>8. n # 0 /\ s \in toldEnd => ~sockets[s].rd
  BY <1>5 DEF KernelInv, EmptyMeansEnd
<1> HIDE DEF m, most, here
<1>9. s \in toldEnd' => ~sockets[s].rd \/ (PeerDone(s) /\ m = 0)
  BY <1>4, <1>7, <1>8
<1>10. toldEnd \subseteq toldEnd' /\ toldEnd' \subseteq toldEnd \cup {s}
  BY <1>4
<1>11. QED
  BY <1>1, <1>5, <1>6, <1>9, <1>10, InboxKeeps

(* Two ends are connected, one of them new and waiting.                    *)
LEMMA ConnectsKeeps ==
  ASSUME KernelInv, NEW s \in Sockets, NEW a, Connects(s, a),
         toldEnd' = toldEnd
  PROVE  KernelInv' /\ \A u \in Sockets : Owned(u)' <=> Owned(u)
<1>1. sockets[s].state \in {"new", "bound"}
  BY DEF Connects
<1>2. PICK l \in Sockets, t \in FreeSockets :
        /\ sockets[l].state = "listening"
        /\ sockets' = [sockets EXCEPT
             ![s].state = "connected", ![s].peer = t,
             ![t] = [Free EXCEPT !.state = "pending", !.peer = s, !.on = l]]
  BY DEF Connects
<1> DEFINE e == [sockets[s] EXCEPT !.state = "connected", !.peer = t]
           f == [Free EXCEPT !.state = "pending", !.peer = s, !.on = l]
<1>3. t \in Sockets /\ sockets[t].state = "free" /\ s # t
  BY <1>1 DEF FreeSockets
<1>4. /\ e \in SocketType /\ e.state = "connected" /\ e.peer = t
      /\ e.on = sockets[s].on
  BY <1>3 DEF KernelInv, SocketType
<1>5. f \in SocketType /\ f.state = "pending" /\ f.peer = s /\ f.on = l
  <2>1. 0 \in 0..MaxBytes
    BY NetAssumption
  <2>2. Free \in SocketType
    BY <2>1 DEF Free, SocketType
  <2>3. QED
    BY <2>2 DEF SocketType
<1>6. sockets' = [sockets EXCEPT ![s] = e, ![t] = f]
  BY <1>2, <1>3 DEF KernelInv
<1> HIDE DEF e, f
<1>7. /\ sockets' \in [Sockets -> SocketType]
      /\ sockets'[s] = e /\ sockets'[t] = f
      /\ \A u \in Sockets : u # s /\ u # t => sockets'[u] = sockets[u]
  BY <1>3, <1>4, <1>5, <1>6 DEF KernelInv
<1>8. \A u \in Sockets : sockets[u] \in SocketType /\ SocketIsSound(u)
  BY DEF KernelInv
<1>9. /\ sockets[s].peer = NULL /\ sockets[t].peer = NULL
      /\ sockets[s].on = NULL /\ s \notin toldEnd /\ t \notin toldEnd
  BY <1>1, <1>3, <1>8 DEF SocketIsSound
<1>10. l # s /\ l # t
  BY <1>1, <1>2, <1>3
<1>11. ASSUME NEW u \in Sockets
       PROVE  sockets[u].peer # s /\ sockets[u].peer # t
  BY <1>3, <1>8, <1>9, NoSocket DEF SocketIsSound
<1>12. ASSUME NEW u \in Sockets, u # s, u # t
       PROVE  SocketIsSound(u)' /\ (PeerDone(u) => PeerDone(u)')
  <2>1. sockets[u].on # s /\ sockets[u].on # t
    BY <1>1, <1>3, <1>8, NoSocket DEF SocketIsSound
  <2>2. sockets[u].on # NULL => sockets'[sockets[u].on].state = "listening"
    BY <1>7, <1>8, <2>1 DEF SocketIsSound, SocketType
  <2>3. sockets[u].peer \in Sockets => sockets'[sockets[u].peer] = sockets[sockets[u].peer]
    BY <1>7, <1>11
  <2>4. SocketIsSound(u)'
    BY <1>7, <1>8, <1>12, <2>2, <2>3 DEF SocketIsSound
  <2>5. PeerDone(u) => PeerDone(u)'
    BY <1>7, <1>12, <2>3 DEF PeerDone
  <2>6. QED
    BY <2>4, <2>5
<1>13. SocketIsSound(s)'
  BY <1>3, <1>4, <1>5, <1>7, <1>9 DEF SocketIsSound
<1>14. SocketIsSound(t)'
  BY <1>2, <1>3, <1>4, <1>5, <1>7, <1>9, <1>10, NoSocket DEF SocketIsSound
<1>15. EmptyMeansEnd'
  <2> SUFFICES ASSUME NEW u \in toldEnd
               PROVE  ~sockets'[u].rd \/ (PeerDone(u)' /\ sockets'[u].inbox = 0)
    BY DEF EmptyMeansEnd
  <2>1. u \in Sockets /\ u # s /\ u # t
    BY <1>9 DEF KernelInv
  <2>2. QED
    BY <1>7, <1>12, <2>1 DEF KernelInv, EmptyMeansEnd
<1>16. KernelInv'
  BY <1>7, <1>12, <1>13, <1>14, <1>15 DEF KernelInv
<1>17. \A u \in Sockets : Owned(u)' <=> Owned(u)
  BY <1>1, <1>3, <1>4, <1>5, <1>7 DEF Owned
<1>18. QED
  BY <1>16, <1>17

(* Sockets are closed, and what waited on them with them.                  *)
LEMMA ClosesKeeps ==
  ASSUME KernelInv, NEW S \in SUBSET Sockets, Closes(S)
  PROVE  /\ KernelInv'
         /\ \A t \in Sockets : Owned(t)' <=> Owned(t) /\ t \notin S
<1> DEFINE C == S \cup {t \in Sockets : sockets[t].on \in S}
<1>1. /\ sockets' = [t \in Sockets |->
          IF t \in C THEN Free
          ELSE IF sockets[t].peer \in C THEN [sockets[t] EXCEPT !.peer = Gone]
          ELSE sockets[t]]
      /\ toldEnd' = toldEnd \ C
  BY DEF Closes
<1>2. C \subseteq Sockets /\ NULL \notin S /\ NULL \notin C /\ Gone \notin C
  BY NoSocket
<1>3. \A t \in Sockets : t \in C <=> t \in S \/ sockets[t].on \in S
  OBVIOUS
<1>4. \A t \in Sockets : sockets[t] \in SocketType /\ SocketIsSound(t)
  BY DEF KernelInv
<1> HIDE DEF C
<1>5. /\ Free \in SocketType /\ Free.state = "free" /\ Free.peer = NULL
      /\ Free.on = NULL
  <2>1. 0 \in 0..MaxBytes
    BY NetAssumption
  <2>2. QED
    BY <2>1 DEF Free, SocketType
<1>6. ASSUME NEW t \in Sockets, t \in C
      PROVE  sockets'[t] = Free
  BY <1>1, <1>6
<1>7. ASSUME NEW t \in Sockets, t \notin C
      PROVE  /\ sockets'[t] \in SocketType
             /\ sockets'[t].state = sockets[t].state
             /\ sockets'[t].on = sockets[t].on
             /\ sockets'[t].inbox = sockets[t].inbox
             /\ sockets'[t].rd = sockets[t].rd /\ sockets'[t].wr = sockets[t].wr
             /\ sockets'[t].peer = IF sockets[t].peer \in C THEN Gone
                                   ELSE sockets[t].peer
  <2>1. CASE sockets[t].peer \in C
    <3>1. sockets'[t] = [sockets[t] EXCEPT !.peer = Gone]
      BY <1>1, <1>7, <2>1
    <3>2. QED
      BY <1>4, <2>1, <3>1 DEF SocketType
  <2>2. CASE sockets[t].peer \notin C
    BY <1>1, <1>4, <1>7, <2>2
  <2>3. QED
    BY <2>1, <2>2
<1>8. sockets' \in [Sockets -> SocketType] /\ toldEnd' \subseteq Sockets
  <2>1. \A t \in Sockets : sockets'[t] \in SocketType
    BY <1>5, <1>6, <1>7
  <2>2. DOMAIN sockets' = Sockets /\ sockets' = [t \in Sockets |-> sockets'[t]]
    BY <1>1
  <2>3. QED
    BY <1>1, <2>1, <2>2 DEF KernelInv
<1>9. ASSUME NEW t \in Sockets, t \notin C, sockets[t].on # NULL
      PROVE  sockets[t].on \in Sockets \ C
  <2> DEFINE l == sockets[t].on
  <2>1. l \in Sockets /\ l \notin S
    BY <1>3, <1>4, <1>9 DEF SocketType
  <2>2. sockets[l].on = NULL
    BY <1>4, <1>9, <2>1 DEF SocketIsSound
  <2> HIDE DEF l
  <2>3. l \notin C
    BY <1>2, <1>3, <2>1, <2>2
  <2>4. QED
    BY <2>1, <2>3 DEF l
<1>10. ASSUME NEW t \in Sockets
       PROVE  SocketIsSound(t)'
  <2>1. CASE t \in C
    BY <1>1, <1>5, <1>6, <2>1, NoSocket DEF SocketIsSound
  <2>2. CASE t \notin C
    <3>1. sockets'[t].on # NULL => sockets'[sockets'[t].on].state = "listening"
      BY <1>4, <1>7, <1>9, <2>2 DEF SocketIsSound
    <3>2. sockets'[t].peer \in Sockets => sockets'[sockets'[t].peer].peer = t
      BY <1>4, <1>7, <2>2, NoSocket DEF SocketIsSound
    <3>3. sockets'[t].peer # NULL => sockets[t].peer # NULL
      BY <1>2, <1>7, <2>2
    <3>4. QED
      BY <1>1, <1>4, <1>7, <2>2, <3>1, <3>2, <3>3 DEF SocketIsSound
  <2>3. QED
    BY <2>1, <2>2
<1>11. ASSUME NEW t \in Sockets, t \notin C, PeerDone(t)
       PROVE  PeerDone(t)'
  BY <1>7, <1>11 DEF PeerDone
<1>12. EmptyMeansEnd'
  BY <1>1, <1>7, <1>11 DEF KernelInv, EmptyMeansEnd
<1>13. KernelInv'
  BY <1>8, <1>10, <1>12 DEF KernelInv
<1>14. ASSUME NEW t \in Sockets
       PROVE  Owned(t)' <=> Owned(t) /\ t \notin S
  <2>1. CASE t \in C
    BY <1>2, <1>3, <1>4, <1>5, <1>6, <2>1 DEF SocketIsSound, Owned
  <2>2. CASE t \notin C
    BY <1>3, <1>7, <2>2 DEF Owned
  <2>3. QED
    BY <2>1, <2>2
<1>15. QED
  BY <1>13, <1>14

-----------------------------------------------------------------------------
(* The owners.                                                             *)

(* Nothing changes hands, *)
LEMMA OwnersKeep ==
  ASSUME OwnersAgree, \A s \in Sockets : Owned(s)' <=> Owned(s),
         \A p \in Procs, s \in Sockets : Has(p, s)' <=> Has(p, s)
  PROVE  OwnersAgree'
<1> SUFFICES ASSUME NEW s \in Sockets
             PROVE  /\ Owned(s)' <=> \E p \in Procs : Has(p, s)'
                    /\ \A p, q \in Procs : Has(p, s)' /\ Has(q, s)' => p = q
  BY DEF OwnersAgree
<1> QED
  BY DEF OwnersAgree

(* a process gets a socket nobody had,                                     *)
LEMMA OwnersGain ==
  ASSUME OwnersAgree, NEW p \in Procs, NEW t \in Sockets, ~Owned(t), Owned(t)',
         \A s \in Sockets : s # t => (Owned(s)' <=> Owned(s)),
         \A q \in Procs, s \in Sockets :
           Has(q, s)' <=> Has(q, s) \/ (q = p /\ s = t)
  PROVE  OwnersAgree'
<1> SUFFICES ASSUME NEW s \in Sockets
             PROVE  /\ Owned(s)' <=> \E q \in Procs : Has(q, s)'
                    /\ \A q, r \in Procs : Has(q, s)' /\ Has(r, s)' => q = r
  BY DEF OwnersAgree
<1> QED
  BY DEF OwnersAgree

(* or one gives up sockets it has.                                         *)
LEMMA OwnersLose ==
  ASSUME OwnersAgree, NEW p \in Procs, NEW S, \A s \in S : Has(p, s),
         \A s \in Sockets : Owned(s)' <=> Owned(s) /\ s \notin S,
         \A q \in Procs, s \in Sockets :
           Has(q, s)' <=> Has(q, s) /\ ~(q = p /\ s \in S)
  PROVE  OwnersAgree'
<1> SUFFICES ASSUME NEW s \in Sockets
             PROVE  /\ Owned(s)' <=> \E q \in Procs : Has(q, s)'
                    /\ \A q, r \in Procs : Has(q, s)' /\ Has(r, s)' => q = r
  BY DEF OwnersAgree
<1> QED
  BY DEF OwnersAgree

-----------------------------------------------------------------------------
(* The calls in progress.                                                  *)

(* The others are not concerned with what one process does.                *)
LEMMA OneCallChanges ==
  ASSUME CallsInv, NEW p \in Procs,
         NEW h \in SUBSET Sockets, held' = [held EXCEPT ![p] = h],
         NEW c \in CallType, call' = [call EXCEPT ![p] = c],
         NEW b \in BOOLEAN, addrinfo' = [addrinfo EXCEPT ![p] = b],
         NEW e \in Errnos, last_errno' = [last_errno EXCEPT ![p] = e],
         c.fd \notin h,
         c.fd # NULL <=> c.pc \in {"bind", "listen", "connect", "undo"},
         b => c.pc \in {"socket", "connect", "undo"},
         c.pc = "undo" => e = c.errno
  PROVE  CallsInv'
<1>1. /\ held' \in [Procs -> SUBSET Sockets] /\ call' \in [Procs -> CallType]
      /\ addrinfo' \in [Procs -> BOOLEAN] /\ last_errno' \in [Procs -> Errnos]
  BY DEF CallsInv
<1>2. ASSUME NEW q \in Procs
      PROVE  CallIsSound(q)'
  <2>1. CASE q = p
    BY <2>1 DEF CallsInv, CallIsSound, At
  <2>2. CASE q # p
    BY <2>2 DEF CallsInv, CallIsSound, At
  <2>3. QED
    BY <2>1, <2>2
<1>3. QED
  BY <1>1, <1>2 DEF CallsInv

LEMMA CallsKeep ==
  ASSUME CallsInv, UNCHANGED <<held, call, addrinfo, last_errno>>
  PROVE  CallsInv'
  BY DEF CallsInv, CallIsSound, At

(* What is known of one process.                                           *)
LEMMA ProcFacts ==
  ASSUME CallsInv, NEW p \in Procs
  PROVE  /\ held[p] \in SUBSET Sockets /\ call[p] \in CallType
         /\ addrinfo[p] \in BOOLEAN /\ last_errno[p] \in Errnos
         /\ CallIsSound(p)
         /\ held = [held EXCEPT ![p] = held[p]]
         /\ call = [call EXCEPT ![p] = call[p]]
         /\ addrinfo = [addrinfo EXCEPT ![p] = addrinfo[p]]
         /\ last_errno = [last_errno EXCEPT ![p] = last_errno[p]]
  BY DEF CallsInv

LEMMA NoCallIsACall ==
  /\ NoCall \in CallType /\ NoCall.fd = NULL /\ NoCall.pc = "idle"
  BY DEF NoCall, CallType, Errnos

(* Between calls a process has no socket on its way and no list.           *)
LEMMA IdleFacts ==
  ASSUME CallsInv, NEW p \in Procs, Idle(p)
  PROVE  call[p].fd = NULL /\ ~addrinfo[p]
  BY ProcFacts DEF CallIsSound, Idle

(* Nothing but last_errno and what is held changes between calls.          *)
LEMMA IdleCallsKeep ==
  ASSUME CallsInv, NEW p \in Procs, Idle(p),
         NEW h \in SUBSET Sockets, held' = [held EXCEPT ![p] = h],
         \/ last_errno' = last_errno
         \/ \E e \in Errnos : last_errno' = [last_errno EXCEPT ![p] = e],
         UNCHANGED <<call, addrinfo>>
  PROVE  CallsInv'
<1>1. /\ call[p] \in CallType /\ addrinfo[p] \in BOOLEAN
      /\ call' = [call EXCEPT ![p] = call[p]]
      /\ addrinfo' = [addrinfo EXCEPT ![p] = addrinfo[p]]
  BY ProcFacts
<1>2. call[p].fd = NULL /\ ~addrinfo[p] /\ call[p].pc = "idle"
  BY IdleFacts DEF Idle
<1>3. PICK e \in Errnos : last_errno' = [last_errno EXCEPT ![p] = e]
  BY ProcFacts
<1>4. NULL \notin h
  BY NoSocket
<1>5. QED
  BY <1>1, <1>2, <1>3, <1>4, OneCallChanges

-----------------------------------------------------------------------------
(* The steps of a call of one system call.                                 *)

(* Nothing happens but that an error is noted.                             *)
LEMMA RefusedKeeps ==
  ASSUME KernelInv, OwnersAgree, CallsInv, NEW p \in Procs, NEW e \in Errnos,
         Refused(p, e)
  PROVE  KernelInv' /\ OwnersAgree' /\ CallsInv'
<1>1. /\ UNCHANGED <<sockets, held, call, addrinfo, toldEnd>>
      /\ last_errno' = [last_errno EXCEPT ![p] = e] /\ Idle(p)
  BY DEF Refused, Fails
<1>2. KernelInv'
  BY <1>1 DEF KernelInv, SocketIsSound, EmptyMeansEnd, PeerDone
<1>3. OwnersAgree'
  BY <1>1, OwnersKeep DEF Owned, Has
<1>4. held' = [held EXCEPT ![p] = held[p]] /\ held[p] \in SUBSET Sockets
  BY <1>1, ProcFacts
<1>5. CallsInv'
  BY <1>1, <1>4, IdleCallsKeep
<1>6. QED
  BY <1>2, <1>3, <1>5

LEMMA FailingCallKeeps ==
  ASSUME KernelInv, OwnersAgree, CallsInv, NEW p \in Procs, FailingCall(p)
  PROVE  KernelInv' /\ OwnersAgree' /\ CallsInv'
<1>1. \E e \in Errnos : Refused(p, e)
  BY DEF FailingCall, SocketFails, CloseRefused, ShutdownFails, AcceptFails,
         BindFails, ListenFails, ConnectFails, SendFails, RecvFails,
         DatagramFails, OptionFails, PollFails, ResolveFails, AddressFails,
         HostnameFails, ConversionFails, TcpListenSocketFails, TcpConnectRefused, Errnos
<1>2. QED
  BY <1>1, RefusedKeeps

(* A call that works on sockets of the kernel without opening or closing.  *)
LEMMA WorksKeeps ==
  ASSUME OwnersAgree, CallsInv, NEW p \in Procs,
         UNCHANGED <<held, call, addrinfo, last_errno>>,
         \A s \in Sockets : Owned(s)' <=> Owned(s)
  PROVE  OwnersAgree' /\ CallsInv'
  BY OwnersKeep, CallsKeep DEF Has

LEMMA SocketKeeps ==
  ASSUME KernelInv, OwnersAgree, CallsInv, NEW p \in Procs, Socket(p)
  PROVE  KernelInv' /\ OwnersAgree' /\ CallsInv'
<1>1. PICK s \in FreeSockets : Opens(s) /\ Hands(p, s)
  BY DEF Socket
<1>2. /\ Idle(p) /\ s \in Sockets /\ toldEnd' = toldEnd
      /\ UNCHANGED <<call, addrinfo, last_errno>>
      /\ held' = [held EXCEPT ![p] = held[p] \cup {s}]
  BY <1>1 DEF Socket, FreeSockets, Hands, Succeeds, KeepsCall
<1>3. /\ KernelInv' /\ ~Owned(s) /\ Owned(s)'
      /\ \A t \in Sockets : t # s => (Owned(t)' <=> Owned(t))
  BY <1>1, <1>2, OpensKeeps
<1>4. \A q \in Procs, t \in Sockets : Has(q, t)' <=> Has(q, t) \/ (q = p /\ t = s)
  BY <1>2 DEF Has, CallsInv
<1>5. OwnersAgree'
  BY <1>2, <1>3, <1>4, OwnersGain
<1>6. held[p] \cup {s} \in SUBSET Sockets
  BY <1>2, ProcFacts
<1>7. CallsInv'
  BY <1>2, <1>6, IdleCallsKeep
<1>8. QED
  BY <1>3, <1>5, <1>7

LEMMA AcceptKeeps ==
  ASSUME KernelInv, OwnersAgree, CallsInv, NEW p \in Procs, NEW l \in Sockets,
         Accept(p, l)
  PROVE  KernelInv' /\ OwnersAgree' /\ CallsInv'
<1>1. PICK s \in Sockets :
        /\ sockets[s].on = l
        /\ sockets' = [sockets EXCEPT ![s].state = "connected", ![s].on = NULL]
        /\ Hands(p, s)
  BY DEF Accept
<1>2. /\ Idle(p) /\ toldEnd' = toldEnd
      /\ UNCHANGED <<call, addrinfo, last_errno>>
      /\ held' = [held EXCEPT ![p] = held[p] \cup {s}]
  BY <1>1 DEF Accept, Hands, Succeeds, KeepsCall
<1>3. /\ KernelInv' /\ ~Owned(s) /\ Owned(s)'
      /\ \A t \in Sockets : t # s => (Owned(t)' <=> Owned(t))
  BY <1>1, <1>2, AcceptsKeeps
<1>4. \A q \in Procs, t \in Sockets : Has(q, t)' <=> Has(q, t) \/ (q = p /\ t = s)
  BY <1>2 DEF Has, CallsInv
<1>5. OwnersAgree'
  BY <1>3, <1>4, OwnersGain
<1>6. held[p] \cup {s} \in SUBSET Sockets
  BY ProcFacts
<1>7. CallsInv'
  BY <1>2, <1>6, IdleCallsKeep
<1>8. QED
  BY <1>3, <1>5, <1>7

LEMMA CloseKeeps ==
  ASSUME KernelInv, OwnersAgree, CallsInv, NEW p \in Procs, NEW s \in held[p],
         Close(p, s)
  PROVE  KernelInv' /\ OwnersAgree' /\ CallsInv'
<1>1. /\ Idle(p) /\ s \in Sockets /\ Closes({s})
      /\ UNCHANGED <<call, addrinfo>>
      /\ held' = [held EXCEPT ![p] = held[p] \ {s}]
      /\ \/ last_errno' = last_errno
         \/ last_errno' = [last_errno EXCEPT ![p] = "close"]
  BY ProcFacts DEF Close, KeepsCall, Succeeds, Fails
<1>2. KernelInv' /\ \A t \in Sockets : Owned(t)' <=> Owned(t) /\ t \notin {s}
  BY <1>1, ClosesKeeps
<1>3. call[p].fd = NULL
  BY <1>1, IdleFacts
<1>4. \A q \in Procs, t \in Sockets : Has(q, t)' <=> Has(q, t) /\ ~(q = p /\ t \in {s})
  BY <1>1, <1>3, NoSocket DEF Has, CallsInv
<1>5. OwnersAgree'
  BY <1>2, <1>4, OwnersLose DEF Has
<1>6. held[p] \ {s} \in SUBSET Sockets
  BY ProcFacts
<1>7. CallsInv'
  BY <1>1, <1>6, IdleCallsKeep DEF Errnos
<1>8. QED
  BY <1>2, <1>5, <1>7

LEMMA SendKillsKeeps ==
  ASSUME KernelInv, OwnersAgree, CallsInv, NEW p \in Procs, NEW s \in held[p],
         SendKills(p, s)
  PROVE  KernelInv' /\ OwnersAgree' /\ CallsInv'
<1> DEFINE c == [NoCall EXCEPT !.pc = "dead"]
<1>1. /\ Idle(p) /\ Closes(held[p]) /\ UNCHANGED <<addrinfo, last_errno>>
      /\ held' = [held EXCEPT ![p] = {}] /\ call' = [call EXCEPT ![p] = c]
  BY DEF SendKills, Succeeds
<1>2. held[p] \in SUBSET Sockets
  BY ProcFacts
<1>3. KernelInv' /\ \A t \in Sockets : Owned(t)' <=> Owned(t) /\ t \notin held[p]
  BY <1>1, <1>2, ClosesKeeps
<1>4. call[p].fd = NULL /\ ~addrinfo[p]
  BY <1>1, IdleFacts
<1>5. c \in CallType /\ c.fd = NULL /\ c.pc = "dead"
  BY NoCallIsACall DEF CallType, NoCall
<1> HIDE DEF c
<1>6. \A q \in Procs, t \in Sockets : Has(q, t)' <=> Has(q, t) /\ ~(q = p /\ t \in held[p])
  BY <1>1, <1>4, <1>5, NoSocket DEF Has, CallsInv
<1>7. OwnersAgree'
  BY <1>3, <1>6, OwnersLose DEF Has
<1>8. CallsInv'
  <2>1. /\ addrinfo' = [addrinfo EXCEPT ![p] = addrinfo[p]] /\ addrinfo[p] \in BOOLEAN
        /\ last_errno' = [last_errno EXCEPT ![p] = last_errno[p]]
        /\ last_errno[p] \in Errnos
    BY <1>1, ProcFacts
  <2>2. PICK h \in SUBSET Sockets : h = {}
    OBVIOUS
  <2>3. held' = [held EXCEPT ![p] = h] /\ c.fd \notin h
    BY <1>1, <2>2
  <2>4. QED
    <3>1. /\ c.fd # NULL <=> c.pc \in {"bind", "listen", "connect", "undo"}
          /\ addrinfo[p] => c.pc \in {"socket", "connect", "undo"}
          /\ c.pc = "undo" => last_errno[p] = c.errno
      BY <1>4, <1>5
    <3>2. QED
      BY <1>1, <1>5, <2>1, <2>3, <3>1, OneCallChanges
<1>9. QED
  BY <1>3, <1>7, <1>8

LEMMA SocketCallKeeps ==
  ASSUME KernelInv, OwnersAgree, CallsInv, NEW p \in Procs, NEW s \in held[p],
         SocketCall(p, s)
  PROVE  KernelInv' /\ OwnersAgree' /\ CallsInv'
<1>1. s \in Sockets
  BY ProcFacts
<1>2. CASE Close(p, s)
  BY <1>2, CloseKeeps
<1>3. CASE Accept(p, s)
  BY <1>1, <1>3, AcceptKeeps
<1>4. CASE SendKills(p, s)
  BY <1>4, SendKillsKeeps
<1>5. CASE Listen(p, s)
  BY <1>1, <1>5, ListensKeeps, WorksKeeps DEF Listen, Works, Succeeds, KeepsCall
<1>6. ASSUME NEW a \in Addresses, Bind(p, s, a)
      PROVE  KernelInv' /\ OwnersAgree' /\ CallsInv'
  BY <1>1, <1>6, BindsKeeps, WorksKeeps DEF Bind, Works, Succeeds, KeepsCall
<1>7. ASSUME NEW a \in Addresses, Connect(p, s, a)
      PROVE  KernelInv' /\ OwnersAgree' /\ CallsInv'
  BY <1>1, <1>7, ConnectsKeeps, WorksKeeps DEF Connect, Works, Succeeds, KeepsCall
<1>8. CASE Shutdown(p, s)
  <2>1. PICK how \in {{"wr"}, {"rd"}, {"rd", "wr"}} :
          Works(p, /\ sockets[s].state = "connected"
                   /\ sockets' = [sockets EXCEPT
                        ![s].wr = @ /\ "wr" \notin how,
                        ![s].rd = @ /\ "rd" \notin how])
    BY <1>8 DEF Shutdown
  <2>2. how \in SUBSET {"rd", "wr"}
    OBVIOUS
  <2>3. KernelInv' /\ \A t \in Sockets : Owned(t)' <=> Owned(t)
    BY <1>1, <2>1, <2>2, ShutdownKeeps DEF Works
  <2>4. QED
    BY <2>1, <2>3, WorksKeeps DEF Works, Succeeds, KeepsCall
<1>9. CASE Send(p, s)
  <2> DEFINE t == sockets[s].peer
  <2>1. PICK n \in 0..MaxBytes :
          Works(p, /\ t \in Sockets /\ sockets[s].wr
                   /\ sockets[t].inbox + n <= MaxBytes
                   /\ sockets' = [sockets EXCEPT ![t].inbox = @ + n])
    BY <1>9 DEF Send
  <2>2. KernelInv' /\ \A u \in Sockets : Owned(u)' <=> Owned(u)
    BY <1>1, <2>1, SendKeeps DEF Works
  <2>3. QED
    BY <2>1, <2>2, WorksKeeps DEF Works, Succeeds, KeepsCall
<1>10. ASSUME NEW max \in LengthArgs, Recv(p, s, max)
       PROVE  KernelInv' /\ OwnersAgree' /\ CallsInv'
  BY <1>1, <1>10, RecvKeeps, WorksKeeps DEF Recv, Succeeds, KeepsCall
<1>11. QED
  BY <1>2, <1>3, <1>4, <1>5, <1>6, <1>7, <1>8, <1>9, <1>10 DEF SocketCall

-----------------------------------------------------------------------------
(* The steps of tcp_listen and tcp_connect.                                *)

(* A step that takes a socket for the call, between its start and the      *)
(* first system call on the socket.                                        *)
LEMMA TakesSocketKeeps ==
  ASSUME KernelInv, OwnersAgree, CallsInv, NEW p \in Procs,
         call[p].fd = NULL, NEW pc \in {"bind", "connect"},
         NEW a \in Addresses \cup {NULL}, TakesSocket(p, pc, a),
         addrinfo[p] => pc = "connect"
  PROVE  KernelInv' /\ OwnersAgree' /\ CallsInv'
<1>1. PICK s \in FreeSockets :
        Opens(s) /\ Goes(p, [NoCall EXCEPT !.pc = pc, !.fd = s, !.addr = a])
  BY DEF TakesSocket
<1> DEFINE c == [NoCall EXCEPT !.pc = pc, !.fd = s, !.addr = a]
<1>2. /\ s \in Sockets /\ call' = [call EXCEPT ![p] = c]
      /\ UNCHANGED <<held, addrinfo, toldEnd, last_errno>>
  BY <1>1 DEF TakesSocket, Goes, Succeeds, FreeSockets
<1>3. c \in CallType /\ c.fd = s /\ c.pc = pc
  BY <1>2, NoCallIsACall DEF CallType, NoCall
<1> HIDE DEF c
<1>4. /\ KernelInv' /\ ~Owned(s) /\ Owned(s)'
      /\ \A t \in Sockets : t # s => (Owned(t)' <=> Owned(t))
  BY <1>1, <1>2, OpensKeeps
<1>5. \A q \in Procs, t \in Sockets : Has(q, t)' <=> Has(q, t) \/ (q = p /\ t = s)
  BY <1>2, <1>3, NoSocket DEF Has, CallsInv
<1>6. OwnersAgree'
  BY <1>2, <1>4, <1>5, OwnersGain
<1>7. CallsInv'
  <2>1. /\ held' = [held EXCEPT ![p] = held[p]] /\ held[p] \in SUBSET Sockets
        /\ addrinfo' = [addrinfo EXCEPT ![p] = addrinfo[p]] /\ addrinfo[p] \in BOOLEAN
        /\ last_errno' = [last_errno EXCEPT ![p] = last_errno[p]]
        /\ last_errno[p] \in Errnos
    BY <1>2, ProcFacts
  <2>2. s \notin held[p]
    BY <1>2, <1>4 DEF OwnersAgree, Has
  <2>3. /\ c.fd \notin held[p]
        /\ c.fd # NULL <=> c.pc \in {"bind", "listen", "connect", "undo"}
        /\ addrinfo[p] => c.pc \in {"socket", "connect", "undo"}
        /\ c.pc = "undo" => last_errno[p] = c.errno
    BY <1>2, <1>3, <2>2, NoSocket
  <2>4. QED
    BY <1>2, <1>3, <2>1, <2>3, OneCallChanges
<1>8. QED
  BY <1>4, <1>6, <1>7

(* The call has failed: its error is noted before anything is closed.      *)
LEMMA GivesUpKeeps ==
  ASSUME KernelInv, OwnersAgree, CallsInv, NEW p \in Procs, NEW e \in Errnos,
         call[p].pc \in {"bind", "listen", "connect"}, GivesUp(p, e)
  PROVE  KernelInv' /\ OwnersAgree' /\ CallsInv'
<1> DEFINE c == [call[p] EXCEPT !.pc = "undo", !.errno = e]
<1>1. /\ call' = [call EXCEPT ![p] = c]
      /\ last_errno' = [last_errno EXCEPT ![p] = e]
      /\ UNCHANGED <<sockets, held, addrinfo, toldEnd>>
  BY DEF GivesUp, Goes, Fails
<1>2. call[p] \in CallType /\ CallIsSound(p)
  BY ProcFacts
<1>3. /\ c \in CallType /\ c.fd = call[p].fd /\ c.pc = "undo" /\ c.errno = e
  BY <1>2 DEF CallType
<1> HIDE DEF c
<1>4. KernelInv'
  BY <1>1 DEF KernelInv, SocketIsSound, EmptyMeansEnd, PeerDone
<1>5. \A q \in Procs, t \in Sockets : Has(q, t)' <=> Has(q, t)
  BY <1>1, <1>3 DEF Has, CallsInv
<1>6. OwnersAgree'
  BY <1>1, <1>5, OwnersKeep DEF Owned
<1>7. CallsInv'
  <2>1. /\ held' = [held EXCEPT ![p] = held[p]] /\ held[p] \in SUBSET Sockets
        /\ addrinfo' = [addrinfo EXCEPT ![p] = addrinfo[p]] /\ addrinfo[p] \in BOOLEAN
    BY <1>1, ProcFacts
  <2>2. /\ c.fd \notin held[p]
        /\ c.fd # NULL <=> c.pc \in {"bind", "listen", "connect", "undo"}
        /\ addrinfo[p] => c.pc \in {"socket", "connect", "undo"}
        /\ c.pc = "undo" => e = c.errno
    BY <1>2, <1>3 DEF CallIsSound
  <2>3. QED
    BY <1>1, <1>3, <2>1, <2>2, OneCallChanges
<1>8. QED
  BY <1>4, <1>6, <1>7

(* The call returns its socket, which stays with the process.              *)
LEMMA DeliversKeeps ==
  ASSUME OwnersAgree, CallsInv, NEW p \in Procs,
         call[p].pc \in {"bind", "listen", "connect", "undo"},
         \A s \in Sockets : Owned(s)' <=> Owned(s),
         Delivers(p)
  PROVE  OwnersAgree' /\ CallsInv'
<1> DEFINE s == call[p].fd
<1>1. /\ held' = [held EXCEPT ![p] = held[p] \cup {s}]
      /\ call' = [call EXCEPT ![p] = NoCall]
      /\ addrinfo' = [addrinfo EXCEPT ![p] = FALSE] /\ last_errno' = last_errno
  BY DEF Delivers, Hands, Goes, Succeeds
<1>2. s \in Sockets
  BY ProcFacts DEF CallIsSound, CallType
<1> HIDE DEF s
<1>3. NoCall \in CallType /\ NoCall.fd = NULL /\ NoCall.pc = "idle"
  BY NoCallIsACall
<1>4. \A q \in Procs, t \in Sockets : Has(q, t)' <=> Has(q, t)
  BY <1>1, <1>3, NoSocket DEF Has, CallsInv, s
<1>5. OwnersAgree'
  BY <1>4, OwnersKeep
<1>6. CallsInv'
  <2>1. /\ held[p] \cup {s} \in SUBSET Sockets
        /\ last_errno' = [last_errno EXCEPT ![p] = last_errno[p]]
        /\ last_errno[p] \in Errnos
    BY <1>1, <1>2, ProcFacts
  <2>2. NULL \notin held[p] \cup {s}
    BY <2>1, NoSocket
  <2>3. QED
    BY <1>1, <1>3, <2>1, <2>2, OneCallChanges
<1>7. QED
  BY <1>5, <1>6

LEMMA TcpListenBindKeeps ==
  ASSUME KernelInv, OwnersAgree, CallsInv, NEW p \in Procs, TcpListenBind(p)
  PROVE  KernelInv' /\ OwnersAgree' /\ CallsInv'
<1>1. /\ call[p].pc = "bind" /\ call[p] \in CallType /\ CallIsSound(p)
      /\ call[p].fd \in Sockets /\ call[p].addr \in Addresses \cup {NULL}
  BY ProcFacts DEF TcpListenBind, At, CallIsSound, CallType
<1>2. ASSUME NEW e \in {"own", "kernel"}, GivesUp(p, e)
      PROVE  KernelInv' /\ OwnersAgree' /\ CallsInv'
  BY <1>1, <1>2, GivesUpKeeps DEF Errnos
<1>3. CASE Binds(call[p].fd, call[p].addr) /\ GoesOn(p, "listen")
  <2> DEFINE c == [call[p] EXCEPT !.pc = "listen"]
  <2>1. /\ call' = [call EXCEPT ![p] = c]
        /\ UNCHANGED <<held, addrinfo, toldEnd, last_errno>>
    BY <1>3 DEF GoesOn, Goes, Succeeds
  <2>2. c \in CallType /\ c.fd = call[p].fd /\ c.pc = "listen"
    BY <1>1 DEF CallType
  <2> HIDE DEF c
  <2>3. KernelInv' /\ \A t \in Sockets : Owned(t)' <=> Owned(t)
    BY <1>1, <1>3, <2>1, BindsKeeps
  <2>4. \A q \in Procs, t \in Sockets : Has(q, t)' <=> Has(q, t)
    BY <2>1, <2>2 DEF Has, CallsInv
  <2>5. OwnersAgree'
    BY <2>3, <2>4, OwnersKeep
  <2>6. CallsInv'
    <3>1. /\ held' = [held EXCEPT ![p] = held[p]] /\ held[p] \in SUBSET Sockets
          /\ addrinfo' = [addrinfo EXCEPT ![p] = addrinfo[p]] /\ addrinfo[p] \in BOOLEAN
          /\ last_errno' = [last_errno EXCEPT ![p] = last_errno[p]]
          /\ last_errno[p] \in Errnos
      BY <2>1, ProcFacts
    <3>2. /\ c.fd \notin held[p]
          /\ c.fd # NULL <=> c.pc \in {"bind", "listen", "connect", "undo"}
          /\ addrinfo[p] => c.pc \in {"socket", "connect", "undo"}
          /\ c.pc = "undo" => last_errno[p] = c.errno
      BY <1>1, <2>2 DEF CallIsSound
    <3>3. QED
      BY <2>1, <2>2, <3>1, <3>2, OneCallChanges
  <2>7. QED
    BY <2>3, <2>5, <2>6
<1>4. QED
  BY <1>2, <1>3 DEF TcpListenBind

LEMMA TcpListenListenKeeps ==
  ASSUME KernelInv, OwnersAgree, CallsInv, NEW p \in Procs, TcpListenListen(p)
  PROVE  KernelInv' /\ OwnersAgree' /\ CallsInv'
<1>1. call[p].pc = "listen" /\ call[p].fd \in Sockets
  BY ProcFacts DEF TcpListenListen, At, CallIsSound, CallType
<1>2. CASE GivesUp(p, "kernel")
  BY <1>1, <1>2, GivesUpKeeps DEF Errnos
<1>3. CASE Listens(call[p].fd) /\ Delivers(p)
  <2>1. KernelInv' /\ \A t \in Sockets : Owned(t)' <=> Owned(t)
    BY <1>1, <1>3, ListensKeeps DEF Delivers
  <2>2. QED
    BY <1>1, <1>3, <2>1, DeliversKeeps
<1>4. QED
  BY <1>2, <1>3 DEF TcpListenListen

LEMMA TcpConnectConnectKeeps ==
  ASSUME KernelInv, OwnersAgree, CallsInv, NEW p \in Procs, TcpConnectConnect(p)
  PROVE  KernelInv' /\ OwnersAgree' /\ CallsInv'
<1>1. call[p].pc = "connect" /\ call[p].fd \in Sockets
  BY ProcFacts DEF TcpConnectConnect, At, CallIsSound, CallType
<1>2. CASE GivesUp(p, "kernel")
  BY <1>1, <1>2, GivesUpKeeps DEF Errnos
<1>3. CASE Connects(call[p].fd, call[p].addr) /\ Delivers(p)
  <2>1. KernelInv' /\ \A t \in Sockets : Owned(t)' <=> Owned(t)
    BY <1>1, <1>3, ConnectsKeeps DEF Delivers
  <2>2. QED
    BY <1>1, <1>3, <2>1, DeliversKeeps
<1>4. QED
  BY <1>2, <1>3 DEF TcpConnectConnect

(* The process's call record, list and error change, and nothing else.     *)
LEMMA OnlyTheCallChanges ==
  ASSUME KernelInv, OwnersAgree, CallsInv, NEW p \in Procs, call[p].fd = NULL,
         UNCHANGED <<sockets, held, toldEnd>>,
         NEW c \in CallType, call' = [call EXCEPT ![p] = c], c.fd = NULL,
         NEW b \in BOOLEAN, addrinfo' = [addrinfo EXCEPT ![p] = b],
         NEW e \in Errnos, last_errno' = [last_errno EXCEPT ![p] = e],
         c.pc \in {"idle", "socket"}, b => c.pc = "socket"
  PROVE  KernelInv' /\ OwnersAgree' /\ CallsInv'
<1>1. KernelInv'
  BY DEF KernelInv, SocketIsSound, EmptyMeansEnd, PeerDone
<1>2. \A q \in Procs, t \in Sockets : Has(q, t)' <=> Has(q, t)
  BY DEF Has, CallsInv
<1>3. OwnersAgree'
  BY <1>2, OwnersKeep DEF Owned
<1>4. held' = [held EXCEPT ![p] = held[p]] /\ held[p] \in SUBSET Sockets
  BY ProcFacts
<1>5. NULL \notin held[p]
  BY <1>4, NoSocket
<1>6. CallsInv'
  <2>1. /\ c.fd \notin held[p]
        /\ c.fd # NULL <=> c.pc \in {"bind", "listen", "connect", "undo"}
        /\ b => c.pc \in {"socket", "connect", "undo"}
        /\ c.pc = "undo" => e = c.errno
    BY <1>5
  <2>2. QED
    BY <1>4, <2>1, OneCallChanges
<1>7. QED
  BY <1>1, <1>3, <1>6

LEMMA TcpConnectResolveKeeps ==
  ASSUME KernelInv, OwnersAgree, CallsInv, NEW p \in Procs, NEW a \in Addresses,
         TcpConnectResolve(p, a)
  PROVE  KernelInv' /\ OwnersAgree' /\ CallsInv'
<1> DEFINE c == [NoCall EXCEPT !.pc = "socket", !.addr = a]
<1>1. /\ Idle(p) /\ call' = [call EXCEPT ![p] = c]
      /\ addrinfo' = [addrinfo EXCEPT ![p] = TRUE]
      /\ UNCHANGED <<sockets, held, toldEnd, last_errno>>
  BY DEF TcpConnectResolve, Goes, Succeeds
<1>2. c \in CallType /\ c.fd = NULL /\ c.pc = "socket"
  BY NoCallIsACall DEF CallType, NoCall
<1> HIDE DEF c
<1>3. call[p].fd = NULL
  BY <1>1, IdleFacts
<1>4. /\ last_errno' = [last_errno EXCEPT ![p] = last_errno[p]]
      /\ last_errno[p] \in Errnos
  BY <1>1, ProcFacts
<1>5. QED
  BY <1>1, <1>2, <1>3, <1>4, OnlyTheCallChanges

LEMMA TcpConnectSocketKeeps ==
  ASSUME KernelInv, OwnersAgree, CallsInv, NEW p \in Procs, TcpConnectSocket(p)
  PROVE  KernelInv' /\ OwnersAgree' /\ CallsInv'
<1>1. call[p].pc = "socket" /\ call[p].fd = NULL /\ call[p].addr \in Addresses \cup {NULL}
  BY ProcFacts DEF TcpConnectSocket, At, CallIsSound, CallType
<1>2. CASE TakesSocket(p, "connect", call[p].addr)
  BY <1>1, <1>2, TakesSocketKeeps
<1>3. CASE /\ Fails(p, "kernel")
           /\ Goes(p, NoCall)
           /\ addrinfo' = [addrinfo EXCEPT ![p] = FALSE]
           /\ UNCHANGED <<sockets, held, toldEnd>>
  BY <1>1, <1>3, NoCallIsACall, OnlyTheCallChanges DEF Fails, Goes, Errnos
<1>4. QED
  BY <1>2, <1>3 DEF TcpConnectSocket

LEMMA UndoKeeps ==
  ASSUME KernelInv, OwnersAgree, CallsInv, NEW p \in Procs, Undo(p)
  PROVE  KernelInv' /\ OwnersAgree' /\ CallsInv'
<1> DEFINE s == call[p].fd
<1>1. s \in Sockets /\ CallIsSound(p)
  BY ProcFacts DEF Undo, At, CallIsSound, CallType
<1>2. /\ Closes({s}) /\ call' = [call EXCEPT ![p] = NoCall]
      /\ addrinfo' = [addrinfo EXCEPT ![p] = FALSE]
      /\ UNCHANGED <<held, last_errno>>
  BY DEF Undo, Goes
<1>3. s \notin held[p]
  BY <1>1 DEF CallIsSound
<1> HIDE DEF s
<1>4. KernelInv' /\ \A t \in Sockets : Owned(t)' <=> Owned(t) /\ t \notin {s}
  BY <1>1, <1>2, ClosesKeeps
<1>5. \A q \in Procs, t \in Sockets : Has(q, t)' <=> Has(q, t) /\ ~(q = p /\ t \in {s})
  BY <1>2, <1>3, NoCallIsACall, NoSocket DEF Has, CallsInv, s
<1>6. OwnersAgree'
  BY <1>4, <1>5, OwnersLose DEF Has, s
<1>7. CallsInv'
  <2>1. /\ held' = [held EXCEPT ![p] = held[p]] /\ held[p] \in SUBSET Sockets
        /\ last_errno' = [last_errno EXCEPT ![p] = last_errno[p]]
        /\ last_errno[p] \in Errnos
    BY <1>2, ProcFacts
  <2>2. NULL \notin held[p]
    BY <2>1, NoSocket
  <2>3. QED
    BY <1>2, <2>1, <2>2, NoCallIsACall, OneCallChanges
<1>8. QED
  BY <1>4, <1>6, <1>7

-----------------------------------------------------------------------------
(* The theorems.                                                           *)

LEMMA InitIInv == Init => IInv
<1> SUFFICES ASSUME Init
             PROVE  KernelInv /\ OwnersAgree /\ CallsInv
  BY InvariantIsOfTheParts
<1>1. Free \in SocketType /\ Free.state = "free" /\ Free.peer = NULL /\ Free.on = NULL
  <2>1. 0 \in 0..MaxBytes
    BY NetAssumption
  <2>2. QED
    BY <2>1 DEF Free, SocketType
<1>2. KernelInv
  BY <1>1, NoSocket DEF Init, KernelInv, SocketIsSound, EmptyMeansEnd
<1>3. NoCall \in CallType /\ NoCall.fd = NULL /\ NoCall.pc = "idle"
  BY NoCallIsACall
<1>4. OwnersAgree
  BY <1>1, <1>3, NoSocket DEF Init, OwnersAgree, Owned, Has
<1>5. CallsInv
  BY <1>3 DEF Init, CallsInv, CallIsSound, At, Errnos
<1>6. QED
  BY <1>2, <1>4, <1>5

LEMMA NextIInv == IInv /\ [Next]_vars => IInv'
<1> SUFFICES ASSUME KernelInv, OwnersAgree, CallsInv, [Next]_vars
             PROVE  KernelInv' /\ OwnersAgree' /\ CallsInv'
  BY InvariantIsOfTheParts
<1>1. CASE UNCHANGED vars
  <2>1. KernelInv'
    BY <1>1 DEF vars, KernelInv, SocketIsSound, EmptyMeansEnd, PeerDone
  <2>2. OwnersAgree'
    BY <1>1, OwnersKeep DEF vars, Owned, Has
  <2>3. CallsInv'
    BY <1>1, CallsKeep DEF vars
  <2>4. QED
    BY <2>1, <2>2, <2>3
<1>2. ASSUME NEW p \in Procs, NEW a \in Addresses, TcpListenSocket(p, a)
      PROVE  KernelInv' /\ OwnersAgree' /\ CallsInv'
  <2>1. Idle(p) /\ TakesSocket(p, "bind", a)
    BY <1>2 DEF TcpListenSocket
  <2>2. call[p].fd = NULL /\ ~addrinfo[p]
    BY <2>1, IdleFacts
  <2>3. QED
    BY <2>1, <2>2, TakesSocketKeeps
<1>3. ASSUME NEW p \in Procs, TcpStep(p)
      PROVE  KernelInv' /\ OwnersAgree' /\ CallsInv'
  BY <1>3, TcpListenBindKeeps, TcpListenListenKeeps, TcpConnectSocketKeeps,
     TcpConnectConnectKeeps, UndoKeeps DEF TcpStep
<1>4. QED
  BY <1>1, <1>2, <1>3, SocketKeeps, SocketCallKeeps, FailingCallKeeps,
     TcpConnectResolveKeeps DEF Next

(* Every reachable state satisfies the inductive invariant.                *)
THEOREM InductiveInvariant == Spec => []IInv
BY InitIInv, NextIInv, PTL DEF Spec

(* Every variable has its type.                                            *)
THEOREM TypeCorrect == Spec => []TypeOK
BY InductiveInvariant, PTL DEF IInv

(* For any number of processes and sockets, every open socket belongs to   *)
(* one process, one call or one queue, and every address list is freed.    *)
THEOREM NothingIsLeaked == Spec => []NothingLeaks
<1>1. IInv => NothingLeaks
  <2> SUFFICES ASSUME KernelInv, OwnersAgree, CallsInv
               PROVE  NothingLeaks
    BY InvariantIsOfTheParts
  <2>1. ASSUME NEW s \in Sockets, sockets[s].state # "free"
        PROVE  \/ sockets[s].on # NULL /\ sockets[sockets[s].on].state = "listening"
               \/ \E p \in Procs : s \in held[p] \/ call[p].fd = s
    BY <2>1 DEF KernelInv, SocketIsSound, OwnersAgree, Owned, Has
  <2>2. ASSUME NEW s \in Sockets, NEW p \in Procs, NEW q \in Procs, s \in held[p]
        PROVE  call[q].fd # s /\ (s \in held[q] => p = q)
    BY <2>2 DEF OwnersAgree, Has, CallsInv, CallIsSound
  <2>3. \A p \in Procs :
          addrinfo[p] => call[p].pc \in {"socket", "connect", "undo"}
    BY DEF CallsInv, CallIsSound
  <2>4. QED
    BY <2>1, <2>2, <2>3 DEF NothingLeaks
<1>2. QED
  BY <1>1, InductiveInvariant, PTL

(* For any lengths asked for, bytes in flight and order of shutdowns and   *)
(* closes, recv answers 0 bytes only for a stream that has ended.          *)
THEOREM EmptyIsTheEnd == Spec => []EmptyMeansEnd
BY InductiveInvariant, PTL DEF IInv

(* What a process does leaves the errors of the others alone, and its own  *)
(* once it has given up a call.                                            *)
LEMMA ErrnoIsLeftAlone ==
  ASSUME Next, NEW p \in Procs, At(p, "undo")
  PROVE  last_errno'[p] = last_errno[p]
<1> DEFINE Leaves(q) ==
             \/ last_errno' = last_errno
             \/ Idle(q) /\ \E e : Fails(q, e)
             \/ call[q].pc \in {"bind", "listen", "socket", "connect"}
                  /\ \E e : Fails(q, e)
<1>1. ASSUME NEW q \in Procs, Leaves(q)
      PROVE  last_errno'[p] = last_errno[p]
  <2>1. CASE last_errno' = last_errno
    BY <2>1
  <2>2. CASE q # p /\ \E e : Fails(q, e)
    BY <2>2 DEF Fails
  <2>3. QED
    BY <1>1, <2>1, <2>2 DEF Idle, At
<1>2. ASSUME NEW q \in Procs, NEW s, SocketCall(q, s)
      PROVE  Leaves(q)
  BY <1>2 DEF SocketCall, Close, Listen, Accept, Shutdown, Send, SendKills,
              Bind, Connect, Recv, Works, Succeeds
<1>3. ASSUME NEW q \in Procs, FailingCall(q)
      PROVE  Leaves(q)
  BY <1>3 DEF FailingCall, SocketFails, CloseRefused, ShutdownFails,
              AcceptFails, BindFails, ListenFails, ConnectFails, SendFails,
              RecvFails, DatagramFails, OptionFails, PollFails, ResolveFails,
              AddressFails, HostnameFails, ConversionFails, TcpListenSocketFails,
              TcpConnectRefused, Refused
<1>4. ASSUME NEW q \in Procs,
             \/ Socket(q)
             \/ \E a \in Addresses : TcpListenSocket(q, a) \/ TcpConnectResolve(q, a)
      PROVE  Leaves(q)
  BY <1>4 DEF Socket, TcpListenSocket, TcpConnectResolve, TakesSocket, Succeeds
<1>5. ASSUME NEW q \in Procs, TcpStep(q)
      PROVE  Leaves(q)
  BY <1>5 DEF TcpStep, TcpListenBind, TcpListenListen, TcpConnectSocket,
              TcpConnectConnect, Undo, GoesOn, GivesUp, Delivers, TakesSocket,
              Succeeds, At
<1> HIDE DEF Leaves
<1>6. QED
  BY <1>1, <1>2, <1>3, <1>4, <1>5 DEF Next

(* When tcp_listen or tcp_connect has failed, last_errno is the errno of   *)
(* the call that failed, though close has been called since.               *)
THEOREM ErrnoSurvivesClose == Spec => ErrnoIsTheFailures
<1>1. IInv /\ [Next]_vars =>
        [\A p \in Procs :
           At(p, "undo") /\ Idle(p)' => last_errno'[p] = call[p].errno]_vars
  <2> SUFFICES ASSUME IInv, Next, NEW p \in Procs, At(p, "undo")
               PROVE  last_errno'[p] = call[p].errno
    OBVIOUS
  <2>1. last_errno[p] = call[p].errno
    BY DEF IInv, CallIsSound
  <2>2. QED
    BY <2>1, ErrnoIsLeftAlone
<1>2. QED
  BY <1>1, InductiveInvariant, PTL DEF Spec, ErrnoIsTheFailures
=============================================================================
