----------------------------- MODULE NetSockets -----------------------------
(***************************************************************************)
(* src/shim/aria_libc_net.c: stream sockets between processes, each making *)
(* one call at a time. A call of one system call is one action; tcp_listen *)
(* and tcp_connect go system call by system call, with the other processes *)
(* in between.                                                             *)
(*                                                                         *)
(* A descriptor is the kernel socket it stands for (no sharing by fork or  *)
(* dup), and an address is a host and a port. Of the bytes in flight only  *)
(* their number counts. Every system call may fail for the kernel's own    *)
(* reasons: a full queue, a reset connection, nothing yet on a socket that *)
(* set_nonblocking was called on (a flag not kept here). What datagram,    *)
(* option, poll and address calls answer is left out: they touch nothing   *)
(* here but last_errno.                                                    *)
(***************************************************************************)
EXTENDS Integers

(* A definition whose name has the form Action_Slip is a wrong version of  *)
(* the Action below it; the properties are checked to notice each one.     *)

CONSTANTS
  Procs,       (* the processes                                            *)
  Sockets,     (* the sockets the kernel has room for                      *)
  Addresses,   (* what a host and port stand for, as inet_pton or          *)
               (* getaddrinfo finds it                                     *)
  MaxBytes,    (* bound on the bytes a socket queues for its reader        *)
  DefaultLen,  (* the 4096 that stands in for a max_len of 0 or less       *)
  LengthArgs,  (* the max_len arguments                                    *)
  NULL, Gone   (* no socket; a peer that has been closed                   *)

ASSUME NetAssumption ==
  /\ MaxBytes \in Nat \ {0}
  /\ DefaultLen \in Nat \ {0}
  /\ LengthArgs \subseteq Int
  /\ NULL # Gone
  /\ {NULL, Gone} \cap (Sockets \cup Addresses) = {}

(* "own": what the shim itself stores (EINVAL, ENOENT, ENOMEM); "kernel":  *)
(* the errno of a system call that failed; "close": that of a close.       *)
Errnos == {"none", "own", "kernel", "close"}

VARIABLES
  sockets,     (* kernel: the sockets                                      *)
  held,        (* the sockets each process was handed and has not closed   *)
  call,        (* the tcp_listen or tcp_connect each process is in         *)
  addrinfo,    (* whether a getaddrinfo list of the process is not freed   *)
  last_errno,  (* the shim's sticky error number, in each process          *)
  toldEnd      (* history: the sockets recv answered 0 bytes for           *)

vars == <<sockets, held, call, addrinfo, last_errno, toldEnd>>

Free == [state |-> "free", addr |-> NULL, peer |-> NULL, on |-> NULL,
         inbox |-> 0, rd |-> TRUE, wr |-> TRUE]
NoCall == [pc |-> "idle", fd |-> NULL, addr |-> NULL, errno |-> "none"]

Init ==
  /\ sockets = [s \in Sockets |-> Free]
  /\ held = [p \in Procs |-> {}]
  /\ call = [p \in Procs |-> NoCall]
  /\ addrinfo = [p \in Procs |-> FALSE]
  /\ last_errno = [p \in Procs |-> "none"]
  /\ toldEnd = {}

-----------------------------------------------------------------------------
(* The kernel.                                                             *)

FreeSockets == {s \in Sockets : sockets[s].state = "free"}
InUse(a) == \E s \in Sockets : sockets[s].addr = a

Opens(s) == sockets' = [sockets EXCEPT ![s] = [Free EXCEPT !.state = "new"]]

Binds(s, a) ==
  /\ sockets[s].state = "new" /\ ~InUse(a)
  /\ sockets' = [sockets EXCEPT ![s].state = "bound", ![s].addr = a]

Listens(s) ==
  /\ sockets[s].state = "bound"
  /\ sockets' = [sockets EXCEPT ![s].state = "listening"]

(* The connection waits, with a socket of its own, for accept.             *)
Connects(s, a) ==
  /\ sockets[s].state \in {"new", "bound"}
  /\ \E l \in Sockets, t \in FreeSockets :
       /\ sockets[l].state = "listening" /\ sockets[l].addr = a
       /\ sockets' = [sockets EXCEPT
            ![s].state = "connected", ![s].peer = t,
            ![t] = [Free EXCEPT !.state = "pending", !.peer = s, !.on = l]]

(* Sockets are closed, listening ones with the connections that wait.      *)
Closes(S) ==
  LET C == S \cup {t \in Sockets : sockets[t].on \in S} IN
  /\ sockets' = [t \in Sockets |->
       IF t \in C THEN Free
       ELSE IF sockets[t].peer \in C THEN [sockets[t] EXCEPT !.peer = Gone]
       ELSE sockets[t]]
  /\ toldEnd' = toldEnd \ C

(* The peer of s can send nothing more.                                    *)
PeerDone(s) ==
  LET t == sockets[s].peer IN t = Gone \/ (t \in Sockets /\ ~sockets[t].wr)

-----------------------------------------------------------------------------
(* One call, one system call.                                              *)

Idle(p) == call[p].pc = "idle"
KeepsCall == UNCHANGED <<call, addrinfo>>

Fails(p, e) == last_errno' = [last_errno EXCEPT ![p] = e]
Succeeds == UNCHANGED last_errno

(* The call answers -1 or NULL, and nothing else has happened.             *)
Refused(p, e) ==
  /\ Idle(p)
  /\ Fails(p, e)
  /\ UNCHANGED <<sockets, held, call, addrinfo, toldEnd>>

Hands(p, s) == held' = [held EXCEPT ![p] = @ \cup {s}]

Socket(p) ==
  /\ Idle(p)
  /\ \E s \in FreeSockets : Opens(s) /\ Hands(p, s)
  /\ Succeeds /\ KeepsCall /\ UNCHANGED toldEnd

(* close: an error is reported, and the descriptor is gone all the same.   *)
Close(p, s) ==
  /\ Idle(p)
  /\ Closes({s})
  /\ held' = [held EXCEPT ![p] = @ \ {s}]
  /\ Succeeds \/ Fails(p, "close")
  /\ KeepsCall

(* A call on a socket that works: its effect on the socket.                *)
Works(p, effect) ==
  /\ Idle(p)
  /\ effect
  /\ Succeeds /\ KeepsCall /\ UNCHANGED <<held, toldEnd>>

Bind(p, s, a) == Works(p, Binds(s, a))
Listen(p, s) == Works(p, Listens(s))
Connect(p, s, a) == Works(p, Connects(s, a))

(* The failures: an address inet_pton refuses never reaches the kernel.    *)
BindFails(p) == \E e \in {"own", "kernel"} : Refused(p, e)
ConnectFails(p) == \E e \in {"own", "kernel"} : Refused(p, e)
ListenFails(p) == Refused(p, "kernel")
SocketFails(p) == Refused(p, "kernel")
ShutdownFails(p) == Refused(p, "kernel")

(* close of a descriptor that is not open.                                 *)
CloseRefused(p) == Refused(p, "close")

Accept(p, l) ==
  /\ Idle(p)
  /\ \E s \in Sockets :
       /\ sockets[s].on = l
       /\ sockets' = [sockets EXCEPT ![s].state = "connected", ![s].on = NULL]
       /\ Hands(p, s)
  /\ Succeeds /\ KeepsCall /\ UNCHANGED toldEnd

AcceptFails_ResultHandedOut(p) ==
  /\ Idle(p)
  /\ Fails(p, "kernel")
  /\ Hands(p, NULL)
  /\ KeepsCall /\ UNCHANGED <<sockets, toldEnd>>

AcceptFails(p) == Refused(p, "kernel")

(* SHUT_WR, SHUT_RD or SHUT_RDWR.                                          *)
Shutdown(p, s) ==
  \E how \in {{"wr"}, {"rd"}, {"rd", "wr"}} :
    Works(p, /\ sockets[s].state = "connected"
             /\ sockets' = [sockets EXCEPT
                  ![s].wr = @ /\ "wr" \notin how,
                  ![s].rd = @ /\ "rd" \notin how])

(* send_string, send_bytes: as many bytes as the peer has room for, or     *)
(* none (data of no length).                                               *)
Send(p, s) ==
  LET t == sockets[s].peer IN
  \E n \in 0..MaxBytes :
    Works(p, /\ t \in Sockets /\ sockets[s].wr
             /\ sockets[t].inbox + n <= MaxBytes
             /\ sockets' = [sockets EXCEPT ![t].inbox = @ + n])

(* Sending where nothing can be received (the peer has closed, this side   *)
(* has shut down its writing, or the socket was never connected) raises    *)
(* SIGPIPE, send's flags being 0: unless the program ignores the signal it *)
(* dies, and the kernel closes what it had open.                           *)
SendKills(p, s) ==
  /\ Idle(p)
  /\ sockets[s].peer \notin Sockets \/ ~sockets[s].wr
  /\ Closes(held[p])
  /\ held' = [held EXCEPT ![p] = {}]
  /\ call' = [call EXCEPT ![p] = [NoCall EXCEPT !.pc = "dead"]]
  /\ Succeeds /\ UNCHANGED addrinfo

SendFails(p) == \E e \in {"own", "kernel"} : Refused(p, e)

(* The length recv is asked for.                                           *)
Wanted_ZeroKept(max) == IF max < 0 THEN DefaultLen ELSE max
Wanted(max) == IF max <= 0 THEN DefaultLen ELSE max

(* recv_string, recv_bytes: up to Wanted bytes, none when the stream has   *)
(* ended (a blocking recv waits for either); the first answers a string of *)
(* that length, the second the length.                                     *)
Recv(p, s, max) ==
  LET here == sockets[s].inbox
      most == IF Wanted(max) < here THEN Wanted(max) ELSE here IN
  /\ Idle(p)
  /\ sockets[s].state = "connected"
  /\ here > 0 \/ Wanted(max) = 0 \/ PeerDone(s) \/ ~sockets[s].rd
  /\ \E n \in 0..most :
       /\ n = 0 => most = 0
       /\ sockets' = [sockets EXCEPT ![s].inbox = @ - n]
       /\ toldEnd' = IF n = 0 THEN toldEnd \cup {s} ELSE toldEnd
  /\ Succeeds /\ KeepsCall /\ UNCHANGED held

(* No memory for the buffer; nothing yet on a non-blocking socket; a reset *)
(* connection: NULL or -1.                                                 *)
RecvFails(p) == \E e \in {"own", "kernel"} : Refused(p, e)

(* Of the calls whose answers are left out, the failures that set          *)
(* last_errno. Those of sendto and recvfrom;                               *)
DatagramFails(p) == \E e \in {"own", "kernel"} : Refused(p, e)
(* of setsockopt, getsockopt and the two fcntl helpers;                    *)
OptionFails(p) == Refused(p, "kernel")
(* of the two polls;                                                       *)
PollFails(p) == Refused(p, "kernel")
(* of the three resolve calls (a NULL hostname sets nothing);              *)
ResolveFails(p) == Refused(p, "own")
(* of peer_addr, peer_port, local_addr and local_port;                     *)
AddressFails(p) == Refused(p, "kernel")
(* of gethostname;                                                         *)
HostnameFails(p) == Refused(p, "kernel")
(* of inet_aton.                                                           *)
ConversionFails(p) == Refused(p, "own")

-----------------------------------------------------------------------------
(* tcp_listen and tcp_connect.                                             *)

At(p, pc) == call[p].pc = pc
Goes(p, c) == call' = [call EXCEPT ![p] = c]

(* The call returns its socket ...                                         *)
Delivers(p) ==
  /\ Hands(p, call[p].fd)
  /\ Goes(p, NoCall)
  /\ addrinfo' = [addrinfo EXCEPT ![p] = FALSE]
  /\ Succeeds /\ UNCHANGED toldEnd

(* ... goes on ...                                                         *)
GoesOn(p, pc) ==
  /\ Goes(p, [call[p] EXCEPT !.pc = pc])
  /\ Succeeds /\ UNCHANGED <<held, addrinfo, toldEnd>>

(* ... or has failed: errno is kept at once, before close can change it.   *)
GivesUp(p, e) ==
  /\ Goes(p, [call[p] EXCEPT !.pc = "undo", !.errno = e])
  /\ Fails(p, e)
  /\ UNCHANGED <<sockets, held, addrinfo, toldEnd>>

Undo_ErrnoReadAfterClose(p) ==
  /\ At(p, "undo")
  /\ Closes({call[p].fd})
  /\ \E e \in {call[p].errno, "close"} : Fails(p, e)
  /\ Goes(p, NoCall)
  /\ addrinfo' = [addrinfo EXCEPT ![p] = FALSE]
  /\ UNCHANGED held

Undo_SocketKept(p) ==
  /\ At(p, "undo")
  /\ Goes(p, NoCall)
  /\ addrinfo' = [addrinfo EXCEPT ![p] = FALSE]
  /\ UNCHANGED <<sockets, held, last_errno, toldEnd>>

(* The socket is closed, with or without an error of its own, and the      *)
(* address list freed.                                                     *)
Undo(p) ==
  /\ At(p, "undo")
  /\ Closes({call[p].fd})
  /\ Goes(p, NoCall)
  /\ addrinfo' = [addrinfo EXCEPT ![p] = FALSE]
  /\ UNCHANGED <<held, last_errno>>

(* The socket of the call, and its failure: nothing to close yet.          *)
TakesSocket(p, pc, a) ==
  /\ \E s \in FreeSockets :
       Opens(s) /\ Goes(p, [NoCall EXCEPT !.pc = pc, !.fd = s, !.addr = a])
  /\ Succeeds /\ UNCHANGED <<held, addrinfo, toldEnd>>

TcpListenSocket(p, a) == Idle(p) /\ TakesSocket(p, "bind", a)
TcpListenSocketFails(p) == Refused(p, "kernel")

TcpListenBind(p) ==
  /\ At(p, "bind")
  /\ \/ Binds(call[p].fd, call[p].addr) /\ GoesOn(p, "listen")
     \/ \E e \in {"own", "kernel"} : GivesUp(p, e)

TcpListenListen(p) ==
  /\ At(p, "listen")
  /\ \/ Listens(call[p].fd) /\ Delivers(p)
     \/ GivesUp(p, "kernel")

TcpConnectResolve(p, a) ==
  /\ Idle(p)
  /\ Goes(p, [NoCall EXCEPT !.pc = "socket", !.addr = a])
  /\ addrinfo' = [addrinfo EXCEPT ![p] = TRUE]
  /\ Succeeds /\ UNCHANGED <<sockets, held, toldEnd>>

TcpConnectRefused(p) == Refused(p, "own")

TcpConnectSocket(p) ==
  /\ At(p, "socket")
  /\ \/ TakesSocket(p, "connect", call[p].addr)
     \/ /\ Fails(p, "kernel")
        /\ Goes(p, NoCall)
        /\ addrinfo' = [addrinfo EXCEPT ![p] = FALSE]
        /\ UNCHANGED <<sockets, held, toldEnd>>

(* The first address getaddrinfo found is the only one tried.              *)
TcpConnectConnect(p) ==
  /\ At(p, "connect")
  /\ \/ Connects(call[p].fd, call[p].addr) /\ Delivers(p)
     \/ GivesUp(p, "kernel")

-----------------------------------------------------------------------------

TcpStep(p) ==
  \/ TcpListenBind(p) \/ TcpListenListen(p)
  \/ TcpConnectSocket(p) \/ TcpConnectConnect(p)
  \/ Undo(p)

SocketCall(p, s) ==
  \/ Close(p, s) \/ Listen(p, s) \/ Accept(p, s) \/ Shutdown(p, s)
  \/ Send(p, s) \/ SendKills(p, s)
  \/ \E a \in Addresses : Bind(p, s, a) \/ Connect(p, s, a)
  \/ \E max \in LengthArgs : Recv(p, s, max)

FailingCall(p) ==
  \/ SocketFails(p) \/ CloseRefused(p) \/ ShutdownFails(p) \/ AcceptFails(p)
  \/ BindFails(p) \/ ListenFails(p) \/ ConnectFails(p) \/ SendFails(p)
  \/ RecvFails(p) \/ DatagramFails(p) \/ OptionFails(p) \/ PollFails(p)
  \/ ResolveFails(p) \/ AddressFails(p) \/ HostnameFails(p)
  \/ ConversionFails(p) \/ TcpListenSocketFails(p) \/ TcpConnectRefused(p)

Next ==
  \E p \in Procs :
    \/ Socket(p)
    \/ \E s \in held[p] : SocketCall(p, s)
    \/ FailingCall(p)
    \/ \E a \in Addresses : TcpListenSocket(p, a) \/ TcpConnectResolve(p, a)
    \/ TcpStep(p)

Spec == Init /\ [][Next]_vars

-----------------------------------------------------------------------------
(* Properties.                                                             *)

(* Every variable has its type.                                            *)
TypeOK ==
  /\ sockets \in [Sockets ->
       [state : {"free", "new", "bound", "listening", "pending", "connected"},
        addr : Addresses \cup {NULL}, peer : Sockets \cup {NULL, Gone},
        on : Sockets \cup {NULL}, inbox : 0..MaxBytes,
        rd : BOOLEAN, wr : BOOLEAN]]
  /\ held \in [Procs -> SUBSET Sockets]
  /\ call \in [Procs ->
       [pc : {"idle", "dead", "bind", "listen", "socket", "connect", "undo"},
        fd : Sockets \cup {NULL}, addr : Addresses \cup {NULL},
        errno : Errnos]]
  /\ addrinfo \in [Procs -> BOOLEAN]
  /\ last_errno \in [Procs -> Errnos]
  /\ toldEnd \subseteq Sockets

(* Every open socket belongs to one process that was handed it, to one     *)
(* call in progress, or to the queue of a listening socket: no error path  *)
(* of tcp_listen or tcp_connect (lines 513-585) leaves one open, and none  *)
(* keeps an address list.                                                  *)
NothingLeaks ==
  /\ \A s \in Sockets : sockets[s].state # "free" =>
       \/ sockets[s].on # NULL /\ sockets[sockets[s].on].state = "listening"
       \/ \E p \in Procs : s \in held[p] \/ call[p].fd = s
  /\ \A s \in Sockets, p, q \in Procs :
       s \in held[p] => call[q].fd # s /\ (s \in held[q] => p = q)
  /\ \A p \in Procs :
       addrinfo[p] => call[p].pc \in {"socket", "connect", "undo"}

(* A received string that is empty but not NULL means the stream has       *)
(* ended: the peer can send no more and all it sent was received (or this  *)
(* side has shut down its own reading). It is never an error, a request    *)
(* for 0 bytes, or a stream that is merely quiet.                          *)
EmptyMeansEnd ==
  \A s \in toldEnd :
    ~sockets[s].rd \/ (PeerDone(s) /\ sockets[s].inbox = 0)

(* When tcp_listen or tcp_connect has failed, last_errno is the errno of   *)
(* the call that failed, though close has been called since (lines 538,    *)
(* 566, 573, 579).                                                         *)
ErrnoIsTheFailures ==
  [][\A p \in Procs :
       At(p, "undo") /\ Idle(p)' => last_errno'[p] = call[p].errno]_vars

(* What every step preserves. Connections have two ends that know each     *)
(* other, only waiting connections wait, and on a socket that listens, and *)
(* recv has answered 0 bytes only for connected sockets;                   *)
SocketIsSound(s) ==
  /\ sockets[s].peer # NULL => sockets[s].state \in {"pending", "connected"}
  /\ sockets[s].peer \in Sockets => sockets[sockets[s].peer].peer = s
  /\ sockets[s].on # NULL <=> sockets[s].state = "pending"
  /\ sockets[s].on # NULL => sockets[sockets[s].on].state = "listening"
  /\ s \in toldEnd => sockets[s].state = "connected"

(* the other open sockets have one owner each;                             *)
Owned(s) == sockets[s].state \notin {"free", "pending"}
Has(p, s) == s \in held[p] \/ call[p].fd = s

OwnersAgree ==
  \A s \in Sockets :
    /\ Owned(s) <=> \E p \in Procs : Has(p, s)
    /\ \A p, q \in Procs : Has(p, s) /\ Has(q, s) => p = q

(* and a call in progress knows its socket and the error it failed with.   *)
CallIsSound(p) ==
  /\ call[p].fd \notin held[p]
  /\ call[p].fd # NULL <=> call[p].pc \in {"bind", "listen", "connect", "undo"}
  /\ addrinfo[p] => call[p].pc \in {"socket", "connect", "undo"}
  /\ At(p, "undo") => last_errno[p] = call[p].errno

IInv ==
  /\ TypeOK
  /\ \A s \in Sockets : SocketIsSound(s)
  /\ EmptyMeansEnd
  /\ OwnersAgree
  /\ \A p \in Procs : CallIsSound(p)
=============================================================================
