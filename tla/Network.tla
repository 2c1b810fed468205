------------------------------ MODULE Network ------------------------------
(***************************************************************************)
(* The MQTT transport of src/src/mqtt/client/src/network.c: the Network   *)
(* struct's socket, NetworkConnect with each of its failure returns,      *)
(* NetworkDisconnect, and the _read loop and _write the MQTT client calls. *)
(*                                                                         *)
(* The kernel's descriptor table is fds: a descriptor is free, held by    *)
(* this Network ("net") or by another part of the SDK ("other", the HTTP  *)
(* client's sockets), and socket() hands out the lowest free one.  The    *)
(* peer fills the socket's receive buffer (avail bytes) while the client  *)
(* is inside _read, and may close its end.                                 *)
(***************************************************************************)
EXTENDS Integers

CONSTANTS
    MaxFd,    \* size of the descriptor table (bound)
    MaxRead,  \* longest read the MQTT client asks for (bound)
    MaxAvail, \* bytes the receive buffer holds (bound)
    Tls,      \* konexios_mqtt_host()->scheme == konexios_mqtt_scheme_tls
    Cipher    \* the MQTT_CIPHER build

ASSUME MaxFdAssumption == MaxFd \in Nat \ {0}
ASSUME MaxReadAssumption == MaxRead \in Nat \ {0}
ASSUME MaxAvailAssumption == MaxAvail \in Nat \ {0}
ASSUME SwitchAssumption == Tls \in BOOLEAN /\ Cipher \in BOOLEAN

Fds == 0..MaxFd - 1
Ops == {"none", "connect", "read", "write"}
\* What the calls return: an error code, a byte count or a descriptor.
Rcs == -4..MaxRead \cup Fds

VARIABLES
    my_socket,  \* n->my_socket
    fds,        \* the descriptor table
    tls,        \* an ssl session is open on my_socket
    conn,       \* the MQTT client holds a connected Network
    pc,         \* "idle", or "reading" inside the _read loop
    rd,         \* the read in progress: len asked, bytes so far
    taken,      \* bytes the read in progress took from the stream
    avail,      \* bytes waiting in the receive buffer
    peer,       \* "open" or "closed": the far end of the connection
    last,       \* the call that returned last, and what it returned
    badclose    \* a close hit a descriptor another socket user holds

vars == <<my_socket, fds, tls, conn, pc, rd, taken, avail, peer, last, badclose>>

TypeOK ==
    /\ my_socket \in {-1} \cup Fds
    /\ fds \in [Fds -> {"free", "net", "other"}]
    /\ tls \in BOOLEAN /\ conn \in BOOLEAN /\ badclose \in BOOLEAN
    /\ pc \in {"idle", "reading"}
    /\ rd \in [len : 0..MaxRead, bytes : 0..MaxRead]
    /\ taken \in 0..MaxRead
    /\ avail \in 0..MaxAvail
    /\ peer \in {"open", "closed"}
    /\ last \in [op : Ops, rc : Rcs]

Init ==
    /\ my_socket = -1
    /\ fds = [f \in Fds |-> "free"]
    /\ tls = FALSE /\ conn = FALSE /\ badclose = FALSE
    /\ pc = "idle"
    /\ rd = [len |-> 0, bytes |-> 0]
    /\ taken = 0
    /\ avail = 0
    /\ peer = "open"
    /\ last = [op |-> "none", rc |-> 0]

FreeFds == {f \in Fds : fds[f] = "free"}
Lowest(S) == CHOOSE f \in S : \A g \in S : f <= g

(* soc_close(fd): the descriptor is released, whoever held it.             *)
Close(f) ==
    /\ fds' = IF f \in Fds THEN [fds EXCEPT ![f] = "free"] ELSE fds
    /\ badclose' = (badclose \/ (f \in Fds /\ fds[f] = "other"))

(* NetworkInit(n): no socket yet.                                           *)
NetworkInit ==
    /\ pc = "idle" /\ ~conn
    /\ my_socket' = -1
    /\ UNCHANGED <<fds, tls, conn, pc, rd, taken, avail, peer, last, badclose>>

(* The outcomes of NetworkConnect past socket(): connect() refused (-2),  *)
(* ssl_connect failed (-3, TLS only), socket_connect_done failed (-4), or  *)
(* connected.                                                              *)
Fails == {"refused", "done_fail"} \cup (IF Tls THEN {"ssl_fail"} ELSE {})

FailCode(why) == CASE why = "refused" -> -2 [] why = "ssl_fail" -> -3 [] why = "done_fail" -> -4

(* Fault model: the refused path returns without closing the socket.      *)
ConnectFailedKeepsSocket(f, why) ==
    /\ last' = [op |-> "connect", rc |-> FailCode(why)]
    /\ fds' = IF why = "refused" THEN [fds EXCEPT ![f] = "net"] ELSE fds
    /\ tls' = FALSE
    /\ UNCHANGED <<conn, badclose>>

(* A failure after socket() gave f: soc_close(f) (through                  *)
(* NetworkDisconnect for -4, which also ssl_closes), and the error code.   *)
ConnectFailed(f, why) ==
    /\ last' = [op |-> "connect", rc |-> FailCode(why)]
    /\ fds' = fds
    /\ tls' = FALSE
    /\ UNCHANGED <<conn, badclose>>

(* NetworkConnect(n, addr, port, timeout).  A NULL addr, an unknown host  *)
(* or a non-INET address return -1 before socket(); socket() failing      *)
(* stores and returns its -1; each later failure closes the socket but    *)
(* leaves my_socket naming it; success returns the descriptor.            *)
NetworkConnect ==
    /\ pc = "idle" /\ ~conn
    /\ \/ /\ last' = [op |-> "connect", rc |-> -1]
          /\ UNCHANGED <<my_socket, fds, tls, conn, badclose>>
       \/ /\ FreeFds = {}
          /\ my_socket' = -1
          /\ last' = [op |-> "connect", rc |-> -1]
          /\ UNCHANGED <<fds, tls, conn, badclose>>
       \/ /\ FreeFds # {}
          /\ LET f == Lowest(FreeFds) IN
             /\ my_socket' = f
             /\ \/ \E why \in Fails : ConnectFailed(f, why)
                \/ /\ fds' = [fds EXCEPT ![f] = "net"]
                   /\ tls' = Tls
                   /\ conn' = TRUE
                   /\ last' = [op |-> "connect", rc |-> f]
                   /\ UNCHANGED badclose
    /\ avail' = 0 /\ peer' = "open"
    /\ UNCHANGED <<pc, rd, taken>>

(* NetworkDisconnect(n): ssl_close in the MQTT_CIPHER build, then          *)
(* soc_close of whatever my_socket names; my_socket keeps its value.       *)
NetworkDisconnect ==
    /\ pc = "idle"
    /\ Close(my_socket)
    /\ tls' = (tls /\ ~Cipher)
    /\ conn' = FALSE
    /\ UNCHANGED <<my_socket, pc, rd, taken, avail, peer, last>>

(* Another part of the SDK opens or closes a socket of its own.            *)
OtherOpen ==
    /\ FreeFds # {}
    /\ fds' = [fds EXCEPT ![Lowest(FreeFds)] = "other"]
    /\ UNCHANGED <<my_socket, tls, conn, pc, rd, taken, avail, peer, last, badclose>>

OtherClose(f) ==
    /\ fds[f] = "other"
    /\ fds' = [fds EXCEPT ![f] = "free"]
    /\ UNCHANGED <<my_socket, tls, conn, pc, rd, taken, avail, peer, last, badclose>>

(* The peer sends a byte or closes its end.                                 *)
Arrive ==
    /\ conn /\ peer = "open" /\ avail < MaxAvail
    /\ avail' = avail + 1
    /\ UNCHANGED <<my_socket, fds, tls, conn, pc, rd, taken, peer, last, badclose>>

PeerClose ==
    /\ conn /\ peer = "open"
    /\ peer' = "closed"
    /\ UNCHANGED <<my_socket, fds, tls, conn, pc, rd, taken, avail, last, badclose>>

(* _read(n, buffer, len, timeout_ms): len <= 0 and a failed setsockopt     *)
(* return -1 at once; otherwise the recv loop starts (the timeout is      *)
(* clamped to at least 100us, which only bounds how long recv waits).      *)
ReadStart ==
    /\ pc = "idle" /\ conn
    /\ \E len \in 0..MaxRead :
         \/ /\ len = 0
            /\ last' = [op |-> "read", rc |-> -1]
            /\ UNCHANGED <<pc, rd>>
         \/ /\ len > 0
            /\ last' = [op |-> "read", rc |-> -1]
            /\ UNCHANGED <<pc, rd>>
         \/ /\ len > 0
            /\ pc' = "reading"
            /\ rd' = [len |-> len, bytes |-> 0]
            /\ UNCHANGED last
    /\ taken' = 0
    /\ UNCHANGED <<my_socket, fds, tls, conn, avail, peer, badclose>>

(* The loop's exit: _read returns r and the client is idle again.          *)
ReadReturn(r) ==
    /\ pc' = "idle"
    /\ last' = [op |-> "read", rc |-> r]
    /\ UNCHANGED rd

(* Fault model: the loop keeps only the last recv's count.                *)
OnRecvOverwrite(rc) ==
    IF rc < 0 THEN ReadReturn(-1)
    ELSE IF rc = 0 THEN ReadReturn(rd.bytes)
    ELSE IF rc >= rd.len THEN ReadReturn(rc)
    ELSE /\ rd' = [rd EXCEPT !.bytes = rc] /\ UNCHANGED <<pc, last>>

(* What the loop does with recv's rc: an error ends it with -1, whatever  *)
(* was read; 0 ends it with the bytes so far; else they are added and the *)
(* loop goes on while bytes < len.                                         *)
OnRecv(rc) ==
    IF rc < 0 THEN ReadReturn(-1)
    ELSE IF rc = 0 THEN ReadReturn(rd.bytes)
    ELSE IF rd.bytes + rc >= rd.len THEN ReadReturn(rd.bytes + rc)
    ELSE /\ rd' = [rd EXCEPT !.bytes = @ + rc] /\ UNCHANGED <<pc, last>>

(* One recv (or ssl_recv) of up to len - bytes: some of the waiting bytes, *)
(* 0 once the peer has closed and nothing waits, -1 on a timeout with     *)
(* nothing waiting or on a connection error.                               *)
(* Fault model: recv is asked for len bytes on every pass.                *)
RecvResultsUncapped ==
    (IF avail > 0 THEN 1..(IF avail < rd.len THEN avail ELSE rd.len) ELSE {})
    \cup (IF avail = 0 /\ peer = "closed" THEN {0} ELSE {})
    \cup {-1}

RecvResults ==
    LET want == rd.len - rd.bytes IN
    (IF avail > 0 THEN 1..(IF avail < want THEN avail ELSE want) ELSE {})
    \cup (IF avail = 0 /\ peer = "closed" THEN {0} ELSE {})
    \cup {-1}

ReadStep ==
    /\ pc = "reading"
    /\ \E rc \in RecvResults :
         /\ OnRecv(rc)
         /\ avail' = IF rc > 0 THEN avail - rc ELSE avail
         /\ taken' = IF rc > 0 THEN taken + rc ELSE taken
    /\ UNCHANGED <<my_socket, fds, tls, conn, peer, badclose>>

(* _write(n, buffer, len, timeout_ms): one send (or ssl_send), whose      *)
(* result, a short count included, is returned as it is.                  *)
Write ==
    /\ pc = "idle" /\ conn
    /\ \E len \in 1..MaxRead, rc \in -1..MaxRead :
         /\ rc <= len
         /\ last' = [op |-> "write", rc |-> rc]
    /\ UNCHANGED <<my_socket, fds, tls, conn, pc, rd, taken, avail, peer, badclose>>

Next ==
    \/ NetworkInit
    \/ NetworkConnect
    \/ NetworkDisconnect
    \/ OtherOpen
    \/ \E f \in Fds : OtherClose(f)
    \/ Arrive
    \/ PeerClose
    \/ ReadStart
    \/ ReadStep
    \/ Write

Spec == Init /\ [][Next]_vars

-----------------------------------------------------------------------------
(* A NetworkConnect that fails leaves no descriptor held for this Network: *)
(* every socket it acquired is released before the error is returned.     *)
FailedConnectReleases ==
    (last.op = "connect" /\ last.rc < 0) => \A f \in Fds : fds[f] # "net"

(* A read that returns a count reports exactly the bytes it took from the *)
(* stream, and never more than were asked for.                             *)
ReadAccounting ==
    (pc = "idle" /\ last.op = "read" /\ last.rc >= 0) =>
        /\ last.rc = taken
        /\ last.rc <= rd.len

(* NetworkDisconnect closes only the socket this Network holds, never one *)
(* another part of the SDK has opened since.                               *)
CloseOwnOnly == ~badclose
=============================================================================
