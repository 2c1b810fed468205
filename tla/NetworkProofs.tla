---------------------------- MODULE NetworkProofs ----------------------------
(***************************************************************************)
(* Proofs about Network for every size of the descriptor table, every     *)
(* read length and receive buffer, and both builds.  The invariants the   *)
(* run checks are not inductive alone; NetInv adds what the descriptor    *)
(* table, the connection flag and the read loop say of each other.        *)
(***************************************************************************)
EXTENDS Network, WellFoundedInduction, TLAPS

USE MaxFdAssumption, MaxReadAssumption, MaxAvailAssumption, SwitchAssumption

\* A non-empty set of naturals has a least element: the well-ordering of
\* Nat, which socket()'s lowest-free-descriptor rule relies on.
LEMMA LeastNat ==
    ASSUME NEW S \in SUBSET Nat, S # {}
    PROVE  \E m \in S : \A k \in S : m <= k
<1>1. PICK x \in S : \A y \in S : ~(<<y, x>> \in OpToRel(<, Nat))
  BY NatLessThanWellFounded, WFMin
<1>2. \A y \in S : y < x => <<y, x>> \in OpToRel(<, Nat)
  BY DEF OpToRel
<1>3. \A y \in S : ~(y < x)
  BY <1>1, <1>2, Zenon
<1> QED
  BY <1>3

\* socket() hands out a descriptor that is free, whenever one is.
LEMMA LowestFree ==
    ASSUME TypeOK, FreeFds # {}
    PROVE  Lowest(FreeFds) \in Fds /\ fds[Lowest(FreeFds)] = "free"
<1>1. FreeFds \in SUBSET Nat
  BY DEF FreeFds, Fds
<1>2. \E m \in FreeFds : \A k \in FreeFds : m <= k
  BY <1>1, LeastNat
<1>3. Lowest(FreeFds) \in FreeFds
  BY <1>2 DEF Lowest
<1> QED
  BY <1>3 DEF FreeFds

-----------------------------------------------------------------------------
(* The inductive invariant.                                                *)

\* A descriptor is this Network's exactly when the client holds a
\* connected Network on it.
NetOwned == \A f \in Fds : fds[f] = "net" <=> (conn /\ f = my_socket)

\* A NetworkConnect that reported a failure left the client disconnected.
FailedDown == (last.op = "connect" /\ last.rc < 0) => ~conn

\* Inside the _read loop the bytes taken are the bytes counted, and fewer
\* than were asked for.
Reading == pc = "reading" => taken = rd.bytes /\ rd.bytes < rd.len

NetInv == TypeOK /\ NetOwned /\ FailedDown /\ Reading /\ ReadAccounting

\* The network starts in a state of the invariant.
LEMMA NetInit == Init => NetInv
<1> SUFFICES ASSUME Init PROVE NetInv
  OBVIOUS
<1>1. TypeOK
  <2>1. fds \in [Fds -> {"free", "net", "other"}]
    BY DEF Init
  <2>2. last \in [op : Ops, rc : Rcs] /\ my_socket \in {-1} \cup Fds
    BY DEF Init, Rcs, Ops
  <2>3. rd \in [len : 0..MaxRead, bytes : 0..MaxRead]
    BY DEF Init
  <2>4. tls \in BOOLEAN /\ conn \in BOOLEAN /\ badclose \in BOOLEAN
    BY DEF Init
  <2>5. taken \in 0..MaxRead /\ avail \in 0..MaxAvail
    BY DEF Init
  <2> QED
    BY <2>1, <2>2, <2>3, <2>4, <2>5 DEF Init, TypeOK
<1>2. NetOwned /\ FailedDown /\ Reading /\ ReadAccounting
  BY DEF Init, NetOwned, FailedDown, Reading, ReadAccounting
<1> QED
  BY <1>1, <1>2 DEF NetInv


\* NetworkInit only forgets the socket of a disconnected Network.
LEMMA NetworkInitInv == NetInv /\ NetworkInit => NetInv'
BY DEF NetworkInit, NetInv, TypeOK, NetOwned, FailedDown, Reading, ReadAccounting

\* Another socket user's close frees only its own descriptor.
LEMMA OtherCloseInv ==
    ASSUME NetInv, NEW f \in Fds, OtherClose(f) PROVE NetInv'
BY DEF OtherClose, NetInv, TypeOK, NetOwned, FailedDown, Reading, ReadAccounting

\* The peer's bytes and close touch only the receive side.
LEMMA PeerInv == NetInv /\ (Arrive \/ PeerClose) => NetInv'
BY DEF Arrive, PeerClose, NetInv, TypeOK, NetOwned, FailedDown, Reading, ReadAccounting

\* A write only records its result.
LEMMA WriteInv == NetInv /\ Write => NetInv'
BY DEF Write, NetInv, TypeOK, NetOwned, FailedDown, Reading, ReadAccounting, Rcs, Ops


\* Another socket user's socket() takes a free descriptor, never this
\* Network's.
LEMMA OtherOpenInv == NetInv /\ OtherOpen => NetInv'
<1> SUFFICES ASSUME NetInv, OtherOpen PROVE NetInv'
  OBVIOUS
<1>1. Lowest(FreeFds) \in Fds /\ fds[Lowest(FreeFds)] = "free"
  BY LowestFree DEF OtherOpen, NetInv
<1> QED
  BY <1>1 DEF OtherOpen, NetInv, TypeOK, NetOwned, FailedDown, Reading, ReadAccounting

\* NetworkDisconnect frees the Network's descriptor and drops the
\* connection.
LEMMA NetworkDisconnectInv == NetInv /\ NetworkDisconnect => NetInv'
BY DEF NetworkDisconnect, Close, NetInv, TypeOK, NetOwned, FailedDown, Reading, ReadAccounting

\* A read that starts counts from nothing; one that fails at once records
\* its -1.
LEMMA ReadStartInv == NetInv /\ ReadStart => NetInv'
BY DEF ReadStart, NetInv, TypeOK, NetOwned, FailedDown, Reading, ReadAccounting, Rcs, Ops


\* NetworkConnect: each early return, each failure after socket(), and
\* success keep the invariant.  No descriptor is the Network's before
\* it, since the client is disconnected.
LEMMA NetworkConnectInv == NetInv /\ NetworkConnect => NetInv'
<1> SUFFICES ASSUME NetInv, NetworkConnect PROVE NetInv'
  OBVIOUS
<1>1. \A g \in Fds : fds[g] # "net"
  BY DEF NetworkConnect, NetInv, NetOwned
<1>2. /\ avail' = 0 /\ peer' = "open"
      /\ UNCHANGED <<pc, rd, taken>> /\ pc = "idle" /\ conn = FALSE
  BY DEF NetworkConnect, NetInv, TypeOK
<1>3. CASE /\ last' = [op |-> "connect", rc |-> -1]
           /\ UNCHANGED <<my_socket, fds, tls, conn, badclose>>
  BY <1>1, <1>2, <1>3 DEF NetInv, TypeOK, NetOwned, FailedDown, Reading, ReadAccounting, Rcs, Ops
<1>4. CASE /\ FreeFds = {}
           /\ my_socket' = -1
           /\ last' = [op |-> "connect", rc |-> -1]
           /\ UNCHANGED <<fds, tls, conn, badclose>>
  BY <1>1, <1>2, <1>4 DEF NetInv, TypeOK, NetOwned, FailedDown, Reading, ReadAccounting, Rcs, Ops
<1>5. CASE /\ FreeFds # {}
           /\ my_socket' = Lowest(FreeFds)
           /\ \/ \E why \in Fails : ConnectFailed(Lowest(FreeFds), why)
              \/ /\ fds' = [fds EXCEPT ![Lowest(FreeFds)] = "net"]
                 /\ tls' = Tls
                 /\ conn' = TRUE
                 /\ last' = [op |-> "connect", rc |-> Lowest(FreeFds)]
                 /\ UNCHANGED badclose
  <2> DEFINE f == Lowest(FreeFds)
  <2>1. f \in Fds /\ fds[f] = "free"
    BY <1>5, LowestFree DEF NetInv
  <2>2. CASE \E why \in Fails : ConnectFailed(f, why)
    <3>1. PICK why \in Fails : ConnectFailed(f, why)
      BY <2>2
    <3>2. FailCode(why) \in -4..-1
      BY DEF Fails, FailCode
    <3>3. /\ last' = [op |-> "connect", rc |-> FailCode(why)]
          /\ fds' = fds /\ tls' = FALSE /\ conn' = FALSE /\ UNCHANGED badclose
      BY <1>2, <3>1 DEF ConnectFailed
    <3>4. TypeOK'
      <4>1. my_socket' \in {-1} \cup Fds /\ last' \in [op : Ops, rc : Rcs]
        BY <1>5, <2>1, <3>2, <3>3 DEF Rcs, Ops
      <4>2. tls' \in BOOLEAN /\ conn' \in BOOLEAN /\ badclose' \in BOOLEAN
        BY <3>3 DEF NetInv, TypeOK
      <4> QED
        BY <1>2, <3>3, <4>1, <4>2 DEF NetInv, TypeOK
    <3>5. NetOwned' /\ FailedDown'
      BY <1>1, <3>3 DEF NetOwned, FailedDown
    <3> QED
      BY <1>2, <3>3, <3>4, <3>5 DEF NetInv, Reading, ReadAccounting
  <2>3. CASE /\ fds' = [fds EXCEPT ![f] = "net"]
             /\ tls' = Tls
             /\ conn' = TRUE
             /\ last' = [op |-> "connect", rc |-> f]
             /\ UNCHANGED badclose
    BY <1>1, <1>2, <1>5, <2>1, <2>3 DEF NetInv, TypeOK, NetOwned, FailedDown, Reading, ReadAccounting, Rcs, Ops, Fds
  <2> QED
    BY <1>5, <2>2, <2>3
<1> QED
  BY <1>3, <1>4, <1>5 DEF NetworkConnect


\* One recv in the _read loop.  recv is asked for what is still missing,
\* so the count never passes len, and what it returns is what it took.
LEMMA ReadStepInv == NetInv /\ ReadStep => NetInv'
<1> SUFFICES ASSUME NetInv, ReadStep PROVE NetInv'
  OBVIOUS
<1>1. PICK rc \in RecvResults :
        /\ OnRecv(rc)
        /\ avail' = IF rc > 0 THEN avail - rc ELSE avail
        /\ taken' = IF rc > 0 THEN taken + rc ELSE taken
  BY DEF ReadStep
<1>2. /\ pc = "reading" /\ taken = rd.bytes /\ rd.bytes < rd.len
      /\ UNCHANGED <<my_socket, fds, tls, conn, peer, badclose>>
  BY DEF ReadStep, NetInv, Reading
<1>3. /\ rc \in Int /\ -1 <= rc /\ rc <= avail /\ rc <= rd.len - rd.bytes
      /\ (rc = 0 => avail = 0)
  BY <1>1, <1>2 DEF RecvResults, NetInv, TypeOK
<1>4. /\ rd \in [len : 0..MaxRead, bytes : 0..MaxRead]
      /\ avail \in 0..MaxAvail /\ last \in [op : Ops, rc : Rcs]
      /\ fds \in [Fds -> {"free", "net", "other"}] /\ my_socket \in {-1} \cup Fds
      /\ tls \in BOOLEAN /\ conn \in BOOLEAN /\ badclose \in BOOLEAN
      /\ peer \in {"open", "closed"}
  BY DEF NetInv, TypeOK
<1>5. NetOwned'
  BY <1>2 DEF NetInv, NetOwned
<1>6. CASE rc < 0
  <2>1. pc' = "idle" /\ last' = [op |-> "read", rc |-> -1] /\ UNCHANGED rd
    BY <1>1, <1>3, <1>6 DEF OnRecv, ReadReturn
  <2>2. taken' = taken /\ avail' = avail
    BY <1>1, <1>3, <1>6
  <2>3. TypeOK'
    BY <1>2, <1>4, <2>1, <2>2 DEF NetInv, TypeOK, Rcs, Ops
  <2>4. FailedDown' /\ Reading' /\ ReadAccounting'
    BY <2>1 DEF FailedDown, Reading, ReadAccounting
  <2> QED
    BY <1>5, <2>3, <2>4 DEF NetInv
<1>7. CASE rc = 0
  <2>1. pc' = "idle" /\ last' = [op |-> "read", rc |-> rd.bytes] /\ UNCHANGED rd
    BY <1>1, <1>3, <1>7 DEF OnRecv, ReadReturn
  <2>2. taken' = taken /\ avail' = avail
    BY <1>1, <1>7
  <2>3. TypeOK'
    BY <1>2, <1>4, <2>1, <2>2 DEF NetInv, TypeOK, Rcs, Ops
  <2>4. FailedDown' /\ Reading'
    BY <2>1 DEF FailedDown, Reading
  <2>5. ReadAccounting'
    BY <1>2, <1>4, <2>1, <2>2 DEF ReadAccounting
  <2> QED
    BY <1>5, <2>3, <2>4, <2>5 DEF NetInv
<1>8. CASE rc > 0 /\ rd.bytes + rc >= rd.len
  <2>1. pc' = "idle" /\ last' = [op |-> "read", rc |-> rd.bytes + rc]
        /\ UNCHANGED rd
    BY <1>1, <1>3, <1>8 DEF OnRecv, ReadReturn
  <2>2. taken' = rd.bytes + rc /\ avail' = avail - rc
    BY <1>1, <1>2, <1>8
  <2>3. rd.bytes + rc = rd.len /\ avail - rc \in 0..MaxAvail
    BY <1>3, <1>4, <1>8
  <2>4. TypeOK'
    BY <1>2, <1>4, <2>1, <2>2, <2>3 DEF NetInv, TypeOK, Rcs, Ops
  <2>5. FailedDown' /\ Reading'
    BY <2>1 DEF FailedDown, Reading
  <2>6. ReadAccounting'
    BY <1>4, <2>1, <2>2, <2>3 DEF ReadAccounting
  <2> QED
    BY <1>5, <2>4, <2>5, <2>6 DEF NetInv
<1>9. CASE rc > 0 /\ rd.bytes + rc < rd.len
  <2>0. ~(rc < 0) /\ rc # 0 /\ ~(rd.bytes + rc >= rd.len)
    BY <1>3, <1>4, <1>9
  <2>1. rd' = [rd EXCEPT !.bytes = @ + rc] /\ UNCHANGED <<pc, last>>
    BY <1>1, <2>0, Zenon DEF OnRecv
  <2>2. taken' = rd.bytes + rc /\ avail' = avail - rc
    BY <1>1, <1>2, <1>9
  <2>3. rd' = [len |-> rd.len, bytes |-> rd.bytes + rc]
    BY <1>4, <2>1
  <2>4. rd.bytes + rc \in 0..MaxRead /\ avail - rc \in 0..MaxAvail
    BY <1>3, <1>4, <1>9
  <2>5. TypeOK'
    BY <1>2, <1>4, <2>1, <2>2, <2>3, <2>4 DEF NetInv, TypeOK
  <2>6. FailedDown'
    BY <1>2, <2>1 DEF NetInv, FailedDown
  <2>7. Reading' /\ ReadAccounting'
    BY <1>2, <1>9, <2>1, <2>2, <2>3 DEF Reading, ReadAccounting
  <2> QED
    BY <1>5, <2>5, <2>6, <2>7 DEF NetInv
<1> QED
  BY <1>3, <1>4, <1>6, <1>7, <1>8, <1>9


\* Every step of the network, and a stutter, keeps the invariant.
LEMMA NetStep == NetInv /\ [Next]_vars => NetInv'
<1> SUFFICES ASSUME NetInv, [Next]_vars PROVE NetInv'
  OBVIOUS
<1>1. CASE \E f \in Fds : OtherClose(f)
  BY <1>1, OtherCloseInv
<1>2. CASE UNCHANGED vars
  BY <1>2 DEF vars, NetInv, TypeOK, NetOwned, FailedDown, Reading, ReadAccounting
<1> QED
  BY <1>1, <1>2, NetworkInitInv, NetworkConnectInv, NetworkDisconnectInv,
     OtherOpenInv, PeerInv, ReadStartInv, ReadStepInv, WriteInv DEF Next

\* NetInv holds in every reachable state, for every table size, read
\* length, buffer size and build.
THEOREM NetInvariant == Spec => []NetInv
BY NetInit, NetStep, PTL DEF Spec

\* Every reachable state of the network model is typed: descriptors stay
\* in the table, counts within the read and buffer bounds, and every
\* call's return value among the error codes, byte counts and descriptors.
THEOREM NetTypeCorrect == Spec => []TypeOK
<1>1. NetInv => TypeOK
  BY DEF NetInv
<1> QED
  BY <1>1, NetInvariant, PTL

\* A NetworkConnect that returns an error leaves no descriptor held for
\* the Network, on every path out of it (network.c's refused, ssl and
\* connect-done failures), however the other sockets of the SDK come and
\* go.
THEOREM FailedConnectReleasesProved == Spec => []FailedConnectReleases
<1>1. NetInv => FailedConnectReleases
  BY DEF NetInv, NetOwned, FailedDown, FailedConnectReleases
<1> QED
  BY <1>1, NetInvariant, PTL

\* Every count _read returns is exactly the bytes its recv loop took from
\* the stream, and at most the length asked for.
THEOREM ReadAccountingProved == Spec => []ReadAccounting
<1>1. NetInv => ReadAccounting
  BY DEF NetInv
<1> QED
  BY <1>1, NetInvariant, PTL

=============================================================================
