-------------------------- MODULE GbTransportProofs --------------------------
(***************************************************************************)
(* For every number of packets and connections and every byte base: the    *)
(* loss that the platform prints is real, a port belongs to its session or *)
(* to the start of one, a start that is refused closes its connection,     *)
(* and, as long as a connection is made only when the last one is read to  *)
(* its end, the framing of the TCP stream implements a queue of packets.   *)
(*                                                                         *)
(* The last is shown in four parts.  The framing loop (Cuts, a recursive   *)
(* function) is a walk from frame to frame, and there is only one such     *)
(* walk.  So a string of bytes may be cut anywhere: framing the beginning, *)
(* and then its residue with the rest, gives the same frames               *)
(* (CutAnywhere).  Call Good what begins like a sequence of frames; the    *)
(* bytes in the buffer and in the connection together are always Good      *)
(* (StreamInv).  Each step of sender, network and receiver then does to    *)
(* the frames of those bytes what a step of the queue does (QueueStep).    *)
(***************************************************************************)
EXTENDS GbTransport, SequenceTheorems, WellFoundedInduction, TLAPS

\* No count a report ever carries exceeds what was received and what is
\* missing together.
LossInv ==
    /\ in_flight \in Nat /\ missing \in Nat /\ in_flight <= missing
    /\ rtp_rx_count \in Nat /\ packet_count \in Nat
    /\ packet_count <= rtp_rx_count + missing
    /\ \A k \in srs : k \in Nat /\ k <= rtp_rx_count + missing
    /\ sr_packets \in Nat /\ sr_packets <= rtp_rx_count + missing

\* What LossInv reads stands still in most steps.
LEMMA LossInvStands ==
    ASSUME LossInv, UNCHANGED <<udpVars, rtp_rx_count, sr_packets>>
    PROVE  LossInv'
BY DEF LossInv, udpVars

LEMMA LossInvInductive == LossInv /\ [Next]_vars => LossInv'
<1> SUFFICES ASSUME LossInv, [Next]_vars PROVE LossInv'
    OBVIOUS
<1>1. CASE BeginUdp
    BY <1>1 DEF BeginUdp, LossInv, statsVars
<1>2. CASE Connect \/ CloseRefused
    BY <1>2, LossInvStands DEF Connect, CloseRefused, statsVars
<1>3. CASE BeginElse \/ End \/ Crash \/ SendTcp
    BY <1>3, LossInvStands DEF BeginElse, End, Crash, SendTcp, statsVars
<1>4. CASE SendUdp
    BY <1>4 DEF SendUdp, LossInv, statsVars
<1>5. CASE SendReport
    BY <1>5 DEF SendReport, LossInv, statsVars
<1>6. CASE Lose
    BY <1>6 DEF Lose, LossInv, statsVars
<1>7. CASE LoseReport
    BY <1>7 DEF LoseReport, LossInv, statsVars
<1>8. CASE Break \/ AcceptNext \/ RecvTcpNothing
    BY <1>8, LossInvStands DEF Break, AcceptNext, RecvTcpNothing, statsVars
<1>9. CASE RecvRtp
    BY <1>9 DEF RecvRtp, Count, LossInv
<1>10. CASE RecvRtcp
    BY <1>10 DEF RecvRtcp, SenderReport, LossInv
<1>11. CASE RecvTcp
  <2>1. PICK n \in Nat : rtp_rx_count' = rtp_rx_count + n
        BY <1>11 DEF RecvTcp, Count
  <2>2. UNCHANGED udpVars /\ sr_packets' = sr_packets
        BY <1>11 DEF RecvTcp, Count
  <2> QED BY <2>1, <2>2 DEF LossInv, udpVars
<1>12. CASE UNCHANGED vars
    BY <1>12, LossInvStands DEF vars, statsVars
<1> QED BY <1>1, <1>2, <1>3, <1>4, <1>5, <1>6, <1>7, <1>8, <1>9, <1>10,
           <1>11, <1>12 DEF Next, Device, Network, Platform

\* Whatever is lost, late or sent in an earlier session, the platform never
\* prints a loss greater than the number of packets that did not arrive.
THEOREM LossNeverOverstated == Spec => []LossIsReal
<1>1. Init => LossInv
    BY DEF Init, StatsInit, LossInv
<1>2. LossInv => LossIsReal
    BY DEF LossInv, LossIsReal, Lost
<1> QED BY <1>1, <1>2, LossInvInductive, PTL DEF Spec

-----------------------------------------------------------------------------
\* While a start is running there is no session yet, and so what a refused
\* start gives back is its own.  Only a session and a start that has come to
\* its connection know one, and it is the last one made.
SessionInv ==
    /\ rtp_session \in {"none", "udp", "tcp", "passive"}
    /\ starting \in {"no", "udp", "tcp", "connected"}
    /\ rtp_session = "none" \/ starting = "no"
    /\ ports \subseteq {"udp", "listen"} /\ PortIsHeldBySession
    /\ opened \in Nat
    /\ tcp_sock = IF rtp_session = "tcp" \/ starting = "connected" THEN opened ELSE 0
    /\ rtp_session = "tcp" \/ starting = "connected" => opened # 0

\* A step either leaves the session alone, or it is one of these.
SessionStep ==
    \/ CreateUdp \/ UdpRefused \/ UdpStarted \/ StartPassive
    \/ CreateTcp \/ ConnectFails \/ TcpStarted \/ Stop
    \/ TcpRefused /\ eof' = eof \cup {tcp_sock}
    \/ Restart /\ eof' = eof \cup 1 .. opened

LEMMA StepOfSession ==
    ASSUME [Next]_vars
    PROVE  \/ Connect
           \/ SessionStep /\ opened' = opened
           \/ UNCHANGED <<sessionVars, opened>>
<1>1. CASE BeginUdp \/ BeginElse \/ End
    BY <1>1 DEF BeginUdp, BeginElse, End, SessionStep, netVars
<1>2. CASE CloseRefused \/ Crash
    BY <1>2 DEF CloseRefused, Crash, SessionStep
<1>3. CASE SendUdp \/ SendReport \/ SendTcp \/ Network
    BY <1>3 DEF SendUdp, SendReport, SendTcp, Network, Lose, LoseReport, Break, netVars
<1>4. CASE Platform
    BY <1>4 DEF Platform, RecvRtp, RecvRtcp, AcceptNext, RecvTcp, RecvTcpNothing, netVars
<1>5. CASE UNCHANGED vars
    BY <1>5 DEF vars, netVars
<1> QED BY <1>1, <1>2, <1>3, <1>4, <1>5 DEF Next, Device

LEMMA SessionInductive == SessionInv /\ [Next]_vars => SessionInv'
<1> SUFFICES ASSUME SessionInv, [Next]_vars PROVE SessionInv'
    OBVIOUS
<1>1. CASE UNCHANGED <<sessionVars, opened>>
    BY <1>1 DEF SessionInv, PortIsHeldBySession, sessionVars
<1>2. CASE Connect
    BY <1>2 DEF Connect, ConnectTcp, SessionInv, PortIsHeldBySession
<1>3. CASE SessionStep /\ opened' = opened
  <2>1. CASE CreateUdp
        BY <1>3, <2>1 DEF CreateUdp, Idle, SessionInv, PortIsHeldBySession
  <2>2. CASE UdpRefused
        BY <1>3, <2>2 DEF UdpRefused, Destroy, SessionInv, PortIsHeldBySession
  <2>3. CASE UdpStarted
        BY <1>3, <2>3 DEF UdpStarted, SessionInv, PortIsHeldBySession
  <2>4. CASE StartPassive
        BY <1>3, <2>4 DEF StartPassive, Idle, SessionInv, PortIsHeldBySession
  <2>5. CASE CreateTcp
        BY <1>3, <2>5 DEF CreateTcp, Idle, SessionInv, PortIsHeldBySession
  <2>6. CASE ConnectFails
        BY <1>3, <2>6 DEF ConnectFails, Destroy, SessionInv, PortIsHeldBySession
  <2>7. CASE TcpStarted
        BY <1>3, <2>7 DEF TcpStarted, SessionInv, PortIsHeldBySession
  <2>8. CASE Stop
        BY <1>3, <2>8 DEF Stop, Destroy, SessionInv, PortIsHeldBySession
  <2>9. CASE TcpRefused
        BY <1>3, <2>9 DEF TcpRefused, Destroy, SessionInv, PortIsHeldBySession
  <2>10. CASE Restart
        BY <1>3, <2>10 DEF Restart, SessionInv, PortIsHeldBySession
  <2> QED BY <1>3, <2>1, <2>2, <2>3, <2>4, <2>5, <2>6, <2>7, <2>8, <2>9, <2>10
          DEF SessionStep
<1> QED BY <1>1, <1>2, <1>3, StepOfSession

LEMMA SessionStarts == Init => SessionInv
BY DEF Init, SessionInit, Idle, SessionInv, PortIsHeldBySession

\* A port of the RTP library is held exactly while its session exists or is
\* being started: after starts that fail at any of their steps, stops and
\* crashes in any order.
THEOREM PortsAreReturned == Spec => []PortIsHeldBySession
<1>1. SessionInv => PortIsHeldBySession
    BY DEF SessionInv
<1> QED BY <1>1, SessionStarts, SessionInductive, PTL DEF Spec

\* A start that is refused after it has connected closes its connection; only
\* a stop leaves behind one that is open.
THEOREM ConnectionsAreClosed == Spec => OnlyStopForgetsConnections
<1> DEFINE A == tcp_sock # 0 /\ tcp_sock' # tcp_sock =>
                    tcp_sock \in eof' \/ rtp_session = "tcp"
<1>1. SessionInv /\ [Next]_vars => [A]_vars
  <2> SUFFICES ASSUME SessionInv, [Next]_vars, tcp_sock # 0, tcp_sock' # tcp_sock
               PROVE  tcp_sock \in eof' \/ rtp_session = "tcp"
      OBVIOUS
  <2>1. CASE Connect
        BY <2>1 DEF Connect, ConnectTcp, SessionInv
  <2>2. CASE SessionStep
    <3>1. tcp_sock \in 1 .. opened
          BY DEF SessionInv
    <3>2. CASE Stop
          BY <3>2 DEF Stop, SessionInv
    <3>3. CASE TcpRefused /\ eof' = eof \cup {tcp_sock}
          BY <3>3
    <3>4. CASE Restart /\ eof' = eof \cup 1 .. opened
          BY <3>1, <3>4
    <3> QED BY <2>2, <3>2, <3>3, <3>4 DEF SessionStep, CreateUdp, UdpRefused, UdpStarted,
               StartPassive, CreateTcp, ConnectFails, TcpStarted
  <2>3. CASE UNCHANGED <<sessionVars, opened>>
        BY <2>3 DEF sessionVars
  <2> QED BY <2>1, <2>2, <2>3, StepOfSession
<1> QED BY <1>1, SessionStarts, SessionInductive, PTL DEF Spec, OnlyStopForgetsConnections

-----------------------------------------------------------------------------
\* Induction over the natural numbers, for a set of them
LEMMA Induction ==
    ASSUME NEW T, 0 \in T, \A n \in Nat : n \in T => n + 1 \in T
    PROVE  Nat \subseteq T
<1> SUFFICES ASSUME Nat \ T # {} PROVE FALSE
    OBVIOUS
<1>1. PICK x \in Nat \ T : \A y \in Nat \ T : ~ (<<y, x>> \in OpToRel(<, Nat))
    <2>1. Nat \ T \subseteq Nat OBVIOUS
    <2> QED BY <2>1, NatLessThanWellFounded, WFMin
<1>2. x - 1 \in Nat \ T
    OBVIOUS
<1>3. <<x - 1, x>> \in OpToRel(<, Nat)
    BY <1>2 DEF OpToRel
<1> QED BY <1>1, <1>2, <1>3

Digits == 0 .. Base - 1

\* The end of the frame that begins at a position
EndOfFrame(b, at) == at + 2 + RtpLen(b, at)

\* Where the n-th frame ends, counted from position p on
EndAt(p, ends, n) == IF n = 0 THEN p ELSE ends[n]

\* The ends of the frames from position p on, as far as they are complete
Walk(b, p, ends) ==
    /\ ends \in Seq(0 .. Len(b))
    /\ \A n \in 0 .. Len(ends) - 1 :
         /\ IsComplete(b, EndAt(p, ends, n))
         /\ ends[n + 1] = EndOfFrame(b, EndAt(p, ends, n))
    /\ ~IsComplete(b, EndAt(p, ends, Len(ends)))

\* A complete frame lies within the bytes and is not empty.
LEMMA Complete ==
    ASSUME NEW b \in Seq(Digits), NEW at \in Nat, IsComplete(b, at)
    PROVE  /\ at + 2 <= Len(b) /\ RtpLen(b, at) \in Nat \ {0}
           /\ EndOfFrame(b, at) \in 0 .. Len(b) /\ EndOfFrame(b, at) > at
<1>1. at + 1 \in 1 .. Len(b) /\ at + 2 \in 1 .. Len(b) /\ Len(b) \in Nat
    BY DEF IsComplete
<1>2. b[at + 1] \in Digits /\ b[at + 2] \in Digits
    BY <1>1, ElementOfSeq
<1>3. Base \in Nat
    BY TcpAssumption
<1>4. RtpLen(b, at) \in Nat
  <2>1. b[at + 1] \in Nat /\ b[at + 2] \in Nat
        BY <1>2, <1>3 DEF Digits
  <2> QED BY <1>3, <2>1 DEF RtpLen
<1> QED BY <1>1, <1>4 DEF IsComplete, EndOfFrame

\* Cuts is a recursive function: there is one such as it asks for.
LEMMA CutsUnfolds ==
    ASSUME NEW b \in Seq(Digits)
    PROVE  \E f : f = [at \in 0 .. Len(b) |->
                         IF IsComplete(b, at)
                         THEN <<EndOfFrame(b, at)>> \o f[EndOfFrame(b, at)] ELSE <<>>]
<1> DEFINE L == Len(b)
           G(f, m) == f = [at \in L - m .. L |->
                             IF IsComplete(b, at)
                             THEN <<EndOfFrame(b, at)>> \o f[EndOfFrame(b, at)] ELSE <<>>]
           T == {m \in Nat : m <= L => \E f : G(f, m)}
<1>0. L \in Nat
    OBVIOUS
<1>1. 0 \in T
  <2>1. ~IsComplete(b, L)
        BY <1>0 DEF IsComplete
  <2>2. G([at \in L .. L |-> <<>>], 0)
    <3>1. L - 0 = L /\ \A at \in L .. L : at = L
          BY <1>0
    <3> HIDE DEF L
    <3> QED BY <2>1, <3>1
  <2> HIDE DEF G
  <2> QED BY <2>2
<1>2. ASSUME NEW m \in Nat, m \in T PROVE m + 1 \in T
  <2> SUFFICES ASSUME m + 1 <= L PROVE \E f : G(f, m + 1)
      OBVIOUS
  <2>1. PICK f : G(f, m)
        BY <1>0, <1>2
  <2> DEFINE p == L - (m + 1)
             E(g, at) == IF IsComplete(b, at)
                         THEN <<EndOfFrame(b, at)>> \o g[EndOfFrame(b, at)] ELSE <<>>
             h == [at \in p .. L |-> IF at = p THEN E(f, at) ELSE f[at]]
  <2>2. p \in Nat /\ p <= L /\ \A at \in p .. L : at = p \/ at \in L - m .. L
        BY <1>0
  <2>3. \A at \in L - m .. L : at \in p .. L /\ at # p /\ at \in Nat
        BY <1>0
  <2>4. \A at \in L - m .. L : h[at] = f[at] /\ f[at] = E(f, at)
        BY <2>1, <2>3
  <2>5. h[p] = E(f, p)
        BY <2>2
  <2>6. \A at \in p .. L : IsComplete(b, at) => EndOfFrame(b, at) \in L - m .. L
    <3> SUFFICES ASSUME NEW at \in p .. L, IsComplete(b, at)
                 PROVE  EndOfFrame(b, at) \in L - m .. L
        OBVIOUS
    <3>1. at \in Nat /\ at >= p
          BY <2>2
    <3>2. EndOfFrame(b, at) \in 0 .. L /\ EndOfFrame(b, at) > at
          BY <3>1, Complete
    <3> QED BY <1>0, <3>1, <3>2
  <2> HIDE DEF h, p, L
  <2>7. \A at \in p .. L : h[at] = E(h, at)
    <3> SUFFICES ASSUME NEW at \in p .. L PROVE h[at] = E(h, at)
        OBVIOUS
    <3>1. h[at] = E(f, at)
          BY <2>2, <2>4, <2>5
    <3>2. IsComplete(b, at) => h[EndOfFrame(b, at)] = f[EndOfFrame(b, at)]
          BY <2>4, <2>6
    <3> QED BY <3>1, <3>2
  <2>8. h = [at \in p .. L |-> h[at]]
        BY DEF h
  <2>9. h = [at \in p .. L |-> E(h, at)]
        BY <2>7, <2>8
  <2>10. G(h, m + 1)
        BY <2>9 DEF p
  <2> QED BY <2>10
<1>3. Nat \subseteq T
  <2> HIDE DEF T
  <2> QED BY <1>1, <1>2, Induction
<1>4. \E f : G(f, L)
  <2>1. L \in T
    <3> HIDE DEF T, L
    <3> QED BY <1>0, <1>3
  <2> HIDE DEF G, L
  <2> QED BY <1>0, <2>1
<1>5. L - L = 0
    BY <1>0
<1> QED BY <1>4, <1>5

\* A walk can begin one frame earlier.
LEMMA WalkOn ==
    ASSUME NEW b \in Seq(Digits), NEW p \in 0 .. Len(b), IsComplete(b, p),
           NEW ends, Walk(b, EndOfFrame(b, p), ends)
    PROVE  Walk(b, p, <<EndOfFrame(b, p)>> \o ends)
<1> DEFINE q == EndOfFrame(b, p)
           all == <<q>> \o ends
<1>1. q \in 0 .. Len(b) /\ ends \in Seq(0 .. Len(b)) /\ Len(ends) \in Nat
    BY Complete DEF Walk
<1>2. /\ all \in Seq(0 .. Len(b)) /\ Len(all) = Len(ends) + 1 /\ all[1] = q
      /\ \A n \in 1 .. Len(ends) : all[n + 1] = ends[n]
  <2>1. <<q>> \in Seq(0 .. Len(b)) /\ Len(<<q>>) = 1 /\ <<q>>[1] = q
        BY <1>1
  <2> HIDE DEF q
  <2>2. /\ all \in Seq(0 .. Len(b)) /\ Len(all) = Len(<<q>>) + Len(ends)
        /\ \A i \in 1 .. Len(<<q>>) + Len(ends) :
             all[i] = IF i <= Len(<<q>>) THEN <<q>>[i] ELSE ends[i - Len(<<q>>)]
        BY <1>1, <2>1, ConcatProperties
  <2> HIDE DEF all
  <2>3. ASSUME NEW n \in 1 .. Len(ends) PROVE all[n + 1] = ends[n]
    <3>1. n + 1 \in 1 .. 1 + Len(ends) /\ ~(n + 1 <= 1) /\ (n + 1) - 1 = n
          BY <1>1
    <3> QED BY ONLY <2>1, <2>2, <3>1
  <2>4. 1 \in 1 .. 1 + Len(ends) /\ 1 + Len(ends) = Len(ends) + 1 /\ 1 <= 1
        BY <1>1
  <2> QED BY ONLY <2>1, <2>2, <2>3, <2>4
<1> HIDE DEF all
<1>3. \A n \in 0 .. Len(ends) : EndAt(p, all, n + 1) = EndAt(q, ends, n)
  <2> HIDE DEF q
  <2> QED BY <1>1, <1>2 DEF EndAt
<1>4. ASSUME NEW n \in 0 .. Len(all) - 1
      PROVE  /\ IsComplete(b, EndAt(p, all, n))
             /\ all[n + 1] = EndOfFrame(b, EndAt(p, all, n))
  <2>1. CASE n = 0
        BY <1>2, <2>1 DEF EndAt
  <2>2. CASE n # 0
    <3>1. n - 1 \in 0 .. Len(ends) - 1 /\ (n - 1) + 1 = n /\ n \in 1 .. Len(ends)
          BY <1>1, <1>2, <2>2
    <3>2. EndAt(p, all, n) = EndAt(q, ends, n - 1) /\ all[n + 1] = ends[n]
          BY <1>2, <1>3, <3>1
    <3> QED BY <3>1, <3>2 DEF Walk
  <2> QED BY <2>1, <2>2
<1>5. ~IsComplete(b, EndAt(p, all, Len(all)))
  <2>1. EndAt(p, all, Len(all)) = EndAt(q, ends, Len(ends))
        BY <1>1, <1>2, <1>3
  <2> QED BY <2>1 DEF Walk
<1> QED BY <1>2, <1>4, <1>5 DEF Walk, all

\* The framing loop walks from frame to frame.
LEMMA CutsWalk ==
    ASSUME NEW b \in Seq(Digits) PROVE Walk(b, 0, Cuts(b))
<1> DEFINE F == CHOOSE f : f = [at \in 0 .. Len(b) |->
                         IF IsComplete(b, at)
                         THEN <<EndOfFrame(b, at)>> \o f[EndOfFrame(b, at)] ELSE <<>>]
           L == Len(b)
<1>1. F = [at \in 0 .. Len(b) |->
                         IF IsComplete(b, at)
                         THEN <<EndOfFrame(b, at)>> \o F[EndOfFrame(b, at)] ELSE <<>>]
  <2>1. \E f : f = [at \in 0 .. Len(b) |->
                         IF IsComplete(b, at)
                         THEN <<EndOfFrame(b, at)>> \o f[EndOfFrame(b, at)] ELSE <<>>]
        BY CutsUnfolds
  <2> QED BY <2>1, Zenon
<1>2. Cuts(b) = F[0]
    BY DEF Cuts, EndOfFrame
<1> HIDE DEF F
<1>3. \A at \in 0 .. L : F[at] = IF IsComplete(b, at)
                         THEN <<EndOfFrame(b, at)>> \o F[EndOfFrame(b, at)] ELSE <<>>
    BY <1>1, Zenon
<1>4. L \in Nat
    OBVIOUS
<1> DEFINE T == {m \in Nat : \A p \in 0 .. L : L - p <= m => Walk(b, p, F[p])}
<1>5. ASSUME NEW p \in 0 .. L, ~IsComplete(b, p) PROVE Walk(b, p, F[p])
  <2>1. F[p] = <<>>
        BY <1>3, <1>5
  <2>2. <<>> \in Seq(0 .. Len(b)) /\ Len(<<>>) = 0
        OBVIOUS
  <2> QED BY <1>5, <2>1, <2>2 DEF Walk, EndAt
<1>6. 0 \in T
  <2> SUFFICES ASSUME NEW p \in 0 .. L, L - p <= 0 PROVE Walk(b, p, F[p])
      OBVIOUS
  <2>1. ~IsComplete(b, p)
        BY <1>4 DEF IsComplete
  <2> QED BY <1>5, <2>1
<1>7. ASSUME NEW m \in Nat, m \in T PROVE m + 1 \in T
  <2> SUFFICES ASSUME NEW p \in 0 .. L, L - p <= m + 1 PROVE Walk(b, p, F[p])
      OBVIOUS
  <2>1. CASE IsComplete(b, p)
    <3>1. EndOfFrame(b, p) \in 0 .. L /\ EndOfFrame(b, p) > p
          BY <2>1, Complete
    <3>2. Walk(b, EndOfFrame(b, p), F[EndOfFrame(b, p)])
      <4>1. L - EndOfFrame(b, p) <= m
            BY <1>4, <3>1
      <4> QED BY <1>7, <3>1, <4>1
    <3>3. F[p] = <<EndOfFrame(b, p)>> \o F[EndOfFrame(b, p)]
          BY <1>3, <2>1
    <3> QED BY <2>1, <3>2, <3>3, WalkOn
  <2> QED BY <1>5, <2>1
<1>8. Nat \subseteq T
  <2> HIDE DEF T
  <2> QED BY <1>6, <1>7, Induction
<1>9. L \in T
  <2> HIDE DEF T, L
  <2> QED BY <1>4, <1>8
<1>10. 0 \in 0 .. L /\ L - 0 <= L
    BY <1>4
<1>11. Walk(b, 0, F[0])
  <2> HIDE DEF L
  <2> QED BY <1>9, <1>10
<1> QED BY <1>2, <1>11

\* There is only one way to walk.
LEMMA WalksAgree ==
    ASSUME NEW b, NEW p, NEW e, Walk(b, p, e), NEW f, Walk(b, p, f)
    PROVE  e = f
<1>1. Len(e) \in Nat /\ Len(f) \in Nat
    BY DEF Walk
<1> DEFINE T == {m \in Nat : m <= Len(e) =>
                    m <= Len(f) /\ \A n \in 1 .. m : e[n] = f[n]}
<1>2. 0 \in T
    BY <1>1
<1>3. ASSUME NEW m \in Nat, m \in T PROVE m + 1 \in T
  <2> SUFFICES ASSUME m + 1 <= Len(e)
               PROVE  m + 1 <= Len(f) /\ \A n \in 1 .. m + 1 : e[n] = f[n]
      OBVIOUS
  <2>1. m <= Len(f) /\ \A n \in 1 .. m : e[n] = f[n]
        BY <1>1, <1>3
  <2>2. EndAt(p, e, m) = EndAt(p, f, m)
        BY <2>1 DEF EndAt
  <2>3. IsComplete(b, EndAt(p, e, m)) /\ e[m + 1] = EndOfFrame(b, EndAt(p, e, m))
    <3>1. m \in 0 .. Len(e) - 1
          BY <1>1
    <3> QED BY <3>1 DEF Walk
  <2>4. m # Len(f)
        BY <2>2, <2>3 DEF Walk
  <2>5. m \in 0 .. Len(f) - 1
        BY <1>1, <2>1, <2>4
  <2>6. f[m + 1] = EndOfFrame(b, EndAt(p, f, m))
        BY <2>5 DEF Walk
  <2> QED BY <2>1, <2>2, <2>3, <2>5, <2>6
<1>4. Nat \subseteq T
  <2> HIDE DEF T
  <2> QED BY <1>2, <1>3, Induction
<1>5. Len(e) <= Len(f) /\ \A n \in 1 .. Len(e) : e[n] = f[n]
    BY <1>1, <1>4
<1>6. Len(e) = Len(f)
  <2> SUFFICES ASSUME Len(e) < Len(f) PROVE FALSE
      BY <1>1, <1>5
  <2>1. EndAt(p, e, Len(e)) = EndAt(p, f, Len(e))
        BY <1>1, <1>5 DEF EndAt
  <2>2. Len(e) \in 0 .. Len(f) - 1
        BY <1>1
  <2> QED BY <2>1, <2>2 DEF Walk
<1>7. e \in Seq(0 .. Len(b)) /\ f \in Seq(0 .. Len(b))
    BY DEF Walk
<1> QED BY <1>5, <1>6, <1>7, SeqEqual

\* The first bytes, and those behind a position
Upto(b, m) == SubSeq(b, 1, m)
Behind(b, q) == SubSeq(b, q + 1, Len(b))

\* What the two are made of
LEMMA UptoIs ==
    ASSUME NEW S, NEW b \in Seq(S), NEW m \in 0 .. Len(b)
    PROVE  /\ Upto(b, m) \in Seq(S) /\ Len(Upto(b, m)) = m
           /\ \A i \in 1 .. m : Upto(b, m)[i] = b[i]
<1>1. \A i \in 1 .. m : b[i] \in S
    BY ElementOfSeq
<1>2. m \in Nat
    OBVIOUS
<1> QED BY <1>1, <1>2 DEF Upto

LEMMA BehindIs ==
    ASSUME NEW S, NEW b \in Seq(S), NEW q \in 0 .. Len(b)
    PROVE  /\ Behind(b, q) \in Seq(S) /\ Len(Behind(b, q)) = Len(b) - q
           /\ \A i \in 1 .. Len(b) - q : Behind(b, q)[i] = b[q + i]
<1>1. \A i \in q + 1 .. Len(b) : b[i] \in S
    BY ElementOfSeq
<1>2. Len(b) \in Nat /\ q \in Nat /\ q <= Len(b)
    OBVIOUS
<1>3. q + 1 \in Int /\ Len(b) \in Int
    BY <1>2
<1>4. /\ Behind(b, q) \in Seq(S)
      /\ Len(Behind(b, q)) = IF q + 1 <= Len(b) THEN Len(b) - (q + 1) + 1 ELSE 0
      /\ \A i \in 1 .. Len(b) - (q + 1) + 1 : Behind(b, q)[i] = b[(q + 1) + i - 1]
    BY <1>1, <1>3, SubSeqProperties DEF Behind
<1>5. Len(b) - (q + 1) + 1 = Len(b) - q
    BY <1>2
<1>6. Len(Behind(b, q)) = Len(b) - q
  <2>1. CASE q + 1 <= Len(b)
        BY <1>4, <1>5, <2>1
  <2>2. CASE ~(q + 1 <= Len(b))
    <3>1. Len(b) - q = 0
          BY <1>2, <2>2
    <3> QED BY <1>4, <2>2, <3>1
  <2> QED BY <2>1, <2>2
<1>7. ASSUME NEW i \in 1 .. Len(b) - q PROVE Behind(b, q)[i] = b[q + i]
  <2>1. (q + 1) + i - 1 = q + i
        BY <1>2
  <2>2. i \in 1 .. Len(b) - (q + 1) + 1
        BY <1>5
  <2> QED BY <1>4, <2>1, <2>2
<1> QED BY <1>4, <1>6, <1>7

\* A frame is complete in the first bytes if it ends there, and in the rest
\* exactly if it is complete in all.
LEMMA CompleteUpto ==
    ASSUME NEW b \in Seq(Digits), NEW m \in 0 .. Len(b), NEW at \in Nat
    PROVE  /\ IsComplete(Upto(b, m), at) =>
                /\ IsComplete(b, at)
                /\ EndOfFrame(Upto(b, m), at) = EndOfFrame(b, at) /\ EndOfFrame(b, at) <= m
           /\ IsComplete(b, at) /\ EndOfFrame(b, at) <= m => IsComplete(Upto(b, m), at)
<1>1. m \in Nat /\ Len(b) \in Nat /\ m <= Len(b) /\ Len(Upto(b, m)) = m
    BY UptoIs
<1>2. ASSUME at + 2 <= m PROVE RtpLen(Upto(b, m), at) = RtpLen(b, at)
  <2>1. at + 1 \in 1 .. m /\ at + 2 \in 1 .. m
        BY <1>1, <1>2
  <2>2. Upto(b, m)[at + 1] = b[at + 1] /\ Upto(b, m)[at + 2] = b[at + 2]
        BY <2>1, UptoIs
  <2> QED BY <2>2 DEF RtpLen
<1>3. ASSUME IsComplete(Upto(b, m), at)
      PROVE  /\ IsComplete(b, at)
             /\ EndOfFrame(Upto(b, m), at) = EndOfFrame(b, at) /\ EndOfFrame(b, at) <= m
  <2>1. at + 2 <= m /\ RtpLen(Upto(b, m), at) = RtpLen(b, at)
        BY <1>1, <1>2, <1>3 DEF IsComplete
  <2>2. RtpLen(b, at) \in Nat
    <3>1. Upto(b, m) \in Seq(Digits)
          BY UptoIs
    <3> QED BY <1>3, <2>1, <3>1, Complete
  <2> QED BY <1>1, <1>3, <2>1, <2>2 DEF IsComplete, EndOfFrame
<1>4. ASSUME IsComplete(b, at), EndOfFrame(b, at) <= m PROVE IsComplete(Upto(b, m), at)
  <2>1. RtpLen(b, at) \in Nat \ {0}
        BY <1>4, Complete
  <2>2. at + 2 <= m
        BY <1>1, <1>4, <2>1 DEF EndOfFrame
  <2> QED BY <1>1, <1>2, <1>4, <2>1, <2>2 DEF IsComplete, EndOfFrame
<1> QED BY <1>3, <1>4

LEMMA CompleteBehind ==
    ASSUME NEW b \in Seq(Digits), NEW q \in 0 .. Len(b), NEW at \in Nat
    PROVE  /\ IsComplete(Behind(b, q), at) <=> IsComplete(b, q + at)
           /\ IsComplete(b, q + at) => q + EndOfFrame(Behind(b, q), at) = EndOfFrame(b, q + at)
<1>1. q \in Nat /\ Len(b) \in Nat /\ q <= Len(b) /\ Len(Behind(b, q)) = Len(b) - q
    BY BehindIs
<1>2. ASSUME q + at + 2 <= Len(b)
      PROVE  RtpLen(Behind(b, q), at) = RtpLen(b, q + at) /\ RtpLen(b, q + at) \in Nat
  <2>1. at + 1 \in 1 .. Len(b) - q /\ at + 2 \in 1 .. Len(b) - q
        /\ q + (at + 1) = (q + at) + 1 /\ q + (at + 2) = (q + at) + 2
        BY <1>1, <1>2
  <2>2. /\ Behind(b, q)[at + 1] = b[q + (at + 1)]
        /\ Behind(b, q)[at + 2] = b[q + (at + 2)]
    <3>1. \A i \in 1 .. Len(b) - q : Behind(b, q)[i] = b[q + i]
          BY BehindIs
    <3> QED BY <2>1, <3>1, Zenon
  <2>3. (q + at) + 1 \in 1 .. Len(b) /\ (q + at) + 2 \in 1 .. Len(b)
        BY <1>1, <1>2
  <2>4. b[(q + at) + 1] \in Digits /\ b[(q + at) + 2] \in Digits
        BY <2>3, ElementOfSeq
  <2>5. RtpLen(b, q + at) \in Nat
    <3>1. b[(q + at) + 1] \in Nat /\ b[(q + at) + 2] \in Nat /\ Base \in Nat
          BY <2>4, TcpAssumption DEF Digits
    <3>2. b[(q + at) + 1] * Base \in Nat
          BY <3>1
    <3> QED BY <3>1, <3>2, SMTT(60) DEF RtpLen
  <2> QED BY <2>1, <2>2, <2>5 DEF RtpLen
<1>3. CASE q + at + 2 <= Len(b)
  <2>1. RtpLen(Behind(b, q), at) = RtpLen(b, q + at) /\ RtpLen(b, q + at) \in Nat
        BY <1>2, <1>3
  <2> QED BY <1>1, <1>3, <2>1 DEF IsComplete, EndOfFrame
<1>4. CASE ~(q + at + 2 <= Len(b))
    BY <1>1, <1>4 DEF IsComplete
<1> QED BY <1>3, <1>4

\* What the loop computes, by the ends of the frames
LEMMA CutsAre ==
    ASSUME NEW b \in Seq(Digits), NEW e, e = Cuts(b)
    PROVE  /\ e \in Seq(0 .. Len(b)) /\ Len(e) \in Nat /\ DOMAIN e = 1 .. Len(e)
           /\ \A n \in 0 .. Len(e) : EndAt(0, e, n) \in 0 .. Len(b)
           /\ \A n \in 0 .. Len(e) - 1 :
                /\ IsComplete(b, EndAt(0, e, n))
                /\ EndAt(0, e, n + 1) = EndOfFrame(b, EndAt(0, e, n))
                /\ EndAt(0, e, n) < EndAt(0, e, n + 1)
           /\ ~IsComplete(b, EndAt(0, e, Len(e)))
           /\ Processed(b) = EndAt(0, e, Len(e))
           /\ Framed(b) = [n \in 1 .. Len(e) |->
                             SubSeq(b, EndAt(0, e, n - 1) + 3, EndAt(0, e, n))]
<1>1. Walk(b, 0, e)
    BY CutsWalk
<1>2. e \in Seq(0 .. Len(b)) /\ Len(e) \in Nat /\ DOMAIN e = 1 .. Len(e) /\ Len(b) \in Nat
    BY <1>1 DEF Walk
<1>3. \A n \in 0 .. Len(e) : EndAt(0, e, n) \in 0 .. Len(b)
    BY <1>2 DEF EndAt
<1>4. ASSUME NEW n \in 0 .. Len(e) - 1
      PROVE  /\ IsComplete(b, EndAt(0, e, n))
             /\ EndAt(0, e, n + 1) = EndOfFrame(b, EndAt(0, e, n))
             /\ EndAt(0, e, n) < EndAt(0, e, n + 1)
  <2>1. IsComplete(b, EndAt(0, e, n)) /\ e[n + 1] = EndOfFrame(b, EndAt(0, e, n))
        BY <1>1 DEF Walk
  <2>2. n + 1 # 0 /\ n \in 0 .. Len(e)
        BY <1>2
  <2>3. EndAt(0, e, n) \in Nat
        BY <1>2, <1>3, <2>2
  <2> QED BY <2>1, <2>2, <2>3, Complete DEF EndAt
<1>5. ~IsComplete(b, EndAt(0, e, Len(e)))
    BY <1>1 DEF Walk
<1>6. Processed(b) = EndAt(0, e, Len(e))
  <2>1. e = <<>> <=> Len(e) = 0
        BY <1>2
  <2> QED BY <2>1 DEF Processed, EndAt
<1>7. Framed(b) = [n \in 1 .. Len(e) |->
                     SubSeq(b, EndAt(0, e, n - 1) + 3, EndAt(0, e, n))]
  <2>1. Framed(b) = [n \in 1 .. Len(e) |->
                       SubSeq(b, (IF n = 1 THEN 0 ELSE e[n - 1]) + 3, e[n])]
        BY <1>2 DEF Framed
  <2>2. \A n \in 1 .. Len(e) :
          /\ (IF n = 1 THEN 0 ELSE e[n - 1]) = EndAt(0, e, n - 1)
          /\ e[n] = EndAt(0, e, n)
        BY DEF EndAt
  <2> DEFINE F(n) == SubSeq(b, (IF n = 1 THEN 0 ELSE e[n - 1]) + 3, e[n])
             G(n) == SubSeq(b, EndAt(0, e, n - 1) + 3, EndAt(0, e, n))
  <2>3. \A n \in 1 .. Len(e) : F(n) = G(n)
        BY ONLY <2>2
  <2> HIDE DEF F, G
  <2>4. [n \in 1 .. Len(e) |-> F(n)] = [n \in 1 .. Len(e) |-> G(n)]
        BY ONLY <2>3
  <2> USE DEF F, G
  <2> QED BY ONLY <2>1, <2>4, Zenon
<1> QED BY <1>2, <1>3, <1>4, <1>5, <1>6, <1>7

LEMMA FramedCuts ==
    \A b \in Seq(Digits) : \A e : e = Cuts(b) =>
      /\ Processed(b) = EndAt(0, e, Len(e))
      /\ Framed(b) = [n \in 1 .. Len(e) |->
                        SubSeq(b, EndAt(0, e, n - 1) + 3, EndAt(0, e, n))]
BY CutsAre

\* A piece of the first bytes is a piece of all; so is a piece of the rest.
LEMMA PieceUpto ==
    ASSUME NEW S, NEW b \in Seq(S), NEW m \in 0 .. Len(b), NEW i \in Nat \ {0}, NEW j \in 0 .. m
    PROVE  SubSeq(Upto(b, m), i, j) = SubSeq(b, i, j)
<1>1. m \in Nat /\ Len(b) \in Nat /\ m <= Len(b)
    OBVIOUS
<1>2. CASE j < i
  <2>1. SubSeq(Upto(b, m), i, j) = <<>> /\ SubSeq(b, i, j) = <<>>
        BY <1>1, <1>2, SubSeqEmpty
  <2> QED BY <2>1
<1>3. CASE i <= j
  <2>1. 1 \in 1 .. Len(b) /\ m \in 1 .. Len(b) /\ i \in 1 .. m - 1 + 1 /\ j \in 1 .. m - 1 + 1
        BY <1>1, <1>3
  <2>2. 1 + i - 1 = i /\ 1 + j - 1 = j
        BY <1>1
  <2>3. SubSeq(SubSeq(b, 1, m), i, j) = SubSeq(b, 1 + i - 1, 1 + j - 1)
        BY <2>1, SubSeqOfSubSeq
  <2> QED BY <2>2, <2>3 DEF Upto
<1> QED BY <1>1, <1>2, <1>3

LEMMA PieceBehind ==
    ASSUME NEW S, NEW b \in Seq(S), NEW q \in 0 .. Len(b), NEW i \in Nat \ {0},
           NEW j \in 0 .. Len(b) - q
    PROVE  SubSeq(Behind(b, q), i, j) = SubSeq(b, q + i, q + j)
<1>1. q \in Nat /\ Len(b) \in Nat /\ q <= Len(b)
    OBVIOUS
<1>2. CASE j < i
  <2>1. q + j < q + i /\ q + j \in Int /\ q + i \in Int /\ i \in Int /\ j \in Int
        BY <1>1, <1>2
  <2>2. SubSeq(Behind(b, q), i, j) = <<>> /\ SubSeq(b, q + i, q + j) = <<>>
        BY <1>2, <2>1, SubSeqEmpty
  <2> QED BY <2>2
<1>3. CASE i <= j
  <2>1. /\ q + 1 \in 1 .. Len(b) /\ Len(b) \in 1 .. Len(b)
        /\ i \in 1 .. Len(b) - (q + 1) + 1 /\ j \in 1 .. Len(b) - (q + 1) + 1
        BY <1>1, <1>3
  <2>2. (q + 1) + i - 1 = q + i /\ (q + 1) + j - 1 = q + j
        BY <1>1
  <2>3. SubSeq(SubSeq(b, q + 1, Len(b)), i, j) = SubSeq(b, (q + 1) + i - 1, (q + 1) + j - 1)
        BY <2>1, SubSeqOfSubSeq
  <2> QED BY <2>2, <2>3 DEF Behind
<1> QED BY <1>1, <1>2, <1>3

\* The loop may be stopped after any bytes and go on with what is left: it
\* takes the same frames.
LEMMA Split ==
    ASSUME NEW b \in Seq(Digits), NEW m \in 0 .. Len(b), NEW a, NEW q, NEW d
    PROVE  a = Upto(b, m) /\ q = Processed(a) /\ d = Behind(b, q) =>
             /\ q \in 0 .. m /\ d \in Seq(Digits)
             /\ Framed(b) = Framed(a) \o Framed(d)
             /\ Len(Framed(b)) = Len(Framed(a)) + Len(Framed(d))
             /\ Residue(b) = Residue(d) /\ Residue(a) = Upto(d, m - q)
<1>0. SUFFICES ASSUME a = Upto(b, m), q = Processed(a), d = Behind(b, q)
               PROVE  /\ q \in 0 .. m /\ d \in Seq(Digits)
                      /\ Framed(b) = Framed(a) \o Framed(d)
                      /\ Len(Framed(b)) = Len(Framed(a)) + Len(Framed(d))
                      /\ Residue(b) = Residue(d) /\ Residue(a) = Upto(d, m - q)
    OBVIOUS
<1>1. m \in Nat /\ Len(b) \in Nat /\ m <= Len(b) /\ a \in Seq(Digits) /\ Len(a) = m
    BY <1>0, UptoIs
<1> DEFINE e == Cuts(a)
<1>2. /\ e \in Seq(0 .. m) /\ Len(e) \in Nat
      /\ \A n \in 0 .. Len(e) : EndAt(0, e, n) \in 0 .. m
      /\ \A n \in 0 .. Len(e) - 1 :
           IsComplete(a, EndAt(0, e, n)) /\ EndAt(0, e, n + 1) = EndOfFrame(a, EndAt(0, e, n))
      /\ q = EndAt(0, e, Len(e))
      /\ Framed(a) = [n \in 1 .. Len(e) |-> SubSeq(a, EndAt(0, e, n - 1) + 3, EndAt(0, e, n))]
    BY <1>0, <1>1, CutsAre, SMTT(60)
<1> HIDE DEF e
<1>3. q \in 0 .. m /\ q \in 0 .. Len(b) /\ q \in Nat
  <2>1. Len(e) \in 0 .. Len(e)
        BY <1>2
  <2>2. q \in 0 .. m
        BY <1>2, <2>1
  <2> QED BY <1>1, <2>2
<1>4. d \in Seq(Digits) /\ Len(d) = Len(b) - q /\ Len(d) \in Nat
  <2>1. Behind(b, q) \in Seq(Digits) /\ Len(Behind(b, q)) = Len(b) - q
        BY <1>3, BehindIs
  <2>2. Len(b) - q \in Nat
        BY <1>1, <1>3
  <2> QED BY <1>0, <2>1, <2>2
<1>16. \A i \in Nat \ {0} : \A j \in 0 .. m : SubSeq(a, i, j) = SubSeq(b, i, j)
  <2>1. \A i \in Nat \ {0} : \A j \in 0 .. m : SubSeq(Upto(b, m), i, j) = SubSeq(b, i, j)
        BY PieceUpto
  <2> QED BY <1>0, <2>1, Zenon
<1>17. \A i \in Nat \ {0} : \A j \in 0 .. Len(b) - q : SubSeq(d, i, j) = SubSeq(b, q + i, q + j)
  <2>1. \A i \in Nat \ {0} : \A j \in 0 .. Len(b) - q :
          SubSeq(Behind(b, q), i, j) = SubSeq(b, q + i, q + j)
        BY <1>3, PieceBehind
  <2> QED BY <1>0, <2>1, Zenon
<1> DEFINE f == Cuts(d)
<1>5. /\ f \in Seq(0 .. Len(d)) /\ Len(f) \in Nat
      /\ \A n \in 0 .. Len(f) : EndAt(0, f, n) \in 0 .. Len(d)
      /\ \A n \in 0 .. Len(f) - 1 :
           IsComplete(d, EndAt(0, f, n)) /\ EndAt(0, f, n + 1) = EndOfFrame(d, EndAt(0, f, n))
      /\ ~IsComplete(d, EndAt(0, f, Len(f)))
      /\ Processed(d) = EndAt(0, f, Len(f))
      /\ Framed(d) = [n \in 1 .. Len(f) |-> SubSeq(d, EndAt(0, f, n - 1) + 3, EndAt(0, f, n))]
    BY <1>4, CutsAre
<1> HIDE DEF f
<1> DEFINE all == [n \in 1 .. Len(e) + Len(f) |-> IF n <= Len(e) THEN e[n] ELSE q + f[n - Len(e)]]
<1>6. /\ Len(all) = Len(e) + Len(f) /\ all \in Seq(0 .. Len(b))
      /\ \A n \in 0 .. Len(e) : EndAt(0, all, n) = EndAt(0, e, n)
      /\ \A n \in 0 .. Len(f) : EndAt(0, all, Len(e) + n) = q + EndAt(0, f, n)
  <2>1. \A n \in 1 .. Len(e) : e[n] \in 0 .. Len(b)
    <3> SUFFICES ASSUME NEW n \in 1 .. Len(e) PROVE e[n] \in 0 .. Len(b)
        OBVIOUS
    <3>1. e[n] \in 0 .. m
          BY <1>2
    <3> QED BY <1>1, <3>1
  <2>2. \A n \in 1 .. Len(f) : q + f[n] \in 0 .. Len(b)
    <3> SUFFICES ASSUME NEW n \in 1 .. Len(f) PROVE q + f[n] \in 0 .. Len(b)
        OBVIOUS
    <3>1. f[n] \in 0 .. Len(d)
          BY <1>5, SMTT(60)
    <3> QED BY <1>1, <1>3, <1>4, <3>1
  <2>3. ASSUME NEW n \in 1 .. Len(e) + Len(f) PROVE all[n] \in 0 .. Len(b)
    <3>1. CASE n <= Len(e)
          BY <1>2, <2>1, <3>1
    <3>2. CASE ~(n <= Len(e))
      <4>1. n - Len(e) \in 1 .. Len(f)
            BY <1>2, <1>5, <3>2
      <4> QED BY <2>2, <3>2, <4>1
    <3> QED BY <3>1, <3>2
  <2>4. Len(all) = Len(e) + Len(f) /\ all \in Seq(0 .. Len(b))
    <3>1. Len(e) + Len(f) \in Nat
          BY <1>2, <1>5
    <3> QED BY <2>3, <3>1
  <2>5. ASSUME NEW n \in 0 .. Len(e) PROVE EndAt(0, all, n) = EndAt(0, e, n)
    <3>1. CASE n = 0
          BY <3>1 DEF EndAt
    <3>2. CASE n # 0
      <4>1. n \in 1 .. Len(e) + Len(f) /\ n <= Len(e)
            BY <1>2, <1>5, <3>2
      <4>2. all[n] = e[n]
            BY <4>1
      <4> QED BY <3>2, <4>2 DEF EndAt
    <3> QED BY <3>1, <3>2
  <2>6. ASSUME NEW n \in 0 .. Len(f) PROVE EndAt(0, all, Len(e) + n) = q + EndAt(0, f, n)
    <3>1. CASE n = 0
      <4>1. Len(e) + n = Len(e) /\ Len(e) \in 0 .. Len(e) /\ EndAt(0, f, n) = 0 /\ q + 0 = q
            BY <1>2, <1>3, <3>1 DEF EndAt
      <4> QED BY <1>2, <2>5, <4>1
    <3>2. CASE n # 0
      <4>1. Len(e) + n \in 1 .. Len(e) + Len(f) /\ ~(Len(e) + n <= Len(e)) /\ Len(e) + n # 0
            /\ (Len(e) + n) - Len(e) = n
            BY <1>2, <1>5, <3>2, SMTT(60)
      <4>2. all[Len(e) + n] = q + f[n]
            BY <4>1
      <4> QED BY <3>2, <4>1, <4>2 DEF EndAt
    <3> QED BY <3>1, <3>2
  <2> QED BY <2>4, <2>5, <2>6
<1> HIDE DEF all
<1>20. Len(e) \in Nat /\ Len(f) \in Nat /\ Len(all) = Len(e) + Len(f)
    BY <1>2, <1>5, <1>6
<1>7. Walk(b, 0, all)
  <2>1. ASSUME NEW n \in 0 .. Len(all) - 1
        PROVE  /\ IsComplete(b, EndAt(0, all, n))
               /\ all[n + 1] = EndOfFrame(b, EndAt(0, all, n))
    <3>0. n \in Nat /\ all[n + 1] = EndAt(0, all, n + 1)
          BY <1>2, <1>5, <1>6 DEF EndAt
    <3>1. CASE n < Len(e)
      <4>1. n \in 0 .. Len(e) - 1 /\ n \in 0 .. Len(e) /\ n + 1 \in 0 .. Len(e)
            BY <1>2, <3>0, <3>1
      <4>2. EndAt(0, all, n) = EndAt(0, e, n) /\ EndAt(0, all, n + 1) = EndAt(0, e, n + 1)
            /\ EndAt(0, e, n) \in Nat
            BY <1>1, <1>2, <1>6, <4>1
      <4>3. IsComplete(a, EndAt(0, e, n)) /\ EndAt(0, e, n + 1) = EndOfFrame(a, EndAt(0, e, n))
            BY <1>2, <4>1
      <4> DEFINE at == EndAt(0, e, n)
      <4>4. at \in Nat /\ IsComplete(Upto(b, m), at) /\ EndAt(0, e, n + 1) = EndOfFrame(Upto(b, m), at)
            BY <1>0, <4>2, <4>3
      <4>5. EndAt(0, all, n) = at /\ all[n + 1] = EndAt(0, e, n + 1)
            BY <3>0, <4>2
      <4> HIDE DEF at
      <4>6. IsComplete(b, at) /\ EndOfFrame(Upto(b, m), at) = EndOfFrame(b, at)
            BY <1>0, <4>4, CompleteUpto
      <4> QED BY ONLY <4>4, <4>5, <4>6
    <3>2. CASE n >= Len(e)
      <4> DEFINE k == n - Len(e)
      <4>1. k \in 0 .. Len(f) - 1 /\ k \in 0 .. Len(f) /\ k + 1 \in 0 .. Len(f)
            /\ Len(e) + k = n /\ Len(e) + (k + 1) = n + 1
            BY <1>20, <3>0, <3>2
      <4> HIDE DEF k
      <4>2. EndAt(0, all, n) = q + EndAt(0, f, k) /\ EndAt(0, all, n + 1) = q + EndAt(0, f, k + 1)
            /\ EndAt(0, f, k) \in Nat
            BY <1>4, <1>5, <1>6, <4>1
      <4>3. IsComplete(d, EndAt(0, f, k)) /\ EndAt(0, f, k + 1) = EndOfFrame(d, EndAt(0, f, k))
            BY <1>5, <4>1
      <4> QED BY <1>0, <1>3, <3>0, <4>2, <4>3, CompleteBehind
    <3> QED BY <1>2, <3>0, <3>1, <3>2
  <2>2. ~IsComplete(b, EndAt(0, all, Len(all)))
    <3>1. Len(f) \in 0 .. Len(f)
          BY <1>5
    <3>2. EndAt(0, all, Len(all)) = q + EndAt(0, f, Len(f)) /\ EndAt(0, f, Len(f)) \in Nat
          BY <1>4, <1>5, <1>6, <3>1
    <3> QED BY <1>0, <1>3, <1>5, <3>2, CompleteBehind
  <2> QED BY <1>6, <2>1, <2>2 DEF Walk
<1>8. all = Cuts(b)
    BY <1>7, CutsWalk, WalksAgree
<1>9. /\ Framed(b) = [n \in 1 .. Len(all) |->
                        SubSeq(b, EndAt(0, all, n - 1) + 3, EndAt(0, all, n))]
      /\ Processed(b) = EndAt(0, all, Len(all))
    BY <1>8, CutsAre, ZenonT(40)
<1>10. ASSUME NEW n \in 1 .. Len(e) PROVE Framed(b)[n] = Framed(a)[n]
  <2>1. n \in 1 .. Len(all) /\ n - 1 \in 0 .. Len(e) /\ n \in 0 .. Len(e)
        BY <1>20
  <2>4. EndAt(0, all, n - 1) = EndAt(0, e, n - 1) /\ EndAt(0, all, n) = EndAt(0, e, n)
        BY <1>6, <2>1
  <2>5. EndAt(0, e, n - 1) \in 0 .. m /\ EndAt(0, e, n) \in 0 .. m
        BY <1>2, <2>1
  <2>6. EndAt(0, e, n - 1) + 3 \in Nat \ {0}
        BY <1>1, <2>5
  <2>2. EndAt(0, all, n - 1) = EndAt(0, e, n - 1) /\ EndAt(0, all, n) = EndAt(0, e, n)
        /\ EndAt(0, e, n - 1) + 3 \in Nat \ {0} /\ EndAt(0, e, n) \in 0 .. m
        BY <2>4, <2>5, <2>6
  <2>3. /\ Framed(b)[n] = SubSeq(b, EndAt(0, e, n - 1) + 3, EndAt(0, e, n))
        /\ Framed(a)[n] = SubSeq(a, EndAt(0, e, n - 1) + 3, EndAt(0, e, n))
        BY <1>2, <1>9, <2>1, <2>2
  <2> QED BY <1>16, <2>2, <2>3
<1>11. ASSUME NEW n \in 1 .. Len(f) PROVE Framed(b)[Len(e) + n] = Framed(d)[n]
  <2>1. Len(e) + n \in 1 .. Len(all) /\ n - 1 \in 0 .. Len(f) /\ n \in 0 .. Len(f)
        /\ (Len(e) + n) - 1 = Len(e) + (n - 1)
        BY <1>20
  <2>2. EndAt(0, all, Len(e) + (n - 1)) = q + EndAt(0, f, n - 1)
        /\ EndAt(0, all, Len(e) + n) = q + EndAt(0, f, n)
        BY <1>6, <2>1
  <2>3. /\ EndAt(0, f, n - 1) \in Nat /\ EndAt(0, f, n) \in 0 .. Len(b) - q
        /\ EndAt(0, f, n - 1) + 3 \in Nat \ {0}
        /\ (q + EndAt(0, f, n - 1)) + 3 = q + (EndAt(0, f, n - 1) + 3)
    <3>2. /\ \A k \in 0 .. Len(f) : EndAt(0, f, k) \in 0 .. Len(d)
          /\ n - 1 \in 0 .. Len(f) /\ n \in 0 .. Len(f)
          BY <1>5, <2>1
    <3>3. EndAt(0, f, n - 1) \in 0 .. Len(d) /\ EndAt(0, f, n) \in 0 .. Len(d)
          BY ONLY <3>2
    <3>4. q \in Nat /\ Len(d) = Len(b) - q /\ Len(d) \in Nat
          BY <1>3, <1>4
    <3>1. \A x, y, k, l \in Nat : x \in 0 .. k /\ y \in 0 .. k /\ k = l - q =>
            x \in Nat /\ y \in 0 .. l - q /\ x + 3 \in Nat \ {0} /\ (q + x) + 3 = q + (x + 3)
          BY ONLY <3>4
    <3>5. /\ EndAt(0, f, n - 1) \in Nat /\ EndAt(0, f, n) \in Nat
          /\ Len(d) \in Nat /\ Len(b) \in Nat
          BY <1>1, <3>3, <3>4
    <3> QED BY ONLY <3>1, <3>3, <3>4, <3>5, Zenon
  <2>4. /\ Framed(b)[Len(e) + n] = SubSeq(b, q + (EndAt(0, f, n - 1) + 3), q + EndAt(0, f, n))
        /\ Framed(d)[n] = SubSeq(d, EndAt(0, f, n - 1) + 3, EndAt(0, f, n))
    <3>1. Framed(d)[n] = SubSeq(d, EndAt(0, f, n - 1) + 3, EndAt(0, f, n))
          BY <1>5
    <3>2. Framed(b)[Len(e) + n] = SubSeq(b, EndAt(0, all, (Len(e) + n) - 1) + 3,
                                         EndAt(0, all, Len(e) + n))
          BY <1>9, <2>1
    <3> QED BY <2>1, <2>2, <2>3, <3>1, <3>2
  <2> HIDE DEF EndAt
  <2> QED BY <1>17, <2>3, <2>4
<1>12. /\ DOMAIN Framed(b) = 1 .. Len(e) + Len(f)
       /\ Framed(a) = [n \in 1 .. Len(e) |-> Framed(a)[n]] /\ Len(Framed(a)) = Len(e)
       /\ Framed(d) = [n \in 1 .. Len(f) |-> Framed(d)[n]] /\ Len(Framed(d)) = Len(f)
       /\ Framed(b) = [n \in 1 .. Len(e) + Len(f) |-> Framed(b)[n]]
       /\ Len(Framed(b)) = Len(e) + Len(f)
  <2>2. /\ Framed(a) = [n \in 1 .. Len(e) |-> Framed(a)[n]] /\ Len(Framed(a)) = Len(e)
    <3> DEFINE G(n) == SubSeq(a, EndAt(0, e, n - 1) + 3, EndAt(0, e, n))
    <3>1. Framed(a) = [n \in 1 .. Len(e) |-> G(n)]
          BY <1>2
    <3> HIDE DEF G
    <3> QED BY <1>20, <3>1
  <2>3. /\ Framed(d) = [n \in 1 .. Len(f) |-> Framed(d)[n]] /\ Len(Framed(d)) = Len(f)
    <3> DEFINE G(n) == SubSeq(d, EndAt(0, f, n - 1) + 3, EndAt(0, f, n))
    <3>1. Framed(d) = [n \in 1 .. Len(f) |-> G(n)]
          BY <1>5
    <3> HIDE DEF G
    <3> QED BY <1>20, <3>1
  <2>4. /\ DOMAIN Framed(b) = 1 .. Len(e) + Len(f)
        /\ Framed(b) = [n \in 1 .. Len(e) + Len(f) |-> Framed(b)[n]]
        /\ Len(Framed(b)) = Len(e) + Len(f)
    <3> DEFINE G(n) == SubSeq(b, EndAt(0, all, n - 1) + 3, EndAt(0, all, n))
    <3>1. Framed(b) = [n \in 1 .. Len(all) |-> G(n)]
          BY <1>9
    <3>2. Framed(b) = [n \in 1 .. Len(e) + Len(f) |-> G(n)]
          BY <1>20, <3>1
    <3>3. Len(e) + Len(f) \in Nat
          BY <1>20
    <3> HIDE DEF G
    <3> QED BY <3>2, <3>3
  <2> QED BY <2>2, <2>3, <2>4
<1>13. Framed(b) = Framed(a) \o Framed(d)
  <2> DEFINE x == Framed(a)
             y == Framed(d)
             z == Framed(b)
  <2>1. x \o y = [n \in 1 .. Len(e) + Len(f) |-> IF n <= Len(e) THEN x[n] ELSE y[n - Len(e)]]
    <3> HIDE DEF x, y
    <3> QED BY <1>12 DEF x, y
  <2>2. ASSUME NEW n \in 1 .. Len(e) + Len(f)
        PROVE  z[n] = IF n <= Len(e) THEN x[n] ELSE y[n - Len(e)]
    <3>1. CASE n <= Len(e)
          BY <1>2, <1>10, <3>1
    <3>2. CASE ~(n <= Len(e))
      <4>1. n - Len(e) \in 1 .. Len(f) /\ Len(e) + (n - Len(e)) = n
            BY <1>2, <1>5, <3>2
      <4>2. Framed(b)[Len(e) + (n - Len(e))] = Framed(d)[n - Len(e)]
            BY <1>11, <4>1
      <4> QED BY <3>2, <4>1, <4>2
    <3> QED BY <3>1, <3>2
  <2> HIDE DEF x, y, z
  <2>3. z = [n \in 1 .. Len(e) + Len(f) |-> z[n]]
        BY <1>12 DEF z
  <2>4. z = x \o y
        BY <2>1, <2>2, <2>3
  <2> QED BY <2>4 DEF x, y, z
<1>14. Residue(b) = Residue(d)
  <2> DEFINE p == Processed(d)
  <2>1. Processed(b) = q + p /\ p \in 0 .. Len(d)
    <3>1. Len(f) \in 0 .. Len(f)
          BY <1>5
    <3> QED BY <1>5, <1>6, <1>9, <3>1
  <2>2. Residue(b) = SubSeq(b, q + p + 1, Len(b)) /\ Residue(d) = SubSeq(d, p + 1, Len(d))
        BY <1>0, <2>1 DEF Residue
  <2> HIDE DEF p
  <2>3. p + 1 \in Nat \ {0} /\ Len(d) \in 0 .. Len(b) - q /\ q + (p + 1) = q + p + 1
        /\ q + Len(d) = Len(b)
        BY <1>1, <1>3, <1>4, <2>1
  <2>4. SubSeq(d, p + 1, Len(d)) = SubSeq(b, q + (p + 1), q + Len(d))
        BY <1>17, <2>3, Zenon
  <2> QED BY <2>2, <2>3, <2>4
<1>15. Residue(a) = Upto(d, m - q)
  <2>1. Residue(a) = SubSeq(a, q + 1, m)
        BY <1>0, <1>1 DEF Residue
  <2>2. q + 1 \in Nat \ {0} /\ m \in 0 .. m /\ m - q \in 0 .. Len(b) - q /\ q + (m - q) = m
        BY <1>1, <1>3
  <2>3. SubSeq(a, q + 1, m) = SubSeq(b, q + 1, m)
        BY <1>16, <2>2, Zenon
  <2>4. SubSeq(d, 1, m - q) = SubSeq(b, q + 1, q + (m - q))
    <3>1. 1 \in Nat \ {0}
          OBVIOUS
    <3> QED BY <1>17, <2>2, <3>1, Zenon
  <2> QED BY <2>1, <2>2, <2>3, <2>4 DEF Upto
<1> QED BY <1>3, <1>4, <1>12, <1>13, <1>14, <1>15

\* The same for what is put together from two parts
LEMMA UptoConcat ==
    ASSUME NEW S, NEW s \in Seq(S), NEW t \in Seq(S)
    PROVE  /\ s \o t \in Seq(S) /\ Len(s) \in 0 .. Len(s \o t) /\ Len(s) \in Nat
           /\ Upto(s \o t, Len(s)) = s
           /\ \A q \in 0 .. Len(s) : Behind(s \o t, q) = Behind(s, q) \o t
<1>1. /\ s \o t \in Seq(S) /\ Len(s \o t) = Len(s) + Len(t)
      /\ \A i \in 1 .. Len(s) + Len(t) :
           (s \o t)[i] = IF i <= Len(s) THEN s[i] ELSE t[i - Len(s)]
    BY ConcatProperties
<1>2. Len(s) \in Nat /\ Len(t) \in Nat
    OBVIOUS
<1> DEFINE st == s \o t
<1> HIDE DEF st
<1>3. st \in Seq(S) /\ Len(st) = Len(s) + Len(t) /\ Len(s) \in 0 .. Len(st)
    BY <1>1, <1>2 DEF st
<1>4. Upto(st, Len(s)) = s
  <2>1. /\ Upto(st, Len(s)) \in Seq(S) /\ Len(Upto(st, Len(s))) = Len(s)
        /\ \A i \in 1 .. Len(s) : Upto(st, Len(s))[i] = st[i]
        BY <1>3, UptoIs
  <2>2. \A i \in 1 .. Len(s) : st[i] = s[i]
        BY <1>1, <1>2 DEF st
  <2> QED BY <2>1, <2>2, SeqEqual
<1>5. ASSUME NEW q \in 0 .. Len(s) PROVE Behind(st, q) = Behind(s, q) \o t
  <2>1. q \in 0 .. Len(st) /\ q \in Nat /\ q <= Len(s)
        BY <1>2, <1>3
  <2>2. /\ Behind(st, q) \in Seq(S) /\ Len(Behind(st, q)) = Len(st) - q
        /\ \A i \in 1 .. Len(st) - q : Behind(st, q)[i] = st[q + i]
        BY <1>3, <2>1, BehindIs
  <2>3. /\ Behind(s, q) \in Seq(S) /\ Len(Behind(s, q)) = Len(s) - q
        /\ \A i \in 1 .. Len(s) - q : Behind(s, q)[i] = s[q + i]
        BY BehindIs
  <2> DEFINE r == Behind(s, q)
             u == Behind(st, q)
  <2> HIDE DEF r, u
  <2>4. r \in Seq(S) /\ Len(r) = Len(s) - q
        BY <2>3 DEF r
  <2>5. /\ r \o t \in Seq(S) /\ Len(r \o t) = Len(r) + Len(t)
        /\ \A i \in 1 .. Len(r) + Len(t) :
             (r \o t)[i] = IF i <= Len(r) THEN r[i] ELSE t[i - Len(r)]
        BY <2>4, ConcatProperties
  <2>6. u \in Seq(S) /\ Len(u) = Len(r \o t)
        BY <1>2, <1>3, <2>1, <2>2, <2>4, <2>5 DEF u
  <2>7. ASSUME NEW i \in 1 .. Len(u) PROVE u[i] = (r \o t)[i]
    <3>1. i \in 1 .. Len(st) - q /\ i \in 1 .. Len(r) + Len(t) /\ q + i \in 1 .. Len(s) + Len(t)
          BY <1>2, <1>3, <2>1, <2>4, <2>5, <2>6
    <3>2. u[i] = st[q + i]
          BY <2>2, <3>1 DEF u
    <3>3. st[q + i] = IF q + i <= Len(s) THEN s[q + i] ELSE t[q + i - Len(s)]
          BY <1>1, <3>1 DEF st
    <3>4. CASE q + i <= Len(s)
      <4>1. i \in 1 .. Len(s) - q /\ i <= Len(r)
            BY <1>2, <2>1, <2>4, <3>1, <3>4
      <4>2. r[i] = s[q + i]
            BY <2>3, <4>1 DEF r
      <4> QED BY <2>5, <3>1, <3>2, <3>3, <3>4, <4>1, <4>2
    <3>5. CASE ~(q + i <= Len(s))
      <4>1. ~(i <= Len(r)) /\ i - Len(r) = q + i - Len(s)
            BY <1>2, <2>1, <2>4, <3>1, <3>5
      <4> QED BY <2>5, <3>1, <3>2, <3>3, <3>5, <4>1
    <3> QED BY <3>4, <3>5
  <2>8. u = r \o t
        BY <2>5, <2>6, <2>7, SeqEqual
  <2> QED BY <2>8 DEF u, r
<1> QED BY <1>2, <1>3, <1>4, <1>5 DEF st

\* Frames are made of the bytes that arrived.
LEMMA FramedIs ==
    ASSUME NEW b \in Seq(Digits)
    PROVE  /\ Framed(b) \in Seq(Seq(Digits)) /\ Len(Framed(b)) = Len(Cuts(b))
           /\ Residue(b) \in Seq(Digits) /\ Residue(b) = Behind(b, Processed(b))
           /\ Processed(b) \in 0 .. Len(b)
<1> DEFINE e == Cuts(b)
<1>1. /\ e \in Seq(0 .. Len(b)) /\ Len(e) \in Nat
      /\ \A n \in 0 .. Len(e) : EndAt(0, e, n) \in 0 .. Len(b)
      /\ Processed(b) = EndAt(0, e, Len(e))
      /\ Framed(b) = [n \in 1 .. Len(e) |-> SubSeq(b, EndAt(0, e, n - 1) + 3, EndAt(0, e, n))]
    BY CutsAre
<1> HIDE DEF e
<1>2. Processed(b) \in 0 .. Len(b)
  <2>1. Len(e) \in 0 .. Len(e)
        BY <1>1
  <2> QED BY <1>1, <2>1
<1>3. Residue(b) = Behind(b, Processed(b))
    BY DEF Residue, Behind
<1>4. Residue(b) \in Seq(Digits)
    BY <1>2, <1>3, BehindIs
<1>5. ASSUME NEW n \in 1 .. Len(e)
      PROVE  SubSeq(b, EndAt(0, e, n - 1) + 3, EndAt(0, e, n)) \in Seq(Digits)
  <2>1. n - 1 \in 0 .. Len(e) /\ n \in 0 .. Len(e)
        BY <1>1
  <2>2. EndAt(0, e, n - 1) \in 0 .. Len(b) /\ EndAt(0, e, n) \in 0 .. Len(b)
        BY <1>1, <2>1
  <2> DEFINE x == EndAt(0, e, n - 1) + 3
             y == EndAt(0, e, n)
  <2>3. x \in Int /\ y \in Int /\ x \in Nat \ {0} /\ y <= Len(b)
        BY <2>2
  <2> HIDE DEF x, y
  <2>4. \A i \in x .. y : b[i] \in Digits
    <3> SUFFICES ASSUME NEW i \in x .. y PROVE b[i] \in Digits
        OBVIOUS
    <3>1. i \in 1 .. Len(b)
          BY <2>3
    <3> QED BY <3>1, ElementOfSeq
  <2>5. SubSeq(b, x, y) \in Seq(Digits)
        BY <2>3, <2>4, SubSeqProperties
  <2> QED BY <2>5 DEF x, y
<1>6. Framed(b) \in Seq(Seq(Digits)) /\ Len(Framed(b)) = Len(e)
  <2> DEFINE G(n) == SubSeq(b, EndAt(0, e, n - 1) + 3, EndAt(0, e, n))
  <2>1. Framed(b) = [n \in 1 .. Len(e) |-> G(n)] /\ \A n \in 1 .. Len(e) : G(n) \in Seq(Digits)
        BY <1>1, <1>5
  <2> DEFINE D == Seq(Digits)
  <2>2. \A n \in 1 .. Len(e) : G(n) \in D
        BY <2>1
  <2> HIDE DEF G, D
  <2>3. Framed(b) \in Seq(D) /\ Len(Framed(b)) = Len(e)
    <3> DEFINE g == [n \in 1 .. Len(e) |-> G(n)]
    <3>1. g \in Seq(D) /\ Len(g) = Len(e)
          BY <1>1, <2>2
    <3> HIDE DEF g
    <3>2. Framed(b) = g
          BY <2>1 DEF g
    <3> QED BY <3>1, <3>2
  <2> QED BY <2>3 DEF D
<1> QED BY <1>2, <1>3, <1>4, <1>6 DEF e

\* What one recv brings and what the next one brings are framed as if they had
\* come together.
LEMMA CutAnywhere ==
    ASSUME NEW s \in Seq(Digits), NEW t \in Seq(Digits)
    PROVE  /\ Framed(s \o t) = Framed(s) \o Framed(Residue(s) \o t)
           /\ Residue(s \o t) = Residue(Residue(s) \o t)
           /\ Residue(s) \o t \in Seq(Digits)
<1>1. /\ s \o t \in Seq(Digits) /\ Len(s) \in 0 .. Len(s \o t)
      /\ Upto(s \o t, Len(s)) = s
      /\ \A q \in 0 .. Len(s) : Behind(s \o t, q) = Behind(s, q) \o t
    BY UptoConcat
<1>2. Residue(s) \in Seq(Digits) /\ Residue(s) = Behind(s, Processed(s))
      /\ Processed(s) \in 0 .. Len(s)
    BY FramedIs
<1>3. Behind(s \o t, Processed(s)) = Residue(s) \o t
    BY <1>1, <1>2
<1> DEFINE b == s \o t
           d == Behind(b, Processed(Upto(b, Len(s))))
<1>4. b \in Seq(Digits) /\ Len(s) \in 0 .. Len(b)
    BY <1>1
<1>5. Framed(b) = Framed(Upto(b, Len(s))) \o Framed(d) /\ Residue(b) = Residue(d)
  <2> HIDE DEF b
  <2> QED BY <1>4, Split
<1>6. d = Residue(s) \o t
    BY <1>1, <1>3
<1>7. Residue(s) \o t \in Seq(Digits)
    BY <1>2, ConcatProperties
<1> HIDE DEF d
<1> QED BY <1>1, <1>5, <1>6, <1>7

\* The loop leaves no whole frame in the buffer.
LEMMA ResidueHasNoFrame ==
    ASSUME NEW b \in Seq(Digits)
    PROVE  Framed(Residue(b)) = <<>> /\ Residue(Residue(b)) = Residue(b)
<1>1. /\ b \o <<>> = b /\ <<>> \in Seq(Digits)
      /\ Residue(b) \in Seq(Digits) /\ Residue(b) \o <<>> = Residue(b)
    BY FramedIs, ConcatEmptySeq
<1>2. Framed(b) = Framed(b) \o Framed(Residue(b)) /\ Residue(b) = Residue(Residue(b))
    BY <1>1, CutAnywhere
<1>3. Framed(b) \in Seq(Seq(Digits)) /\ Framed(Residue(b)) \in Seq(Seq(Digits))
    BY <1>1, FramedIs
<1> QED BY <1>2, <1>3, ConcatEqualIffEmpty

\* No frame is taken exactly if the first is not complete.
LEMMA NoFrame ==
    ASSUME NEW b \in Seq(Digits)
    PROVE  /\ ~IsComplete(b, 0) => Framed(b) = <<>> /\ Residue(b) = b
           /\ Framed(b) = <<>> => ~IsComplete(b, 0) /\ Residue(b) = b
<1>1. Framed(b) \in Seq(Seq(Digits)) /\ Len(Framed(b)) = Len(Cuts(b))
    BY FramedIs
<1> DEFINE e == Cuts(b)
<1>2. /\ Len(e) \in Nat
      /\ \A n \in 0 .. Len(e) - 1 : IsComplete(b, EndAt(0, e, n))
      /\ ~IsComplete(b, EndAt(0, e, Len(e)))
      /\ Processed(b) = EndAt(0, e, Len(e))
    BY CutsAre
<1> HIDE DEF e
<1>3. Len(e) = 0 => Residue(b) = b
  <2> SUFFICES ASSUME Len(e) = 0 PROVE Residue(b) = b
      OBVIOUS
  <2>1. Processed(b) = 0
        BY <1>2 DEF EndAt
  <2>2. Residue(b) = SubSeq(b, 1, Len(b))
        BY <2>1 DEF Residue
  <2> QED BY <2>2, SubSeqFull
<1>4. Len(e) = 0 <=> ~IsComplete(b, 0)
  <2>1. Len(e) # 0 => 0 \in 0 .. Len(e) - 1
        BY <1>2
  <2>2. EndAt(0, e, 0) = 0
        BY DEF EndAt
  <2> QED BY <1>2, <2>1, <2>2
<1>5. Len(e) = 0 <=> Framed(b) = <<>>
    BY <1>1, EmptySeq DEF e
<1> QED BY <1>3, <1>4, <1>5

\* The frame of one packet is taken as that packet, and nothing is left.
LEMMA OneFrame ==
    ASSUME NEW p \in Seq(Digits), Len(p) \in 1 .. Base * Base - 1
    PROVE  /\ Frame(p) \in Seq(Digits) /\ Framed(Frame(p)) = <<p>> /\ Residue(Frame(p)) = <<>>
<1> DEFINE l == Len(p)
           hi == l \div Base
           lo == l % Base
           h == <<hi, lo>>
           b == h \o p
<1>1. Base \in Nat \ {0, 1} /\ l \in Nat \ {0} /\ l < Base * Base
    BY TcpAssumption
<1>2. hi \in Digits /\ lo \in Digits /\ hi * Base + lo = l
  <2> HIDE DEF l
  <2>1. lo \in 0 .. Base - 1 /\ hi \in Nat /\ hi * Base + lo = l
        BY <1>1
  <2>2. hi < Base
    <3> HIDE DEF hi, lo
    <3>1. SUFFICES ASSUME hi >= Base PROVE FALSE
          BY <1>1, <2>1
    <3>2. hi * Base >= Base * Base
          BY <1>1, <2>1, <3>1
    <3>3. hi * Base \in Nat /\ Base * Base \in Nat
          BY <1>1, <2>1
    <3> HIDE DEF hi
    <3> QED BY <1>1, <2>1, <3>2, <3>3
  <2> QED BY <1>1, <2>1, <2>2 DEF Digits
<1> HIDE DEF hi, lo
<1>3. h \in Seq(Digits) /\ Len(h) = 2 /\ h[1] = hi /\ h[2] = lo
    BY <1>2
<1> HIDE DEF h
<1>4. /\ b \in Seq(Digits) /\ Len(b) = 2 + l
      /\ \A i \in 1 .. 2 + l : b[i] = IF i <= 2 THEN h[i] ELSE p[i - 2]
  <2>1. /\ b \in Seq(Digits) /\ Len(b) = Len(h) + Len(p)
        /\ \A i \in 1 .. Len(h) + Len(p) : b[i] = IF i <= Len(h) THEN h[i] ELSE p[i - Len(h)]
        BY <1>3, ConcatProperties
  <2> HIDE DEF b
  <2> QED BY <1>3, <2>1
<1> HIDE DEF b
<1>5. b[1] = hi /\ b[2] = lo
    BY <1>1, <1>3, <1>4
<1>6. RtpLen(b, 0) = l
    BY <1>2, <1>5 DEF RtpLen
<1>7. IsComplete(b, 0) /\ EndOfFrame(b, 0) = 2 + l
  <2> HIDE DEF l
  <2> QED BY <1>1, <1>4, <1>6 DEF IsComplete, EndOfFrame
<1>8. ~IsComplete(b, 2 + l)
  <2> HIDE DEF l
  <2> QED BY <1>1, <1>4 DEF IsComplete
<1> DEFINE e == <<2 + l>>
<1>9. e \in Seq(0 .. Len(b)) /\ Len(e) = 1 /\ e[1] = 2 + l
  <2> HIDE DEF l
  <2> QED BY <1>1, <1>4
<1> HIDE DEF e
<1>10. Walk(b, 0, e)
  <2>1. EndAt(0, e, 0) = 0 /\ EndAt(0, e, Len(e)) = 2 + l
        BY <1>9 DEF EndAt
  <2>2. ASSUME NEW n \in 0 .. Len(e) - 1
        PROVE  IsComplete(b, EndAt(0, e, n)) /\ e[n + 1] = EndOfFrame(b, EndAt(0, e, n))
    <3>1. n = 0
          BY <1>9
    <3> QED BY <1>7, <1>9, <2>1, <3>1
  <2> QED BY <1>8, <1>9, <2>1, <2>2 DEF Walk
<1>11. e = Cuts(b)
    BY <1>4, <1>10, CutsWalk, WalksAgree
<1>12. /\ Processed(b) = EndAt(0, e, Len(e))
       /\ Framed(b) = [n \in 1 .. Len(e) |-> SubSeq(b, EndAt(0, e, n - 1) + 3, EndAt(0, e, n))]
    BY <1>4, <1>11, FramedCuts, Zenon
<1>13. SubSeq(b, 3, 2 + l) = p
  <2>1. 2 \in 0 .. Len(h) /\ 2 \in 0 .. Len(b)
        BY <1>1, <1>3, <1>4
  <2>2. Behind(b, 2) = Behind(h, 2) \o p
        BY <1>3, <2>1, UptoConcat DEF b
  <2>3. Behind(h, 2) = <<>>
    <3>1. Behind(h, 2) = SubSeq(h, 3, 2)
          BY <1>3 DEF Behind
    <3> QED BY <3>1, SubSeqEmpty
  <2>4. Behind(b, 2) = SubSeq(b, 3, 2 + l)
        BY <1>4 DEF Behind
  <2>5. <<>> \o p = p
        BY ConcatEmptySeq
  <2> QED BY <2>2, <2>3, <2>4, <2>5
<1>14. Framed(b) = <<p>>
  <2>1. \A n \in 1 .. 1 : SubSeq(b, EndAt(0, e, n - 1) + 3, EndAt(0, e, n)) = p
    <3>1. EndAt(0, e, 1 - 1) + 3 = 3 /\ EndAt(0, e, 1) = 2 + l
          BY <1>9 DEF EndAt
    <3>2. \A n \in 1 .. 1 : n = 1
          OBVIOUS
    <3> QED BY <1>13, <3>1, <3>2
  <2>2. Framed(b) = [n \in 1 .. 1 |-> p]
        BY <1>9, <1>12, <2>1
  <2> QED BY <2>2
<1>15. Residue(b) = <<>>
  <2>1. Processed(b) = Len(b) /\ Len(b) \in Nat
        BY <1>4, <1>9, <1>12 DEF EndAt
  <2>2. Residue(b) = SubSeq(b, Len(b) + 1, Len(b))
        BY <2>1 DEF Residue
  <2>3. Len(b) + 1 \in Int /\ Len(b) \in Int /\ Len(b) < Len(b) + 1
        BY <2>1
  <2> QED BY <2>2, <2>3, SubSeqEmpty
<1>16. Frame(p) = b
    BY DEF Frame, b, h, hi, lo
<1> QED BY <1>4, <1>14, <1>15, <1>16

\* What is left in the buffer is shorter than the frame it is the beginning of.
LEMMA ResidueIsShort ==
    ASSUME NEW r \in Seq(Digits), Framed(r) = <<>>, r # <<>>,
           NEW w \in Seq(Digits), Residue(r \o w) = <<>>
    PROVE  /\ Framed(r \o w) \in Seq(Seq(Digits)) /\ 1 \in 1 .. Len(Framed(r \o w))
           /\ Len(r) < Len(Framed(r \o w)[1]) + 2
<1> DEFINE b == r \o w
<1>1. b \in Seq(Digits) /\ Len(r) \in 0 .. Len(b) /\ Upto(b, Len(r)) = r /\ Len(r) \in Nat \ {0}
    BY UptoConcat, EmptySeq
<1>2. b # <<>> /\ Residue(b) = <<>>
    BY ConcatEqualIffEmpty
<1> HIDE DEF b
<1>3. Framed(b) # <<>>
    BY <1>1, <1>2, NoFrame
<1>4. Framed(b) \in Seq(Seq(Digits)) /\ Len(Framed(b)) = Len(Cuts(b))
    BY <1>1, FramedIs
<1>5. 1 \in 1 .. Len(Framed(b))
    BY <1>3, <1>4, EmptySeq
<1> DEFINE e == Cuts(b)
<1>6. /\ \A n \in 0 .. Len(e) : EndAt(0, e, n) \in 0 .. Len(b)
      /\ \A n \in 0 .. Len(e) - 1 :
           IsComplete(b, EndAt(0, e, n)) /\ EndAt(0, e, n + 1) = EndOfFrame(b, EndAt(0, e, n))
      /\ Framed(b) = [n \in 1 .. Len(e) |-> SubSeq(b, EndAt(0, e, n - 1) + 3, EndAt(0, e, n))]
    BY <1>1, CutsAre, SMTT(60)
<1>7. Len(e) \in Nat /\ Len(e) >= 1
    BY <1>1, <1>4, <1>5, CutsAre
<1> HIDE DEF e
<1>8. /\ 0 \in 0 .. Len(e) - 1 /\ 1 \in 0 .. Len(e) /\ 1 \in 1 .. Len(e) /\ 0 + 1 = 1 /\ 1 - 1 = 0
      /\ EndAt(0, e, 0) = 0
    BY <1>7 DEF EndAt
<1>9. IsComplete(b, 0) /\ EndAt(0, e, 1) = EndOfFrame(b, 0) /\ EndOfFrame(b, 0) \in 0 .. Len(b)
    BY <1>6, <1>8
<1>10. Framed(b)[1] = SubSeq(b, 3, EndOfFrame(b, 0))
    BY <1>6, <1>8, <1>9
<1>11. EndOfFrame(b, 0) > Len(r)
  <2>1. ~IsComplete(r, 0)
        BY NoFrame
  <2>2. ~(EndOfFrame(b, 0) <= Len(r))
        BY <1>1, <1>9, <2>1, CompleteUpto
  <2> QED BY <1>1, <1>9, <2>2
<1>12. Len(Framed(b)[1]) = EndOfFrame(b, 0) - 2
  <2>1. RtpLen(b, 0) \in Nat \ {0} /\ EndOfFrame(b, 0) = 2 + RtpLen(b, 0)
        BY <1>1, <1>9, Complete DEF EndOfFrame
  <2> DEFINE y == EndOfFrame(b, 0)
  <2>2. y \in Int /\ 3 <= y /\ y <= Len(b) /\ Len(b) \in Nat
        BY <1>1, <1>9, <2>1
  <2> HIDE DEF y
  <2>3. \A i \in 3 .. y : b[i] \in Digits
    <3> SUFFICES ASSUME NEW i \in 3 .. y PROVE b[i] \in Digits
        OBVIOUS
    <3>1. i \in 1 .. Len(b)
          BY <2>2
    <3> QED BY <1>1, <3>1, ElementOfSeq
  <2>4. Len(SubSeq(b, 3, y)) = y - 3 + 1
        BY <2>2, <2>3, SubSeqProperties
  <2>5. y - 3 + 1 = y - 2
        BY <2>2
  <2> QED BY <1>10, <2>4, <2>5 DEF y
<1>13. Len(r) < Len(Framed(b)[1]) + 2
    BY <1>1, <1>9, <1>11, <1>12
<1> QED BY <1>4, <1>5, <1>13 DEF b

-----------------------------------------------------------------------------
\* The parts of a sequence of packets are sequences of packets.
LEMMA ConcatParts ==
    ASSUME NEW S, NEW T, NEW u \in Seq(S), NEW v \in Seq(S), u \o v \in Seq(T)
    PROVE  u \in Seq(T) /\ v \in Seq(T)
<1>1. /\ Len(u \o v) = Len(u) + Len(v)
      /\ \A i \in 1 .. Len(u) + Len(v) :
           (u \o v)[i] = IF i <= Len(u) THEN u[i] ELSE v[i - Len(u)]
    BY ConcatProperties
<1>2. Len(u) \in Nat /\ Len(v) \in Nat
    OBVIOUS
<1> DEFINE x == u \o v
<1> HIDE DEF x
<1>3. \A i \in 1 .. Len(x) : x[i] \in T
    BY ElementOfSeq DEF x
<1>4. ASSUME NEW i \in 1 .. Len(u) PROVE u[i] \in T
  <2>1. i \in 1 .. Len(x) /\ x[i] = u[i]
        BY <1>1, <1>2 DEF x
  <2> QED BY <1>3, <2>1
<1>5. ASSUME NEW i \in 1 .. Len(v) PROVE v[i] \in T
  <2>1. Len(u) + i \in 1 .. Len(u) + Len(v) /\ ~(Len(u) + i <= Len(u)) /\ Len(u) + i - Len(u) = i
        BY <1>2
  <2>2. Len(u) + i \in 1 .. Len(x) /\ x[Len(u) + i] = v[i]
        BY <1>1, <2>1 DEF x
  <2> QED BY <1>3, <2>2
<1>6. u = [i \in 1 .. Len(u) |-> u[i]] /\ v = [i \in 1 .. Len(v) |-> v[i]]
    OBVIOUS
<1> QED BY <1>2, <1>4, <1>5, <1>6

\* Bytes that are frames of packets and nothing else
Whole(b) == b \in Seq(Digits) /\ Framed(b) \in Seq(Payloads) /\ Residue(b) = <<>>

\* The beginning of such bytes
Good(b) == b \in Seq(Digits) /\ \E w \in Seq(Digits) : Whole(b \o w)

LEMMA EmptyIsWhole == Whole(<<>>) /\ Framed(<<>>) = <<>>
<1>1. <<>> \in Seq(Digits) /\ ~IsComplete(<<>>, 0)
    BY DEF IsComplete
<1>2. Framed(<<>>) = <<>> /\ Residue(<<>>) = <<>>
    BY <1>1, NoFrame
<1>3. <<>> \in Seq(Payloads)
    BY EmptySeq
<1>4. Framed(<<>>) \in Seq(Payloads)
    BY <1>2, <1>3
<1> QED BY <1>1, <1>2, <1>4 DEF Whole

LEMMA WholeIsGood ==
    ASSUME NEW b, Whole(b)
    PROVE  Good(b)
<1>1. b \in Seq(Digits) /\ <<>> \in Seq(Digits) /\ b \o <<>> = b
    BY ConcatEmptySeq DEF Whole
<1> QED BY <1>1 DEF Good

LEMMA PayloadFrame ==
    ASSUME NEW p \in Payloads
    PROVE  /\ Frame(p) \in Seq(Digits) /\ Framed(Frame(p)) = <<p>> /\ Residue(Frame(p)) = <<>>
           /\ Len(p) + 2 <= BufSize /\ Len(p) \in Nat
BY OneFrame, TransportAssumption DEF Digits

\* The sender writes one more frame behind whole ones.
LEMMA WholeGrows ==
    ASSUME NEW b, Whole(b), NEW p \in Payloads
    PROVE  Whole(b \o Frame(p)) /\ Framed(b \o Frame(p)) = Append(Framed(b), p)
<1>1. b \in Seq(Digits) /\ Framed(b) \in Seq(Payloads) /\ Residue(b) = <<>>
    BY DEF Whole
<1>2. Frame(p) \in Seq(Digits) /\ Framed(Frame(p)) = <<p>> /\ Residue(Frame(p)) = <<>>
    BY PayloadFrame
<1> DEFINE f == Frame(p)
<1> HIDE DEF f
<1>3. /\ Framed(b \o f) = Framed(b) \o Framed(Residue(b) \o f)
      /\ Residue(b \o f) = Residue(Residue(b) \o f)
    BY <1>1, <1>2, CutAnywhere DEF f
<1>4. Residue(b) \o f = f /\ b \o f \in Seq(Digits)
    BY <1>1, <1>2, ConcatEmptySeq, ConcatProperties DEF f
<1>5. Framed(b \o f) = Framed(b) \o <<p>> /\ Residue(b \o f) = <<>>
    BY <1>2, <1>3, <1>4 DEF f
<1>6. Append(Framed(b), p) = Framed(b) \o <<p>> /\ Append(Framed(b), p) \in Seq(Payloads)
    BY <1>1, AppendIsConcat, AppendProperties
<1>7. Framed(b \o f) = Append(Framed(b), p) /\ Framed(b \o f) \in Seq(Payloads)
    BY <1>5, <1>6
<1> QED BY <1>4, <1>5, <1>7 DEF Whole, f

LEMMA GoodBegins ==
    ASSUME NEW s \in Seq(Digits), NEW t \in Seq(Digits), Good(s \o t)
    PROVE  Good(s)
<1>1. PICK w \in Seq(Digits) : Whole((s \o t) \o w)
    BY DEF Good
<1>2. (s \o t) \o w = s \o (t \o w) /\ t \o w \in Seq(Digits)
    BY ConcatAssociative, ConcatProperties
<1> QED BY <1>1, <1>2 DEF Good

LEMMA WholeCut ==
    ASSUME NEW s \in Seq(Digits), NEW t \in Seq(Digits), Whole(s \o t)
    PROVE  Framed(s) \in Seq(Payloads) /\ Whole(Residue(s) \o t)
<1>1. /\ Framed(s \o t) = Framed(s) \o Framed(Residue(s) \o t)
      /\ Residue(s \o t) = Residue(Residue(s) \o t)
      /\ Residue(s) \o t \in Seq(Digits)
    BY CutAnywhere
<1>2. Framed(s) \in Seq(Seq(Digits)) /\ Framed(Residue(s) \o t) \in Seq(Seq(Digits))
    BY <1>1, FramedIs
<1>3. Framed(s \o t) \in Seq(Payloads) /\ Residue(s \o t) = <<>>
    BY DEF Whole
<1>4. Framed(s) \in Seq(Payloads) /\ Framed(Residue(s) \o t) \in Seq(Payloads)
  <2> DEFINE u == Framed(s)
             v == Framed(Residue(s) \o t)
             D == Seq(Digits)
  <2>1. u \in Seq(D) /\ v \in Seq(D) /\ u \o v \in Seq(Payloads)
        BY <1>1, <1>2, <1>3
  <2> HIDE DEF u, v, D
  <2>2. u \in Seq(Payloads) /\ v \in Seq(Payloads)
        BY <2>1, ConcatParts
  <2> QED BY <2>2 DEF u, v
<1> QED BY <1>1, <1>3, <1>4 DEF Whole

\* What is taken from the front are packets, and what stays is still Good.
LEMMA GoodCut ==
    ASSUME NEW s \in Seq(Digits), NEW t \in Seq(Digits), Good(s \o t)
    PROVE  Framed(s) \in Seq(Payloads) /\ Good(Residue(s) \o t)
<1>1. PICK w \in Seq(Digits) : Whole((s \o t) \o w)
    BY DEF Good
<1>2. (s \o t) \o w = s \o (t \o w) /\ t \o w \in Seq(Digits)
    BY ConcatAssociative, ConcatProperties
<1>3. Framed(s) \in Seq(Payloads) /\ Whole(Residue(s) \o (t \o w))
    BY <1>1, <1>2, WholeCut
<1>4. Residue(s) \in Seq(Digits)
    BY FramedIs
<1>5. Residue(s) \o (t \o w) = (Residue(s) \o t) \o w /\ Residue(s) \o t \in Seq(Digits)
  <2> DEFINE r == Residue(s)
  <2> HIDE DEF r
  <2>1. r \in Seq(Digits)
        BY <1>4 DEF r
  <2>2. r \o (t \o w) = (r \o t) \o w /\ r \o t \in Seq(Digits)
        BY <2>1, ConcatAssociative, ConcatProperties, SMTT(60)
  <2> QED BY <2>2 DEF r
<1> QED BY <1>3, <1>5 DEF Good

LEMMA GoodFrames ==
    ASSUME NEW b, Good(b)
    PROVE  b \in Seq(Digits) /\ Framed(b) \in Seq(Payloads)
<1>1. b \in Seq(Digits) /\ <<>> \in Seq(Digits) /\ b \o <<>> = b
    BY ConcatEmptySeq DEF Good
<1> QED BY <1>1, GoodCut

LEMMA RoomIsLeft ==
    ASSUME NEW r \in Seq(Digits), Framed(r) = <<>>, Good(r)
    PROVE  Len(r) < BufSize
<1>1. CASE r = <<>>
    BY <1>1, TcpAssumption
<1>2. CASE r # <<>>
  <2>1. PICK w \in Seq(Digits) : Whole(r \o w)
        BY DEF Good
  <2> DEFINE x == Framed(r \o w)
  <2>2. 1 \in 1 .. Len(x) /\ Len(r) < Len(x[1]) + 2
        BY <1>2, <2>1, ResidueIsShort DEF Whole
  <2>3. x \in Seq(Payloads)
        BY <2>1 DEF Whole
  <2> HIDE DEF x
  <2>4. x[1] \in Payloads
        BY <2>2, <2>3, ElementOfSeq
  <2>5. Len(x[1]) + 2 <= BufSize /\ Len(x[1]) \in Nat /\ BufSize \in Nat /\ Len(r) \in Nat
        BY <2>4, PayloadFrame, TcpAssumption
  <2> QED BY <2>2, <2>5
<1> QED BY <1>1, <1>2

-----------------------------------------------------------------------------
LEMMA FlattenOne ==
    ASSUME NEW x, NEW s, Len(s) = 1, s[1] = x
    PROVE  FlattenSeq(s) = x
<1> DEFINE E(f) == f = [i \in 1 .. 1 |-> IF i = 1 THEN s[i] ELSE f[i - 1] \o s[i]]
           F == CHOOSE f : E(f)
<1>1. E([i \in 1 .. 1 |-> x])
  <2>1. \A i \in 1 .. 1 : i = 1
        OBVIOUS
  <2> QED BY <2>1
<1>2. \E f : E(f)
  <2> HIDE DEF E
  <2> QED BY <1>1
<1>3. E(F)
  <2> HIDE DEF E
  <2> QED BY <1>2
<1> HIDE DEF F
<1>4. F[1] = x
    BY <1>3
<1>5. FlattenSeq(s) = F[1]
    BY DEF FlattenSeq, F
<1> QED BY <1>4, <1>5

\* The connection that the platform reads or will read next
Current == IF backlog # <<>> THEN opened ELSE tcp_client_sock

\* The bytes that are still to be framed
Stream == stream_buf \o (IF Current = 0 THEN <<>> ELSE wire[Current])

\* What the connections, the session and the counters can be
NetInv ==
    /\ opened \in 0 .. MaxConns /\ tcp_client_sock \in 0 .. opened
    /\ eof \subseteq 1 .. opened
    /\ sent \in 0 .. MaxPackets /\ packet_count \in 0 .. sent /\ srs \subseteq 1 .. sent
    /\ have_last_sr \in BOOLEAN
    /\ LossInv /\ SessionInv

\* One connection waits at most, and only when the last is read to its end;
\* what is left to be framed begins like a sequence of frames, and is one unless
\* the connection has ended.
StreamInv ==
    /\ wire \in [Conns -> Seq(Digits)] /\ stream_buf \in Seq(Digits)
    /\ \A c \in Conns : c > opened => wire[c] = <<>>
    /\ backlog = <<>> \/ (backlog = <<opened>> /\ opened # 0)
    /\ backlog # <<>> => /\ stream_buf = <<>> /\ tcp_client_sock # opened
                         /\ tcp_client_sock # 0 => wire[tcp_client_sock] = <<>>
    /\ tcp_client_sock = 0 => stream_buf = <<>>
    /\ Framed(stream_buf) = <<>>
    /\ Good(Stream) /\ (Current \notin eof => Whole(Stream))
    /\ got \in Seq(Payloads)

LEMMA QueueIsFramed == NetInv /\ StreamInv => Queue = Framed(Stream)
<1> SUFFICES ASSUME NetInv, StreamInv PROVE Queue = Framed(Stream)
    OBVIOUS
<1> DEFINE x == IF tcp_client_sock = 0 THEN <<>> ELSE Framed(stream_buf \o wire[tcp_client_sock])
           y == [i \in DOMAIN backlog |-> Framed(wire[backlog[i]])]
<1>0. /\ opened \in 0 .. MaxConns /\ MaxConns \in Nat /\ tcp_client_sock \in 0 .. opened
      /\ wire \in [Conns -> Seq(Digits)] /\ stream_buf \in Seq(Digits)
    BY TransportAssumption DEF NetInv, StreamInv
<1>1. Queue = x \o FlattenSeq(y)
    BY DEF Queue
<1>2. CASE backlog = <<>>
  <2>1. Current = tcp_client_sock
        BY <1>2 DEF Current
  <2>2. x = Framed(Stream)
    <3>1. CASE tcp_client_sock = 0
      <4>1. stream_buf = <<>>
            BY <3>1 DEF StreamInv
      <4>2. stream_buf \o <<>> = <<>>
            BY <4>1
      <4> QED BY <2>1, <3>1, <4>2, EmptyIsWhole DEF Stream
    <3>2. CASE tcp_client_sock # 0
          BY <2>1, <3>2 DEF Stream
    <3> QED BY <3>1, <3>2
  <2>3. y = <<>>
        BY <1>2
  <2>4. FlattenSeq(<<>>) = <<>>
        BY DEF FlattenSeq
  <2>5. Framed(Stream) \in Seq(Payloads)
        BY GoodFrames DEF StreamInv
  <2>6. Framed(Stream) \o <<>> = Framed(Stream)
        BY <2>5, ConcatEmptySeq
  <2> HIDE DEF x, y
  <2> QED BY <1>1, <2>2, <2>3, <2>4, <2>6
<1>3. CASE backlog # <<>>
  <2>1. backlog = <<opened>> /\ opened # 0 /\ stream_buf = <<>> /\ Current = opened
        BY <1>3 DEF StreamInv, Current
  <2>2. opened \in Conns /\ wire[opened] \in Seq(Digits)
        BY <1>0, <2>1 DEF Conns
  <2>3. Stream = wire[opened]
    <3>1. <<>> \o wire[opened] = wire[opened]
          BY <2>2, ConcatEmptySeq
    <3> QED BY <2>1, <3>1 DEF Stream
  <2>4. x = <<>>
    <3>1. CASE tcp_client_sock = 0
          BY <3>1
    <3>2. CASE tcp_client_sock # 0
      <4>1. wire[tcp_client_sock] = <<>>
            BY <1>3, <3>2 DEF StreamInv
      <4>2. stream_buf \o wire[tcp_client_sock] = <<>>
            BY <2>1, <4>1
      <4> QED BY <3>2, <4>2, EmptyIsWhole
    <3> QED BY <3>1, <3>2
  <2>5. Len(y) = 1 /\ y[1] = Framed(wire[opened])
    <3>1. y = [i \in 1 .. 1 |-> Framed(wire[backlog[i]])] /\ backlog[1] = opened
          BY <2>1
    <3> QED BY <3>1
  <2> HIDE DEF y
  <2>6. FlattenSeq(y) = Framed(Stream)
        BY <2>3, <2>5, FlattenOne
  <2>7. Framed(Stream) \in Seq(Payloads)
        BY GoodFrames DEF StreamInv
  <2>8. <<>> \o Framed(Stream) = Framed(Stream)
        BY <2>7, ConcatEmptySeq
  <2> HIDE DEF x
  <2> QED BY <1>1, <2>4, <2>6, <2>8
<1> QED BY <1>2, <1>3

LEMMA RoomInBuffer == NetInv /\ StreamInv => Len(stream_buf) < BufSize
<1> SUFFICES ASSUME NetInv, StreamInv PROVE Len(stream_buf) < BufSize
    OBVIOUS
<1> DEFINE t == IF Current = 0 THEN <<>> ELSE wire[Current]
<1>1. t \in Seq(Digits)
  <2>1. Current \in 0 .. MaxConns
        BY TransportAssumption DEF NetInv, Current
  <2> QED BY <2>1 DEF StreamInv, Conns
<1>2. stream_buf \in Seq(Digits) /\ Framed(stream_buf) = <<>> /\ Good(stream_buf \o t)
    BY DEF StreamInv, Stream
<1> HIDE DEF t
<1>3. Good(stream_buf)
    BY <1>1, <1>2, GoodBegins
<1> QED BY <1>2, <1>3, RoomIsLeft

\* Whatever follows the first whole frames, they are the first packets.
LEMMA FramedBegins ==
    ASSUME NEW s \in Seq(Digits), NEW t \in Seq(Digits), Good(s \o t)
    PROVE  /\ Framed(s) \in Seq(Payloads) /\ Framed(s \o t) \in Seq(Payloads)
           /\ Framed(Residue(s) \o t) \in Seq(Payloads)
           /\ Framed(s \o t) = Framed(s) \o Framed(Residue(s) \o t)
           /\ Len(Framed(s)) \in 0 .. Len(Framed(s \o t))
           /\ Framed(s) = SubSeq(Framed(s \o t), 1, Len(Framed(s)))
           /\ Framed(Residue(s) \o t)
                = SubSeq(Framed(s \o t), Len(Framed(s)) + 1, Len(Framed(s \o t)))
<1>1. Framed(s \o t) = Framed(s) \o Framed(Residue(s) \o t)
    BY CutAnywhere
<1>2. /\ Framed(s) \in Seq(Payloads) /\ Framed(s \o t) \in Seq(Payloads)
      /\ Framed(Residue(s) \o t) \in Seq(Payloads)
    BY GoodCut, GoodFrames
<1> DEFINE u == Framed(s)
           v == Framed(Residue(s) \o t)
           b == Framed(s \o t)
<1>3. u \in Seq(Payloads) /\ v \in Seq(Payloads) /\ b \in Seq(Payloads) /\ b = u \o v
    BY <1>1, <1>2
<1> HIDE DEF u, v, b
<1>4. Len(u) \in 0 .. Len(b) /\ u = SubSeq(b, 1, Len(u))
  <2>1. Len(u) \in 0 .. Len(u \o v) /\ Upto(u \o v, Len(u)) = u
        BY <1>3, UptoConcat
  <2> QED BY <1>3, <2>1 DEF Upto
<1>5. v = SubSeq(b, Len(u) + 1, Len(b))
  <2>1. Len(u) \in 0 .. Len(u)
        BY <1>3
  <2>2. Behind(u \o v, Len(u)) = Behind(u, Len(u)) \o v
        BY <1>3, <2>1, UptoConcat
  <2>3. Behind(u, Len(u)) = <<>>
    <3>1. Len(u) + 1 \in Int /\ Len(u) \in Int /\ Len(u) < Len(u) + 1
          BY <1>3
    <3> QED BY <3>1, SubSeqEmpty DEF Behind
  <2>4. <<>> \o v = v
        BY <1>3, ConcatEmptySeq
  <2> QED BY <1>3, <2>2, <2>3, <2>4 DEF Behind
<1> QED BY <1>3, <1>4, <1>5 DEF u, v, b

\* What a step does to the packets that are still to be received
QueueStep ==
    \/ Framed(Stream)' = Framed(Stream) /\ got' = got
    \/ /\ \E p \in Payloads : Framed(Stream)' = Append(Framed(Stream), p)
       /\ got' = got
    \/ \E n \in 1 .. Len(Framed(Stream)) :
         /\ got' = got \o SubSeq(Framed(Stream), 1, n)
         /\ Framed(Stream)' = SubSeq(Framed(Stream), n + 1, Len(Framed(Stream)))
    \/ \E n \in 0 .. Len(Framed(Stream)) - 1 :
         Framed(Stream)' = SubSeq(Framed(Stream), 1, n) /\ got' = got

\* Most steps touch neither the bytes nor the connections.
LEMMA StreamStands ==
    ASSUME StreamInv, UNCHANGED <<wire, stream_buf, opened, backlog, tcp_client_sock, got>>,
           eof \subseteq eof'
    PROVE  StreamInv' /\ QueueStep
<1>1. Current' = Current
    BY DEF Current
<1>2. Stream' = Stream
    BY <1>1 DEF Stream
<1>3. QueueStep
    BY <1>2 DEF QueueStep
<1>4. (Good(Stream) /\ (Current \notin eof => Whole(Stream)))'
  <2>1. Current \notin eof' => Current \notin eof
        OBVIOUS
  <2>2. Good(Stream) /\ (Current \notin eof' => Whole(Stream))
        BY <2>1 DEF StreamInv
  <2> QED BY <1>1, <1>2, <2>2
<1>5. Framed(stream_buf)' = <<>>
    BY DEF StreamInv
<1> QED BY <1>3, <1>4, <1>5 DEF StreamInv

LEMMA ConnectStream ==
    ASSUME NetInv, StreamInv, ~Overlap, Connect, tcp_client_sock' = tcp_client_sock,
           stream_buf' = stream_buf, eof \subseteq eof'
    PROVE  StreamInv' /\ QueueStep
<1>0. opened \in 0 .. MaxConns /\ MaxConns \in Nat /\ tcp_client_sock \in 0 .. opened
    BY TransportAssumption DEF NetInv
<1>1. /\ opened < MaxConns /\ opened' = opened + 1 /\ backlog' = <<opened + 1>>
      /\ stream_buf = <<>> /\ backlog = <<>> /\ wire' = wire /\ got' = got
      /\ tcp_client_sock # 0 => wire[tcp_client_sock] = <<>>
  <2>1. /\ opened < MaxConns /\ opened' = opened + 1 /\ Drained
        /\ backlog' = Append(backlog, opened + 1) /\ wire' = wire /\ got' = got
        BY DEF Connect
  <2>2. backlog = <<>> /\ Append(<<>>, opened + 1) = <<opened + 1>>
        BY <2>1 DEF Drained
  <2> QED BY <2>1, <2>2 DEF Drained
<1>2. opened + 1 \in Conns /\ wire[opened + 1] = <<>>
  <2>1. opened + 1 \in Conns /\ opened + 1 > opened
        BY <1>0, <1>1 DEF Conns
  <2> QED BY <2>1 DEF StreamInv
<1>3. Current' = opened + 1 /\ opened + 1 # 0
  <2>1. backlog' # <<>>
        BY <1>1
  <2> QED BY <1>0, <1>1, <2>1 DEF Current
<1>4. Stream' = <<>>
  <2>1. Stream' = <<>> \o wire[opened + 1]
        BY <1>1, <1>3 DEF Stream
  <2> QED BY <1>2, <2>1
<1>5. Stream = <<>>
  <2>1. Current = tcp_client_sock
        BY <1>1 DEF Current
  <2>2. (IF Current = 0 THEN <<>> ELSE wire[Current]) = <<>>
        BY <1>1, <2>1
  <2>3. Stream = <<>> \o <<>>
        BY <1>1, <2>2 DEF Stream
  <2> QED BY <2>3
<1>6. QueueStep
    BY <1>1, <1>4, <1>5 DEF QueueStep
<1>7. (Good(Stream) /\ (Current \notin eof => Whole(Stream)))'
  <2>1. Good(<<>>) /\ Whole(<<>>)
        BY EmptyIsWhole, WholeIsGood
  <2> QED BY <1>4, <2>1
<1>8. \A c \in Conns : c > opened + 1 => wire[c] = <<>>
  <2>1. \A c \in Conns : c > opened + 1 => c > opened
        BY <1>0 DEF Conns
  <2> QED BY <2>1 DEF StreamInv
<1>9. tcp_client_sock # opened + 1 /\ opened + 1 # 0
    BY <1>0
<1>10. Framed(stream_buf)' = <<>>
    BY <1>1, EmptyIsWhole
<1> QED BY <1>1, <1>6, <1>7, <1>8, <1>9, <1>10 DEF StreamInv

LEMMA SendTcpStream ==
    ASSUME NetInv, StreamInv, SendTcp
    PROVE  StreamInv' /\ QueueStep
<1>0. /\ opened \in 0 .. MaxConns /\ MaxConns \in Nat /\ tcp_client_sock \in 0 .. opened
      /\ opened # 0 /\ tcp_sock = opened
    BY TransportAssumption DEF NetInv, SessionInv, SendTcp
<1>1. /\ UNCHANGED <<stream_buf, opened, backlog, tcp_client_sock, got, eof>>
      /\ Current' = Current
    BY DEF SendTcp, tcpVars, Current
<1>2. PICK p \in Payloads :
        wire' = IF Alive(opened) THEN [wire EXCEPT ![opened] = @ \o Frame(p)] ELSE wire
    BY <1>0 DEF SendTcp
<1>3. CASE ~Alive(opened)
  <2>1. wire' = wire
        BY <1>2, <1>3
  <2> QED BY <1>1, <2>1, StreamStands
<1>4. CASE Alive(opened)
  <2>0. wire' = [wire EXCEPT ![opened] = @ \o Frame(p)] /\ opened \in Conns
        BY <1>0, <1>2, <1>4 DEF Conns
  <2>1. Current = opened /\ opened \notin eof
    <3>1. backlog = <<>> => ToSet(backlog) = {}
          BY DEF ToSet
    <3> QED BY <1>4, <3>1 DEF Alive, Current
  <2>2. /\ wire \in [Conns -> Seq(Digits)] /\ wire[opened] \in Seq(Digits)
        /\ stream_buf \in Seq(Digits)
        BY <2>0 DEF StreamInv
  <2>3. Frame(p) \in Seq(Digits)
        BY PayloadFrame
  <2> DEFINE f == Frame(p)
  <2> HIDE DEF f
  <2>4. wire'[opened] = wire[opened] \o f /\ f \in Seq(Digits)
        BY <2>0, <2>2, <2>3 DEF f
  <2>5. Stream = stream_buf \o wire[opened]
        BY <1>0, <2>1 DEF Stream
  <2>6. Stream' = Stream \o f
    <3>1. Stream' = stream_buf \o (wire[opened] \o f)
          BY <1>0, <1>1, <2>1, <2>4 DEF Stream
    <3>2. stream_buf \o (wire[opened] \o f) = (stream_buf \o wire[opened]) \o f
      <4> DEFINE w == wire[opened]
      <4>1. w \in Seq(Digits)
            BY <2>2
      <4> HIDE DEF w
      <4>3. stream_buf \in Seq(Digits) /\ f \in Seq(Digits)
            BY <2>2, <2>4
      <4>2. (stream_buf \o w) \o f = stream_buf \o (w \o f)
            BY ONLY <4>3, <4>1, ConcatAssociative
      <4> QED BY <4>2 DEF w
    <3> QED BY <2>5, <3>1, <3>2
  <2>7. Whole(Stream)
        BY <2>1 DEF StreamInv
  <2>8. Whole(Stream)' /\ Framed(Stream)' = Append(Framed(Stream), p)
    <3>1. Whole(Stream \o f) /\ Framed(Stream \o f) = Append(Framed(Stream), p)
          BY <2>7, WholeGrows DEF f
    <3> QED BY <2>6, <3>1
  <2>9. QueueStep
        BY <1>1, <2>8 DEF QueueStep
  <2>10. Good(Stream)'
    <3>1. Whole(Stream')
          BY <2>8
    <3>2. Good(Stream')
          BY <3>1, WholeIsGood
    <3> QED BY <3>2
  <2>11. wire' \in [Conns -> Seq(Digits)]
    <3>1. wire[opened] \o f \in Seq(Digits)
          BY <2>2, <2>4, ConcatProperties
    <3>2. wire' = [wire EXCEPT ![opened] = wire[opened] \o f]
          BY <2>0 DEF f
    <3> QED BY <2>2, <3>1, <3>2
  <2>12. \A c \in Conns : c # opened => wire'[c] = wire[c]
        BY <2>0, <2>2
  <2>13. \A c \in Conns : c > opened => wire'[c] = <<>>
    <3>1. \A c \in Conns : c > opened => c # opened
          BY <1>0 DEF Conns
    <3> QED BY <2>12, <3>1 DEF StreamInv
  <2>14. backlog # <<>> /\ tcp_client_sock # 0 => wire'[tcp_client_sock] = <<>>
    <3>1. tcp_client_sock # 0 => tcp_client_sock \in Conns
          BY <1>0 DEF Conns
    <3> QED BY <2>12, <3>1 DEF StreamInv
  <2>15. Framed(stream_buf)' = <<>>
        BY <1>1 DEF StreamInv
  <2> QED BY <1>1, <2>8, <2>9, <2>10, <2>11, <2>13, <2>14, <2>15 DEF StreamInv
<1> QED BY <1>3, <1>4

LEMMA BreakStream ==
    ASSUME NetInv, StreamInv, Break
    PROVE  StreamInv' /\ QueueStep
<1>0. /\ opened \in 0 .. MaxConns /\ MaxConns \in Nat /\ tcp_client_sock \in 0 .. opened
      /\ wire \in [Conns -> Seq(Digits)] /\ stream_buf \in Seq(Digits)
    BY TransportAssumption DEF NetInv, StreamInv
<1>1. UNCHANGED <<stream_buf, opened, backlog, tcp_client_sock, got>> /\ Current' = Current
    BY DEF Break, tcpVars, Current
<1>2. PICK c \in 1 .. opened \ eof :
        /\ Alive(c) /\ eof' = eof \cup {c}
        /\ \E n \in 0 .. Len(wire[c]) : wire' = [wire EXCEPT ![c] = SubSeq(@, 1, n)]
    BY DEF Break
<1>3. PICK n \in 0 .. Len(wire[c]) : wire' = [wire EXCEPT ![c] = SubSeq(@, 1, n)]
    BY <1>2
<1>4. c \in Conns /\ c # 0 /\ wire[c] \in Seq(Digits)
    BY <1>0, <1>2 DEF Conns
<1>5. CASE c = Current
  <2> DEFINE w == wire[c]
             t == Behind(w, n)
             s == stream_buf \o Upto(w, n)
  <2>1. Upto(w, n) \in Seq(Digits) /\ t \in Seq(Digits) /\ Upto(w, n) \o t = w
    <3>1. w \in Seq(Digits) /\ n \in 0 .. Len(w)
          BY <1>4
    <3>2. 1 \in 1 .. Len(w) + 1 /\ n \in 1 - 1 .. Len(w) /\ Len(w) \in n .. Len(w)
          BY <3>1
    <3> HIDE DEF w
    <3>3. SubSeq(w, 1, n) \o SubSeq(w, n + 1, Len(w)) = SubSeq(w, 1, Len(w))
          BY <3>1, <3>2, ConcatAdjacentSubSeq
    <3>4. SubSeq(w, 1, Len(w)) = w
          BY <3>1, SubSeqFull
    <3> QED BY <3>1, <3>3, <3>4, UptoIs, BehindIs DEF Upto, Behind
  <2>2. wire' = [wire EXCEPT ![c] = Upto(w, n)] /\ wire'[c] = Upto(w, n)
        BY <1>0, <1>3, <1>4 DEF Upto
  <2> HIDE DEF w, t
  <2>3. s \in Seq(Digits) /\ Stream' = s /\ Stream = s \o t
    <3>1. Stream' = s
          BY <1>1, <1>4, <1>5, <2>2 DEF Stream
    <3>2. Stream = stream_buf \o w
          BY <1>4, <1>5 DEF Stream, w
    <3>3. stream_buf \o (Upto(w, n) \o t) = s \o t /\ s \in Seq(Digits)
      <4> DEFINE u == Upto(w, n)
      <4>1. u \in Seq(Digits)
            BY <2>1
      <4> HIDE DEF u
      <4>2. stream_buf \o u \in Seq(Digits)
            BY <1>0, <4>1, ConcatProperties
      <4>3. (stream_buf \o u) \o t = stream_buf \o (u \o t)
        <5>1. stream_buf \in Seq(Digits) /\ t \in Seq(Digits)
              BY <1>0, <2>1
        <5> HIDE DEF s
        <5> QED BY ONLY <4>1, <5>1, ConcatAssociative, SMTT(60)
      <4> QED BY <4>2, <4>3 DEF u
    <3> QED BY <2>1, <3>1, <3>2, <3>3
  <2> HIDE DEF s
  <2>4. Good(s \o t)
        BY <2>3 DEF StreamInv
  <2>5. Good(Stream)'
    <3>1. Good(s)
          BY <2>1, <2>3, <2>4, GoodBegins
    <3> QED BY <2>3, <3>1
  <2>6. Current' \in eof'
        BY <1>1, <1>2, <1>5
  <2>7. QueueStep
    <3> DEFINE k == Len(Framed(s))
               q == Framed(s \o t)
    <3>1. k \in 0 .. Len(q) /\ Framed(s) = SubSeq(q, 1, k) /\ q \in Seq(Payloads)
          BY <2>1, <2>3, <2>4, FramedBegins
    <3>2. Framed(Stream) = q /\ Framed(Stream)' = Framed(s)
          BY <2>3
    <3> HIDE DEF k, q
    <3>3. CASE k = Len(q)
      <4>1. Framed(s) = q
            BY <3>1, <3>3, SubSeqFull
      <4> QED BY <1>1, <3>2, <4>1 DEF QueueStep
    <3>4. CASE k # Len(q)
      <4>1. k \in 0 .. Len(q) - 1
            BY <3>1, <3>4
      <4> QED BY <1>1, <3>1, <3>2, <4>1 DEF QueueStep
    <3> QED BY <3>3, <3>4
  <2>8. wire' \in [Conns -> Seq(Digits)] /\ \A d \in Conns : d # c => wire'[d] = wire[d]
        BY <1>0, <2>1, <2>2
  <2>9. \A d \in Conns : d > opened => wire'[d] = <<>>
    <3>1. \A d \in Conns : d > opened => d # c
          BY <1>0, <1>2 DEF Conns
    <3> QED BY <2>8, <3>1 DEF StreamInv
  <2>10. backlog # <<>> /\ tcp_client_sock # 0 => wire'[tcp_client_sock] = <<>>
    <3>1. tcp_client_sock # 0 => tcp_client_sock \in Conns
          BY <1>0 DEF Conns
    <3>2. backlog # <<>> => tcp_client_sock # c
          BY <1>5 DEF Current, StreamInv
    <3> QED BY <2>8, <3>1, <3>2 DEF StreamInv
  <2>11. Framed(stream_buf)' = <<>>
        BY <1>1 DEF StreamInv
  <2> QED BY <1>1, <2>5, <2>6, <2>7, <2>8, <2>9, <2>10, <2>11 DEF StreamInv
<1>6. CASE c # Current
  <2>1. backlog # <<>> /\ c = tcp_client_sock
    <3>1. ToSet(backlog) \subseteq {opened} /\ (backlog = <<>> => ToSet(backlog) = {})
          BY DEF ToSet, StreamInv
    <3> QED BY <1>2, <1>6, <3>1 DEF Alive, Current
  <2>2. wire[c] = <<>>
        BY <1>4, <2>1 DEF StreamInv
  <2>3. wire' = wire
    <3>1. n = 0 /\ SubSeq(wire[c], 1, n) = <<>>
          BY <2>2
    <3>2. wire' = [wire EXCEPT ![c] = wire[c]]
          BY <1>3, <2>2, <3>1
    <3> QED BY <1>0, <3>2
  <2> QED BY <1>1, <1>2, <2>3, StreamStands
<1> QED BY <1>5, <1>6

LEMMA AcceptStream ==
    ASSUME NetInv, StreamInv, AcceptNext
    PROVE  StreamInv' /\ QueueStep
<1>0. /\ opened \in 0 .. MaxConns /\ MaxConns \in Nat /\ tcp_client_sock \in 0 .. opened
      /\ wire \in [Conns -> Seq(Digits)]
    BY TransportAssumption DEF NetInv, StreamInv
<1>1. /\ backlog = <<opened>> /\ opened # 0 /\ stream_buf = <<>> /\ Current = opened
      /\ UNCHANGED <<opened, wire, eof, got>>
    BY DEF AcceptNext, StreamInv, Current
<1>2. /\ backlog' = <<>> /\ stream_buf' = <<>>
      /\ tcp_client_sock' = opened \/ tcp_client_sock' = 0
  <2>1. Head(<<opened>>) = opened /\ Tail(<<opened>>) = <<>>
        OBVIOUS
  <2> QED BY <1>1, <2>1 DEF AcceptNext, Accept
<1>3. Current' = tcp_client_sock' /\ Framed(stream_buf)' = <<>>
    BY <1>2, EmptyIsWhole DEF Current
<1>4. opened \in Conns /\ wire[opened] \in Seq(Digits) /\ <<>> \o wire[opened] = wire[opened]
  <2>1. opened \in Conns
        BY <1>0, <1>1 DEF Conns
  <2>2. wire[opened] \in Seq(Digits)
        BY <1>0, <2>1
  <2> QED BY <2>1, <2>2, ConcatEmptySeq
<1>5. Stream = wire[opened]
    BY <1>1, <1>4 DEF Stream
<1>6. CASE tcp_client_sock' = opened
  <2>1. Stream' = Stream
        BY <1>1, <1>2, <1>3, <1>4, <1>5, <1>6 DEF Stream
  <2>2. (Good(Stream) /\ (Current \notin eof => Whole(Stream)))'
    <3>1. Good(Stream) /\ (Current \notin eof => Whole(Stream))
          BY DEF StreamInv
    <3> QED BY <1>1, <1>3, <1>6, <2>1, <3>1
  <2>3. QueueStep
        BY <1>1, <2>1 DEF QueueStep
  <2> QED BY <1>1, <1>2, <1>3, <1>6, <2>2, <2>3 DEF StreamInv
<1>7. CASE tcp_client_sock' = 0
  <2>1. Stream' = <<>>
    <3>1. <<>> \o <<>> = <<>>
          OBVIOUS
    <3> QED BY <1>2, <1>3, <1>7, <3>1 DEF Stream
  <2>2. Good(Stream)' /\ Whole(Stream)' /\ Framed(Stream)' = <<>>
    <3>1. Good(<<>>) /\ Whole(<<>>) /\ Framed(<<>>) = <<>>
          BY EmptyIsWhole, WholeIsGood
    <3> QED BY <2>1, <3>1
  <2>3. QueueStep
    <3> DEFINE q == Framed(Stream)
    <3>1. q \in Seq(Payloads)
          BY GoodFrames DEF StreamInv
    <3>2. q = <<>> \/ 0 \in 0 .. Len(q) - 1
          BY <3>1, EmptySeq
    <3>3. SubSeq(q, 1, 0) = <<>>
          BY SubSeqEmpty
    <3> HIDE DEF q
    <3>4. CASE q = <<>>
          BY <1>1, <2>2, <3>4 DEF QueueStep, q
    <3>5. CASE 0 \in 0 .. Len(q) - 1
      <4>1. \E n \in 0 .. Len(q) - 1 : Framed(Stream)' = SubSeq(q, 1, n) /\ got' = got
            BY <1>1, <2>2, <3>3, <3>5
      <4> QED BY <4>1 DEF QueueStep, q
    <3> QED BY <3>2, <3>4, <3>5
  <2> QED BY <1>1, <1>2, <1>3, <1>7, <2>2, <2>3 DEF StreamInv
<1> QED BY <1>2, <1>6, <1>7

LEMMA RecvTcpStream ==
    ASSUME NetInv, StreamInv, RecvTcp
    PROVE  StreamInv' /\ QueueStep
<1>0. /\ opened \in 0 .. MaxConns /\ MaxConns \in Nat /\ tcp_client_sock \in 0 .. opened
      /\ wire \in [Conns -> Seq(Digits)] /\ stream_buf \in Seq(Digits)
    BY TransportAssumption DEF NetInv, StreamInv
<1>1. tcp_client_sock # 0
    BY DEF RecvTcp, RecvBytes
<1> DEFINE c == tcp_client_sock
           w == wire[c]
<1>2. c \in Conns /\ w \in Seq(Digits) /\ Len(w) \in Nat
  <2>1. c \in Conns
        BY <1>0, <1>1 DEF Conns
  <2> QED BY <1>0, <2>1
<1>3. PICK n \in 1 .. Len(w) :
        /\ RecvBytes(SubSeq(w, 1, n))
        /\ wire' = [wire EXCEPT ![c] = SubSeq(@, n + 1, Len(@))]
        /\ got' = got \o Framed(stream_buf \o SubSeq(w, 1, n))
    BY <1>1 DEF RecvTcp
<1> DEFINE u == Upto(w, n)
           t == Behind(w, n)
           s == stream_buf \o u
<1>4. u \in Seq(Digits) /\ t \in Seq(Digits) /\ u \o t = w /\ w # <<>>
  <2>1. 1 \in 1 .. Len(w) + 1 /\ n \in 1 - 1 .. Len(w) /\ Len(w) \in n .. Len(w)
        BY <1>2
  <2>2. n \in 0 .. Len(w) /\ w # <<>>
        BY <1>2
  <2>6. w \in Seq(Digits)
        BY <1>2
  <2> HIDE DEF w
  <2>3. SubSeq(w, 1, n) \o SubSeq(w, n + 1, Len(w)) = SubSeq(w, 1, Len(w))
        BY <2>1, <2>6, ConcatAdjacentSubSeq
  <2>4. SubSeq(w, 1, Len(w)) = w
        BY <2>6, SubSeqFull
  <2>5. Upto(w, n) \in Seq(Digits) /\ Behind(w, n) \in Seq(Digits)
        BY <2>2, <2>6, UptoIs, BehindIs
  <2> QED BY <2>2, <2>3, <2>4, <2>5 DEF Upto, Behind
<1>5. /\ stream_buf' = Residue(s) /\ got' = got \o Framed(s) /\ tcp_client_sock' = c
      /\ wire' = [wire EXCEPT ![c] = t] /\ UNCHANGED <<opened, eof, backlog>>
  <2>1. UNCHANGED <<opened, eof, backlog>>
        BY DEF RecvTcp
  <2> QED BY <1>3, <2>1 DEF RecvBytes, Upto, Behind
<1>6. backlog = <<>> /\ Current = c /\ Current' = c
  <2>1. backlog = <<>>
        BY <1>1, <1>4 DEF StreamInv
  <2> QED BY <1>5, <2>1 DEF Current
<1>7. Stream = stream_buf \o w
    BY <1>1, <1>6 DEF Stream
<1>8. wire'[c] = t
    BY <1>0, <1>2, <1>5
<1>9. Stream' = Residue(s) \o t
    BY <1>1, <1>5, <1>6, <1>8 DEF Stream
<1>10. wire' \in [Conns -> Seq(Digits)] /\ \A d \in Conns : d # c => wire'[d] = wire[d]
  <2> HIDE DEF t, c
  <2> QED BY <1>0, <1>2, <1>4, <1>5
<1> HIDE DEF c, w, u, t
<1>11. s \in Seq(Digits) /\ s \o t = Stream
  <2>1. s \in Seq(Digits)
        BY <1>0, <1>4, ConcatProperties
  <2>2. (stream_buf \o u) \o t = stream_buf \o (u \o t)
    <3>1. stream_buf \in Seq(Digits) /\ u \in Seq(Digits) /\ t \in Seq(Digits)
          BY <1>0, <1>4
    <3> HIDE DEF s
    <3> QED BY ONLY <3>1, ConcatAssociative, SMTT(60)
  <2> QED BY <1>4, <1>7, <2>1, <2>2
<1> HIDE DEF s
<1>12. Good(s \o t) /\ (c \notin eof => Whole(s \o t))
    BY <1>6, <1>11 DEF StreamInv
<1>13. Residue(s) \in Seq(Digits) /\ Framed(Residue(s)) = <<>>
    BY <1>11, FramedIs, ResidueHasNoFrame
<1>14. Framed(s) \in Seq(Payloads) /\ Good(Residue(s) \o t)
       /\ (c \notin eof => Whole(Residue(s) \o t))
    BY <1>4, <1>11, <1>12, GoodCut, WholeCut
<1>15. (Good(Stream) /\ (Current \notin eof => Whole(Stream)))'
    BY <1>5, <1>6, <1>9, <1>14
<1>16. QueueStep
  <2> DEFINE k == Len(Framed(s))
             q == Framed(s \o t)
  <2>1. /\ k \in 0 .. Len(q) /\ Framed(s) = SubSeq(q, 1, k)
        /\ Framed(Residue(s) \o t) = SubSeq(q, k + 1, Len(q))
        /\ q \in Seq(Payloads)
        BY <1>4, <1>11, <1>12, FramedBegins
  <2>2. /\ Framed(Stream) = q /\ Framed(Stream)' = SubSeq(q, k + 1, Len(q))
        /\ got' = got \o SubSeq(q, 1, k)
        BY <1>5, <1>9, <1>11, <2>1
  <2>3. got \in Seq(Payloads) /\ got \o <<>> = got
        BY ConcatEmptySeq DEF StreamInv
  <2> HIDE DEF k, q
  <2>4. CASE k = 0
    <3>1. SubSeq(q, 1, 0) = <<>> /\ SubSeq(q, k + 1, Len(q)) = q
      <4>1. k + 1 = 1
            BY <2>4
      <4> QED BY <2>1, <4>1, SubSeqEmpty, SubSeqFull
    <3> QED BY <2>2, <2>3, <2>4, <3>1 DEF QueueStep
  <2>5. CASE k # 0
    <3>1. k \in 1 .. Len(q)
          BY <2>1, <2>5
    <3> QED BY <2>2, <3>1 DEF QueueStep
  <2> QED BY <2>4, <2>5
<1>17. \A d \in Conns : d > opened => wire'[d] = <<>>
  <2>1. \A d \in Conns : d > opened => d # c
        BY <1>0 DEF Conns, c
  <2> QED BY <1>10, <2>1 DEF StreamInv
<1>18. got' \in Seq(Payloads)
    BY <1>5, <1>14, ConcatProperties DEF StreamInv
<1>19. stream_buf' \in Seq(Digits) /\ Framed(stream_buf)' = <<>> /\ tcp_client_sock' # 0
    BY <1>1, <1>5, <1>13 DEF c
<1> QED BY <1>5, <1>6, <1>10, <1>15, <1>16, <1>17, <1>18, <1>19 DEF StreamInv

LEMMA RecvNothingStream ==
    ASSUME NetInv, StreamInv, RecvTcpNothing
    PROVE  StreamInv' /\ QueueStep
<1>0. /\ opened \in 0 .. MaxConns /\ MaxConns \in Nat /\ tcp_client_sock \in 0 .. opened
      /\ wire \in [Conns -> Seq(Digits)] /\ stream_buf \in Seq(Digits)
    BY TransportAssumption DEF NetInv, StreamInv
<1>1. /\ tcp_client_sock # 0 /\ tcp_client_sock' = 0 /\ stream_buf' = <<>>
      /\ UNCHANGED <<opened, wire, eof, backlog, got>>
    BY DEF RecvTcpNothing, RecvNothing, netVars
<1>2. wire[tcp_client_sock] = <<>>
  <2>1. Len(stream_buf) < BufSize /\ Len(stream_buf) \in Nat /\ BufSize \in Nat
        BY <1>0, RoomInBuffer, TcpAssumption
  <2>2. Len(stream_buf) # BufSize
        BY <2>1
  <2> QED BY <2>2 DEF RecvTcpNothing
<1>3. Framed(stream_buf)' = <<>>
    BY <1>1, EmptyIsWhole
<1>4. CASE backlog = <<>>
  <2>1. Current = tcp_client_sock /\ Current' = 0
        BY <1>1, <1>4 DEF Current
  <2>2. Stream = stream_buf
    <3>1. stream_buf \o <<>> = stream_buf
          BY <1>0, ConcatEmptySeq
    <3> QED BY <1>1, <1>2, <2>1, <3>1 DEF Stream
  <2>3. Stream' = <<>>
    <3>1. <<>> \o <<>> = <<>>
          OBVIOUS
    <3> QED BY <1>1, <2>1, <3>1 DEF Stream
  <2>4. Good(Stream)' /\ Whole(Stream)' /\ Framed(Stream)' = <<>>
    <3>1. Good(<<>>) /\ Whole(<<>>) /\ Framed(<<>>) = <<>>
          BY EmptyIsWhole, WholeIsGood
    <3> QED BY <2>3, <3>1
  <2>5. QueueStep
    <3>1. Framed(Stream) = <<>>
          BY <2>2 DEF StreamInv
    <3> QED BY <1>1, <2>4, <3>1 DEF QueueStep
  <2> QED BY <1>1, <1>3, <1>4, <2>4, <2>5 DEF StreamInv
<1>5. CASE backlog # <<>>
  <2>1. Current = opened /\ Current' = opened /\ stream_buf = <<>>
        BY <1>1, <1>5 DEF Current, StreamInv
  <2>2. Stream' = Stream
        BY <1>1, <2>1 DEF Stream
  <2>3. (Good(Stream) /\ (Current \notin eof => Whole(Stream)))'
    <3>1. Good(Stream) /\ (Current \notin eof => Whole(Stream))
          BY DEF StreamInv
    <3> QED BY <1>1, <2>1, <2>2, <3>1
  <2>4. QueueStep
        BY <1>1, <2>2 DEF QueueStep
  <2>5. opened # 0 /\ backlog = <<opened>>
        BY <1>5 DEF StreamInv
  <2> QED BY <1>0, <1>1, <1>3, <2>3, <2>4, <2>5 DEF StreamInv
<1> QED BY <1>4, <1>5

LEMMA NetInductive ==
    ASSUME NetInv, StreamInv, [Next]_vars
    PROVE  NetInv'
<1>0. /\ opened \in 0 .. MaxConns /\ MaxConns \in Nat /\ tcp_client_sock \in 0 .. opened
      /\ sent \in 0 .. MaxPackets /\ MaxPackets \in Nat
    BY TransportAssumption DEF NetInv
<1>1. LossInv' /\ SessionInv'
    BY LossInvInductive, SessionInductive DEF NetInv
<1>2. CASE BeginUdp
    BY <1>1, <1>2 DEF BeginUdp, tcpVars, statsVars, netVars, NetInv
<1>3. CASE Connect
  <2>1. opened + 1 \in 0 .. MaxConns /\ 1 .. opened \subseteq 1 .. opened + 1
        /\ 0 .. opened \subseteq 0 .. opened + 1
        BY <1>0, <1>3 DEF Connect
  <2> QED BY <1>1, <1>3, <2>1 DEF Connect, tcpVars, statsVars, udpVars, NetInv
<1>4. CASE CloseRefused
  <2>1. tcp_sock \in 1 .. opened
        BY <1>4 DEF CloseRefused, TcpRefused, NetInv, SessionInv
  <2> QED BY <1>1, <1>4, <2>1 DEF CloseRefused, tcpVars, statsVars, udpVars, NetInv
<1>5. CASE BeginElse
    BY <1>1, <1>5 DEF BeginElse, tcpVars, statsVars, udpVars, netVars, NetInv
<1>6. CASE End
    BY <1>1, <1>6 DEF End, tcpVars, statsVars, udpVars, netVars, NetInv
<1>7. CASE Crash
    BY <1>0, <1>1, <1>7 DEF Crash, tcpVars, statsVars, udpVars, NetInv
<1>8. CASE SendUdp
    BY <1>0, <1>1, <1>8 DEF SendUdp, tcpVars, sessionVars, statsVars, netVars, NetInv
<1>9. CASE SendReport
    BY <1>0, <1>1, <1>9 DEF SendReport, tcpVars, sessionVars, statsVars, netVars, NetInv
<1>10. CASE SendTcp
    BY <1>0, <1>1, <1>10 DEF SendTcp, tcpVars, sessionVars, statsVars, udpVars, NetInv
<1>11. CASE Lose \/ LoseReport
    BY <1>1, <1>11 DEF Lose, LoseReport, tcpVars, sessionVars, statsVars, netVars, NetInv
<1>12. CASE Break
    BY <1>0, <1>1, <1>12 DEF Break, tcpVars, sessionVars, statsVars, udpVars, NetInv
<1>13. CASE RecvRtp
    BY <1>1, <1>13 DEF RecvRtp, Count, tcpVars, sessionVars, netVars, NetInv
<1>14. CASE RecvRtcp
    BY <1>1, <1>14 DEF RecvRtcp, SenderReport, tcpVars, sessionVars, netVars, NetInv
<1>15. CASE AcceptNext
  <2>1. Head(backlog) = opened
    <3>1. backlog = <<opened>>
          BY <1>15 DEF AcceptNext, StreamInv
    <3> QED BY <3>1
  <2> QED BY <1>0, <1>1, <1>15, <2>1 DEF AcceptNext, Accept, sessionVars, statsVars, udpVars, NetInv
<1>16. CASE RecvTcp
    BY <1>0, <1>1, <1>16 DEF RecvTcp, RecvBytes, Count, sessionVars, udpVars, NetInv
<1>17. CASE RecvTcpNothing
    BY <1>0, <1>1, <1>17 DEF RecvTcpNothing, RecvNothing, sessionVars, statsVars, udpVars, netVars,
                             NetInv
<1>18. CASE UNCHANGED vars
    BY <1>1, <1>18 DEF vars, tcpVars, sessionVars, statsVars, udpVars, netVars, NetInv
<1> QED BY <1>2, <1>3, <1>4, <1>5, <1>6, <1>7, <1>8, <1>9, <1>10, <1>11, <1>12, <1>13, <1>14, <1>15,
           <1>16, <1>17, <1>18 DEF Next, Device, Network, Platform

LEMMA StreamInductive ==
    ASSUME NetInv, StreamInv, ~Overlap, [Next]_vars
    PROVE  StreamInv' /\ QueueStep
<1>1. CASE /\ UNCHANGED <<wire, stream_buf, opened, backlog, tcp_client_sock, got>>
           /\ eof \subseteq eof'
    BY <1>1, StreamStands
<1>2. CASE Connect
  <2>1. UNCHANGED <<tcp_client_sock, stream_buf, eof>>
        BY <1>2 DEF Connect, tcpVars
  <2> QED BY <1>2, <2>1, ConnectStream
<1>3. CASE CloseRefused
    BY <1>1, <1>3 DEF CloseRefused, tcpVars
<1>4. CASE BeginUdp \/ BeginElse \/ End \/ Crash \/ SendUdp \/ SendReport
    BY <1>1, <1>4 DEF BeginUdp, BeginElse, End, Crash, SendUdp, SendReport, tcpVars, netVars
<1>5. CASE Lose \/ LoseReport
    BY <1>1, <1>5 DEF Lose, LoseReport, tcpVars, netVars
<1>6. CASE RecvRtp \/ RecvRtcp
    BY <1>1, <1>6 DEF RecvRtp, RecvRtcp, tcpVars, netVars
<1>7. CASE UNCHANGED vars
    BY <1>1, <1>7 DEF vars, tcpVars, netVars
<1> QED BY <1>2, <1>3, <1>4, <1>5, <1>6, <1>7, SendTcpStream, BreakStream, AcceptStream,
           RecvTcpStream, RecvNothingStream DEF Next, Device, Network, Platform

LEMMA StreamInit == Init => NetInv /\ StreamInv /\ Queue = <<>>
<1> SUFFICES ASSUME Init PROVE NetInv /\ StreamInv /\ Queue = <<>>
    OBVIOUS
<1>1. LossInv
    BY DEF Init, StatsInit, LossInv
<1>2. NetInv
  <2>1. /\ opened = 0 /\ tcp_client_sock = 0 /\ eof = {} /\ sent = 0
        /\ packet_count = 0 /\ srs = {} /\ have_last_sr = FALSE
        BY DEF Init, TcpInit, StatsInit
  <2>2. 0 \in 0 .. MaxConns /\ 0 \in 0 .. MaxPackets /\ 0 \in 0 .. 0
        BY TransportAssumption
  <2> QED BY <1>1, <2>1, <2>2, SessionStarts DEF NetInv
<1>3. Stream = <<>> /\ Current = 0
  <2>1. Current = 0
        BY DEF Init, TcpInit, Current
  <2>2. <<>> \o <<>> = <<>>
        OBVIOUS
  <2> QED BY <2>1, <2>2 DEF Init, TcpInit, Stream
<1>4. Good(Stream) /\ Whole(Stream) /\ Framed(Stream) = <<>> /\ Framed(<<>>) = <<>>
    BY <1>3, EmptyIsWhole, WholeIsGood
<1>5. StreamInv
  <2>1. <<>> \in Seq(Digits) /\ <<>> \in Seq(Payloads)
        BY EmptySeq
  <2> QED BY <1>4, <2>1 DEF Init, TcpInit, StreamInv
<1> QED BY <1>2, <1>4, <1>5, QueueIsFramed

\* Wherever the stream is cut into reads and whenever a connection breaks, what
\* the receiver holds of it, and what it has taken of it, can be.  A connection
\* is made only when the last is read to its end: otherwise the residue of the
\* one becomes the beginning of the other.
THEOREM TransportTypeCorrect ==
    ASSUME ~Overlap
    PROVE  Spec => []TransportTypeOK
<1>1. NetInv /\ StreamInv /\ [Next]_vars => (NetInv /\ StreamInv)'
    BY NetInductive, StreamInductive
<1>2. NetInv /\ StreamInv => TransportTypeOK
  <2> SUFFICES ASSUME NetInv, StreamInv PROVE TransportTypeOK
      OBVIOUS
  <2>1. Len(stream_buf) <= BufSize
        BY RoomInBuffer, TcpAssumption DEF StreamInv
  <2>2. backlog \in Seq(1 .. opened)
    <3>1. opened # 0 => opened \in 1 .. opened
          BY TransportAssumption DEF NetInv
    <3>2. <<>> \in Seq(1 .. opened)
          BY EmptySeq
    <3>3. ASSUME opened \in 1 .. opened PROVE <<opened>> \in Seq(1 .. opened)
          BY <3>3
    <3> QED BY <3>1, <3>2, <3>3 DEF StreamInv
  <2>3. {rtp_rx_count, sr_packets, packet_count, in_flight, missing, sent} \subseteq Nat
    <3>1. sent \in Nat /\ packet_count \in Nat
          BY TransportAssumption DEF NetInv
    <3> QED BY <3>1 DEF NetInv, LossInv
  <2>4. srs \subseteq 1 .. MaxPackets
    <3>1. sent \in 0 .. MaxPackets /\ MaxPackets \in Nat /\ srs \subseteq 1 .. sent
          BY TransportAssumption DEF NetInv
    <3>2. 1 .. sent \subseteq 1 .. MaxPackets
          BY <3>1
    <3> QED BY <3>1, <3>2
  <2>5. /\ wire \in [Conns -> Seq(0 .. (Base - 1))] /\ stream_buf \in Seq(0 .. (Base - 1))
        /\ got \in Seq(Payloads)
        BY DEF StreamInv, Digits
  <2>6. tcp_sock \in 0 .. opened
        BY DEF NetInv, SessionInv
  <2> QED BY <2>1, <2>2, <2>3, <2>4, <2>5, <2>6 DEF NetInv, SessionInv, TransportTypeOK
<1> QED BY <1>1, <1>2, StreamInit, PTL DEF Spec

\* There is always room for another recv behind the residue, so that a recv
\* that returns 0 is the end of the connection.
THEOREM AlwaysRoomInBuffer ==
    ASSUME ~Overlap
    PROVE  Spec => []BufferHasRoom
<1>1. NetInv /\ StreamInv /\ [Next]_vars => (NetInv /\ StreamInv)'
    BY NetInductive, StreamInductive
<1>2. NetInv /\ StreamInv => BufferHasRoom
    BY RoomInBuffer DEF BufferHasRoom
<1> QED BY <1>1, <1>2, StreamInit, PTL DEF Spec

\* The framing implements the queue of packets: every step of sender, network
\* and receiver appends a packet, takes some from the front, drops some at the
\* end, or changes nothing of the queue.
THEOREM FramingRefinesQueue ==
    ASSUME ~Overlap
    PROVE  Spec => FramingImplementsQueue
<1>1. NetInv /\ StreamInv /\ [Next]_vars => (NetInv /\ StreamInv)'
    BY NetInductive, StreamInductive
<1>2. Init => Abstract!Init
    BY StreamInit DEF Init, Abstract!Init
<1>3. NetInv /\ StreamInv /\ (NetInv /\ StreamInv)' /\ [Next]_vars
        => [Abstract!Next]_<<Queue, got>>
  <2> SUFFICES ASSUME NetInv, StreamInv, (NetInv /\ StreamInv)', [Next]_vars
               PROVE  [Abstract!Next]_<<Queue, got>>
      OBVIOUS
  <2>1. QueueStep
        BY StreamInductive
  <2>2. Queue = Framed(Stream)
        BY QueueIsFramed
  <2>3. Queue' = Framed(Stream)'
    <3>1. (NetInv /\ StreamInv => Queue = Framed(Stream))'
          BY QueueIsFramed, PTL
    <3> QED BY <3>1
  <2> HIDE DEF Queue, Stream
  <2>4. \/ Queue' = Queue /\ got' = got
        \/ (\E p \in Payloads : Queue' = Append(Queue, p)) /\ got' = got
        \/ \E n \in 1 .. Len(Queue) :
             got' = got \o SubSeq(Queue, 1, n) /\ Queue' = SubSeq(Queue, n + 1, Len(Queue))
        \/ \E n \in 0 .. Len(Queue) - 1 : Queue' = SubSeq(Queue, 1, n) /\ got' = got
        BY <2>1, <2>2, <2>3 DEF QueueStep
  <2> QED BY <2>4 DEF Abstract!Next, Abstract!Send, Abstract!Deliver, Abstract!Break
<1> QED BY <1>1, <1>2, <1>3, StreamInit, PTL DEF Spec, FramingImplementsQueue, Abstract!Spec
=============================================================================
