----------------------------- MODULE GbTransport -----------------------------
(***************************************************************************)
(* What lies between the device's RTP session (GbRtpSession) and the       *)
(* platform's reception (GbTcpReceiver, GbRtcpStats): UDP, which loses and *)
(* delays, and TCP connections, which cut the stream anywhere and break.   *)
(* A datagram or a byte in flight may already wait in the receiver's       *)
(* socket.                                                                 *)
(***************************************************************************)
EXTENDS GbTcpReceiver, GbRtpSession, GbRtcpStats, SequencesExt

CONSTANTS
    Payloads,      \* RTP and RTCP packets, as sequences of bytes
    MaxPackets,    \* bound: packets and reports sent
    MaxConns,      \* bound: connections made
    Overlap        \* may a connection be made before the last one is drained?

\* A length takes two bytes, and the buffer holds any packet with its length.
ASSUME TransportAssumption ==
    /\ MaxPackets \in Nat /\ MaxConns \in Nat /\ Overlap \in BOOLEAN
    /\ \A p \in Payloads :
          /\ p \in Seq(0..(Base - 1)) /\ Len(p) \in 1..(Base * Base - 1)
          /\ Len(p) + 2 <= BufSize

VARIABLES
    packet_count,  \* RTP packets of the UDP session, as its reports say
    in_flight,     \* UDP packets under way
    missing,       \* UDP packets that did not arrive: lost or under way
    srs,           \* sender reports under way
    opened,        \* connections made so far
    wire,          \* bytes of each connection that are not yet read
    eof,           \* connections that are closed or broken
    backlog,       \* connections that wait for accept
    got,           \* packets received over TCP
    sent           \* packets and reports sent, for the bound

udpVars == <<packet_count, in_flight, missing, srs>>
netVars == <<opened, wire, eof, backlog>>
vars == <<tcpVars, sessionVars, statsVars, udpVars, netVars, got, sent>>

Conns == 1..MaxConns

\* Nothing of an earlier connection is left to read.
Drained ==
    /\ backlog = <<>> /\ stream_buf = <<>>
    /\ tcp_client_sock # 0 => wire[tcp_client_sock] = <<>>

\* A connection whose bytes can still reach the platform
Alive(c) ==
    c \notin eof /\ (c = tcp_client_sock \/ c \in ToSet(backlog))

-----------------------------------------------------------------------------
\* The device.

BeginUdp ==
    /\ UdpStarted
    /\ packet_count' = 0
    /\ UNCHANGED <<tcpVars, statsVars, in_flight, missing, srs, netVars, got, sent>>

\* The connection stands before AddDestination: the platform may accept it,
\* and it may break, in the middle of the start.
Connect ==
    /\ ConnectTcp(opened + 1)
    /\ opened < MaxConns
    /\ Overlap \/ Drained
    /\ opened' = opened + 1
    /\ backlog' = Append(backlog, opened + 1)
    /\ UNCHANGED <<tcpVars, statsVars, udpVars, wire, eof, got, sent>>

\* Mutant: the session is destroyed, and the connection stays open
CloseRefusedSessionOnly ==
    /\ TcpRefused
    /\ UNCHANGED <<tcpVars, statsVars, udpVars, netVars, got, sent>>
CloseRefused ==
    /\ TcpRefused
    /\ eof' = eof \cup {tcp_sock}
    /\ UNCHANGED <<tcpVars, statsVars, udpVars, opened, wire, backlog, got, sent>>

\* Nothing reaches the network.
BeginElse ==
    /\ \/ CreateUdp \/ UdpRefused \/ StartPassive
       \/ CreateTcp \/ ConnectFails \/ TcpStarted
    /\ UNCHANGED <<tcpVars, statsVars, udpVars, netVars, got, sent>>

End ==
    /\ Stop
    /\ UNCHANGED <<tcpVars, statsVars, udpVars, netVars, got, sent>>

Crash ==
    /\ Restart
    /\ eof' = eof \cup 1..opened
    /\ UNCHANGED <<tcpVars, statsVars, udpVars, opened, wire, backlog, got, sent>>

SendUdp ==
    /\ rtp_session = "udp" /\ sent < MaxPackets
    /\ packet_count' = packet_count + 1
    /\ in_flight' = in_flight + 1 /\ missing' = missing + 1
    /\ sent' = sent + 1
    /\ UNCHANGED <<tcpVars, sessionVars, statsVars, srs, netVars, got>>

SendReport ==
    /\ rtp_session = "udp" /\ packet_count > 0 /\ sent < MaxPackets
    /\ srs' = srs \cup {packet_count}
    /\ sent' = sent + 1
    /\ UNCHANGED <<tcpVars, sessionVars, statsVars, packet_count, in_flight,
                   missing, netVars, got>>

\* A report goes the same way, as one more frame.
SendTcp ==
    /\ rtp_session = "tcp" /\ sent < MaxPackets
    /\ \E p \in Payloads :
          wire' = IF Alive(tcp_sock)
                  THEN [wire EXCEPT ![tcp_sock] = @ \o Frame(p)] ELSE wire
    /\ sent' = sent + 1
    /\ UNCHANGED <<tcpVars, sessionVars, statsVars, udpVars, opened, eof,
                   backlog, got>>

-----------------------------------------------------------------------------
\* The network.

Lose ==
    /\ in_flight > 0 /\ in_flight' = in_flight - 1
    /\ UNCHANGED <<tcpVars, sessionVars, statsVars, packet_count, missing, srs,
                   netVars, got, sent>>

LoseReport ==
    /\ \E k \in srs : srs' = srs \ {k}
    /\ UNCHANGED <<tcpVars, sessionVars, statsVars, packet_count, in_flight,
                   missing, netVars, got, sent>>

\* What was written last may be lost with the connection.
Break ==
    /\ \E c \in 1..opened \ eof :
          /\ Alive(c)
          /\ eof' = eof \cup {c}
          /\ \E n \in 0..Len(wire[c]) :
                wire' = [wire EXCEPT ![c] = SubSeq(@, 1, n)]
    /\ UNCHANGED <<tcpVars, sessionVars, statsVars, udpVars, opened, backlog,
                   got, sent>>

-----------------------------------------------------------------------------
\* The platform.

RecvRtp ==
    /\ in_flight > 0 /\ in_flight' = in_flight - 1
    /\ missing' = missing - 1
    /\ Count(1)
    /\ UNCHANGED <<tcpVars, sessionVars, packet_count, srs, netVars, got, sent>>

RecvRtcp ==
    /\ \E k \in srs : srs' = srs \ {k} /\ SenderReport(k)
    /\ UNCHANGED <<tcpVars, sessionVars, packet_count, in_flight, missing,
                   netVars, got, sent>>

\* accept fails if the connection is already gone.
AcceptNext ==
    /\ backlog # <<>> /\ backlog' = Tail(backlog)
    /\ \/ Accept(Head(backlog))
       \/ Head(backlog) \in eof /\ Accept(0)
    /\ UNCHANGED <<sessionVars, statsVars, udpVars, opened, wire, eof, got, sent>>

RecvTcp ==
    /\ \E n \in 1..(IF tcp_client_sock = 0 THEN 0
                    ELSE Len(wire[tcp_client_sock])) :
          LET bytes == SubSeq(wire[tcp_client_sock], 1, n) IN
          /\ RecvBytes(bytes)
          /\ wire' = [wire EXCEPT ![tcp_client_sock] = SubSeq(@, n + 1, Len(@))]
          /\ got' = got \o Framed(stream_buf \o bytes)
          /\ Count(Len(Framed(stream_buf \o bytes)))
    /\ UNCHANGED <<sessionVars, udpVars, opened, eof, backlog, sent>>

RecvTcpNothing ==
    /\ \/ Len(stream_buf) = BufSize
       \/ tcp_client_sock \in eof /\ wire[tcp_client_sock] = <<>>
    /\ RecvNothing
    /\ UNCHANGED <<sessionVars, statsVars, udpVars, netVars, got, sent>>

-----------------------------------------------------------------------------
Init ==
    /\ TcpInit /\ SessionInit /\ StatsInit
    /\ packet_count = 0 /\ in_flight = 0 /\ missing = 0 /\ srs = {}
    /\ opened = 0 /\ wire = [c \in Conns |-> <<>>] /\ eof = {}
    /\ backlog = <<>>
    /\ got = <<>> /\ sent = 0

Device ==
    \/ BeginUdp \/ Connect \/ CloseRefused \/ BeginElse \/ End \/ Crash
    \/ SendUdp \/ SendReport \/ SendTcp

Network == Lose \/ LoseReport \/ Break

Platform ==
    \/ RecvRtp \/ RecvRtcp \/ AcceptNext \/ RecvTcp \/ RecvTcpNothing

Next == Device \/ Network \/ Platform

\* The platform reads what arrives.  Nothing is assumed of the device.
Fairness ==
    /\ WF_vars(RecvRtp) /\ WF_vars(RecvRtcp)
    /\ WF_vars(AcceptNext) /\ WF_vars(RecvTcp) /\ WF_vars(RecvTcpNothing)

Spec == Init /\ [][Next]_vars /\ Fairness

-----------------------------------------------------------------------------
\* The buffer of the receiver, its connections and counters are what the
\* code can hold.
TransportTypeOK ==
    /\ tcp_client_sock \in 0..opened /\ opened \in 0..MaxConns
    /\ stream_buf \in Seq(0..(Base - 1)) /\ Len(stream_buf) <= BufSize
    /\ rtp_session \in {"none", "udp", "tcp", "passive"}
    /\ starting \in {"no", "udp", "tcp", "connected"}
    /\ tcp_sock \in 0..opened /\ ports \subseteq {"udp", "listen"}
    /\ wire \in [Conns -> Seq(0..(Base - 1))] /\ eof \subseteq 1..opened
    /\ backlog \in Seq(1..opened) /\ got \in Seq(Payloads)
    /\ {rtp_rx_count, sr_packets, packet_count, in_flight, missing,
        sent} \subseteq Nat
    /\ srs \subseteq 1..MaxPackets /\ have_last_sr \in BOOLEAN

\* While a connection is read there is room behind the residue (8192 bytes
\* against packets of 1400).  A recv into no room would return 0, which the
\* loop takes for the end of the connection.
BufferHasRoom ==
    tcp_client_sock # 0 => Len(stream_buf) < BufSize

\* The loss the platform prints is never more than what really did not
\* arrive: over several sessions of the device, reports that come late or
\* not at all, and packets still under way.
LossIsReal == Lost <= missing

\* A port of jrtplib is held exactly while its session is there or being
\* started: after a start that failed halfway (module:328-345), a stop or a new
\* process the next start finds it free.
PortIsHeldBySession == "udp" \in ports <=> "udp" \in {rtp_session, starting}

\* A start that fails closes the connection it has made: only gb28181_stop
\* forgets one that is still open.
OnlyStopForgetsConnections ==
    [][tcp_sock # 0 /\ tcp_sock' # tcp_sock => tcp_sock \in eof' \/ rtp_session = "tcp"]_vars

\* What the receiver frames are the packets that were sent, whole, in order
\* and once each, wherever the stream is cut and whenever it breaks.
Queue ==
    (IF tcp_client_sock = 0 THEN <<>>
     ELSE Framed(stream_buf \o wire[tcp_client_sock]))
    \o FlattenSeq([i \in DOMAIN backlog |-> Framed(wire[backlog[i]])])

Abstract == INSTANCE GbPacketQueue WITH Packets <- Payloads, queue <- Queue

FramingImplementsQueue == Abstract!Spec

\* Whole packets do not stay in the buffer, and the rest of a broken
\* connection goes with it.
EverythingIsRead == []<>(stream_buf = <<>> /\ backlog = <<>>)
=============================================================================
