---------------------------- MODULE GbRtpSession ----------------------------
(***************************************************************************)
(* The life of the device's RTP session: gb28181_create, _start, _stop and *)
(* _destroy of gb28181_module.cpp.  What start opens, and what is closed   *)
(* again, is the point; the ports are those of the process.                *)
(*                                                                         *)
(* gb28181_start takes one thing after the other and gives back what it    *)
(* has when the next step fails.  "starting" is how far it got:            *)
(*   "no"         it is not running                                        *)
(*   "udp"        Create has taken the RTP port                            *)
(*   "tcp"        Create has made a session without a port                 *)
(*   "connected"  the connection to the platform stands                    *)
(* A start that fails in its first call (Create, bind, listen) has nothing *)
(* to give back, and is no action.                                         *)
(***************************************************************************)
EXTENDS Naturals

VARIABLES
    rtp_session,    \* "none", or how it was started: "udp", "tcp", "passive"
    starting,       \* the place in gb28181_start
    tcp_sock,       \* the connection given to jrtplib, 0 for none
    ports           \* the local ports the process holds: "udp", "listen"

sessionVars == <<rtp_session, starting, tcp_sock, ports>>

Idle == rtp_session = "none" /\ starting = "no"

\* Destroy gives back the port of jrtplib.
Destroy == ports' = ports \ {"udp"}

\* Create binds the port.
CreateUdp ==
    /\ Idle /\ "udp" \notin ports
    /\ starting' = "udp"
    /\ ports' = ports \cup {"udp"}
    /\ UNCHANGED <<rtp_session, tcp_sock>>

\* The remote address does not parse, or AddDestination refuses it.
\* Mutant: the session is deleted, but not destroyed
UdpRefusedUndestroyed ==
    /\ starting = "udp" /\ starting' = "no"
    /\ UNCHANGED <<rtp_session, tcp_sock, ports>>
UdpRefused ==
    /\ starting = "udp" /\ starting' = "no"
    /\ Destroy
    /\ UNCHANGED <<rtp_session, tcp_sock>>

UdpStarted ==
    /\ starting = "udp" /\ starting' = "no"
    /\ rtp_session' = "udp"
    /\ UNCHANGED <<tcp_sock, ports>>

\* Only listen: nobody accepts, and the session is not even created.
StartPassive ==
    /\ Idle /\ "listen" \notin ports
    /\ rtp_session' = "passive"
    /\ ports' = ports \cup {"listen"}
    /\ UNCHANGED <<starting, tcp_sock>>

CreateTcp ==
    /\ Idle
    /\ starting' = "tcp"
    /\ UNCHANGED <<rtp_session, tcp_sock, ports>>

\* No socket, or no connection; a socket is closed.
ConnectFails ==
    /\ starting = "tcp" /\ starting' = "no"
    /\ Destroy
    /\ UNCHANGED <<rtp_session, tcp_sock>>

ConnectTcp(c) ==
    /\ starting = "tcp" /\ starting' = "connected"
    /\ tcp_sock' = c
    /\ UNCHANGED <<rtp_session, ports>>

\* AddDestination fails: the connection is closed, the session destroyed.
TcpRefused ==
    /\ starting = "connected" /\ starting' = "no"
    /\ tcp_sock' = 0
    /\ Destroy
    /\ UNCHANGED rtp_session

TcpStarted ==
    /\ starting = "connected" /\ starting' = "no"
    /\ rtp_session' = "tcp"
    /\ UNCHANGED <<tcp_sock, ports>>

\* The TCP connection and the listening socket, opened by the module itself,
\* stay open.
Stop ==
    /\ rtp_session # "none"
    /\ rtp_session' = "none" /\ tcp_sock' = 0
    /\ Destroy
    /\ UNCHANGED starting

\* The process ends, if need be in the middle of a start, and is started again.
Restart ==
    /\ rtp_session' = "none" /\ starting' = "no" /\ tcp_sock' = 0
    /\ ports' = {}

SessionInit == Idle /\ tcp_sock = 0 /\ ports = {}
=============================================================================
