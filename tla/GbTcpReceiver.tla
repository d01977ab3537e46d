---------------------------- MODULE GbTcpReceiver ----------------------------
(***************************************************************************)
(* The TCP side of the platform's media loop, gb28181_sip_mock_server.cpp  *)
(* 1446 to 1496: one connection, a residual buffer, and the framing of     *)
(* RFC 4571, two bytes of length before every packet.  Bytes are digits of *)
(* a small base, so that a length still takes two of them.                 *)
(***************************************************************************)
EXTENDS Integers, Sequences

CONSTANTS
    Base,      \* 256
    BufSize    \* 8192, sizeof(stream_buf)

ASSUME TcpAssumption == Base \in Nat \ {0, 1} /\ BufSize \in Nat \ {0}

VARIABLES
    tcp_client_sock,   \* the connection, 0 for -1
    stream_buf         \* its first stream_len bytes

tcpVars == <<tcp_client_sock, stream_buf>>

\* What jrtplib writes for one RTP or RTCP packet
Frame(payload) == <<Len(payload) \div Base, Len(payload) % Base>> \o payload

\* Mutant: the length is taken in the byte order of the host
RtpLenLittleEndian(bytes, processed) ==
    bytes[processed + 2] * Base + bytes[processed + 1]

\* rtp_len of the frame that begins after `processed` bytes
RtpLen(bytes, processed) == bytes[processed + 1] * Base + bytes[processed + 2]

\* Mutant: the last byte in the buffer is not counted
IsCompleteShort(bytes, processed) ==
    /\ processed + 2 <= Len(bytes)
    /\ RtpLen(bytes, processed) # 0
    /\ processed + 2 + RtpLen(bytes, processed) < Len(bytes)

IsComplete(bytes, processed) ==
    /\ processed + 2 <= Len(bytes)
    /\ RtpLen(bytes, processed) # 0
    /\ processed + 2 + RtpLen(bytes, processed) <= Len(bytes)

\* The values `processed` takes in the framing loop, after 0
Cuts(bytes) ==
    LET cuts[processed \in 0..Len(bytes)] ==
          IF IsComplete(bytes, processed)
          THEN LET next == processed + 2 + RtpLen(bytes, processed)
               IN  <<next>> \o cuts[next]
          ELSE <<>>
    IN  cuts[0]

Processed(bytes) ==
    LET ends == Cuts(bytes)
    IN  IF ends = <<>> THEN 0 ELSE ends[Len(ends)]

\* The packets that the loop hands to print_rtp_packet_summary
Framed(bytes) ==
    LET ends == Cuts(bytes)
    IN  [n \in DOMAIN ends |->
            SubSeq(bytes, (IF n = 1 THEN 0 ELSE ends[n - 1]) + 3, ends[n])]

\* Mutant: the residue is moved and the length reduced only if there is one
ResidueOfWhole(bytes) ==
    LET processed == Processed(bytes) IN
    IF processed < Len(bytes) THEN SubSeq(bytes, processed + 1, Len(bytes))
    ELSE bytes

Residue(bytes) == SubSeq(bytes, Processed(bytes) + 1, Len(bytes))

\* The previous connection is closed first, also when accept fails and c is
\* 0; its residue stays.
Accept(c) ==
    /\ tcp_client_sock' = c
    /\ UNCHANGED stream_buf

\* recv returned `bytes`
RecvBytes(bytes) ==
    /\ tcp_client_sock # 0
    /\ Len(bytes) \in 1..(BufSize - Len(stream_buf))
    /\ stream_buf' = Residue(stream_buf \o bytes)
    /\ UNCHANGED tcp_client_sock

\* recv returned 0 or an error: the end of the connection, or no room left
RecvNothing ==
    /\ tcp_client_sock # 0
    /\ tcp_client_sock' = 0
    /\ stream_buf' = <<>>

TcpInit == tcp_client_sock = 0 /\ stream_buf = <<>>
=============================================================================
