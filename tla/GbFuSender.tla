----------------------------- MODULE GbFuSender -----------------------------
(***************************************************************************)
(* The sending side of gb28181_module.cpp: gb28181_send_rtp_packet and the *)
(* three functions that cut a payload into RTP packets with it,            *)
(* gb28181_send_rtp_payload_fragmented, gb28181_send_h264_fu_a and         *)
(* gb28181_send_h265_fu.  Their caller makes the calls of Stream one after *)
(* the other and, like the device's streaming tick, goes on after a failed *)
(* one.  One action sends one packet.                                      *)
(*                                                                         *)
(* rtp_seq and rtp_timestamp are those of jrtplib, which the packets show; *)
(* the module's fields of these names are written and never read.          *)
(*                                                                         *)
(* Left out: the marker (set on the last packet of a call, read by nobody) *)
(* and the checks of arguments, which Stream passes.                       *)
(***************************************************************************)
EXTENDS Integers, SequencesExt, FiniteSetsExt

CONSTANTS
    SeqModulus,    \* 2^16
    FirstSeq,      \* the first sequence number, random in the library
    MaxPayload,    \* max_payload_size
    SendFails,     \* TRUE: SendPacket may fail
    Stream         \* the calls: function, header, body, timestamp_inc

VARIABLES
    call,           \* the call that is being made
    offset,         \* bytes of its body already sent
    rtp_seq, rtp_timestamp

Calls == 1 .. Len(Stream)
IsFu(c) == Stream[c].function \in {"h264_fu_a", "h265_fu"}

\* Bytes of every packet that are not payload: FU indicator and header, or
\* the two bytes of an H.265 payload header and the FU header.
Overhead(function) ==
    CASE function = "h264_fu_a" -> 2
      [] function = "h265_fu" -> 3
      [] OTHER -> 0

ChunkSize(c) ==
    LET remaining == Len(Stream[c].body) - offset
    IN  IF Stream[c].function = "rtp_packet" THEN remaining
        ELSE Min({remaining, MaxPayload - Overhead(Stream[c].function)})

IsLast(c) == offset + ChunkSize(c) >= Len(Stream[c].body)

\* The packet of the next chunk; a fragment keeps the header bits of its NALU
\* and says in S and E whether it is the first and the last one.
Packet(c) ==
    [call |-> c, fu |-> IsFu(c),
     seq |-> rtp_seq, timestamp |-> rtp_timestamp,
     is_h265 |-> Stream[c].function = "h265_fu",
     kept |-> Stream[c].kept, type |-> Stream[c].type,
     start |-> IsFu(c) /\ offset = 0, end |-> IsFu(c) /\ IsLast(c),
     data |-> SubSeq(Stream[c].body, offset + 1, offset + ChunkSize(c))]

\* The library counts the packets it builds, sent or not; the timestamp
\* advances after the last packet of a call.
Count(c) ==
    /\ rtp_seq' = (rtp_seq + 1) % SeqModulus
    /\ rtp_timestamp' = rtp_timestamp + (IF IsLast(c) THEN Stream[c].timestamp_inc ELSE 0)

NextCall ==
    /\ call' = call + 1
    /\ offset' = 0

\* One turn of the loop, which sends Packet(call)
SendChunk ==
    /\ call \in Calls
    /\ Count(call)
    /\ \/ IsLast(call) /\ NextCall
       \/ ~IsLast(call) /\ offset' = offset + ChunkSize(call) /\ UNCHANGED call

\* SendPacket failed, before or after the packet was built: the call is over.
SendChunkFails ==
    /\ call \in Calls /\ SendFails
    /\ NextCall
    /\ Count(call) \/ UNCHANGED <<rtp_seq, rtp_timestamp>>

SenderInit ==
    /\ call = 1 /\ offset = 0
    /\ rtp_seq = FirstSeq /\ rtp_timestamp = 0
=============================================================================
