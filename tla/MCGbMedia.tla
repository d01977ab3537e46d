----------------------------- MODULE MCGbMedia -----------------------------
(* Instances of GbMedia for TLC: every byte of a stream is different, so   *)
(* that no two bodies can be taken for each other.                         *)
EXTENDS GbMedia

Body(n, size) == [i \in 1 .. size |-> <<n, i>>]
Call(n, function, size, inc) ==
    [function |-> function, kept |-> IF function = "h265_fu" THEN "layer" ELSE "nri",
     type |-> IF function \in {"h264_fu_a", "h265_fu"} THEN "idr" ELSE "other",
     body |-> Body(n, size), timestamp_inc |-> inc]

\* With MaxPayload 4 an H.264 fragment has two bytes and an H.265 fragment
\* one: NALUs of 4 fragments (one too many, and longer than the buffer), 3 and
\* 1, the last two with the same timestamp, and a PS pack of two packets, the
\* second of which looks like a whole NALU.  A call whose last
\* packet is not counted leaves its timestamp to the next one.
MCStream == <<Call(1, "h264_fu_a", 7, 1), Call(2, "h265_fu", 3, 0),
              Call(3, "h264_fu_a", 1, 1), Call(4, "payload_fragmented", 7, 0)>>
MCFuLike == <<4, 5>> :> [is_h265 |-> FALSE, kept |-> "nri", type |-> "idr",
                         start |-> TRUE, end |-> TRUE]

\* A parameter set and NALUs of 4 and 3 fragments, the first of which can fill
\* the window
MCTwoNalus == <<Call(1, "rtp_packet", 1, 0), Call(2, "h264_fu_a", 8, 1),
                Call(3, "h264_fu_a", 6, 1)>>

MCFuHeader == <<0, 0>>
MCBytes == (1 .. 4) \X (1 .. 8) \cup {MCFuHeader}
MCKept == {"nri", "layer"}
MCTypes == {"idr", "other"}
=============================================================================
