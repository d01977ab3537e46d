------------------------------ MODULE GbMedia ------------------------------
(***************************************************************************)
(* From the sender's NALUs to the receiver's file: the fragmentation of    *)
(* GbFuSender, the packets on their way, the reassembly of GbFuReassembly. *)
(*                                                                         *)
(* "network" says what happens to the packets on the way:                  *)
(*   fifo     nothing                                                      *)
(*   lossy    some are lost                                                *)
(*   repeat   some arrive twice in a row                                   *)
(*   shuffle  fragments of one NALU overtake each other, by no more than   *)
(*            the window, but not the first one                            *)
(*   gaps     the same, and some are lost                                  *)
(*   early    as shuffle, and they may overtake the first one              *)
(*   any      lost, repeated, late by more than the timeout, in any order  *)
(***************************************************************************)
EXTENDS GbFuReassembly

CONSTANTS FirstSeq, MaxPayload, SendFails, Stream,  \* see GbFuSender
          FuLike,         \* bytes that begin a payload like a fragment's headers
          Networks,       \* the kinds of network, see above
          MaxInFlight,    \* bound: packets on their way
          MaxRepeats      \* bound: packets that arrive twice

VARIABLES
    call, offset, rtp_seq, rtp_timestamp,  \* see GbFuSender
    network,
    wire,      \* packets on their way, as they were sent
    repeats,
    damaged,   \* history: the calls some packet of which was lost
    misread    \* history: 0, or the number of the first NALU of the file that
               \* was written after a packet was taken for what it is not

S == INSTANCE GbFuSender

mediaVars == <<fuVars, call, offset, rtp_seq, rtp_timestamp, network, wire,
               repeats, damaged, misread>>

ASSUME MediaAssumption ==
    /\ Networks \subseteq {"fifo", "lossy", "repeat", "shuffle", "gaps", "early", "any"}
    /\ MaxInFlight \in Nat \ {0} /\ MaxRepeats \in Nat
    /\ FirstSeq \in SeqNumbers /\ SendFails \in BOOLEAN
    /\ MaxPayload \in Nat /\ MaxPayload > 3
    /\ Stream \in Seq([function : {"rtp_packet", "payload_fragmented",
                                   "h264_fu_a", "h265_fu"},
                       kept : KeptBits, type : NaluTypes,
                       body : Seq(Bytes) \ {<<>>}, timestamp_inc : Nat])
    /\ \A b \in DOMAIN FuLike :
          b \in Bytes /\ FuLike[b] \in [is_h265 : BOOLEAN, kept : KeptBits,
                                        type : NaluTypes, start : BOOLEAN, end : BOOLEAN]

\* Where packets come in any order no property asks what was lost.
Damage(c) == IF network = "any" THEN damaged ELSE damaged \cup {c}

Send ==
    /\ Len(wire) < MaxInFlight
    /\ \/ /\ S!SendChunk
          /\ wire' = Append(wire, S!Packet(call))
          /\ UNCHANGED damaged
       \/ /\ S!SendChunkFails
          /\ damaged' = Damage(call)
          /\ UNCHANGED wire
    /\ UNCHANGED <<fuVars, network, repeats, misread>>

\* The packets that may arrive next
SameNalu(i) == \A j \in 1 .. i : wire[j].call = wire[i].call /\ wire[j].fu
Near(i) == (wire[i].seq - wire[1].seq) % SeqModulus <= Window
Arriving ==
    {i \in DOMAIN wire :
       \/ i = 1
       \/ network = "any"
       \/ network \in {"shuffle", "gaps"} /\ SameNalu(i) /\ Near(i) /\ ~wire[1].start
       \/ network = "early" /\ SameNalu(i) /\ Near(i)}

\* print_rtp_packet_summary guesses from the first bytes what a payload is.
\* The header of a fragment is unmistakable, but any other piece of a body may
\* begin with its bytes; here one byte stands for those two or three.
Mistaken(p) ==
    /\ ~p.fu /\ p.data # <<>> /\ Head(p.data) \in DOMAIN FuLike
    /\ Len(p.data) > HeaderSize(FuLike[Head(p.data)].is_h265)
Guess(p) ==
    LET g == FuLike[Head(p.data)]
    IN  [seq |-> p.seq, timestamp |-> p.timestamp, is_h265 |-> g.is_h265,
         kept |-> g.kept, type |-> g.type, start |-> g.start, end |-> g.end,
         data |-> SubSeq(p.data, HeaderSize(g.is_h265) + 2, Len(p.data))]

\* Cut as a fragment of the other codec
Miscut(p) == p.fu /\ p.is_h265 # nalu.is_h265 /\ (Store(p) \/ Continue(p))

Receive(p) ==
    /\ \/ p.fu /\ HandlePacket(p)
       \/ Mistaken(p) /\ HandlePacket(Guess(p))
       \/ ~p.fu /\ ~Mistaken(p) /\ UNCHANGED fuVars
    /\ misread' = IF misread = 0 /\ (Mistaken(p) \/ Miscut(p))
                  THEN Len(written) + 1 ELSE misread

Arrive ==
    \E i \in Arriving :
      /\ Receive(wire[i])
      /\ \/ wire' = RemoveAt(wire, i) /\ UNCHANGED repeats
         \/ /\ network \in {"repeat", "any"} /\ repeats < MaxRepeats
            /\ repeats' = repeats + 1
            /\ UNCHANGED wire
        /\ UNCHANGED <<call, offset, rtp_seq, rtp_timestamp, network, damaged>>

Lose ==
    /\ network \in {"lossy", "gaps", "any"} /\ wire # <<>>
    /\ damaged' = Damage(wire[1].call)
    /\ wire' = Tail(wire)
    /\ UNCHANGED <<fuVars, call, offset, rtp_seq, rtp_timestamp, network, repeats,
                   misread>>

\* Packets are late.
Delay ==
    /\ network = "any" /\ Expire
    /\ UNCHANGED <<call, offset, rtp_seq, rtp_timestamp, network, wire, repeats, damaged,
                   misread>>

AllSent == call > Len(Stream)
Quiet == AllSent /\ wire = <<>>
Finished == Quiet /\ UNCHANGED mediaVars

MediaInit ==
    /\ FuInit /\ S!SenderInit
    /\ network \in Networks
    /\ wire = <<>> /\ repeats = 0 /\ damaged = {} /\ misread = 0

MediaNext == Send \/ Arrive \/ Lose \/ Delay \/ Finished

MediaSpec == MediaInit /\ [][MediaNext]_mediaVars

-----------------------------------------------------------------------------
(* Properties.                                                             *)

\* The NALU of a call, as far as the receiver's buffer holds it
Whole(c) ==
    LET f == Stream[c]
        is_h265 == f.function = "h265_fu"
    IN  [is_h265 |-> is_h265, kept |-> f.kept, type |-> f.type,
         body |-> Buffered(is_h265, f.body)]

FuCalls == {c \in S!Calls : S!IsFu(c)}
Fragmented(c) ==
    LET room == MaxPayload - S!Overhead(Stream[c].function)
    IN  (Len(Stream[c].body) + room - 1) \div room

\* The part of the file that was written before any packet was misread.  Behind
\* it nothing is promised.
Trusted == IF misread = 0 THEN written ELSE SubSeq(written, 1, misread - 1)

Received == {c \in FuCalls : Whole(c) \in ToSet(written)}

\* The types of the sender, the receiver and the packets between them.
MediaTypeOK ==
    /\ FuTypeOK
    /\ call \in 1 .. Len(Stream) + 1 /\ offset \in Nat
    /\ rtp_seq \in SeqNumbers /\ rtp_timestamp \in Nat
    /\ \A p \in ToSet(wire) : [f \in {"seq", "timestamp", "is_h265", "kept", "type",
                                      "start", "end", "data"} |-> p[f]] \in Fragments
    /\ repeats \in 0 .. MaxRepeats /\ damaged \subseteq S!Calls
    /\ misread \in 0 .. Len(written) + 1

\* What reaches the file is a NALU that was sent, from its header to its last
\* fragment: never a gap, never bytes of two NALUs, whatever is lost,
\* repeated, late, out of order, or given up by the sender, as long as no
\* packet was misread.
OnlyWholeNalus == \A n \in ToSet(Trusted) : \E c \in FuCalls : n = Whole(c)

\* study 10.4: a loss costs the NALU it hits and no other.  A NALU none of
\* whose packets was lost is received, if it has no more fragments than the
\* receiver waits for; a NALU with a lost packet is not.  No packet may have
\* been misread.
LossIsIsolated ==
    Quiet /\ misread = 0 /\ network \notin {"gaps", "early", "any"} =>
      /\ Received \subseteq FuCalls \ damaged
      /\ \A c \in FuCalls \ damaged : Fragmented(c) <= MaxFragments => c \in Received

\* The file has the NALUs in the order they were sent, and again only when a
\* repeated packet was a NALU of its own.
InOrder ==
    network # "any" =>
      \A i, j \in DOMAIN Trusted :
        i < j => \E c, d \in FuCalls :
                   /\ Trusted[i] = Whole(c) /\ Trusted[j] = Whole(d)
                   /\ c < d \/ (c = d /\ Fragmented(c) = 1 /\ repeats > 0)

\* study 10.4, the row on reordering (the window is for the current NALU):
\* what a NALU with a gap has left in the window must not cost the next one.
GapIsIsolated ==
    Quiet /\ misread = 0 /\ network = "gaps" =>
      \A c \in FuCalls \ damaged : Fragmented(c) <= MaxFragments => c \in Received

\* The networks that lose packets, repeat them, or shuffle fragments of one NALU,
\* and do only one of these.  Of the others no file is promised.
Tame == network \in {"fifo", "lossy", "repeat", "shuffle"}

Fitting == {c \in FuCalls : Fragmented(c) <= MaxFragments}
Single == {c \in FuCalls : Fragmented(c) = 1}
\* The file as the calls its NALUs are of; where NALUs differ there is one
\* answer.
CallOf(n) == CHOOSE c \in FuCalls : Whole(c) = n
File == IF Tame THEN [i \in DOMAIN Trusted |-> CallOf(Trusted[i])] ELSE <<>>
Hit == IF Tame THEN damaged ELSE {}

Abstract == INSTANCE GbNaluFile WITH
    Nalus <- FuCalls,
    Fitting <- Fitting,
    Single <- Single,
    next <- call,
    hit <- Hit,
    file <- File

\* What gb28181_send_h264_fu_a and gb28181_send_h265_fu cut and
\* fu_a_reassembly_handle_packet puts together is the file of GbNaluFile: a NALU
\* is written after those before it, and not before each of them is written,
\* was hit, or is too long.
MediaImplementsFile == Abstract!Spec

=============================================================================
