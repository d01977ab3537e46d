---------------------------- MODULE GbPacketQueue ----------------------------
(***************************************************************************)
(* What RTP over TCP promises: whole packets, in the order in which they   *)
(* were sent, each once.  A connection that breaks loses the last ones.    *)
(***************************************************************************)
EXTENDS Naturals, Sequences

CONSTANT Packets

VARIABLES
    queue,    \* sent and not yet received
    got       \* received so far

Init == queue = <<>> /\ got = <<>>

Send(p) ==
    /\ queue' = Append(queue, p)
    /\ UNCHANGED got

\* One read of the receiver may bring several packets.
Deliver ==
    \E n \in 1..Len(queue) :
        /\ got' = got \o SubSeq(queue, 1, n)
        /\ queue' = SubSeq(queue, n + 1, Len(queue))

Break ==
    \E n \in 0..(Len(queue) - 1) :
        /\ queue' = SubSeq(queue, 1, n)
        /\ UNCHANGED got

Next ==
    \/ \E p \in Packets : Send(p)
    \/ Deliver
    \/ Break

Spec == Init /\ [][Next]_<<queue, got>>
=============================================================================
