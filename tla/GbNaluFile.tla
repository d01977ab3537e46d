----------------------------- MODULE GbNaluFile -----------------------------
(***************************************************************************)
(* What fragmentation and reassembly promise together, over a network that *)
(* loses packets, repeats them, or shuffles those of one NALU: the file    *)
(* takes the NALUs one by one in the order of the calls that send them,    *)
(* and leaves out none but those that were hit on their way or are too     *)
(* long for the receiver.  A NALU that is one packet may come twice in a   *)
(* row.                                                                    *)
(*                                                                         *)
(* A NALU is the number of its call.                                       *)
(***************************************************************************)
EXTENDS Naturals, Sequences, SequencesExt

CONSTANTS
    Nalus,     \* the calls that send a NALU
    Fitting,   \* those whose NALU the receiver takes
    Single     \* those whose NALU is one packet

VARIABLES
    next,      \* the call that is being made
    hit,       \* the calls given up, or of which something was lost
    file       \* the NALUs received

Init == next = 1 /\ hit = {} /\ file = <<>>

\* The last byte of a call is on its way.
Pass ==
    /\ next' = next + 1
    /\ UNCHANGED <<hit, file>>

GiveUp ==
    /\ next' = next + 1
    /\ hit' = hit \cup {next}
    /\ UNCHANGED file

\* Also of the call that is being made; what is in the file is out of reach.
Lose ==
    \E c \in 1 .. next :
        /\ c \notin ToSet(file)
        /\ hit' = hit \cup {c}
        /\ UNCHANGED <<next, file>>

Deliver ==
    \E c \in Nalus \ hit :
        /\ c < next
        /\ \A d \in ToSet(file) : d < c
        /\ \A d \in Fitting \ hit : d < c => d \in ToSet(file)
        /\ file' = Append(file, c)
        /\ UNCHANGED <<next, hit>>

Repeat ==
    /\ file # <<>> /\ Last(file) \in Single
    /\ file' = Append(file, Last(file))
    /\ UNCHANGED <<next, hit>>

Next == Pass \/ GiveUp \/ Lose \/ Deliver \/ Repeat

Spec == Init /\ [][Next]_<<next, hit, file>>
=============================================================================
