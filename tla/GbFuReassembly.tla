--------------------------- MODULE GbFuReassembly ---------------------------
(***************************************************************************)
(* The platform's reassembly of FU fragments, h264_fu_a_reassembly_t and   *)
(* fu_a_reassembly_handle_packet of gb28181_sip_mock_server.cpp: one       *)
(* static context, a reorder window of eight slots, a NALU buffer of 4096  *)
(* bytes, and a file that gets every completed NALU.  H.264 FU-A and H.265 *)
(* FU share it and differ in the length of the NALU header.                *)
(*                                                                         *)
(* A NALU is its header (the bits the FU keeps and the NALU type, which    *)
(* the receiver puts together again) and its body, a sequence of bytes.    *)
(* Timestamp and SSRC are always compared together and are one value here. *)
(*                                                                         *)
(* The clock is read only when a fragment arrives, to ask whether more     *)
(* than FU_A_REASSEMBLY_TIMEOUT_MS have gone by since the first one:       *)
(* "expired" is the answer it would give.                                  *)
(*                                                                         *)
(* A fragment that continues a NALU is cut behind the header of that       *)
(* NALU's codec, whatever the fragment's own (Cut).                        *)
(*                                                                         *)
(* Left out: fragments longer than a slot (1500 bytes, more than a         *)
(* datagram of the sender holds), NULL arguments, and what is printed.     *)
(***************************************************************************)
EXTENDS Integers, SequencesExt, FiniteSetsExt

CONSTANTS
    SeqModulus,    \* 2^16
    Window,        \* FU_A_REORDER_WINDOW_SIZE
    MaxFragments,  \* FU_A_REASSEMBLY_MAX_FRAGMENTS
    BufferSize,    \* sizeof buffer
    Bytes,         \* the values of a byte of a NALU's body
    FuHeader,      \* an FU header where it is taken for a byte of the body
    KeptBits,      \* the header bits a fragment keeps: F and NRI, or the layer
    NaluTypes

ASSUME WindowAssumption ==
    /\ Window \in Nat \ {0} /\ SeqModulus \in Nat /\ SeqModulus > 2 * Window + 1
    /\ MaxFragments \in Nat \ {0}
    /\ BufferSize \in Nat /\ BufferSize > 2
    /\ FuHeader \in Bytes /\ KeptBits # {} /\ NaluTypes # {}

SeqNumbers == 0 .. SeqModulus - 1

\* What print_rtp_packet_summary hands over of an RTP packet
Fragments == [seq : SeqNumbers, timestamp : Nat, is_h265 : BOOLEAN,
              kept : KeptBits, type : NaluTypes,
              start : BOOLEAN, end : BOOLEAN, data : Seq(Bytes)]

Nalus == [is_h265 : BOOLEAN, kept : KeptBits, type : NaluTypes, body : Seq(Bytes)]

FreeSlot == [used |-> FALSE, seq |-> 0, end |-> FALSE, data |-> <<>>]

VARIABLES
    active, timestamp, expected_seq, pending_fragments,
    nalu,      \* nalu_header, is_h265 and the buffer
    reorder,   \* the slots of the window
    expired,   \* more than the timeout since start_tick
    written    \* gb28181_rx.h264: the NALUs given to output_cb

fuCtx == <<active, timestamp, expected_seq, pending_fragments, nalu, reorder, expired>>
fuVars == <<fuCtx, written>>

-----------------------------------------------------------------------------
\* & 0xFFFF.  Mutant: the number after the last one is not 0
SeqAfterUnmasked(s) == s + 1
SeqAfter(s) == (s + 1) % SeqModulus
Ahead(s) == (s - expected_seq) % SeqModulus

HeaderSize(is_h265) == IF is_h265 THEN 2 ELSE 1

\* memcpy into the buffer, cut at its end without a word
Buffered(is_h265, body) ==
    SubSeq(body, 1, Min({Len(body), BufferSize - HeaderSize(is_h265)}))

FreeNalu == [is_h265 |-> FALSE, kept |-> CHOOSE k \in KeptBits : TRUE,
             type |-> CHOOSE t \in NaluTypes : TRUE, body |-> <<>>]

\* fu_a_reassembly_reset
Reset ==
    /\ active' = FALSE
    /\ timestamp' = 0
    /\ expected_seq' = 0
    /\ pending_fragments' = 0
    /\ nalu' = FreeNalu
    /\ reorder' = [i \in 1 .. Window |-> FreeSlot]
    /\ expired' = FALSE

\* The NALU is complete: output_cb, then reset.  Mutant: the reset is left to
\* the next first fragment
CompleteUnreset(n) ==
    /\ written' = Append(written, n)
    /\ UNCHANGED fuCtx
Complete(n) ==
    /\ written' = Append(written, n)
    /\ Reset

\* A first fragment starts a NALU whatever was going on; the window is not
\* cleared.
Begin(p, fragments) ==
    LET n == [is_h265 |-> p.is_h265, kept |-> p.kept, type |-> p.type,
              body |-> Buffered(p.is_h265, p.data)]
    IN  /\ p.start
        /\ \/ p.end /\ Complete(n)
           \/ /\ ~p.end
              /\ active' = TRUE
              /\ timestamp' = p.timestamp
              /\ expected_seq' = SeqAfter(p.seq)
              /\ pending_fragments' = fragments
              /\ nalu' = n
              /\ expired' = FALSE
              /\ UNCHANGED <<reorder, written>>
\* Mutant: the fragments of an unfinished NALU stay counted
StartCountingOn(p) == Begin(p, pending_fragments + 1)
Start(p) == Begin(p, 1)

\* No first fragment, no header to start from.
MissingStart(p) == ~p.start /\ ~active /\ UNCHANGED fuVars

\* Too old, too many fragments, or another time or source: the NALU goes.
Stale(p) == expired \/ pending_fragments >= MaxFragments \/ timestamp # p.timestamp
DiscardStale(p) ==
    /\ ~p.start /\ active /\ Stale(p)
    /\ Reset
    /\ UNCHANGED written

Continues(p) == ~p.start /\ active /\ ~Stale(p)

\* Only the fragment handled last is known to be a duplicate.
Duplicate(p) == SeqAfter(p.seq) = expected_seq
IgnoreDuplicate(p) == Continues(p) /\ Duplicate(p) /\ UNCHANGED fuVars

\* What is taken of a fragment: all behind two bytes of header in an H.264
\* NALU, and behind three in an H.265 NALU.
Cut(p) ==
    CASE p.is_h265 = nalu.is_h265 -> p.data
      [] p.is_h265 /\ ~nalu.is_h265 -> <<FuHeader>> \o p.data
      [] ~p.is_h265 /\ nalu.is_h265 -> SubSeq(p.data, 2, Len(p.data))

\* fu_a_reorder_push: the first free slot.
InWindow(p) == Ahead(p.seq) \in 1 .. Window
FreeSlots == {i \in 1 .. Window : ~reorder[i].used}
Store(p) ==
    /\ Continues(p) /\ ~Duplicate(p) /\ InWindow(p) /\ FreeSlots # {}
    /\ reorder' = [reorder EXCEPT ![Min(FreeSlots)] =
                     [used |-> TRUE, seq |-> p.seq, end |-> p.end, data |-> Cut(p)]]
    /\ UNCHANGED <<active, timestamp, expected_seq, pending_fragments, nalu, expired,
                   written>>

\* Beyond the window, behind it, or no slot left
DiscardUnordered(p) ==
    /\ Continues(p) /\ ~Duplicate(p) /\ p.seq # expected_seq
    /\ ~(InWindow(p) /\ FreeSlots # {})
    /\ Reset
    /\ UNCHANGED written

\* fu_a_reorder_drain: the stored fragments that follow seq without a gap, up
\* to and including the last fragment of the NALU.
\* Mutant: the sequence number of a free slot counts, too
StoredOrFree(seq) == {i \in 1 .. Window : reorder[i].seq = seq}
Stored(seq) == {i \in 1 .. Window : reorder[i].used /\ reorder[i].seq = seq}
SlotAfter(seq, j) == Min(Stored((seq + j) % SeqModulus))
Run(seq) ==
    Max({k \in 0 .. Window : \A j \in 1 .. k :
           /\ Stored((seq + j) % SeqModulus) # {}
           /\ j < k => ~reorder[SlotAfter(seq, j)].end})

\* The expected fragment, and what it lets out of the window
Continue(p) ==
    LET run == IF p.end THEN 0 ELSE Run(p.seq)
        drained == [j \in 1 .. run |-> SlotAfter(p.seq, j)]
        last == IF run = 0 THEN p.end ELSE reorder[drained[run]].end
        body == nalu.body \o Cut(p)
                  \o FlattenSeq([j \in 1 .. run |-> reorder[drained[j]].data])
        n == [nalu EXCEPT !.body = Buffered(nalu.is_h265, body)]
    IN  /\ Continues(p) /\ p.seq = expected_seq
        /\ \/ last /\ Complete(n)
           \/ /\ ~last
              /\ expected_seq' = (p.seq + run + 1) % SeqModulus
              /\ pending_fragments' = pending_fragments + 1 + run
              /\ nalu' = n
              /\ reorder' = [i \in 1 .. Window |->
                               IF i \in ToSet(drained) THEN FreeSlot ELSE reorder[i]]
              /\ UNCHANGED <<active, timestamp, expired, written>>

\* fu_a_reassembly_handle_packet
HandlePacket(p) ==
    \/ Start(p) \/ MissingStart(p) \/ DiscardStale(p) \/ IgnoreDuplicate(p)
    \/ Store(p) \/ DiscardUnordered(p) \/ Continue(p)

\* FU_A_REASSEMBLY_TIMEOUT_MS have gone by; nothing happens until a fragment
\* arrives.
Expire ==
    /\ active /\ ~expired
    /\ expired' = TRUE
    /\ UNCHANGED <<active, timestamp, expected_seq, pending_fragments, nalu, reorder,
                   written>>

FuInit ==
    /\ active = FALSE /\ timestamp = 0 /\ expected_seq = 0 /\ pending_fragments = 0
    /\ nalu = FreeNalu
    /\ reorder = [i \in 1 .. Window |-> FreeSlot]
    /\ expired = FALSE
    /\ written = <<>>

\* The types of the context.  At most a whole window is drained beyond the
\* limit on fragments, and the buffer never overflows.
FuTypeOK ==
    /\ active \in BOOLEAN /\ expired \in BOOLEAN
    /\ timestamp \in Nat /\ expected_seq \in SeqNumbers
    /\ pending_fragments \in 0 .. MaxFragments + Window
    /\ nalu \in Nalus
    /\ Len(nalu.body) + HeaderSize(nalu.is_h265) <= BufferSize
    /\ reorder \in [1 .. Window -> [used : BOOLEAN, seq : SeqNumbers, end : BOOLEAN,
                                    data : Seq(Bytes)]]
    /\ written \in Seq(Nalus)
=============================================================================
