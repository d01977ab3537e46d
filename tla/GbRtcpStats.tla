----------------------------- MODULE GbRtcpStats -----------------------------
(***************************************************************************)
(* The platform's statistics (g_rtcp_stats, gb28181_sip_mock_server.cpp):  *)
(* the RTP packets it received against those the sender reports.  Printing *)
(* them changes nothing.  Left out: octets, LSR and round trip times,      *)
(* which are only printed, and the report blocks, which the one sender,    *)
(* receiving nothing, never sends.                                         *)
(***************************************************************************)
EXTENDS Naturals

VARIABLES
    rtp_rx_count,   \* packets received since the platform was started
    sr_packets,     \* the packet count of the last sender report
    have_last_sr    \* whether there was one (sr_count > 0)

statsVars == <<rtp_rx_count, sr_packets, have_last_sr>>

Count(n) ==
    /\ n \in Nat
    /\ rtp_rx_count' = rtp_rx_count + n
    /\ UNCHANGED <<sr_packets, have_last_sr>>

\* Mutant: the counts of the reports are added up
SenderReportAdded(packets) ==
    /\ sr_packets' = sr_packets + packets
    /\ have_last_sr' = TRUE
    /\ UNCHANGED rtp_rx_count

SenderReport(packets) ==
    /\ sr_packets' = packets
    /\ have_last_sr' = TRUE
    /\ UNCHANGED rtp_rx_count

\* "lost" of rtcp_stats_print
Lost ==
    IF have_last_sr /\ sr_packets > rtp_rx_count
    THEN sr_packets - rtp_rx_count ELSE 0

StatsInit ==
    /\ rtp_rx_count = 0 /\ sr_packets = 0
    /\ have_last_sr = FALSE
=============================================================================
