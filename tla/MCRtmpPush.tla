----------------------------- MODULE MCRtmpPush -----------------------------
(* Pushers without a limit on reconnections, and with a limit of one. *)
EXTENDS RtmpPush

MCMaxReconnects == {-1, 1}
=============================================================================
