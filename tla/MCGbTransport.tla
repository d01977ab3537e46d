---------------------------- MODULE MCGbTransport ----------------------------
(***************************************************************************)
(* Bytes are 0 and 1, so a frame's length is two of them and a packet has  *)
(* at most three; the buffer holds two of the smallest frames.             *)
(***************************************************************************)
EXTENDS GbTransport

MCPayloads == {<<1>>, <<1, 0>>}
=============================================================================
