--------------------------- MODULE MCChannelRouting ---------------------------
(* A small instance of ChannelRouting: two channels, one preferred.            *)
EXTENDS ChannelRouting, TLC

CONSTANTS c1, c2, r1

OneAbove == c1 :> 1 @@ c2 :> 0
=============================================================================
