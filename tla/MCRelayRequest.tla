--------------------------- MODULE MCRelayRequest ---------------------------
(* Small instances of RelayRequest: one call of each kind against a ceiling, *)
(* a stream by itself.                                                       *)
EXTENDS RelayRequest, TLC

CONSTANTS b, s, p

OneOfEach == b :> "buffered" @@ s :> "stream" @@ p :> "passthrough"
JustStream == s :> "stream"
=============================================================================
