--------------------------- MODULE MCStallConfig ---------------------------
(* Instance of StallConfig for TLC: timeouts in small units, requests that  *)
(* reach below the minimum and above both maxima.                           *)
EXTENDS StallConfig

MCMinWait == 1
MCMaxWait == 4
MCMaxExtended == 6
MCInitWait == 2
MCInitContinue == 3
MCReqTimeouts == 0..7

=============================================================================
