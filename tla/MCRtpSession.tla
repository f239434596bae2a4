----------------------------- MODULE MCRtpSession -----------------------------
(* Seven packets whose sequence numbers begin at zero or wrap around       *)
(* modulo 32; one out of any six is lost or late and two may overtake a    *)
(* packet.  Two others come in between or follow.  Sequence numbers have   *)
(* eight values of the low byte, the upper four of which are negative      *)
(* where char is signed.                                                   *)
EXTENDS RtpSession

MCStarts == {0, 28}
MCExtras == {-1, -2}
MCIds == 0..6 \cup MCExtras
=============================================================================
