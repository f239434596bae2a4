------------------------- MODULE MCMediaSourceHandler -------------------------
(* MediaSourceHandler with one channel, which has an address and no port:  *)
(* it is selected, left and selected again.                                *)
EXTENDS MediaSourceHandler, TLC

CONSTANT u1

OneChannel == u1 :> <<1, NoPort>>
=============================================================================
