--------------------------- MODULE MCRoutedHandler ---------------------------
(* RoutedHandler on a small instance: one channel, a default route on      *)
(* either interface, the better one on the interface that also has a route *)
(* without a gateway.                                                      *)
EXTENDS RoutedHandler, TLC

CONSTANTS u1, i1, i2

OneChannel == u1 :> <<1, NoPort>>

ThreeRoutes == {<<i1, 1, "default">>, <<i2, 2, "default">>, <<i1, 0, "link">>}

(* Whether the session is connected decides only what the consumers of the *)
(* stream are told, and neither has an effect on the demuxer or the routes: *)
(* states that differ in that alone are not told apart.                    *)
RoutedView ==
  <<listener, channelVars, tuned, mFeipConfMutex, age, statusVars, mMessageHandler,
    gateway, apiVars, msgVars, monVars, repVars, routeChanges, monitorVars, switches,
    raced>>
=============================================================================
