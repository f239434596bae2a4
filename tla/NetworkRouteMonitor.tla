------------------------- MODULE NetworkRouteMonitor -------------------------
(***************************************************************************)
(* src/NetworkRouteMonitor.cpp: a thread keeps the routes that have a      *)
(* gateway from what a netlink socket tells it and reports a change of the *)
(* best one's interface to the registered callback.                        *)
(*                                                                         *)
(* A route of the kernel is <<interface, metric, kind>>: the default       *)
(* route, a route to a network behind a gateway, or one without a gateway  *)
(* (on-link, local, broadcast).  The thread looks neither at the           *)
(* destination nor at the table of a message, so it keeps                  *)
(* <<interface, metric>> and takes any deletion for one of those.  The     *)
(* kernel is external: it queues a datagram for every change and answers a *)
(* dump request with the routes it has then.  When the socket's buffer     *)
(* overflows a notification is lost and the next recv fails.               *)
(***************************************************************************)
EXTENDS Naturals, Sequences

CONSTANTS
  Interfaces,       \* network interfaces
  NoInterface,      \* the empty string
  Routes,           \* the routes there may be; a route without a metric has metric 0
  MaxKernelSteps,   \* bound: route changes and interrupted recvs in a behaviour
  MaxDatagrams,     \* bound: datagrams in the socket's buffer
  MaxLost           \* bound: notifications lost in a behaviour

ASSUME RouteAssumption ==
  /\ NoInterface \notin Interfaces
  /\ Routes \subseteq Interfaces \X Nat \X {"default", "network", "link"}
  /\ MaxKernelSteps \in Nat /\ MaxDatagrams \in Nat /\ MaxLost \in Nat

VARIABLES
  kernel,           \* the routes of the kernel
  ambiguous,        \* since the last dump a deletion was sent that also fits a
                    \* route with a gateway that the kernel has kept
  socket,           \* datagrams not received yet
  overrun,          \* ENOBUFS is pending: the next recv fails
  lost,             \* notifications lost so far
  kernelSteps,      \* changes and interruptions so far
  mDefaultRoutes,   \* a set: duplicates come with every dump and go together
  mRoute,           \* mRoute.interface
  mRequestExit,
  rmon              \* routePollThread: where it is

kernelVars == <<kernel, ambiguous, lost, kernelSteps>>
socketVars == <<socket, overrun>>
threadVars == <<mDefaultRoutes, mRoute, rmon>>
monitorVars == <<kernelVars, socketVars, threadVars, mRequestExit>>

RouteInit ==
  /\ kernel \in SUBSET Routes
  /\ ambiguous = FALSE
  /\ socket = <<>> /\ overrun = FALSE /\ lost = 0 /\ kernelSteps = 0
  /\ mDefaultRoutes = {} /\ mRoute = NoInterface
  /\ mRequestExit = FALSE
  /\ rmon = "created"

-----------------------------------------------------------------------------
(* What getRouteInfo leaves of routes that have a gateway.                 *)
gateways(routes) == {<<r[1], r[2]>> : r \in {q \in routes : q[3] # "link"}}

(* The entries of the monitor a deletion stands for: same interface, and   *)
(* the same metric, or any when the deleted route has none ("the interface *)
(* has been taken down").                                                  *)
matches(g, r) == g[1] = r[1] /\ g[2] \in {r[2], 0}

-----------------------------------------------------------------------------
(* The kernel.  When an interface goes down its routes go, and the thread  *)
(* hears of the local one only.                                            *)

notify(message) ==
  \/ /\ Len(socket) < MaxDatagrams
     /\ socket' = Append(socket, message)
     /\ UNCHANGED <<overrun, lost>>
  \/ /\ lost < MaxLost
     /\ lost' = lost + 1
     /\ overrun' = TRUE
     /\ UNCHANGED socket

kernelStep ==
  /\ kernelSteps < MaxKernelSteps
  /\ kernelSteps' = kernelSteps + 1
  /\ UNCHANGED <<threadVars, mRequestExit>>

routeAdded(r) ==
  /\ kernelStep
  /\ r \notin kernel
  /\ kernel' = kernel \cup {r}
  /\ notify([type |-> "NEWROUTE", routes |-> {r}])
  /\ UNCHANGED ambiguous

deletion(g) ==
  /\ notify([type |-> "DELROUTE", routes |-> {g}])
  /\ ambiguous' = (ambiguous \/ \E r \in gateways(kernel') : matches(g, r))

routeDeleted(r) ==
  /\ kernelStep
  /\ r \in kernel
  /\ kernel' = kernel \ {r}
  /\ deletion(r)

linkDown(i) ==
  /\ kernelStep
  /\ kernel' = {r \in kernel : r[1] # i}
  /\ deletion(<<i, 0, "link">>)

kernelNext ==
  \/ \E r \in Routes : routeAdded(r)
  \/ \E r \in kernel : routeDeleted(r)
  \/ \E i \in Interfaces : linkDown(i)

(* The answer to a dump request, one datagram.                             *)
dump == [type |-> "NEWROUTE", routes |-> kernel]

-----------------------------------------------------------------------------
(* start(): the thread is created once.                                    *)
startMonitor ==
  /\ rmon = "created"
  /\ rmon' = "request"
  /\ UNCHANGED <<kernelVars, socketVars, mDefaultRoutes, mRoute, mRequestExit>>

(* Mutant: the routes are asked for only once.                             *)
sendRouteDumpRequest_once ==
  /\ rmon = "request"
  /\ Len(socket) < MaxDatagrams
  /\ socket' = IF lost = 0 THEN Append(socket, dump) ELSE socket
  /\ ambiguous' = FALSE
  /\ rmon' = "recv"
  /\ UNCHANGED <<kernel, lost, kernelSteps, overrun, mDefaultRoutes, mRoute, mRequestExit>>

sendRouteDumpRequest ==
  /\ rmon = "request"
  /\ Len(socket) < MaxDatagrams
  /\ socket' = Append(socket, dump) /\ ambiguous' = FALSE
  /\ rmon' = "recv"
  /\ UNCHANGED <<kernel, lost, kernelSteps, overrun, mDefaultRoutes, mRoute, mRequestExit>>

(* recv fails: the buffer has overflowed.                                  *)
recvFailed ==
  /\ rmon = "recv" /\ overrun
  /\ overrun' = FALSE
  /\ rmon' = IF mRequestExit THEN "closed" ELSE "request"
  /\ UNCHANGED <<kernelVars, socket, mDefaultRoutes, mRoute, mRequestExit>>

(* ... or the handler of SIGUSR1 has run.                                  *)
recvInterrupted ==
  /\ rmon = "recv" /\ ~overrun
  /\ kernelSteps < MaxKernelSteps
  /\ kernelSteps' = kernelSteps + 1
  /\ rmon' = IF mRequestExit THEN "closed" ELSE "request"
  /\ UNCHANGED <<kernel, ambiguous, lost, socketVars, mDefaultRoutes, mRoute, mRequestExit>>

(* Mutant: metric 0 is taken for a metric like any other.                  *)
deleted_exact(gone) == {r \in mDefaultRoutes : \E g \in gone : g[1] = r[1] /\ g[2] = r[2]}

deleted(gone) == {r \in mDefaultRoutes : \E g \in gone : matches(g, r)}

applied(message) ==
  IF message.type = "NEWROUTE"
    THEN mDefaultRoutes \cup gateways(message.routes)
    ELSE mDefaultRoutes \ deleted(message.routes)

(* gatewayUpdated: routes without a gateway are new to nobody, but every   *)
(* deletion counts.                                                        *)
updates(message) == message.type = "DELROUTE" \/ gateways(message.routes) # {}

(* One datagram.                                                           *)
recv ==
  /\ rmon = "recv" /\ ~overrun /\ socket # <<>>
  /\ socket' = Tail(socket)
  /\ IF mRequestExit
       THEN rmon' = "closed" /\ UNCHANGED mDefaultRoutes
       ELSE /\ mDefaultRoutes' = applied(Head(socket))
            /\ rmon' = IF updates(Head(socket)) THEN "dispatch" ELSE "recv"
  /\ UNCHANGED <<kernelVars, overrun, mRoute, mRequestExit>>

(* The interface at the front of the sorted vector.                        *)
isFront(i) ==
  IF mDefaultRoutes = {}
    THEN i = NoInterface
    ELSE \E r \in mDefaultRoutes : /\ i = r[1]
                                   /\ \A q \in mDefaultRoutes : r[2] <= q[2]

dispatchDefaultRouteChange(i) ==
  /\ rmon = "dispatch"
  /\ isFront(i)
  /\ mRoute' = i
  /\ rmon' = "recv"
  /\ UNCHANGED <<kernelVars, socketVars, mDefaultRoutes, mRequestExit>>

(* The dump request of stop() is there to wake the thread up.              *)
stopMonitor ==
  /\ rmon # "created" /\ ~mRequestExit
  /\ Len(socket) < MaxDatagrams
  /\ mRequestExit' = TRUE
  /\ socket' = Append(socket, dump) /\ ambiguous' = FALSE
  /\ UNCHANGED <<kernel, lost, kernelSteps, overrun, threadVars>>

(* What the thread does by itself; the callback is told of the dispatches. *)
routePollThread ==
  startMonitor \/ sendRouteDumpRequest \/ recvFailed \/ recvInterrupted \/ recv

-----------------------------------------------------------------------------
drained == rmon = "recv" /\ socket = <<>> /\ ~overrun

(* The monitor is never left without a gateway the kernel has: whatever    *)
(* was lost or interrupted, a failing recv makes it ask for the routes     *)
(* again.  The exception is the code's: the deletion of another route of   *)
(* the same interface, of the same metric or none, erases the gateway too, *)
(* until the next dump.                                                    *)
NoRouteMissed == drained /\ ~ambiguous => gateways(kernel) \subseteq mDefaultRoutes

(* As long as no notification was lost, the interface the monitor has      *)
(* reported when it has received everything is one the kernel has a        *)
(* gateway on, and, unless a deletion was ambiguous, the one of the best   *)
(* metric; none is reported only when there is none                        *)
(* (dispatchDefaultRouteChange, the deletions of routePollThread).         *)
RouteFollowsKernel ==
  drained /\ lost = 0 =>
    \/ mRoute = NoInterface /\ (gateways(kernel) = {} \/ ambiguous)
    \/ \E r \in gateways(kernel) :
         r[1] = mRoute /\ (ambiguous \/ \A q \in gateways(kernel) : r[2] <= q[2])

=============================================================================
