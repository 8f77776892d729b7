------------------------------ MODULE PeerTest ------------------------------
(***************************************************************************)
(* runPeerTest of internal/engine with the context that dispatch gives it: *)
(* the handshake, the node it builds (core, admin socket, netstack), the   *)
(* target's address, the wait for a route, the download of Download.tla,   *)
(* and the deferred closes.                                                *)
(***************************************************************************)
EXTENDS Download

CONSTANTS
  Schemes,      \* kinds of peer: see scheme
  Timeout, RouteTimeout,      \* of the configuration
  Slack,        \* what dispatch adds to the sum of the three durations
  DnsTime, AdminTime, ProbeTime    \* the limits of a lookup, an admin call, the kcp probe

ASSUME PeerTestAssumption ==
  /\ Schemes \subseteq {"ctx", "socks", "kcp", "tls"}
  /\ {Timeout, RouteTimeout, DnsTime, AdminTime, ProbeTime} \subseteq Nat \ {0}
  /\ Slack \in Nat

VARIABLES
  scheme,       \* "ctx": tcp, ws, wss, quic, unix; "socks": socks, sockstls
  stage,
  timer,        \* what is left of the present call's own limit
  deadline,     \* what is left of routeTimeout
  ticked,       \* the route ticker has a tick to deliver
  node          \* the parts of the node that are up

test == <<scheme, stage, timer, deadline, ticked, node>>
download == <<settings, cancelled, clocks, transfer>>
vars == <<test, download>>

Parts == {"core", "admin", "net"}
\* What is up when a part is started; it is stopped before any of that.
Needs == [core |-> {}, admin |-> {"core"}, net |-> {"core", "admin"}]

Enter(to, time) == stage' = to /\ timer' = time

-----------------------------------------------------------------------------
(* measureHandshake.  The tls dialer is given neither the context nor a       *)
(* timeout; the kcp probe has a limit of its own.  The exchange with a socks    *)
(* proxy has the context's deadline, set on the connection, and a cancel does *)
(* not end it; the dial before it and the TLS handshake after it may fail on  *)
(* one, as HandshakeFails allows.                                             *)

HandshakeExpired == \/ scheme = "ctx" /\ (CtxDone \/ timer = 0)
                    \/ scheme = "socks" /\ (left = 0 \/ timer = 0)
                    \/ scheme = "kcp" /\ timer = 0

HandshakeOk ==
  /\ stage = "handshake" /\ Enter("build", 0)
  /\ UNCHANGED <<scheme, deadline, ticked, node, download>>

HandshakeFails ==
  /\ stage = "handshake" /\ Enter("done", 0)
  /\ UNCHANGED <<scheme, deadline, ticked, node, download>>

HandshakeTimesOut == HandshakeExpired /\ HandshakeFails

-----------------------------------------------------------------------------
(* core.New, admin.New, CreateYggdrasilNetstack; a failure runs the deferred   *)
(* closes of what is up.                                                      *)

Build ==
  /\ stage = "build" /\ node # Parts
  /\ \/ /\ \E p \in Parts \ node : Needs[p] = node /\ node' = node \cup {p}
        /\ UNCHANGED <<stage, timer>>
     \/ Enter("teardown", 0) /\ UNCHANGED node
  /\ UNCHANGED <<scheme, deadline, ticked, download>>

Built ==
  /\ stage = "build" /\ node = Parts
  /\ Enter("target", DnsTime)
  /\ UNCHANGED <<scheme, deadline, ticked, node, download>>

\* The address of the target: a literal or a lookup, inside 200::/7 or not.
TargetFound ==
  /\ stage = "target" /\ Enter("poll", AdminTime)
  /\ deadline' = RouteTimeout /\ ticked' = FALSE
  /\ UNCHANGED <<scheme, node, download>>

TargetFails ==
  /\ stage = "target" /\ Enter("teardown", 0)
  /\ UNCHANGED <<scheme, deadline, ticked, node, download>>

TargetTimesOut == (CtxDone \/ timer = 0) /\ TargetFails

-----------------------------------------------------------------------------
(* waitForRoute.  adminCall looks at no context.                             *)

RouteFound ==
  /\ stage = "poll" /\ Enter("ping", AdminTime)
  /\ UNCHANGED <<scheme, deadline, ticked, node, download>>

RouteMissing ==
  /\ stage = "poll" /\ Enter("pause", 0)
  /\ UNCHANGED <<scheme, deadline, ticked, node, download>>

PollTimesOut == timer = 0 /\ RouteMissing

\* The select takes any case that is ready.
RouteRetry ==
  /\ stage = "pause" /\ ticked
  /\ Enter("poll", AdminTime) /\ ticked' = FALSE
  /\ UNCHANGED <<scheme, deadline, node, download>>

\* Mutant of RouteGivenUp: neither case is there.
RouteGivenUp_Never == stage = "pause" /\ deadline > RouteTimeout /\ UNCHANGED vars

RouteGivenUp ==
  /\ stage = "pause" /\ (CtxDone \/ deadline = 0)
  /\ Enter("teardown", 0)
  /\ UNCHANGED <<scheme, deadline, ticked, node, download>>

\* fetchPeerPing, with an answer or without.
Pinged ==
  /\ stage = "ping" /\ Enter("transfer", 0)
  /\ UNCHANGED <<scheme, deadline, ticked, node, download>>

PingTimesOut == timer = 0 /\ Pinged

-----------------------------------------------------------------------------
Transfer(step) == stage = "transfer" /\ step /\ UNCHANGED test

Transferred ==
  /\ stage = "transfer" /\ fetch = "returned"
  /\ Enter("teardown", 0)
  /\ UNCHANGED <<scheme, deadline, ticked, node, download>>

\* Mutant of Teardown: the first part that was started is stopped first.
Teardown_Fifo ==
  /\ stage = "teardown"
  /\ \/ node = {} /\ Enter("done", 0) /\ UNCHANGED node
     \/ /\ \E p \in node : Needs[p] \cap node = {} /\ node' = node \ {p}
        /\ UNCHANGED <<stage, timer>>
  /\ UNCHANGED <<scheme, deadline, ticked, download>>

\* The deferred closes, the last one first.
Teardown ==
  /\ stage = "teardown"
  /\ \/ node = {} /\ Enter("done", 0) /\ UNCHANGED node
     \/ /\ \E p \in node : Needs[p] = node \ {p} /\ node' = node \ {p}
        /\ UNCHANGED <<stage, timer>>
  /\ UNCHANGED <<scheme, deadline, ticked, download>>

-----------------------------------------------------------------------------
Cancel ==
  /\ ~cancelled /\ stage # "done"
  /\ cancelled' = TRUE
  /\ UNCHANGED <<test, settings, clocks, transfer>>

Urgent ==
  \/ stage \in {"build", "teardown"}
  \/ stage = "handshake" /\ HandshakeExpired
  \/ stage = "target" /\ (CtxDone \/ timer = 0)
  \/ stage \in {"poll", "ping"} /\ timer = 0
  \/ stage = "pause" /\ (ticked \/ CtxDone \/ deadline = 0)
  \/ stage = "transfer" /\ (FetchUrgent \/ fetch = "returned")

Down(n) == IF n = 0 THEN 0 ELSE n - 1

\* Time passes when the program has nothing to do.
Tick ==
  /\ ~Urgent /\ stage # "done"
  /\ left' = Down(left) /\ timer' = Down(timer)
  /\ deadline' = Down(deadline)
  /\ ticked' = (ticked \/ stage \in {"poll", "pause"})
  /\ limit' = Down(limit)
  /\ spent' = IF stage = "transfer" THEN spent + 1 ELSE spent
  /\ late' = IF fetch = "sampler" THEN late + 1 ELSE late
  /\ UNCHANGED <<scheme, stage, node, settings, cancelled, transfer>>

Init ==
  /\ DownloadInit
  /\ scheme \in Schemes
  /\ left = Timeout + RouteTimeout + maxDuration + Slack
  /\ stage = "handshake" /\ timer = (IF scheme = "kcp" THEN ProbeTime ELSE Timeout)
  /\ deadline = 0 /\ ticked = FALSE /\ node = {}

Step ==
  \/ HandshakeTimesOut \/ Build \/ Built \/ TargetTimesOut \/ PollTimesOut
  \/ RouteRetry \/ RouteGivenUp \/ PingTimesOut \/ Transfer(FetchStep)
  \/ Transferred \/ Teardown
Input ==
  \/ HandshakeOk \/ HandshakeFails \/ TargetFound \/ TargetFails
  \/ RouteFound \/ RouteMissing \/ Pinged \/ Transfer(FetchInput)

Next == Step \/ Input \/ Cancel \/ Tick

Spec == Init /\ [][Next]_vars

\* The program runs and time passes; nobody has to answer.  A select that finds
\* several cases ready, time after time, takes each of them sooner or later.
FairSpec == Spec /\ WF_vars(Step) /\ WF_vars(Tick) /\ SF_vars(RouteGivenUp)

-----------------------------------------------------------------------------
Stages == {"handshake", "build", "target", "poll", "pause", "ping", "transfer",
           "teardown", "done"}

\* Every variable of the test and of the download keeps its type.
TypeOK ==
  /\ scheme \in Schemes /\ stage \in Stages
  /\ timer \in Nat /\ deadline \in Nat /\ ticked \in BOOLEAN
  /\ node \subseteq Parts
  /\ DownloadTypeOK

\* No stream and no sampler outlives the netstack it goes through, no admin call
\* is made to a node that is not all up, no part of a node outlives the test, and
\* no part is up without those it was built on.
NothingUsesAClosedNode ==
  /\ (sampling \/ \E s \in Streams : stream[s] \in {"request", "check", "read"}) => node = Parts
  /\ stage \in {"poll", "pause", "ping", "transfer"} => node = Parts
  /\ stage = "done" => node = {}
  /\ \A p \in node : Needs[p] \subseteq node

\* The test is one as dispatch sees it.
Stage ==
  CASE stage \in {"handshake", "build", "teardown"} -> stage
    [] stage = "done"                              -> "over"
    [] OTHER                                       -> "use"
Moving == total > 0 \/ \E s \in Streams : stream[s] = "read"
Test == INSTANCE TestStages WITH
  at <- Stage, moving <- Moving, measured <- measured = "ok"
ImplementsTestStages == Test!Spec

\* A test ends whatever its peer, the admin socket and the servers fail to answer,
\* but for a tls peer, whose handshake has no limit.
TestEnds == scheme # "tls" => <>(stage = "done")

\* "Bound each test independently.  Without this a peer that fails to stop cleanly
\* wedges the whole run" (dispatch): every test ends.
EveryTestEnds == <>(stage = "done")
=============================================================================
