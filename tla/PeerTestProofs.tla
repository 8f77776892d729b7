--------------------------- MODULE PeerTestProofs ---------------------------
(***************************************************************************)
(* Theorems about PeerTest, for any number of streams, any settings and    *)
(* any timeouts: the types, the order in which a node is used and closed,  *)
(* and what the measurement is worth.                                      *)
(***************************************************************************)
EXTENDS PeerTest, FiniteSetTheorems, TLAPS

Over == {s \in Streams : stream[s] = "over"}

\* How the stages of the test, the function and its streams nest.
NestInv ==
  /\ node \in {{}, {"core"}, {"core", "admin"}, Parts}
  /\ stage \in {"handshake", "done"} => node = {}
  /\ stage \in {"target", "poll", "pause", "ping", "transfer"} => node = Parts
  /\ fetch \in {"wait", "sampler"} => stage = "transfer"
  /\ fetch = "returned" => stage \in {"transfer", "teardown", "done"}
  /\ fetch = "off" => ~sampling /\ \A s \in Streams : stream[s] = "none"
  /\ fetch # "off" => \A s \in Streams : stream[s] # "none"
  /\ fetch \in {"sampler", "returned"} => \A s \in Streams : stream[s] = "over"
  /\ fetch = "returned" => ~sampling

\* Each stream that is over has received at most one buffer past the limit.
BytesInv ==
  /\ fetch = "off" => total = 0
  /\ maxBytes > 0 => total < maxBytes + Cardinality(Over) * Buf

\* While the duration is limited the time spent comes out of the limit, and the
\* sampler is told to stop as soon as the streams are over.
TimeInv ==
  /\ stage \notin {"transfer", "teardown", "done"} => spent = 0
  /\ fetch = "off" => spent = 0 /\ late = 0
  /\ fetch # "off" /\ maxDuration > 0 => spent + limit <= maxDuration /\ late = 0
  /\ fetch = "sampler" /\ maxDuration > 0 => stopped

TestInv == TypeOK /\ NestInv /\ BytesInv /\ TimeInv

\* What a timer has left stays a number, and no more than it was.
LEMMA Times ==
  /\ Timeout \in Nat /\ RouteTimeout \in Nat /\ Slack \in Nat /\ DnsTime \in Nat
  /\ AdminTime \in Nat /\ ProbeTime \in Nat
  /\ Durations \subseteq Nat /\ Limits \subseteq Nat /\ Buf \in Nat /\ IsFiniteSet(Streams)
BY PeerTestAssumption, DownloadAssumption DEF PeerTestAssumption, DownloadAssumption

\* The steps of the test that leave the download alone.
TestStep ==
  \/ HandshakeOk \/ HandshakeFails \/ Build \/ Built \/ TargetFound \/ TargetFails
  \/ RouteFound \/ RouteMissing \/ RouteRetry \/ RouteGivenUp \/ Pinged
  \/ Transferred \/ Teardown

\* The steps of one stream.
StreamStep(s) == Response(s) \/ Refused(s) \/ Check(s) \/ Receive(s) \/ BodyEnds(s) \/ Aborted(s)

DownloadStep ==
  \/ FetchStarts \/ SamplerEnds \/ StreamsOver \/ FetchReturns
  \/ \E s \in Streams : StreamStep(s)

\* Every step is one of these: the clock, a cancel, the stages, or the download's.
LEMMA StepCases ==
  ASSUME [Next]_vars
  PROVE  \/ TestStep \/ Cancel \/ Tick \/ UNCHANGED vars
         \/ stage = "transfer" /\ UNCHANGED test /\ DownloadStep
BY DEF Next, Step, Input, Transfer, HandshakeTimesOut, TargetTimesOut, PollTimesOut,
       PingTimesOut, FetchStep, FetchInput, TestStep, DownloadStep, StreamStep

\* Starting one more part, or stopping the last, keeps the order of the parts.
LEMMA NodeStep ==
  ASSUME NestInv, Build \/ Teardown
  PROVE  /\ node' \in {{}, {"core"}, {"core", "admin"}, Parts}
         /\ node = {} /\ Teardown => node' = {}
<1>1. node \in {{}, {"core"}, {"core", "admin"}, Parts}
  BY DEF NestInv
<1>2. ASSUME Build PROVE node' \in {{}, {"core"}, {"core", "admin"}, Parts}
  <2>1. Needs["core"] = {} /\ Needs["admin"] = {"core"} /\ Needs["net"] = {"core", "admin"}
    BY DEF Needs
  <2>2. CASE UNCHANGED node
    BY <1>1, <2>2
  <2>3. ASSUME NEW p \in Parts \ node, Needs[p] = node, node' = node \cup {p}
        PROVE  node' \in {{}, {"core"}, {"core", "admin"}, Parts}
    <3>1. p = "core" \/ p = "admin" \/ p = "net"
      BY <2>3 DEF Parts
    <3> QED
      BY <2>1, <2>3, <3>1 DEF Parts
  <2> QED
    BY <1>2, <2>2, <2>3 DEF Build
<1>3. ASSUME Teardown PROVE node' \in {{}, {"core"}, {"core", "admin"}, Parts}
  BY <1>1, <1>3 DEF Teardown, Parts, Needs
<1>4. node = {} /\ Teardown => node' = {}
  BY DEF Teardown
<1> QED
  BY <1>2, <1>3, <1>4

-----------------------------------------------------------------------------
\* The invariant holds when runPeerTest is called.
LEMMA InitInv == Init => TestInv
<1> SUFFICES ASSUME Init PROVE TestInv
  OBVIOUS
<1>1. TypeOK
  <2>1. maxDuration \in Nat /\ left \in Nat /\ timer \in Nat
    BY Times DEF Init, DownloadInit
  <2>2. node \subseteq Parts
    BY DEF Init
  <2>3. DownloadTypeOK
    BY <2>1 DEF Init, DownloadInit, DownloadTypeOK
  <2> QED
    BY <2>1, <2>2, <2>3 DEF Init, TypeOK, Stages
<1>2. NestInv
  BY DEF Init, DownloadInit, NestInv
<1>3. BytesInv
  <2>1. Over = {}
    BY DEF Init, DownloadInit, Over
  <2> QED
    BY <2>1, <1>1, Times, FS_EmptySet DEF Init, DownloadInit, BytesInv, TypeOK, DownloadTypeOK
<1>4. TimeInv
  BY DEF Init, DownloadInit, TimeInv
<1> QED
  BY <1>1, <1>2, <1>3, <1>4 DEF TestInv

\* The types hold on.
LEMMA TypeStep == TypeOK /\ NestInv /\ [Next]_vars => TypeOK'
<1> SUFFICES ASSUME TypeOK, NestInv, [Next]_vars PROVE TypeOK'
  OBVIOUS
<1> USE DEF TypeOK, DownloadTypeOK
<1>1. CASE TestStep
  <2>1. node' \subseteq Parts
    <3>1. CASE Build \/ Teardown
      BY <3>1, NodeStep DEF Parts
    <3> QED
      BY <1>1, <3>1 DEF TestStep, HandshakeOk, HandshakeFails, Built, TargetFound,
         TargetFails, RouteFound, RouteMissing, RouteRetry, RouteGivenUp, Pinged, Transferred
  <2>2. DownloadTypeOK'
    <3>1. UNCHANGED download
      BY <1>1 DEF TestStep, HandshakeOk, HandshakeFails, Build, Built, TargetFound, TargetFails,
         RouteFound, RouteMissing, RouteRetry, RouteGivenUp, Pinged, Transferred, Teardown
    <3> QED
      BY <3>1 DEF download, settings, clocks, transfer
  <2>3. scheme' \in Schemes /\ stage' \in Stages /\ timer' \in Nat
    BY <1>1, Times DEF TestStep, HandshakeOk, HandshakeFails, Build, Built, TargetFound,
       TargetFails, RouteFound, RouteMissing, RouteRetry, RouteGivenUp, Pinged, Transferred,
       Teardown, Enter, Stages
  <2>4. deadline' \in Nat /\ ticked' \in BOOLEAN
    BY <1>1, Times DEF TestStep, HandshakeOk, HandshakeFails, Build, Built, TargetFound,
       TargetFails, RouteFound, RouteMissing, RouteRetry, RouteGivenUp, Pinged, Transferred,
       Teardown
  <2> QED
    BY <2>1, <2>2, <2>3, <2>4
<1>2. CASE Cancel
  BY <1>2 DEF Cancel, test, settings, clocks, transfer
<1>3. CASE Tick
  BY <1>3 DEF Tick, Down, settings, transfer
<1>4. CASE UNCHANGED vars
  BY <1>4 DEF vars, test, download, settings, clocks, transfer
<1>5. CASE stage = "transfer" /\ UNCHANGED test /\ DownloadStep
  <2>1. CASE FetchStarts \/ SamplerEnds \/ StreamsOver \/ FetchReturns
    BY <1>5, <2>1, Times DEF test, FetchStarts, SamplerEnds, StreamsOver, FetchReturns,
       CancelDownload, settings, clocks
  <2>2. ASSUME NEW s \in Streams, StreamStep(s) PROVE TypeOK'
    <3>1. UNCHANGED <<settings, cancelled, clocks, sampling, fetch, measured>>
      BY <2>2 DEF StreamStep, Response, Refused, Check, Receive, BodyEnds, Aborted
    <3>2. stream' \in [Streams -> {"none", "request", "check", "read", "over"}]
      BY <2>2 DEF StreamStep, Response, Refused, Check, Receive, BodyEnds, Aborted, Move
    <3>3. total' \in Nat
      <4>1. CASE Receive(s)
        <5>1. PICK n \in 1..Buf : total' = total + n
          BY <4>1 DEF Receive
        <5> QED
          BY <5>1, Times
      <4> QED
        BY <2>2, <4>1 DEF StreamStep, Response, Refused, Check, BodyEnds, Aborted
    <3>4. errors' \in BOOLEAN
      BY <2>2 DEF StreamStep, Response, Refused, Check, Receive, BodyEnds, Aborted
    <3>5. stopped' \in BOOLEAN
      BY <2>2 DEF StreamStep, Response, Refused, Check, Receive, BodyEnds, Aborted,
         CancelDownload
    <3> QED
      BY <1>5, <3>1, <3>2, <3>3, <3>4, <3>5 DEF test, settings, clocks
  <2> QED
    BY <1>5, <2>1, <2>2 DEF DownloadStep
<1> QED
  BY <1>1, <1>2, <1>3, <1>4, <1>5, StepCases

\* So does the nesting: streams and sampler live inside the function, the function
\* inside its stage, the stage while the node is all up.
LEMMA NestStep == TypeOK /\ NestInv /\ [Next]_vars => NestInv'
<1> SUFFICES ASSUME TypeOK, NestInv, [Next]_vars PROVE NestInv'
  OBVIOUS
<1>1. CASE TestStep
  <2>1. CASE Build
    BY <2>1, NodeStep DEF Build, NestInv, Enter, download, transfer
  <2>2. CASE Teardown
    BY <2>2, NodeStep DEF Teardown, NestInv, Enter, download, transfer
  <2>3. CASE Built
    <3>1. node = Parts
      BY <2>3 DEF Built, NestInv
    <3> QED
      BY <2>3, <3>1 DEF Built, NestInv, Enter, download, transfer
  <2> QED
    BY <1>1, <2>1, <2>2, <2>3 DEF NestInv, TestStep, HandshakeOk, HandshakeFails, TargetFound,
       TargetFails, RouteFound, RouteMissing, RouteRetry, RouteGivenUp, Pinged, Transferred,
       Enter, download, transfer
<1>2. CASE Cancel
  BY <1>2 DEF NestInv, Cancel, test, transfer
<1>3. CASE Tick
  BY <1>3 DEF NestInv, Tick, transfer
<1>4. CASE UNCHANGED vars
  BY <1>4 DEF NestInv, vars, test, download, transfer
<1>5. CASE stage = "transfer" /\ UNCHANGED test /\ DownloadStep
  <2>1. CASE FetchStarts \/ SamplerEnds \/ StreamsOver \/ FetchReturns
    BY <1>5, <2>1 DEF NestInv, test, FetchStarts, SamplerEnds, StreamsOver, FetchReturns
  <2>2. ASSUME NEW s \in Streams, StreamStep(s) PROVE NestInv'
    BY <1>5, <2>2 DEF NestInv, TypeOK, DownloadTypeOK, test, StreamStep, Response, Refused,
       Check, Receive, BodyEnds, Aborted, Move
  <2> QED
    BY <1>5, <2>1, <2>2 DEF DownloadStep
<1> QED
  BY <1>1, <1>2, <1>3, <1>4, <1>5, StepCases

-----------------------------------------------------------------------------
\* The streams that are over are finitely many, so they can be counted.
LEMMA OverIsFinite ==
  IsFiniteSet(Over) /\ Cardinality(Over) \in Nat /\ Cardinality(Streams) \in Nat
  /\ Cardinality(Over) <= Cardinality(Streams)
<1>1. Over \in SUBSET Streams
  BY DEF Over
<1> QED
  BY <1>1, Times, FS_Subset, FS_CardinalityType

\* A stream's step leaves the set of those that are over, or adds the stream.
LEMMA OverGrows ==
  ASSUME TypeOK, NEW s \in Streams, NEW from, NEW to, from # "over", Move(s, from, to)
  PROVE  IF to = "over" THEN Cardinality(Over') = Cardinality(Over) + 1
                        ELSE Cardinality(Over') = Cardinality(Over)
<1>1. s \notin Over
  BY DEF Over, Move
<1>2. CASE to = "over"
  <2>1. Over' = Over \cup {s}
    BY <1>2 DEF Over, Move, TypeOK, DownloadTypeOK
  <2> QED
    BY <1>1, <1>2, <2>1, OverIsFinite, FS_AddElement
<1>3. CASE to # "over"
  <2>1. Over' = Over
    BY <1>1, <1>3 DEF Over, Move, TypeOK, DownloadTypeOK
  <2> QED
    BY <1>3, <2>1
<1> QED
  BY <1>2, <1>3

\* Bytes are counted by streams that looked at the limit before they read, each at
\* most one buffer over, and a stream that is over adds no more.
LEMMA BytesStep == TypeOK /\ NestInv /\ BytesInv /\ [Next]_vars => BytesInv'
<1> SUFFICES ASSUME TypeOK, NestInv, BytesInv, [Next]_vars PROVE BytesInv'
  OBVIOUS
<1>0. maxBytes \in Nat /\ total \in Nat /\ Buf \in Nat /\ Cardinality(Over) \in Nat
  BY Times, OverIsFinite DEF TypeOK, DownloadTypeOK
<1>1. CASE UNCHANGED <<maxBytes, total, stream>> /\ (fetch' = "off" => fetch = "off")
  <2>1. Over' = Over
    BY <1>1 DEF Over
  <2> QED
    BY <1>1, <2>1 DEF BytesInv
<1>2. CASE TestStep \/ Cancel \/ Tick \/ UNCHANGED vars
  <2>1. UNCHANGED <<maxBytes, total, stream, fetch>>
    BY <1>2 DEF TestStep, HandshakeOk, HandshakeFails, Build, Built, TargetFound, TargetFails,
       RouteFound, RouteMissing, RouteRetry, RouteGivenUp, Pinged, Transferred, Teardown,
       Cancel, Tick, vars, download, settings, transfer
  <2> QED
    BY <1>1, <2>1
<1>3. CASE FetchStarts
  <2>1. Over' = {}
    BY <1>3 DEF FetchStarts, Over
  <2>2. total' = 0 /\ maxBytes' = maxBytes /\ fetch' # "off"
    BY <1>3 DEF FetchStarts, BytesInv, settings
  <2> QED
    BY <1>0, <2>1, <2>2, FS_EmptySet DEF BytesInv
<1>4. CASE SamplerEnds \/ StreamsOver \/ FetchReturns
  BY <1>1, <1>4 DEF SamplerEnds, StreamsOver, FetchReturns, settings
<1>5. ASSUME NEW s \in Streams, StreamStep(s) PROVE BytesInv'
  <2>1. fetch # "off" /\ fetch' = fetch /\ maxBytes' = maxBytes
    BY <1>5 DEF StreamStep, Response, Refused, Check, Receive, BodyEnds, Aborted, Move,
       NestInv, settings
  <2>2. CASE total' = total
    <3>1. \/ Cardinality(Over') = Cardinality(Over)
          \/ Cardinality(Over') = Cardinality(Over) + 1
      <4>1. \E from \in {"request", "check", "read"}, to \in {"check", "read", "over"} : Move(s, from, to)
        BY <1>5 DEF StreamStep, Response, Refused, Check, Receive, BodyEnds, Aborted
      <4> QED
        BY <4>1, OverGrows
    <3>2. (Cardinality(Over) + 1) * Buf = Cardinality(Over) * Buf + Buf
      BY <1>0
    <3>3. Cardinality(Over) * Buf \in Nat
      BY <1>0
    <3> QED
      BY <1>0, <2>1, <2>2, <3>1, <3>2, <3>3 DEF BytesInv
  <2>3. CASE Receive(s)
    <3>1. PICK n \in 1..Buf : /\ total' = total + n
                             /\ IF LimitReached(total + n) THEN Move(s, "read", "over")
                                                           ELSE Move(s, "read", "check")
      BY <2>3 DEF Receive
    <3>2. Cardinality(Over) * Buf \in Nat
      BY <1>0
    <3>3. CASE LimitReached(total + n)
      <4>1. Cardinality(Over') = Cardinality(Over) + 1
        BY <3>1, <3>3, OverGrows
      <4>2. Cardinality(Over') * Buf = Cardinality(Over) * Buf + Buf
        BY <1>0, <4>1
      <4> QED
        BY <1>0, <2>1, <3>1, <3>2, <4>2 DEF BytesInv
    <3>4. CASE ~LimitReached(total + n)
      <4>1. Cardinality(Over') = Cardinality(Over)
        BY <3>1, <3>4, OverGrows
      <4>2. maxBytes > 0 => total' < maxBytes
        BY <1>0, <3>1, <3>4 DEF LimitReached
      <4> QED
        BY <1>0, <2>1, <3>1, <3>2, <4>1, <4>2 DEF BytesInv
    <3> QED
      BY <3>3, <3>4
  <2> QED
    BY <1>5, <2>2, <2>3 DEF StreamStep, Response, Refused, Check, BodyEnds, Aborted
<1> QED
  BY <1>2, <1>3, <1>4, <1>5, StepCases DEF DownloadStep

\* While the function waits for streams or sampler and its time is up, there is
\* something urgent to do.
LEMMA NoTimeIsLost ==
  ASSUME TypeOK, NestInv, TimeInv, stage = "transfer", ~Urgent
  PROVE  /\ fetch = "wait" \/ fetch = "sampler"
         /\ maxDuration > 0 => fetch = "wait" /\ limit > 0
<1>1. fetch = "wait" \/ fetch = "sampler"
  BY DEF Urgent, FetchUrgent, TypeOK, DownloadTypeOK
<1>2. ASSUME maxDuration > 0 PROVE fetch = "wait"
  BY <1>1, <1>2 DEF Urgent, FetchUrgent, DownloadDone, TimeInv
<1>3. ASSUME maxDuration > 0, limit = 0 PROVE FALSE
  <2>1. DownloadDone /\ fetch = "wait"
    BY <1>2, <1>3 DEF DownloadDone
  <2>2. \A s \in Streams : stream[s] \in {"request", "check", "read", "over"}
    BY <2>1 DEF NestInv, TypeOK, DownloadTypeOK
  <2> QED
    BY <2>1, <2>2 DEF Urgent, FetchUrgent
<1> QED
  BY <1>1, <1>2, <1>3 DEF TypeOK, DownloadTypeOK

\* Time the clock takes from what is left is time the test has lasted.
LEMMA SumShrinks ==
  ASSUME NEW a \in Nat, NEW b \in Nat, NEW c \in Nat, NEW m \in Nat, c <= b, a + b <= m
  PROVE  a + c <= m
OBVIOUS

\* A limited download ends with its last stream or with its duration, whichever is first.
LEMMA TimeStep == TypeOK /\ NestInv /\ TimeInv /\ [Next]_vars => TimeInv'
<1> SUFFICES ASSUME TypeOK, NestInv, TimeInv, [Next]_vars PROVE TimeInv'
  OBVIOUS
<1>0. maxDuration \in Nat /\ limit \in Nat /\ spent \in Nat /\ late \in Nat
  BY Times DEF TypeOK, DownloadTypeOK
<1>1. CASE TestStep
  <2>1. UNCHANGED <<spent, late, limit, fetch, maxDuration, stopped>>
    BY <1>1 DEF TestStep, HandshakeOk, HandshakeFails, Build, Built, TargetFound, TargetFails,
       RouteFound, RouteMissing, RouteRetry, RouteGivenUp, Pinged, Transferred, Teardown,
       download, clocks, settings, transfer
  <2>2. stage' \notin {"transfer", "teardown", "done"} => stage \notin {"transfer", "teardown", "done"}
    BY <1>1 DEF TestStep, HandshakeOk, HandshakeFails, Build, Built, TargetFound, TargetFails,
       RouteFound, RouteMissing, RouteRetry, RouteGivenUp, Pinged, Transferred, Teardown, Enter
  <2> QED
    BY <2>1, <2>2 DEF TimeInv
<1>2. CASE Cancel \/ UNCHANGED vars
  BY <1>2 DEF TimeInv, Cancel, vars, test, download, settings, clocks, transfer
<1>3. CASE Tick
  <2>1. UNCHANGED <<fetch, maxDuration, stopped, stage>>
    BY <1>3 DEF Tick, settings, transfer
  <2>2. limit' <= limit /\ (limit > 0 => limit' = limit - 1) /\ limit' \in Nat
    BY <1>0, <1>3 DEF Tick, Down
  <2>3. CASE stage = "transfer"
    <3>1. /\ fetch = "wait" \/ fetch = "sampler"
          /\ maxDuration > 0 => fetch = "wait" /\ limit > 0
      BY <1>3, <2>3, NoTimeIsLost DEF Tick
    <3>2. spent' = spent + 1 /\ (fetch = "wait" => late' = late)
      BY <1>3, <2>3 DEF Tick
    <3>3. CASE maxDuration > 0
      <4>1. spent' + limit' = spent + limit /\ late' = late
        BY <1>0, <2>2, <3>1, <3>2, <3>3
      <4> QED
        BY <1>0, <2>1, <2>3, <3>1, <3>3, <4>1 DEF TimeInv
    <3>4. CASE ~(maxDuration > 0)
      BY <1>0, <2>1, <2>3, <3>1, <3>4 DEF TimeInv
    <3> QED
      BY <3>3, <3>4
  <2>4. CASE stage # "transfer"
    <3>1. spent' = spent /\ late' = late
      BY <1>3, <2>4 DEF Tick, NestInv
    <3>2. /\ spent \in Nat /\ spent' \in Nat /\ limit \in Nat /\ limit' \in Nat
          /\ maxDuration \in Nat /\ limit' <= limit /\ spent' = spent
      BY <1>0, <2>2, <3>1
    <3>3. maxDuration > 0 /\ fetch # "off" => spent + limit <= maxDuration
      BY DEF TimeInv
    <3>4. spent + limit <= maxDuration => spent + limit' <= maxDuration
      BY <3>2, SumShrinks
    <3>5. maxDuration > 0 /\ fetch # "off" => spent' + limit' <= maxDuration
      BY <3>2, <3>3, <3>4
    <3> QED
      BY <2>1, <3>1, <3>5 DEF TimeInv
  <2> QED
    BY <2>3, <2>4
<1>4. CASE stage = "transfer" /\ UNCHANGED test /\ DownloadStep
  <2>1. CASE FetchStarts
    BY <1>0, <1>4, <2>1 DEF TimeInv, FetchStarts, test, settings
  <2>2. CASE SamplerEnds \/ StreamsOver \/ FetchReturns
    BY <1>4, <2>2 DEF TimeInv, SamplerEnds, StreamsOver, FetchReturns, CancelDownload, test,
       settings, clocks
  <2>3. ASSUME NEW s \in Streams, StreamStep(s) PROVE TimeInv'
    <3>1. UNCHANGED <<settings, clocks, fetch>>
      BY <2>3 DEF StreamStep, Response, Refused, Check, Receive, BodyEnds, Aborted
    <3>2. stopped => stopped'
      BY <2>3, Zenon DEF StreamStep, Response, Refused, Check, Receive, BodyEnds, Aborted,
         CancelDownload
    <3> QED
      BY <1>4, <3>1, <3>2 DEF TimeInv, test, settings, clocks
  <2> QED
    BY <1>4, <2>1, <2>2, <2>3 DEF DownloadStep
<1> QED
  BY <1>1, <1>2, <1>3, <1>4, StepCases

-----------------------------------------------------------------------------
\* The whole invariant holds in every behaviour.
LEMMA TestInvHolds == Spec => []TestInv
<1>1. TestInv /\ [Next]_vars => TestInv'
  BY TypeStep, NestStep, BytesStep, TimeStep DEF TestInv
<1> QED
  BY InitInv, <1>1, PTL DEF Spec

\* Every variable keeps its type, whatever the settings.
THEOREM TypeCorrect == Spec => []TypeOK
<1>1. TestInv => TypeOK
  BY DEF TestInv
<1> QED
  BY <1>1, TestInvHolds, PTL

\* runPeerTest joins the streams and the sampler before it closes the node they use,
\* and closes the node part by part in the reverse order, on every path.
THEOREM NodeOutlivesItsUsers == Spec => []NothingUsesAClosedNode
<1>1. TestInv => NothingUsesAClosedNode
  <2> SUFFICES ASSUME TestInv PROVE NothingUsesAClosedNode
    OBVIOUS
  <2>1. (sampling \/ \E s \in Streams : stream[s] \in {"request", "check", "read"})
          => fetch \in {"wait", "sampler"}
    BY DEF TestInv, NestInv, TypeOK, DownloadTypeOK
  <2>2. \A p \in node : Needs[p] \subseteq node
    BY DEF TestInv, NestInv, Needs, Parts
  <2> QED
    BY <2>1, <2>2 DEF TestInv, NestInv, NothingUsesAClosedNode
<1> QED
  BY <1>1, TestInvHolds, PTL

\* Any number of streams overshoots max_bytes by less than a buffer each, and a
\* duration that is limited is exact.
THEOREM MeasurementsAreExact == Spec => []MeasurementIsExact
<1>1. TestInv => MeasurementIsExact
  <2> SUFFICES ASSUME TestInv PROVE MeasurementIsExact
    OBVIOUS
  <2>1. Cardinality(Over) * Buf <= Cardinality(Streams) * Buf
    <3> DEFINE rest == Cardinality(Streams) - Cardinality(Over)
    <3>1. rest \in Nat /\ Buf \in Nat /\ Cardinality(Over) \in Nat /\ Cardinality(Streams) \in Nat
      BY OverIsFinite, Times
    <3>2. rest * Buf \in Nat /\ Cardinality(Over) * Buf \in Nat /\ Cardinality(Streams) * Buf \in Nat
      BY <3>1
    <3>3. Cardinality(Streams) * Buf = Cardinality(Over) * Buf + rest * Buf
      BY <3>1
    <3> HIDE DEF rest
    <3> QED
      BY <3>2, <3>3
  <2>2. maxBytes > 0 => total < maxBytes + Cardinality(Streams) * Buf
    <3>1. /\ Cardinality(Over) * Buf \in Nat /\ Cardinality(Streams) * Buf \in Nat
          /\ total \in Nat /\ maxBytes \in Nat
      BY OverIsFinite, Times DEF TestInv, TypeOK, DownloadTypeOK
    <3> QED
      BY <2>1, <3>1 DEF TestInv, BytesInv
  <2>3. fetch = "returned" /\ maxDuration > 0 => late = 0 /\ spent <= maxDuration
    BY Times DEF TestInv, TimeInv, TypeOK, DownloadTypeOK
  <2> QED
    BY <2>2, <2>3 DEF MeasurementIsExact
<1> QED
  BY <1>1, TestInvHolds, PTL

-----------------------------------------------------------------------------
(* The test is one as dispatch sees it *)

\* The outcome is there when the function has returned, and not before.
OutcomeInv == fetch # "returned" => measured = "none"

LEMMA OutcomeStep == TypeOK /\ NestInv /\ OutcomeInv /\ [Next]_vars => OutcomeInv'
<1> SUFFICES ASSUME TypeOK, NestInv, OutcomeInv, [Next]_vars PROVE OutcomeInv'
  OBVIOUS
<1>1. CASE UNCHANGED <<fetch, measured>>
  BY <1>1 DEF OutcomeInv
<1>2. CASE TestStep \/ Cancel \/ Tick \/ UNCHANGED vars
  <2>1. UNCHANGED <<fetch, measured>>
    BY <1>2 DEF TestStep, HandshakeOk, HandshakeFails, Build, Built, TargetFound, TargetFails,
       RouteFound, RouteMissing, RouteRetry, RouteGivenUp, Pinged, Transferred, Teardown,
       Cancel, Tick, vars, download, transfer
  <2> QED
    BY <1>1, <2>1
<1>3. CASE DownloadStep
  <2>1. CASE FetchReturns
    BY <2>1 DEF FetchReturns, OutcomeInv
  <2>2. CASE FetchStarts \/ SamplerEnds \/ StreamsOver
    BY <2>2 DEF FetchStarts, SamplerEnds, StreamsOver, OutcomeInv
  <2>3. ASSUME NEW s \in Streams, StreamStep(s) PROVE OutcomeInv'
    <3>1. UNCHANGED <<fetch, measured>>
      BY <2>3 DEF StreamStep, Response, Refused, Check, Receive, BodyEnds, Aborted
    <3> QED
      BY <1>1, <3>1
  <2> QED
    BY <1>3, <2>1, <2>2, <2>3 DEF DownloadStep
<1> QED
  BY <1>2, <1>3, StepCases

LEMMA Seen ==
  ASSUME UNCHANGED <<stage, cancelled, total, stream, measured>>
  PROVE  UNCHANGED Test!vars
BY DEF Test!vars, Stage, Moving

\* What the stages of the test do, but for the download, which is one of them.
LEMMA StageStep ==
  ASSUME TypeOK, NestInv, TestStep
  PROVE  [Test!Next]_(Test!vars)
<1>1. UNCHANGED <<cancelled, total, stream, measured>>
  BY DEF TestStep, HandshakeOk, HandshakeFails, Build, Built, TargetFound, TargetFails,
     RouteFound, RouteMissing, RouteRetry, RouteGivenUp, Pinged, Transferred, Teardown,
     download, transfer
<1>2. UNCHANGED <<cancelled, Moving, measured>>
  BY <1>1 DEF Moving
<1>3. CASE HandshakeOk \/ HandshakeFails
  <2>1. stage = "handshake" /\ stage' \in {"build", "done"}
    BY <1>3 DEF HandshakeOk, HandshakeFails, Enter
  <2>2. Test!Handshake
    BY <1>2, <2>1 DEF Test!Handshake, Test!Go, Stage
  <2> QED
    BY <2>2 DEF Test!Next
<1>4. CASE Build \/ Built
  <2>1. stage = "build" /\ stage' \in {"build", "target", "teardown"}
    BY <1>4 DEF Build, Built, Enter
  <2>2. CASE stage' = "build"
    BY <1>1, <2>1, <2>2, Seen
  <2>3. CASE stage' # "build"
    <3>1. Test!Build
      BY <1>2, <2>1, <2>3 DEF Test!Build, Test!Go, Stage
    <3> QED
      BY <3>1 DEF Test!Next
  <2> QED
    BY <2>2, <2>3
<1>5. CASE TargetFound \/ RouteFound \/ RouteMissing \/ RouteRetry \/ Pinged
  <2>1. {stage, stage'} \subseteq {"target", "poll", "pause", "ping", "transfer"}
    BY <1>5 DEF TargetFound, RouteFound, RouteMissing, RouteRetry, Pinged, Enter
  <2>2. UNCHANGED Stage
    BY <2>1 DEF Stage
  <2> QED
    BY <1>2, <2>2 DEF Test!vars
<1>6. CASE TargetFails \/ RouteGivenUp \/ Transferred
  <2>1. stage \in {"target", "pause", "transfer"} /\ stage' = "teardown"
    BY <1>6 DEF TargetFails, RouteGivenUp, Transferred, Enter
  <2>2. Test!Leave
    BY <1>2, <2>1 DEF Test!Leave, Test!Go, Stage
  <2> QED
    BY <2>2 DEF Test!Next
<1>7. CASE Teardown
  <2>1. stage = "teardown" /\ stage' \in {"teardown", "done"}
    BY <1>7 DEF Teardown, Enter
  <2>2. CASE stage' = "teardown"
    BY <1>1, <2>1, <2>2, Seen
  <2>3. CASE stage' = "done"
    <3>1. Test!TornDown
      BY <1>2, <2>1, <2>3 DEF Test!TornDown, Test!Go, Stage
    <3> QED
      BY <3>1 DEF Test!Next
  <2> QED
    BY <2>1, <2>2, <2>3
<1> QED
  BY <1>3, <1>4, <1>5, <1>6, <1>7 DEF TestStep

\* Bytes move only after a Check that saw no cancel, and there is a measurement only of
\* bytes that moved.
LEMMA TransferStep ==
  ASSUME TypeOK, NestInv, OutcomeInv, stage = "transfer", UNCHANGED test, DownloadStep
  PROVE  [Test!Next]_(Test!vars)
<1>0. stage = "transfer" /\ stage' = "transfer" /\ Stage = "use" /\ Stage' = "use"
  BY DEF test, Stage
<1>1. total \in Nat /\ stream \in [Streams -> {"none", "request", "check", "read", "over"}]
  BY DEF TypeOK, DownloadTypeOK
<1>2. CASE FetchStarts
  <2>1. /\ \A s \in Streams : stream[s] # "read" /\ stream'[s] # "read"
        /\ UNCHANGED <<cancelled, total, measured>>
    BY <1>2 DEF FetchStarts, NestInv
  <2>2. UNCHANGED Moving
    BY <2>1 DEF Moving
  <2> QED
    BY <1>0, <2>1, <2>2 DEF Test!vars
<1>3. CASE SamplerEnds \/ StreamsOver
  <2>1. UNCHANGED <<cancelled, total, stream, measured>>
    BY <1>3 DEF SamplerEnds, StreamsOver
  <2> QED
    BY <1>0, <2>1, Seen
<1>4. CASE FetchReturns
  <2>1. /\ fetch = "sampler" /\ measured' = IF total = 0 THEN "error" ELSE "ok"
        /\ UNCHANGED <<cancelled, total, stream>>
    BY <1>4 DEF FetchReturns
  <2>2. measured = "none" /\ UNCHANGED Moving
    BY <2>1 DEF OutcomeInv, Moving
  <2>3. CASE total = 0
    BY <1>0, <2>1, <2>2, <2>3 DEF Test!vars
  <2>4. CASE total > 0
    <3>1. Moving
      BY <2>4 DEF Moving
    <3>2. Test!Measure
      BY <1>0, <2>1, <2>2, <2>4, <3>1 DEF Test!Measure
    <3> QED
      BY <3>2 DEF Test!Next
  <2> QED
    BY <1>1, <2>3, <2>4
<1>5. ASSUME NEW s \in Streams, StreamStep(s) PROVE [Test!Next]_(Test!vars)
  <2>1. UNCHANGED <<cancelled, measured>>
    BY <1>5 DEF StreamStep, Response, Refused, Check, Receive, BodyEnds, Aborted
  <2>2. CASE Moving' /\ Moving
    BY <1>0, <2>1, <2>2 DEF Test!vars, Moving
  <2>3. CASE ~Moving' /\ ~Moving
    BY <1>0, <2>1, <2>3 DEF Test!vars, Moving
  <2>4. CASE Moving /\ ~Moving'
    <3>1. Test!Lapse
      BY <1>0, <2>1, <2>4 DEF Test!Lapse, Moving
    <3> QED
      BY <3>1 DEF Test!Next
  <2>5. CASE ~Moving /\ Moving'
    <3>1. total = 0 /\ \A v \in Streams : stream[v] # "read"
      BY <1>1, <2>5 DEF Moving
    <3>2. ~Receive(s)
      BY <3>1 DEF Receive, Move
    <3>3. Check(s) /\ stream'[s] = "read"
      BY <1>1, <1>5, <2>5, <3>1, <3>2 DEF StreamStep, Response, Refused, Check, BodyEnds, Aborted,
         Move, Moving
    <3>4. ~cancelled
      BY <1>1, <3>3 DEF Check, Move, DownloadDone, CtxDone
    <3>5. Test!Flow
      BY <1>0, <2>1, <2>5, <3>4 DEF Test!Flow, Moving
    <3> QED
      BY <3>5 DEF Test!Next
  <2> QED
    BY <2>2, <2>3, <2>4, <2>5
<1> QED
  BY <1>2, <1>3, <1>4, <1>5 DEF DownloadStep

\* runPeerTest: on every path the stages come in order, the node is closed before the
\* outcome is there, and what is measured was moving before the cancel.
THEOREM TestRefines == Spec => ImplementsTestStages
<1>1. Init => Test!Init /\ OutcomeInv
  <2>1. Init => ~Moving
    BY DEF Init, DownloadInit, Moving
  <2> QED
    BY <2>1 DEF Init, DownloadInit, Test!Init, Stage, OutcomeInv, Moving
<1>2. TestInv /\ OutcomeInv /\ [Next]_vars => OutcomeInv'
  BY OutcomeStep DEF TestInv
<1>3. TestInv /\ OutcomeInv /\ [Next]_vars => [Test!Next]_(Test!vars)
  <2> SUFFICES ASSUME TestInv, OutcomeInv, [Next]_vars PROVE [Test!Next]_(Test!vars)
    OBVIOUS
  <2>1. TypeOK /\ NestInv
    BY DEF TestInv
  <2>2. CASE TestStep
    BY <2>1, <2>2, StageStep
  <2>3. CASE stage = "transfer" /\ UNCHANGED test /\ DownloadStep
    BY <2>1, <2>3, TransferStep
  <2>4. CASE Cancel
    <3>1. UNCHANGED <<Stage, Moving, measured>>
      BY <2>4 DEF Cancel, test, transfer, Stage, Moving
    <3>2. Test!Cancel
      BY <2>4, <3>1 DEF Cancel, Test!Cancel
    <3> QED
      BY <3>2 DEF Test!Next
  <2>5. CASE Tick \/ UNCHANGED vars
    <3>1. UNCHANGED <<stage, cancelled, total, stream, measured>>
      BY <2>5 DEF Tick, vars, test, download, transfer
    <3> QED
      BY <3>1, Seen
  <2> QED
    BY <2>2, <2>3, <2>4, <2>5, StepCases
<1> QED
  BY <1>1, <1>2, <1>3, TestInvHolds, PTL DEF Spec, Test!Spec, ImplementsTestStages

=============================================================================
