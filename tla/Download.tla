------------------------------ MODULE Download ------------------------------
(***************************************************************************)
(* internal/engine/download.go: the parallel streams of one measurement,   *)
(* the byte counter they share, the sampler goroutine and the function     *)
(* that waits for both.  Time is what the contexts have left.  Servers and *)
(* networks answer, fail or stay silent as they like; what only needs the  *)
(* processor takes no time (Urgent).                                       *)
(***************************************************************************)
EXTENDS Naturals, FiniteSets

CONSTANTS
  Streams,      \* the connections of a download
  Durations,    \* values of max_duration, 0 for unlimited
  Limits,       \* values of max_bytes, 0 for unlimited
  Buf,          \* the most a Read returns
  MaxTotal      \* bound: bytes the servers have to offer

ASSUME DownloadAssumption ==
  /\ IsFiniteSet(Streams) /\ Durations \subseteq Nat /\ Limits \subseteq Nat
  /\ Buf \in Nat \ {0} /\ MaxTotal \in Nat

VARIABLES
  maxDuration, maxBytes,
  cancelled,    \* the run's context
  left,         \* what is left of the test's context
  limit,        \* what is left of maxDuration
  stopped,      \* downloadCtx was cancelled by its own cancel
  total,        \* downloadedAtomic
  stream,       \* per stream: "none", "request", "check", "read", "over"
  errors,       \* errCh holds an error
  sampling,     \* the sampler goroutine is there
  fetch,        \* the function: "off", "wait", "sampler", "returned"
  spent, late,  \* time since start, and since the last stream ended
  measured      \* what it returned: "none", "ok", "error"

settings == <<maxDuration, maxBytes>>
clocks   == <<left, limit, spent, late>>
transfer == <<stopped, total, stream, errors, sampling, fetch, measured>>

CtxDone == cancelled \/ left = 0
DownloadDone == CtxDone \/ stopped \/ (maxDuration > 0 /\ limit = 0)

\* Mutant of LimitReached: the limit itself does not stop a stream.
LimitReached_After(n) == maxBytes > 0 /\ n > maxBytes

LimitReached(n) == maxBytes > 0 /\ n >= maxBytes

\* Without a limit on the duration cancel does nothing.
CancelDownload == stopped' = (stopped \/ maxDuration > 0)

Move(s, from, to) == stream[s] = from /\ stream' = [stream EXCEPT ![s] = to]

-----------------------------------------------------------------------------
FetchStarts ==
  /\ fetch = "off" /\ fetch' = "wait"
  /\ stream' = [s \in Streams |-> "request"]
  /\ sampling' = TRUE
  /\ limit' = maxDuration
  /\ UNCHANGED <<settings, cancelled, left, spent, late, stopped, total, errors, measured>>

\* client.Do: a response to read, or an error, or a status that is none of 200 and 206.
Response(s) ==
  /\ Move(s, "request", "check")
  /\ UNCHANGED <<settings, cancelled, clocks, stopped, total, errors, sampling, fetch, measured>>

Refused(s) ==
  /\ Move(s, "request", "over")
  /\ errors' = TRUE
  /\ UNCHANGED <<settings, cancelled, clocks, stopped, total, sampling, fetch, measured>>

\* Mutant of Check: the read loop does not look at its context.
Check_Blind(s) ==
  /\ Move(s, "check", "read")
  /\ UNCHANGED <<settings, cancelled, clocks, stopped, total, errors, sampling, fetch, measured>>

\* The top of the read loop.
Check(s) ==
  /\ IF DownloadDone \/ LimitReached(total) THEN Move(s, "check", "over")
                                            ELSE Move(s, "check", "read")
  /\ IF ~DownloadDone /\ LimitReached(total) THEN CancelDownload ELSE UNCHANGED stopped
  /\ UNCHANGED <<settings, cancelled, clocks, total, errors, sampling, fetch, measured>>

\* Read returns data; the counter is added to in one step.
Receive(s) ==
  /\ \E n \in 1..Buf :
       /\ total + n <= MaxTotal
       /\ total' = total + n
       /\ IF LimitReached(total + n) THEN Move(s, "read", "over") /\ CancelDownload
                                     ELSE Move(s, "read", "check") /\ UNCHANGED stopped
  /\ UNCHANGED <<settings, cancelled, clocks, errors, sampling, fetch, measured>>

\* Read returns EOF, or fails.
BodyEnds(s) ==
  /\ Move(s, "read", "over")
  /\ errors' \in {errors, TRUE}
  /\ UNCHANGED <<settings, cancelled, clocks, stopped, total, sampling, fetch, measured>>

\* The context ends a request or a Read, whatever the server does.
Aborted(s) ==
  /\ DownloadDone
  /\ \/ Move(s, "request", "over") /\ errors' = TRUE
     \/ Move(s, "read", "over") /\ UNCHANGED errors
  /\ UNCHANGED <<settings, cancelled, clocks, stopped, total, sampling, fetch, measured>>

SamplerEnds ==
  /\ sampling /\ DownloadDone
  /\ sampling' = FALSE
  /\ UNCHANGED <<settings, cancelled, clocks, stopped, total, stream, errors, fetch, measured>>

\* Mutant of StreamsOver: the sampler is left to find out.
StreamsOver_NoCancel ==
  /\ fetch = "wait" /\ \A s \in Streams : stream[s] = "over"
  /\ fetch' = "sampler"
  /\ UNCHANGED <<settings, cancelled, clocks, stopped, total, stream, errors, sampling, measured>>

\* wg.Wait, cancel.
StreamsOver ==
  /\ fetch = "wait" /\ \A s \in Streams : stream[s] = "over"
  /\ fetch' = "sampler"
  /\ CancelDownload
  /\ UNCHANGED <<settings, cancelled, clocks, total, stream, errors, sampling, measured>>

\* Mutant of FetchReturns: it does not wait for the streams.
FetchReturns_AtOnce ==
  /\ fetch = "wait" /\ fetch' = "returned" /\ measured' = "ok"
  /\ UNCHANGED <<settings, cancelled, clocks, stopped, total, stream, errors, sampling>>

\* <-sampleDone, then the figures; nothing moved is an error.
FetchReturns ==
  /\ fetch = "sampler" /\ ~sampling
  /\ fetch' = "returned"
  /\ measured' = IF total = 0 THEN "error" ELSE "ok"
  /\ UNCHANGED <<settings, cancelled, clocks, stopped, total, stream, errors, sampling>>

-----------------------------------------------------------------------------
\* Steps of the program, which are urgent, and steps of the world.
FetchStep ==
  \/ FetchStarts \/ SamplerEnds \/ StreamsOver \/ FetchReturns
  \/ \E s \in Streams : Check(s) \/ Aborted(s)
FetchInput == \E s \in Streams : Response(s) \/ Refused(s) \/ Receive(s) \/ BodyEnds(s)

FetchUrgent ==
  \/ fetch = "off"
  \/ \E s \in Streams : stream[s] = "check" \/ (DownloadDone /\ stream[s] \in {"request", "read"})
  \/ fetch = "wait" /\ \A s \in Streams : stream[s] = "over"
  \/ fetch = "sampler" /\ (DownloadDone \/ ~sampling)

DownloadInit ==
  /\ maxDuration \in Durations /\ maxBytes \in Limits
  /\ cancelled = FALSE /\ stopped = FALSE
  /\ limit = 0 /\ spent = 0 /\ late = 0
  /\ total = 0 /\ errors = FALSE /\ sampling = FALSE
  /\ stream = [s \in Streams |-> "none"]
  /\ fetch = "off" /\ measured = "none"

-----------------------------------------------------------------------------
DownloadTypeOK ==
  /\ maxDuration \in Durations /\ maxBytes \in Limits
  /\ cancelled \in BOOLEAN /\ stopped \in BOOLEAN
  /\ left \in Nat /\ limit \in Nat /\ spent \in Nat /\ late \in Nat
  /\ total \in Nat /\ errors \in BOOLEAN /\ sampling \in BOOLEAN
  /\ stream \in [Streams -> {"none", "request", "check", "read", "over"}]
  /\ fetch \in {"off", "wait", "sampler", "returned"}
  /\ measured \in {"none", "ok", "error"}

\* However the streams interleave, max_bytes is overshot by less than one buffer
\* per stream; and where the duration is limited, what the rate is divided by ends
\* with the last stream, the sampler adds nothing to it.
MeasurementIsExact ==
  /\ maxBytes > 0 => total < maxBytes + Cardinality(Streams) * Buf
  /\ fetch = "returned" /\ maxDuration > 0 => late = 0 /\ spent <= maxDuration
=============================================================================
