------------------------------- MODULE Events -------------------------------
(***************************************************************************)
(* The event hub of internal/web, those who publish to it (the goroutine   *)
(* of a run, those of its peers, a PUT handler), the stream handlers that  *)
(* read it, the dashboard pages behind them, and the shutdown of the       *)
(* server.  h.mu is a variable: publish holds it over one send per         *)
(* subscriber.  A client may stop reading, go, and come back; what a page  *)
(* fetches is answered and applied later, in any order.                    *)
(***************************************************************************)
EXTENDS Naturals, Sequences

CONSTANTS
  Clients,    \* dashboard pages
  Peers,      \* peers of a run, each with a goroutine that reports it
  Buffer,     \* subscriberBuffer
  MaxRuns, MaxPuts, MaxBreaks    \* bounds: runs, PUTs, connections that break

ASSUME BufferAssumption == Buffer \in Nat \ {0}
ASSUME BoundAssumption == MaxRuns \in Nat /\ MaxPuts \in Nat /\ MaxBreaks \in Nat

Run == "run"
Put == "put"
Publishers == {Run, Put} \cup Peers
Nobody == "nobody"

ASSUME PeersAssumption == Peers \cap {Run, Put, Nobody} = {}

Event(kind, run) == [kind |-> kind, run |-> run]
Quiet == Event("none", 0)     \* not inside publish

VARIABLES
  mu,         \* who holds h.mu
  subs,       \* h.subs
  ch,         \* per client: the buffer of its channel
  pub,        \* per publisher: the event it is publishing, or Quiet
  rest,       \* the subscribers the holder of mu has not reached yet
  stage,      \* the run goroutine
  told,       \* the peers whose result was handed to OnResult
  made,       \* runs started so far; the current one is the last
  busy,       \* s.current while s.busy, else 0
  puts, breaks,
  main,       \* "up", "cancelled" by a signal, "drain" once in Shutdown
  conn,       \* per client: its handler
  wire,       \* per client: the event its handler is writing
  page,       \* per client: the run its page shows as running, 0 for none
  asked,      \* per client: a status request is on its way to the server
  answers,    \* per client: answers the page has not applied
  ended       \* per client: the last run whose end it heard of

hub     == <<mu, subs, ch, pub, rest>>
work    == <<stage, told, made, busy, puts>>
streams == <<conn, wire>>
pages   == <<page, asked, answers, ended>>
vars    == <<hub, work, streams, pages, main, breaks>>

Set(f, k, v) == f' = [f EXCEPT ![k] = v]

-----------------------------------------------------------------------------
(* hub.publish, in the goroutine of p. *)

Publishes(p, kind) == Set(pub, p, Event(kind, made'))

Begin(p) ==
  /\ pub[p] # Quiet /\ mu = Nobody
  /\ IF subs = {} THEN Set(pub, p, Quiet) /\ UNCHANGED <<mu, rest>>
                  ELSE mu' = p /\ rest' = subs /\ UNCHANGED pub
  /\ UNCHANGED <<subs, ch, work, streams, pages, main, breaks>>

\* Mutant of Offer: a full channel is waited for.
Offer_Blocks(c, e) ==
  Len(ch[c]) < Buffer /\ Set(ch, c, Append(ch[c], e))

\* The event is dropped when the channel is full.
Offer(c, e) == IF Len(ch[c]) < Buffer THEN Set(ch, c, Append(ch[c], e)) ELSE UNCHANGED ch

\* One turn of the loop over h.subs; the last one returns and unlocks.
Send(p) ==
  /\ mu = p
  /\ \E c \in rest :
       /\ Offer(c, pub[p])
       /\ rest' = rest \ {c}
       /\ IF rest' = {} THEN mu' = Nobody /\ Set(pub, p, Quiet) ELSE UNCHANGED <<mu, pub>>
  /\ UNCHANGED <<subs, work, streams, pages, main, breaks>>

-----------------------------------------------------------------------------
(* The publishers.  Whoever is inside publish does nothing else. *)

Free(p) == pub[p] = Quiet
Step(from, to) == stage = from /\ Free(Run) /\ stage' = to

\* startRun and the beginning of execute.
StartRun ==
  /\ Step("off", "testing")
  /\ made < MaxRuns /\ main = "up"
  /\ made' = made + 1 /\ busy' = made' /\ told' = {}
  /\ Publishes(Run, "run_started")
  /\ UNCHANGED <<mu, subs, ch, rest, puts, streams, pages, main, breaks>>

\* OnResult, in the goroutine of a peer.
PeerDone(q) ==
  /\ stage = "testing" /\ Free(Run) /\ q \notin told
  /\ told' = told \cup {q}
  /\ UNCHANGED made
  /\ Publishes(q, "peer_done")
  /\ UNCHANGED <<mu, subs, ch, rest, stage, busy, puts, streams, pages, main, breaks>>

\* Mutant of Finish: the batch does not wait for the callbacks in progress.
Finish_NoWait ==
  /\ Step("testing", "finished")
  /\ told = Peers
  /\ UNCHANGED made
  /\ Publishes(Run, "run_finished")
  /\ UNCHANGED <<mu, subs, ch, rest, told, busy, puts, streams, pages, main, breaks>>

\* engine.Run has waited for every goroutine of the batch; finish appends the
\* record and announces it.  A cancelled run has told only some of its peers.
Finish ==
  /\ Step("testing", "finished")
  /\ told = Peers \/ main # "up"
  /\ \A q \in Peers : Free(q)
  /\ UNCHANGED made
  /\ Publishes(Run, "run_finished")
  /\ UNCHANGED <<mu, subs, ch, rest, told, busy, puts, streams, pages, main, breaks>>

AnnounceSchedule ==
  /\ Step("finished", "announced")
  /\ UNCHANGED made
  /\ Publishes(Run, "schedule")
  /\ UNCHANGED <<mu, subs, ch, rest, told, busy, puts, streams, pages, main, breaks>>

\* releaseRun, after both events.
Release ==
  /\ Step("announced", "off")
  /\ busy' = 0
  /\ UNCHANGED <<hub, told, made, puts, streams, pages, main, breaks>>

\* SetConfig's broadcast.
PutConfig ==
  /\ puts < MaxPuts /\ Free(Put) /\ main = "up"
  /\ puts' = puts + 1 /\ UNCHANGED made
  /\ Publishes(Put, "schedule")
  /\ UNCHANGED <<mu, subs, ch, rest, stage, told, busy, streams, pages, main, breaks>>

-----------------------------------------------------------------------------
(* handleEvents, and its client's EventSource. *)

Connected(c) == conn[c] \in {"open", "writing"}     \* the page's evtOpen

\* connect, subscribe: until Shutdown closes the listener.
Subscribe(c) ==
  /\ conn[c] = "off" /\ main # "drain" /\ mu = Nobody
  /\ subs' = subs \cup {c} /\ Set(ch, c, <<>>)
  /\ Set(conn, c, "hello")
  /\ UNCHANGED <<mu, pub, rest, work, wire, pages, main, breaks>>

\* The greeting arrives, and the page asks for the status.
Greeted(c) ==
  /\ conn[c] = "hello"
  /\ Set(conn, c, "open")
  /\ Set(asked, c, TRUE)
  /\ UNCHANGED <<hub, work, wire, page, answers, ended, main, breaks>>

\* case msg := <-ch.  The write lasts until the client reads.
Take(c) ==
  /\ conn[c] = "open" /\ ch[c] # <<>>
  /\ Set(wire, c, Head(ch[c])) /\ Set(ch, c, Tail(ch[c]))
  /\ Set(conn, c, "writing")
  /\ UNCHANGED <<mu, subs, pub, rest, work, pages, main, breaks>>

\* The page's listeners: every event but peer_done makes it ask for the status.
Deliver(c) ==
  /\ conn[c] = "writing"
  /\ Set(conn, c, "open") /\ Set(wire, c, Quiet)
  /\ Set(asked, c, asked[c] \/ wire[c].kind # "peer_done")
  /\ Set(ended, c, IF wire[c].kind = "run_finished" THEN wire[c].run ELSE ended[c])
  /\ UNCHANGED <<hub, work, page, answers, main, breaks>>

\* Mutant of StreamStops: the select has no case for shutdownCh.
StreamStops_Deaf(c) == conn[c] = "open" /\ FALSE /\ UNCHANGED vars

\* case <-s.shutdownCh.
StreamStops(c) ==
  /\ conn[c] = "open" /\ main # "up"
  /\ Set(conn, c, "leaving")
  /\ UNCHANGED <<hub, work, wire, pages, main, breaks>>

\* The connection breaks: the request's context ends, or the write fails.
Breaks(c) ==
  /\ breaks < MaxBreaks
  /\ Connected(c) \/ conn[c] = "hello"
  /\ breaks' = breaks + 1
  /\ Set(conn, c, "leaving") /\ Set(wire, c, Quiet)
  /\ UNCHANGED <<hub, work, pages, main>>

\* Mutant of Unsubscribe: the channel is closed without h.mu.
Unsubscribe_Unlocked(c) ==
  /\ conn[c] = "leaving"
  /\ subs' = subs \ {c} /\ Set(ch, c, <<>>)
  /\ Set(conn, c, "off")
  /\ UNCHANGED <<mu, pub, rest, work, wire, pages, main, breaks>>

\* The deferred unsubscribe closes the channel.
Unsubscribe(c) ==
  /\ conn[c] = "leaving" /\ mu = Nobody
  /\ subs' = subs \ {c} /\ Set(ch, c, <<>>)
  /\ Set(conn, c, "off")
  /\ UNCHANGED <<mu, pub, rest, work, wire, pages, main, breaks>>

-----------------------------------------------------------------------------
(* refreshStatus of the page.  Two requests on their way to the server count as *)
(* one; answers on their way back are applied in any order.                    *)

\* Mutant of Poll: no poll.
Poll_Never(c) == Connected(c) /\ FALSE /\ UNCHANGED vars

\* setInterval.
Poll(c) ==
  /\ Connected(c)
  /\ Set(asked, c, TRUE)
  /\ UNCHANGED <<hub, work, streams, page, answers, ended, main, breaks>>

\* handleStatus.
Answer(c) ==
  /\ asked[c] /\ Set(asked, c, FALSE)
  /\ Set(answers, c, answers[c] \cup {busy})
  /\ UNCHANGED <<hub, work, streams, page, ended, main, breaks>>

Apply(c, a) ==
  /\ a \in answers[c] /\ Set(answers, c, answers[c] \ {a})
  /\ Set(page, c, a)
  /\ UNCHANGED <<hub, work, streams, asked, ended, main, breaks>>

-----------------------------------------------------------------------------
(* main: the signal, Server.Cancel, httpServer.Shutdown. *)

Cancel == main = "up" /\ main' = "cancelled" /\ UNCHANGED <<hub, work, streams, pages, breaks>>
Shutdown == main = "cancelled" /\ main' = "drain" /\ UNCHANGED <<hub, work, streams, pages, breaks>>

\* A page that has just loaded asks for everything and connects.
Init ==
  /\ mu = Nobody /\ subs = {} /\ rest = {}
  /\ ch = [c \in Clients |-> <<>>] /\ pub = [p \in Publishers |-> Quiet]
  /\ stage = "off" /\ told = {} /\ made = 0 /\ busy = 0
  /\ puts = 0 /\ breaks = 0 /\ main = "up"
  /\ conn = [c \in Clients |-> "off"] /\ wire = [c \in Clients |-> Quiet]
  /\ page = [c \in Clients |-> 0] /\ asked = [c \in Clients |-> TRUE]
  /\ answers = [c \in Clients |-> {}]
  /\ ended = [c \in Clients |-> 0]

RunNext == StartRun \/ (\E q \in Peers : PeerDone(q)) \/ Finish
           \/ AnnounceSchedule \/ Release
Publish(p) == Begin(p) \/ Send(p)
HandlerNext(c) == Take(c) \/ StreamStops(c) \/ Unsubscribe(c)
PageNext(c) == Poll(c) \/ Answer(c) \/ \E a \in 0..MaxRuns : Apply(c, a)

Next ==
  \/ RunNext \/ PutConfig \/ Cancel \/ Shutdown
  \/ \E p \in Publishers : Publish(p)
  \/ \E c \in Clients : HandlerNext(c) \/ Subscribe(c) \/ Greeted(c) \/ Deliver(c)
                        \/ Breaks(c) \/ PageNext(c)

Spec == Init /\ [][Next]_vars

\* Goroutines are scheduled, requests are answered and a page that is connected
\* polls.  Nobody has to start a run or read a stream.
Fairness ==
  /\ WF_vars(Shutdown) /\ WF_vars(Finish) /\ WF_vars(AnnounceSchedule) /\ WF_vars(Release)
  /\ \A q \in Peers : WF_vars(PeerDone(q))
  /\ \A p \in Publishers : WF_vars(Publish(p))
  /\ \A c \in Clients :
       /\ WF_vars(HandlerNext(c)) /\ WF_vars(Poll(c)) /\ WF_vars(Answer(c))
       /\ \A a \in 0..MaxRuns : WF_vars(Apply(c, a))
FairSpec == Spec /\ Fairness

-----------------------------------------------------------------------------
(* Properties. *)

Sending(c) == IF conn[c] = "writing" THEN <<wire[c]>> \o ch[c] ELSE ch[c]

\* The variables keep their shape; the clients with a handler, and no others, are
\* subscribed, and publish never sends on a channel that unsubscribe has closed:
\* whoever it has yet to reach is still subscribed.
TypeOK ==
  /\ mu \in Publishers \cup {Nobody}
  /\ mu # Nobody => rest \subseteq subs
  /\ subs = {c \in Clients : conn[c] # "off"}
  /\ \A c \in Clients : Len(ch[c]) <= Buffer /\ page[c] \in 0..made
  /\ stage \in {"off", "testing", "finished", "announced"}
  /\ busy \in {0, made} /\ (busy = 0 <=> stage = "off")
  /\ main \in {"up", "cancelled", "drain"}

\* On every stream, over all its connections, a run's events keep their order
\* whatever is dropped: once its end was heard nothing else of it follows, although
\* its peers report from goroutines of their own.
NothingFollowsTheEnd ==
  \A c \in Clients : LET s == Sending(c) IN \A i \in DOMAIN s :
    /\ s[i].kind # "schedule" => s[i].run > ended[c]
    /\ \A j \in 1..(i - 1) : s[j].kind = "run_finished" /\ s[i].kind # "schedule"
                               => s[i].run > s[j].run

\* "A stuck browser must never be able to hold up a speed test" (hub.go): every run
\* gives its slot back, and nothing is assumed of the clients.
RunsEndWhateverClientsDo == \A r \in 1..MaxRuns : busy = r ~> busy # r

\* After Cancel the streams end, but for a handler whose client does not read.
StreamsEnd ==
  \A c \in Clients : main # "up" ~> [](conn[c] \in {"off", "hello", "writing", "leaving"})

\* Both events of a run's end are sent before releaseRun, so a page that reacts to
\* them may be told it is still busy, and late answers may arrive out of order: a
\* page with a stream ends up showing what the server does all the same.
PagesSettle ==
  \A c \in Clients : <>[](Connected(c) /\ main = "up" => page[c] = busy)
=============================================================================
