---------------------------- MODULE EventsProofs ----------------------------
(***************************************************************************)
(* Theorems about Events, for any number of pages, peers, runs, broken     *)
(* connections and any buffer: nothing is sent on a channel that was       *)
(* closed, and no stream carries anything of a run after its end.          *)
(***************************************************************************)
EXTENDS Events, TLAPS

Kinds    == {"none", "run_started", "peer_done", "run_finished", "schedule"}
Messages == [kind : Kinds, run : Nat]
Conns    == {"off", "hello", "open", "writing", "leaving"}
Stages   == {"off", "testing", "finished", "announced"}

\* The variables keep their shape.
ShapeInv ==
  /\ mu \in Publishers \cup {Nobody} /\ subs \subseteq Clients /\ rest \subseteq Clients
  /\ ch \in [Clients -> Seq(Messages)] /\ pub \in [Publishers -> Messages]
  /\ stage \in Stages /\ made \in Nat /\ busy \in Nat
  /\ conn \in [Clients -> Conns] /\ wire \in [Clients -> Messages]
  /\ page \in [Clients -> Nat] /\ asked \in [Clients -> BOOLEAN]
  /\ answers \in [Clients -> SUBSET Nat] /\ ended \in [Clients -> Nat]
  /\ main \in {"up", "cancelled", "drain"}

\* h.mu is held by a publisher with an event for the subscribers in rest, who
\* cannot leave meanwhile.
HubInv ==
  /\ mu # Nobody => pub[mu] # Quiet /\ rest \subseteq subs
  /\ subs = {c \in Clients : conn[c] # "off"}
  /\ \A c \in Clients : Len(ch[c]) <= Buffer

\* The slot, and what answers say of it.
SlotInv ==
  /\ stage = "off" <=> busy = 0
  /\ stage # "off" => busy = made
  /\ \A c \in Clients : page[c] <= made /\ \A a \in answers[c] : a <= made

\* What each publisher may be publishing at each stage of the run.
PublishInv ==
  /\ \A q \in Peers : pub[q] # Quiet => /\ stage = "testing" /\ q \in told
                                        /\ pub[q] = Event("peer_done", made)
  /\ pub[Put] # Quiet => pub[Put].kind = "schedule" /\ pub[Put].run <= made
  /\ pub[Run] # Quiet =>
       \/ stage = "testing" /\ pub[Run] = Event("run_started", made)
       \/ stage = "finished" /\ pub[Run] = Event("run_finished", made)
       \/ stage = "announced" /\ pub[Run] = Event("schedule", made)

Writing(c) == conn[c] = "writing"
InOrder(e, f) == e.kind = "run_finished" /\ f.kind # "schedule" => f.run > e.run
After(e, n)   == e.kind # "schedule" => e.run > n

\* On the way to a client: its buffer, and before it what is being written.
StreamInv ==
  \A c \in Clients :
    /\ ended[c] <= made
    /\ \A i \in 1..Len(ch[c]) : ch[c][i].run <= made /\ After(ch[c][i], ended[c])
    /\ \A i, j \in 1..Len(ch[c]) : i < j => InOrder(ch[c][i], ch[c][j])
    /\ Writing(c) => /\ wire[c].run <= made /\ After(wire[c], ended[c])
                     /\ \A i \in 1..Len(ch[c]) : InOrder(wire[c], ch[c][i])

\* The client has not been sent the end of the current run.
Fresh(c) ==
  /\ ended[c] < made
  /\ \A i \in 1..Len(ch[c]) : ch[c][i].kind = "run_finished" => ch[c][i].run < made
  /\ Writing(c) /\ wire[c].kind = "run_finished" => wire[c].run < made

\* Nobody is sent it while the run is on, nor before its turn when it is published.
FreshInv ==
  \A c \in Clients :
    \/ stage = "testing"
    \/ stage = "finished" /\ pub[Run] # Quiet /\ (mu = Run => c \in rest)
    => Fresh(c)

Inv == ShapeInv /\ HubInv /\ SlotInv /\ PublishInv /\ StreamInv /\ FreshInv

-----------------------------------------------------------------------------
\* Publishers and events are told apart.
LEMMA Names ==
  /\ Run # Put /\ Nobody \notin Publishers /\ Run \in Publishers /\ Put \in Publishers
  /\ \A q \in Peers : q \in Publishers /\ q # Run /\ q # Put
  /\ Quiet \in Messages /\ Quiet.kind = "none"
  /\ \A k \in Kinds, r \in Nat : /\ Event(k, r) \in Messages
                                 /\ Event(k, r).kind = k /\ Event(k, r).run = r
  BY PeersAssumption DEF Run, Put, Nobody, Publishers, Quiet, Event, Messages, Kinds

\* A hub without subscribers satisfies the invariant.
LEMMA InvInit == Init => Inv
<1> SUFFICES ASSUME Init PROVE Inv
  OBVIOUS
<1>1. ShapeInv
  BY Names DEF Init, ShapeInv, Stages, Conns
<1>2. HubInv /\ SlotInv
  BY BufferAssumption DEF Init, HubInv, SlotInv
<1>3. PublishInv
  BY Names DEF Init, PublishInv
<1>4. StreamInv /\ FreshInv
  BY DEF Init, StreamInv, FreshInv, Writing
<1> QED
  BY <1>1, <1>2, <1>3, <1>4 DEF Inv

\* One more event is put into a channel, or dropped.
LEMMA OfferStep ==
  ASSUME ShapeInv, NEW c \in Clients, NEW e \in Messages, Offer(c, e)
  PROVE  /\ ch' \in [Clients -> Seq(Messages)]
         /\ \A d \in Clients : d # c => ch'[d] = ch[d]
         /\ Len(ch[c]) <= Buffer => Len(ch'[c]) <= Buffer
         /\ \/ ch'[c] = ch[c]
            \/ /\ Len(ch'[c]) = Len(ch[c]) + 1 /\ ch'[c][Len(ch[c]) + 1] = e
               /\ \A i \in 1..Len(ch[c]) : ch'[c][i] = ch[c][i]
<1>1. CASE Len(ch[c]) < Buffer
  <2>1. ch' = [ch EXCEPT ![c] = Append(ch[c], e)]
    BY <1>1 DEF Offer, Set
  <2>2. /\ ch[c] \in Seq(Messages) /\ Append(ch[c], e) \in Seq(Messages)
        /\ Len(Append(ch[c], e)) = Len(ch[c]) + 1
        /\ Append(ch[c], e)[Len(ch[c]) + 1] = e /\ Len(ch[c]) \in Nat
        /\ \A i \in 1..Len(ch[c]) : Append(ch[c], e)[i] = ch[c][i]
    BY DEF ShapeInv
  <2>3. ch'[c] = Append(ch[c], e) /\ \A d \in Clients : d # c => ch'[d] = ch[d]
    BY <2>1 DEF ShapeInv
  <2>4. ch' \in [Clients -> Seq(Messages)]
    BY <2>1, <2>2 DEF ShapeInv
  <2>5. Len(ch[c]) + 1 <= Buffer
    BY <1>1, <2>2, BufferAssumption
  <2> QED
    BY <2>2, <2>3, <2>4, <2>5
<1>2. CASE ~(Len(ch[c]) < Buffer)
  BY <1>2 DEF Offer, ShapeInv
<1> QED
  BY <1>1, <1>2

\* publish reaches one more subscriber.
LEMMA SendStep == ASSUME Inv, NEW p \in Publishers, Send(p) PROVE Inv'
<1> PICK c \in rest :
      /\ mu = p
      /\ Offer(c, pub[p])
      /\ rest' = rest \ {c}
      /\ IF rest' = {} THEN mu' = Nobody /\ Set(pub, p, Quiet) ELSE UNCHANGED <<mu, pub>>
      /\ UNCHANGED <<subs, work, streams, pages, main, breaks>>
  BY DEF Send
<1> PICK e : e = pub[p]
  OBVIOUS
<1>0. /\ c \in Clients /\ e \in Messages /\ p # Nobody /\ e # Quiet /\ ShapeInv
  BY Names DEF Inv, ShapeInv, HubInv
<1>1. /\ ch' \in [Clients -> Seq(Messages)]
      /\ \A d \in Clients : d # c => ch'[d] = ch[d]
      /\ Len(ch'[c]) <= Buffer
      /\ \/ ch'[c] = ch[c]
         \/ /\ Len(ch'[c]) = Len(ch[c]) + 1 /\ ch'[c][Len(ch[c]) + 1] = e
            /\ \A i \in 1..Len(ch[c]) : ch'[c][i] = ch[c][i]
  <2>1. Len(ch[c]) <= Buffer
    BY <1>0 DEF Inv, HubInv
  <2>2. Offer(c, e)
    BY DEF Offer, Set
  <2> QED
    BY <1>0, <2>1, <2>2, OfferStep
<1>2. /\ UNCHANGED <<subs, work, streams, pages, main>>
      /\ pub' \in [Publishers -> Messages]
      /\ \A q \in Publishers : pub'[q] = pub[q] \/ pub'[q] = Quiet
      /\ mu' = mu \/ mu' = Nobody
      /\ pub'[p] # Quiet => mu' = mu /\ pub' = pub
  <2>1. CASE rest' = {}
    <3>1. pub' = [pub EXCEPT ![p] = Quiet] /\ mu' = Nobody
      BY <2>1 DEF Set
    <3>2. pub' \in [Publishers -> Messages] /\ pub'[p] = Quiet
          /\ \A q \in Publishers : pub'[q] = pub[q] \/ pub'[q] = Quiet
      BY <1>0, <3>1, Names DEF ShapeInv
    <3> QED
      BY <3>1, <3>2
  <2>2. CASE rest' # {}
    BY <1>0, <2>2 DEF ShapeInv
  <2> QED
    BY <2>1, <2>2
<1>3. ShapeInv'
  BY <1>1, <1>2 DEF Inv, ShapeInv, work, streams, pages
<1>4. HubInv' /\ SlotInv' /\ PublishInv'
  <2>1. HubInv'
    BY <1>0, <1>1, <1>2 DEF Inv, HubInv, streams, Set
  <2>2. SlotInv'
    BY <1>2 DEF Inv, SlotInv, work, pages
  <2>3. PublishInv'
    BY <1>2, Names DEF Inv, PublishInv, work
  <2> QED
    BY <2>1, <2>2, <2>3
<1>5. /\ e.run <= made /\ (e.kind # "schedule" => Fresh(c))
      /\ e.kind # "schedule" => e.run = made
      /\ e.kind = "run_finished" => p = Run /\ stage = "finished"
  <2>1. CASE p \in Peers
    BY <1>0, <2>1, Names DEF Inv, PublishInv, ShapeInv, FreshInv, Kinds
  <2>2. CASE p = Put
    BY <1>0, <2>2, Names DEF Inv, PublishInv
  <2>3. CASE p = Run
    BY <1>0, <2>3, Names DEF Inv, PublishInv, ShapeInv, FreshInv, Kinds
  <2> QED
    BY <2>1, <2>2, <2>3 DEF Publishers
<1>6. StreamInv'
  <2> SUFFICES ASSUME NEW d \in Clients
               PROVE  /\ ended[d] <= made
                      /\ \A i \in 1..Len(ch'[d]) : ch'[d][i].run <= made /\ After(ch'[d][i], ended[d])
                      /\ \A i, j \in 1..Len(ch'[d]) : i < j => InOrder(ch'[d][i], ch'[d][j])
                      /\ Writing(d) => /\ wire[d].run <= made /\ After(wire[d], ended[d])
                                       /\ \A i \in 1..Len(ch'[d]) : InOrder(wire[d], ch'[d][i])
    BY <1>2 DEF StreamInv, Writing, After, InOrder, work, streams, pages
  <2>1. CASE ch'[d] = ch[d]
    BY <2>1 DEF Inv, StreamInv
  <2>2. CASE /\ d = c /\ Len(ch'[c]) = Len(ch[c]) + 1 /\ ch'[c][Len(ch[c]) + 1] = e
             /\ \A i \in 1..Len(ch[c]) : ch'[c][i] = ch[c][i]
    <3>0. Len(ch[c]) \in Nat /\ made \in Nat /\ ended[c] \in Nat
      BY <1>0 DEF ShapeInv
    <3>1. \A i \in 1..Len(ch'[c]) : i \in 1..Len(ch[c]) \/ i = Len(ch[c]) + 1
      BY <2>2, <3>0
    <3>2. After(e, ended[c])
      BY <1>5, <3>0 DEF Fresh, After
    <3>3. \A i \in 1..Len(ch[c]) : InOrder(ch[c][i], e)
      BY <1>0, <1>5, <3>0 DEF Fresh, InOrder, Messages, ShapeInv
    <3>4. Writing(c) => InOrder(wire[c], e)
      BY <1>0, <1>5, <3>0 DEF Fresh, InOrder, Messages, ShapeInv
    <3>5. \A i, j \in 1..Len(ch'[c]) : i < j => i \in 1..Len(ch[c])
      BY <2>2, <3>0
    <3>6. \A i \in 1..Len(ch'[c]) : ch'[c][i].run <= made /\ After(ch'[c][i], ended[c])
      BY <1>5, <2>2, <3>1, <3>2 DEF Inv, StreamInv
    <3>7. \A i, j \in 1..Len(ch'[c]) : i < j => InOrder(ch'[c][i], ch'[c][j])
      BY <2>2, <3>1, <3>3, <3>5 DEF Inv, StreamInv
    <3>8. Writing(c) => \A i \in 1..Len(ch'[c]) : InOrder(wire[c], ch'[c][i])
      BY <2>2, <3>1, <3>4 DEF Inv, StreamInv
    <3> QED
      BY <2>2, <3>6, <3>7, <3>8 DEF Inv, StreamInv
  <2> QED
    BY <1>1, <2>1, <2>2
<1>7. FreshInv'
  <2> SUFFICES ASSUME NEW d \in Clients,
                      \/ stage = "testing"
                      \/ stage = "finished" /\ pub'[Run] # Quiet /\ (mu' = Run => d \in rest')
               PROVE  Fresh(d)'
    BY <1>2 DEF FreshInv, work
  <2>1. Fresh(d)
    BY <1>2, Names DEF Inv, FreshInv
  <2>2. CASE d # c
    BY <1>1, <1>2, <2>1, <2>2 DEF Fresh, Writing, work, streams, pages
  <2>3. CASE d = c
    <3>1. e.kind # "run_finished"
      BY <1>2, <1>5, <2>3, Names
    <3>2. UNCHANGED <<ended, made, conn, wire>>
      BY <1>2 DEF work, streams, pages
    <3>3. \A i \in 1..Len(ch'[c]) : ch'[c][i].kind = "run_finished" => ch'[c][i].run < made
      <4>1. CASE ch'[c] = ch[c]
        BY <2>1, <2>3, <4>1 DEF Fresh
      <4>2. CASE /\ Len(ch'[c]) = Len(ch[c]) + 1 /\ ch'[c][Len(ch[c]) + 1] = e
                 /\ \A i \in 1..Len(ch[c]) : ch'[c][i] = ch[c][i]
        <5>1. Len(ch[c]) \in Nat
          BY <1>0 DEF ShapeInv
        <5>2. \A i \in 1..Len(ch'[c]) : i \in 1..Len(ch[c]) \/ i = Len(ch[c]) + 1
          BY <4>2, <5>1
        <5> QED
          BY <2>1, <2>3, <3>1, <4>2, <5>2 DEF Fresh
      <4> QED
        BY <1>1, <4>1, <4>2
    <3> QED
      BY <2>1, <2>3, <3>2, <3>3 DEF Fresh, Writing
  <2> QED
    BY <2>2, <2>3
<1> QED
  BY <1>3, <1>4, <1>6, <1>7 DEF Inv

\* What the hub, the run and the publishers do that puts no event on a stream.
LEMMA QuietStreams ==
  ASSUME Inv, UNCHANGED <<ch, conn, wire, ended, made>>
  PROVE  StreamInv' /\ \A c \in Clients : Fresh(c)' <=> Fresh(c)
  BY DEF Inv, StreamInv, Fresh, Writing

\* publish locks h.mu, and returns at once when there is nobody.
LEMMA BeginStep == ASSUME Inv, NEW p \in Publishers, Begin(p) PROVE Inv'
<1>1. /\ pub[p] # Quiet /\ mu = Nobody /\ p # Nobody
      /\ UNCHANGED <<subs, ch, work, streams, pages, main>>
      /\ \/ pub' = [pub EXCEPT ![p] = Quiet] /\ UNCHANGED <<mu, rest>>
         \/ mu' = p /\ rest' = subs /\ pub' = pub
  BY Names DEF Begin, Set
<1>2. /\ pub' \in [Publishers -> Messages] /\ \A q \in Publishers : pub'[q] \in {pub[q], Quiet}
  <2>1. pub \in [Publishers -> Messages] /\ Quiet \in Messages
    BY Names DEF Inv, ShapeInv
  <2>2. CASE pub' = [pub EXCEPT ![p] = Quiet]
    BY <2>1, <2>2
  <2>3. CASE pub' = pub
    BY <2>1, <2>3
  <2> QED
    BY <1>1, <2>2, <2>3
<1>3. ShapeInv'
  BY <1>1, <1>2 DEF Inv, ShapeInv, work, streams, pages
<1>4. HubInv' /\ SlotInv'
  BY <1>1 DEF Inv, HubInv, SlotInv, work, streams, pages
<1>5. PublishInv'
  BY <1>1, <1>2, Names DEF Inv, PublishInv, work
<1>6. StreamInv' /\ \A c \in Clients : Fresh(c)' <=> Fresh(c)
  BY <1>1, QuietStreams DEF work, streams, pages
<1>7. FreshInv'
  BY <1>1, <1>2, <1>6, Names DEF Inv, FreshInv, work
<1> QED
  BY <1>3, <1>4, <1>5, <1>6, <1>7 DEF Inv

\* The run starts when the one before is over: nothing of it is on a stream yet.
LEMMA StartStep == ASSUME Inv, StartRun PROVE Inv'
<1>1. /\ stage = "off" /\ stage' = "testing" /\ made' = made + 1 /\ busy' = made + 1
      /\ pub' = [pub EXCEPT ![Run] = Event("run_started", made + 1)]
      /\ UNCHANGED <<mu, subs, ch, rest, streams, pages, main>>
  BY DEF StartRun, Step, Publishes, Set
<1>2. /\ pub' \in [Publishers -> Messages] /\ pub'[Run] = Event("run_started", made + 1)
      /\ \A q \in Publishers : q # Run => pub'[q] = pub[q]
      /\ made \in Nat /\ Event("run_started", made + 1) # Quiet
  BY <1>1, Names DEF Inv, ShapeInv, Kinds
<1>3. ShapeInv'
  BY <1>1, <1>2 DEF Inv, ShapeInv, Stages, streams, pages
<1>4. HubInv'
  BY <1>1, <1>2, Names DEF Inv, HubInv, ShapeInv, streams
<1>5. SlotInv'
  BY <1>1, <1>2 DEF Inv, SlotInv, ShapeInv, pages
<1>6. PublishInv'
  <2>1. \A q \in Peers : pub'[q] = Quiet
    BY <1>1, <1>2, Names DEF Inv, PublishInv
  <2>2. pub'[Put] # Quiet => pub'[Put].kind = "schedule" /\ pub'[Put].run <= made + 1
    <3>1. pub'[Put] = pub[Put] /\ pub[Put].run \in Nat
      BY <1>2, Names DEF Inv, ShapeInv, Messages
    <3> QED
      BY <1>2, <3>1 DEF Inv, PublishInv
  <2> QED
    BY <1>1, <1>2, <2>1, <2>2 DEF PublishInv
<1>7. /\ UNCHANGED <<ch, conn, wire, ended>>
      /\ \A c \in Clients : /\ wire[c].run \in Nat /\ ended[c] \in Nat
                            /\ \A i \in 1..Len(ch[c]) : ch[c][i].run \in Nat
  <2>1. UNCHANGED <<ch, conn, wire, ended>>
    BY <1>1 DEF streams, pages
  <2>2. /\ ch \in [Clients -> Seq(Messages)] /\ wire \in [Clients -> Messages]
        /\ ended \in [Clients -> Nat]
    BY DEF Inv, ShapeInv
  <2>3. \A e \in Messages : e.run \in Nat
    BY DEF Messages
  <2>4. \A c \in Clients : \A i \in 1..Len(ch[c]) : ch[c][i] \in Messages
    <3> TAKE c \in Clients
    <3>1. ch[c] \in Seq(Messages)
      BY <2>2
    <3> QED
      BY <3>1
  <2> QED
    BY <2>1, <2>2, <2>3, <2>4
<1>8. StreamInv'
  BY <1>1, <1>2, <1>7 DEF Inv, StreamInv, Writing
<1>9. \A c \in Clients : Fresh(c)'
  BY <1>1, <1>2, <1>7 DEF Inv, StreamInv, Fresh, Writing
<1> QED
  BY <1>3, <1>4, <1>5, <1>6, <1>8, <1>9 DEF Inv, FreshInv

\* A peer reports while the run is testing; the end of the run is published when no
\* peer is any more, then the schedule, then the slot is given back.
LEMMA RunStep ==
  ASSUME Inv, (\E q \in Peers : PeerDone(q)) \/ Finish \/ AnnounceSchedule \/ Release \/ PutConfig
  PROVE  Inv'
<1>1. PICK p \in Publishers, e \in Messages :
        /\ made' = made /\ UNCHANGED <<mu, subs, ch, rest, streams, pages, main>>
        /\ pub[p] = Quiet /\ pub' = [pub EXCEPT ![p] = e]
        /\ told \subseteq told' /\ (p \in Peers => p \in told')
        /\ \/ p \in Peers /\ e = Event("peer_done", made) /\ stage = "testing" /\ UNCHANGED <<stage, busy>>
           \/ /\ p = Run /\ e = Event("run_finished", made) /\ stage = "testing" /\ stage' = "finished"
              /\ busy' = busy /\ \A q \in Peers : pub[q] = Quiet
           \/ /\ p = Run /\ e = Event("schedule", made) /\ stage = "finished" /\ stage' = "announced"
              /\ busy' = busy
           \/ p = Run /\ e = Quiet /\ stage = "announced" /\ stage' = "off" /\ busy' = 0
           \/ p = Put /\ e = Event("schedule", made) /\ UNCHANGED <<stage, busy>>
  <2>0. made \in Nat /\ pub \in [Publishers -> Messages]
    BY DEF Inv, ShapeInv
  <2>1. ASSUME NEW q \in Peers, PeerDone(q)
        PROVE  q \in Publishers /\ Event("peer_done", made) \in Messages
    BY <2>0, Names DEF Kinds
  <2>2. /\ Event("run_finished", made) \in Messages /\ Event("schedule", made) \in Messages
    BY <2>0, Names DEF Kinds
  <2>3. CASE \E q \in Peers : PeerDone(q)
    <3>1. PICK q \in Peers : PeerDone(q)
      BY <2>3
    <3>2. /\ made' = made /\ UNCHANGED <<mu, subs, ch, rest, stage, busy, streams, pages, main>>
          /\ stage = "testing" /\ told' = told \cup {q} /\ pub[q] = Quiet
      BY <3>1, Names DEF PeerDone, Inv, PublishInv
    <3>3. pub' = [pub EXCEPT ![q] = Event("peer_done", made)]
      BY <3>1, <3>2 DEF PeerDone, Publishes, Set
    <3> QED
      BY <2>1, <3>1, <3>2, <3>3
  <2>4. CASE Finish
    BY <2>2, <2>4, Names DEF Finish, Step, Publishes, Set, Free
  <2>5. CASE AnnounceSchedule
    BY <2>2, <2>5, Names DEF AnnounceSchedule, Step, Publishes, Set, Free
  <2>6. CASE Release
    <3>1. pub' = [pub EXCEPT ![Run] = Quiet]
      BY <2>0, <2>6, Names DEF Release, Step, Free, hub
    <3> QED
      BY <2>6, <3>1, Names DEF Release, Step, Free, hub
  <2>7. CASE PutConfig
    BY <2>2, <2>7, Names DEF PutConfig, Publishes, Set, Free
  <2> QED
    BY <2>3, <2>4, <2>5, <2>6, <2>7
<1>2. /\ pub' \in [Publishers -> Messages] /\ pub'[p] = e
      /\ \A q \in Publishers : q # p => pub'[q] = pub[q]
      /\ mu # p
  BY <1>1, Names DEF Inv, ShapeInv, HubInv
<1>3. ShapeInv'
  BY <1>1, <1>2 DEF Inv, ShapeInv, Stages, streams, pages
<1>4. HubInv'
  BY <1>1, <1>2, Names DEF Inv, HubInv, ShapeInv, streams
<1>5. SlotInv'
  BY <1>1 DEF Inv, SlotInv, pages
<1>6. PublishInv'
  <2>1. CASE p \in Peers
    BY <1>1, <1>2, <2>1, Names DEF Inv, PublishInv
  <2>2. CASE p = Put
    <3>1. pub'[Put].kind = "schedule" /\ pub'[Put].run = made /\ made \in Nat
      BY <1>1, <1>2, <2>2, Names DEF Kinds, Inv, ShapeInv
    <3> QED
      BY <1>1, <1>2, <2>2, <3>1, Names DEF Inv, PublishInv
  <2>3. CASE p = Run
    BY <1>1, <1>2, <2>3, Names DEF Inv, PublishInv
  <2> QED
    BY <2>1, <2>2, <2>3 DEF Publishers
<1>7. StreamInv' /\ \A c \in Clients : Fresh(c)' <=> Fresh(c)
  BY <1>1, QuietStreams DEF streams, pages
<1>8. FreshInv'
  BY <1>1, <1>2, <1>7, Names DEF Inv, FreshInv
<1> QED
  BY <1>3, <1>4, <1>5, <1>6, <1>7, <1>8 DEF Inv

\* The handler of one client, with the rest of the hub at rest or out of its way.
LEMMA HandlerStep ==
  ASSUME Inv, NEW c \in Clients,
         Subscribe(c) \/ Greeted(c) \/ Take(c) \/ Deliver(c) \/ StreamStops(c) \/ Breaks(c)
           \/ Unsubscribe(c)
  PROVE  Inv'
<1>1. /\ UNCHANGED <<mu, pub, rest, work, page, answers, main>>
      /\ \A d \in Clients : d # c =>
           /\ ch'[d] = ch[d] /\ conn'[d] = conn[d] /\ wire'[d] = wire[d] /\ ended'[d] = ended[d]
  BY DEF Subscribe, Greeted, Take, Deliver, StreamStops, Breaks, Unsubscribe, Set, hub, pages,
     streams, Inv, ShapeInv
<1>2. /\ ch' \in [Clients -> Seq(Messages)] /\ Len(ch'[c]) <= Buffer
      /\ ch'[c] = ch[c] \/ ch'[c] = <<>> \/ (Take(c) /\ ch[c] # <<>> /\ ch'[c] = Tail(ch[c]))
  <2>1. ch \in [Clients -> Seq(Messages)] /\ Len(ch[c]) <= Buffer
    BY DEF Inv, ShapeInv, HubInv
  <2>2. CASE Take(c)
    <3>1. ch[c] # <<>> /\ Tail(ch[c]) \in Seq(Messages) /\ Len(Tail(ch[c])) <= Buffer
      BY <2>1, <2>2, BufferAssumption DEF Take
    <3> QED
      BY <2>1, <2>2, <3>1 DEF Take, Set
  <2>3. CASE ch' = ch
    BY <2>1, <2>3
  <2>4. CASE ch' = [ch EXCEPT ![c] = <<>>]
    BY <2>1, <2>4, BufferAssumption
  <2> QED
    BY <2>2, <2>3, <2>4 DEF Subscribe, Greeted, Deliver, StreamStops, Breaks, Unsubscribe,
       Set, hub
<1>3. /\ conn' \in [Clients -> Conns] /\ wire' \in [Clients -> Messages]
      /\ asked' \in [Clients -> BOOLEAN] /\ ended' \in [Clients -> Nat]
  <2>1. /\ conn \in [Clients -> Conns] /\ wire \in [Clients -> Messages] /\ ended \in [Clients -> Nat]
        /\ asked \in [Clients -> BOOLEAN] /\ wire[c] \in Messages /\ wire[c].run \in Nat
    BY DEF Inv, ShapeInv, Messages
  <2>2. CASE Take(c)
    <3>1. Head(ch[c]) \in Messages
      BY <2>2 DEF Take, Inv, ShapeInv
    <3> QED
      BY <2>1, <2>2, <3>1 DEF Take, Set, Conns, pages
  <2>3. CASE Deliver(c)
    BY <2>1, <2>3, Names DEF Deliver, Set, Conns
  <2>4. CASE Subscribe(c) \/ Unsubscribe(c) \/ StreamStops(c) \/ Breaks(c)
    <3>1. conn' \in [Clients -> Conns]
      BY <2>1, <2>4 DEF Subscribe, Unsubscribe, StreamStops, Breaks, Set, Conns
    <3>2. wire' \in [Clients -> Messages]
      BY <2>1, <2>4, Names DEF Subscribe, Unsubscribe, StreamStops, Breaks, Set
    <3>3. UNCHANGED <<asked, ended>>
      BY <2>4 DEF Subscribe, Unsubscribe, StreamStops, Breaks, pages
    <3> QED
      BY <2>1, <3>1, <3>2, <3>3
  <2>5. CASE Greeted(c)
    BY <2>1, <2>5 DEF Greeted, Set, Conns
  <2> QED
    BY <2>2, <2>3, <2>4, <2>5
<1>4. subs' = {d \in Clients : conn'[d] # "off"} /\ (mu # Nobody => subs' = subs)
  <2>1. subs = {d \in Clients : conn[d] # "off"} /\ conn \in [Clients -> Conns]
    BY DEF Inv, HubInv, ShapeInv
  <2>2. CASE Subscribe(c)
    BY <2>1, <2>2 DEF Subscribe, Set
  <2>3. CASE Unsubscribe(c)
    BY <2>1, <2>3 DEF Unsubscribe, Set
  <2>4. CASE Greeted(c) \/ Take(c) \/ Deliver(c) \/ StreamStops(c) \/ Breaks(c)
    <3>1. subs' = subs /\ conn[c] # "off" /\ conn'[c] # "off"
      BY <2>1, <2>4 DEF Greeted, Take, Deliver, StreamStops, Breaks, Set, hub, Connected
    <3> QED
      BY <1>1, <2>1, <3>1
  <2> QED
    BY <2>2, <2>3, <2>4
<1>5. ShapeInv'
  BY <1>1, <1>2, <1>3, <1>4 DEF Inv, ShapeInv, work
<1>6. HubInv'
  BY <1>1, <1>2, <1>4 DEF Inv, HubInv
<1>7. SlotInv' /\ PublishInv'
  BY <1>1 DEF Inv, SlotInv, PublishInv, work
\* The events on the way to c are those that were, without some; what c has heard
\* is what it had, or the event that was being written.
<1>8. /\ ended[c] \in Nat /\ made \in Nat /\ Len(ch[c]) \in Nat /\ ch[c] \in Seq(Messages)
      /\ wire[c] \in Messages /\ \A i \in 1..Len(ch[c]) : ch[c][i] \in Messages
  BY DEF Inv, ShapeInv
<1>9. CASE Take(c)
  <2>1. /\ Len(ch'[c]) = Len(ch[c]) - 1 /\ \A i \in 1..Len(ch'[c]) : ch'[c][i] = ch[c][i + 1]
        /\ wire'[c] = ch[c][1] /\ 1 \in 1..Len(ch[c]) /\ ended' = ended
    BY <1>8, <1>9 DEF Take, Set, pages, Inv, ShapeInv
  <2>2. \A i \in 1..Len(ch'[c]) : i + 1 \in 1..Len(ch[c]) /\ 1 < i + 1
    BY <1>8, <2>1
  <2>3. StreamInv'
    <3>1. \A i, j \in 1..Len(ch'[c]) : i < j => InOrder(ch'[c][i], ch'[c][j])
      <4>1. \A i, j \in 1..Len(ch'[c]) : i < j => i + 1 < j + 1
        BY <1>8, <2>1
      <4> QED
        BY <2>1, <2>2, <4>1 DEF Inv, StreamInv
    <3>2. \A i \in 1..Len(ch'[c]) : InOrder(wire'[c], ch'[c][i])
      BY <2>1, <2>2 DEF Inv, StreamInv
    <3>3. \A i \in 1..Len(ch'[c]) : ch'[c][i].run <= made /\ After(ch'[c][i], ended[c])
      BY <2>1, <2>2 DEF Inv, StreamInv
    <3>4. wire'[c].run <= made /\ After(wire'[c], ended[c])
      BY <2>1 DEF Inv, StreamInv
    <3> QED
      BY <1>1, <2>1, <3>1, <3>2, <3>3, <3>4, ZenonT(40) DEF Inv, StreamInv, Writing, work
  <2>4. \A d \in Clients : Fresh(d) => Fresh(d)'
    <3>1. Fresh(c) => Fresh(c)'
      BY <1>1, <2>1, <2>2 DEF Fresh, work
    <3> QED
      BY <1>1, <3>1 DEF Fresh, Writing, work
  <2>5. FreshInv'
    BY <1>1, <2>4 DEF Inv, FreshInv, work
  <2> QED
    BY <1>5, <1>6, <1>7, <2>3, <2>5 DEF Inv
<1>10. CASE ~Take(c)
  <2>1. /\ ch'[c] = ch[c] \/ ch'[c] = <<>>
        /\ Writing(c)' => Writing(c) /\ wire'[c] = wire[c] /\ ended'[c] = ended[c] /\ ~Deliver(c)
    BY <1>2, <1>10 DEF Subscribe, Greeted, Deliver, StreamStops, Breaks, Unsubscribe, Set, Writing,
       pages, streams, Inv, ShapeInv, Connected
  <2>2. \/ ended'[c] = ended[c]
        \/ Writing(c) /\ ~Writing(c)' /\ wire[c].kind = "run_finished" /\ ended'[c] = wire[c].run
    BY <1>10 DEF Subscribe, Greeted, Deliver, StreamStops, Breaks, Unsubscribe, Set, Writing,
       pages, streams, Inv, ShapeInv, Connected
  <2>3. Len(<<>>) = 0
    OBVIOUS
  <2>4. StreamInv'
    <3>1. ended'[c] <= made
      BY <2>2 DEF Inv, StreamInv
    <3>2. \A i \in 1..Len(ch'[c]) : ch'[c][i].run <= made /\ After(ch'[c][i], ended'[c])
      <4>1. CASE ended'[c] = ended[c]
        BY <2>1, <2>3, <4>1 DEF Inv, StreamInv
      <4>2. CASE Writing(c) /\ wire[c].kind = "run_finished" /\ ended'[c] = wire[c].run
        BY <2>1, <2>3, <4>2 DEF Inv, StreamInv, InOrder, After
      <4> QED
        BY <2>2, <4>1, <4>2
    <3>3. \A i, j \in 1..Len(ch'[c]) : i < j => InOrder(ch'[c][i], ch'[c][j])
      BY <2>1, <2>3 DEF Inv, StreamInv
    <3>4. Writing(c)' => /\ wire'[c].run <= made /\ After(wire'[c], ended'[c])
                         /\ \A i \in 1..Len(ch'[c]) : InOrder(wire'[c], ch'[c][i])
      BY <2>1, <2>3 DEF Inv, StreamInv
    <3> QED
      BY <1>1, <3>1, <3>2, <3>3, <3>4 DEF Inv, StreamInv, Writing, work
  <2>5. \A d \in Clients : Fresh(d) => Fresh(d)'
    <3>1. Fresh(c) => Fresh(c)'
      BY <1>1, <2>1, <2>2, <2>3 DEF Fresh, Writing, work
    <3> QED
      BY <1>1, <3>1 DEF Fresh, Writing, work
  <2>6. FreshInv'
    BY <1>1, <2>5 DEF Inv, FreshInv, work
  <2> QED
    BY <1>5, <1>6, <1>7, <2>4, <2>6 DEF Inv
<1> QED
  BY <1>9, <1>10

\* The page polls, and applies answers that say which run was on.
LEMMA PageStep ==
  ASSUME Inv, NEW c \in Clients, PageNext(c)
  PROVE  Inv'
<1>1. /\ UNCHANGED <<hub, work, streams, ended, main>>
      /\ asked' \in [Clients -> BOOLEAN]
      /\ page' \in [Clients -> Nat] /\ answers' \in [Clients -> SUBSET Nat]
      /\ \A d \in Clients : /\ page'[d] \in {page[d]} \cup answers[d]
                            /\ answers'[d] \subseteq answers[d] \cup {busy}
  <2>0. /\ asked \in [Clients -> BOOLEAN] /\ page \in [Clients -> Nat]
        /\ answers \in [Clients -> SUBSET Nat] /\ busy \in Nat
    BY DEF Inv, ShapeInv
  <2>1. CASE Poll(c)
    BY <2>0, <2>1 DEF Poll, Set
  <2>2. CASE Answer(c)
    BY <2>0, <2>2 DEF Answer, Set
  <2>3. CASE \E a \in 0..MaxRuns : Apply(c, a)
    BY <2>0, <2>3 DEF Apply, Set
  <2> QED
    BY <2>1, <2>2, <2>3 DEF PageNext
<1>2. ShapeInv' /\ HubInv' /\ PublishInv'
  BY <1>1 DEF Inv, ShapeInv, HubInv, PublishInv, hub, work, streams
<1>3. SlotInv'
  <2>1. busy <= made
    BY DEF Inv, SlotInv, ShapeInv
  <2> QED
    BY <1>1, <2>1 DEF Inv, SlotInv, work
<1>4. StreamInv' /\ \A d \in Clients : Fresh(d)' <=> Fresh(d)
  BY <1>1, QuietStreams DEF hub, work, streams
<1>5. FreshInv'
  BY <1>1, <1>4 DEF Inv, FreshInv, hub, work
<1> QED
  BY <1>2, <1>3, <1>4, <1>5 DEF Inv

\* Every step keeps the invariant.
LEMMA InvStep == Inv /\ [Next]_vars => Inv'
<1> SUFFICES ASSUME Inv, [Next]_vars PROVE Inv'
  OBVIOUS
<1>1. CASE UNCHANGED <<hub, work, streams, pages>> /\ main' \in {"up", "cancelled", "drain"}
  <2>1. StreamInv' /\ \A d \in Clients : Fresh(d)' <=> Fresh(d)
    BY <1>1, QuietStreams DEF hub, work, streams, pages
  <2>2. FreshInv'
    BY <1>1, <2>1 DEF Inv, FreshInv, hub, work
  <2>3. ShapeInv' /\ HubInv' /\ SlotInv' /\ PublishInv'
    BY <1>1 DEF Inv, ShapeInv, HubInv, SlotInv, PublishInv, hub, work, streams, pages
  <2> QED
    BY <2>1, <2>2, <2>3 DEF Inv
<1>2. CASE Cancel \/ Shutdown \/ UNCHANGED vars
  BY <1>1, <1>2 DEF Cancel, Shutdown, vars, Inv, ShapeInv
<1> QED
  BY <1>2, StartStep, RunStep, BeginStep, SendStep, HandlerStep, PageStep
  DEF Next, RunNext, Publish, HandlerNext

\* The invariant holds throughout: the hub's lock and slot, what each publisher may be
\* publishing, and the order of what is on its way to a page.
THEOREM Invariance == Spec => []Inv
  BY InvInit, InvStep, PTL DEF Spec

\* publish never sends on a channel that unsubscribe has closed: whoever it has yet to
\* reach is subscribed; the clients with a handler, and no others, are.
THEOREM TypeCorrect == Spec => []TypeOK
<1>1. Inv => TypeOK
  <2> SUFFICES ASSUME Inv PROVE TypeOK
    OBVIOUS
  <2>1. \A c \in Clients : page[c] \in 0..made
    <3> TAKE c \in Clients
    <3>1. page[c] \in Nat /\ made \in Nat
      BY DEF Inv, ShapeInv
    <3>2. page[c] <= made
      BY DEF Inv, SlotInv
    <3> QED
      BY <3>1, <3>2
  <2> QED
    BY <2>1 DEF Inv, ShapeInv, HubInv, SlotInv, Stages, TypeOK
<1> QED
  BY <1>1, Invariance, PTL

\* Once a page has heard the end of a run nothing else of it follows on any of its
\* streams, whatever is dropped and whoever reports late.
THEOREM EndsAreLast == Spec => []NothingFollowsTheEnd
<1>1. Inv => NothingFollowsTheEnd
  <2> SUFFICES ASSUME Inv, NEW c \in Clients, NEW i \in DOMAIN Sending(c)
               PROVE  /\ Sending(c)[i].kind # "schedule" => Sending(c)[i].run > ended[c]
                      /\ \A j \in 1..(i - 1) :
                           Sending(c)[j].kind = "run_finished" /\ Sending(c)[i].kind # "schedule"
                             => Sending(c)[i].run > Sending(c)[j].run
    BY DEF NothingFollowsTheEnd
  <2>0. ch[c] \in Seq(Messages) /\ wire[c] \in Messages /\ Len(ch[c]) \in Nat
    BY DEF Inv, ShapeInv
  <2>1. CASE Writing(c)
    <3>1. /\ Sending(c) = <<wire[c]>> \o ch[c] /\ DOMAIN Sending(c) = 1..(Len(ch[c]) + 1)
          /\ Sending(c)[1] = wire[c]
          /\ \A k \in 1..(Len(ch[c]) + 1) : k # 1 => k - 1 \in 1..Len(ch[c]) /\ Sending(c)[k] = ch[c][k - 1]
      BY <2>0, <2>1 DEF Sending, Writing
    <3>2. CASE i = 1
      BY <2>1, <3>1, <3>2 DEF Inv, StreamInv, After
    <3>3. CASE i # 1
      <4>1. i - 1 \in 1..Len(ch[c]) /\ Sending(c)[i] = ch[c][i - 1]
        BY <3>1, <3>3
      <4>2. ASSUME NEW j \in 1..(i - 1)
            PROVE  InOrder(Sending(c)[j], Sending(c)[i])
        <5>1. CASE j = 1
          BY <2>1, <3>1, <4>1, <5>1 DEF Inv, StreamInv
        <5>2. CASE j # 1
          <6>1. j \in 1..(Len(ch[c]) + 1) /\ j - 1 < i - 1
            BY <2>0, <4>1, <5>2
          <6> QED
            BY <3>1, <4>1, <5>2, <6>1 DEF Inv, StreamInv
        <5> QED
          BY <5>1, <5>2
      <4> QED
        BY <4>1, <4>2 DEF Inv, StreamInv, InOrder, After
    <3> QED
      BY <3>2, <3>3
  <2>2. CASE ~Writing(c)
    <3>1. Sending(c) = ch[c] /\ i \in 1..Len(ch[c]) /\ \A j \in 1..(i - 1) : j \in 1..Len(ch[c]) /\ j < i
      BY <2>0, <2>2 DEF Sending, Writing
    <3> QED
      BY <3>1 DEF Inv, StreamInv, InOrder, After
  <2> QED
    BY <2>1, <2>2
<1> QED
  BY <1>1, Invariance, PTL

=============================================================================
