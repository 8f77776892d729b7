---------------------------- MODULE BatchProofs ----------------------------
(***************************************************************************)
(* Theorems about Batch, for any plan, any concurrency and any thresholds. *)
(*                                                                         *)
(* The counters of dispatch are kept apart from what they count: the       *)
(* invariant says that each is the number of goroutines that are at        *)
(* certain places, and the properties follow from how the places nest.     *)
(***************************************************************************)
EXTENDS Batch, ListProofs, FiniteSetTheorems

\* The goroutines that are at one of the places S.
At(S) == {w \in Workers : pc[w] \in S}

Midway   == {"handshake", "node", "request", "transfer", "teardown", "record"}
Flying   == Midway \cup {"report", "leave"}
Tokens   == Flying \cup {"enter", "release"}
Waiting  == Tokens \cup {"done"}
Counted  == {"leave", "release", "done", "gone"}
Recorded == Counted \cup {"report"}

LEMMA WorkersFinite == Workers = 1..Len(Peers) /\ IsFiniteSet(Workers) /\ Len(Peers) \in Nat
<1>1. Workers = 1..Len(Peers) /\ Len(Peers) \in Nat
  BY PeersAssumption DEF Workers
<1> QED
  BY <1>1, FS_Interval

LEMMA AtFinite ==
  ASSUME NEW S
  PROVE  IsFiniteSet(At(S)) /\ Cardinality(At(S)) \in Nat
<1>1. At(S) \in SUBSET Workers
  BY DEF At
<1> QED
  BY <1>1, WorkersFinite, FS_Subset, FS_CardinalityType

\* What one goroutine's step does to the goroutines at S.
LEMMA AtStep ==
  ASSUME NEW S, NEW w \in Workers, NEW from, NEW to,
         pc \in [Workers -> Pcs], Go(w, from, to)
  PROVE  /\ (from \in S <=> to \in S) => At(S)' = At(S)
         /\ from \notin S /\ to \in S =>
              /\ At(S)' = At(S) \cup {w}
              /\ Cardinality(At(S)') = Cardinality(At(S)) + 1
         /\ from \in S /\ to \notin S =>
              /\ At(S)' = At(S) \ {w}
              /\ Cardinality(At(S)') = Cardinality(At(S)) - 1
<1>1. CASE from \in S <=> to \in S
  BY <1>1 DEF At, Go
<1>2. CASE from \notin S /\ to \in S
  <2>1. At(S)' = At(S) \cup {w} /\ w \notin At(S)
    BY <1>2 DEF At, Go
  <2> QED
    BY <1>2, <2>1, AtFinite, FS_AddElement
<1>3. CASE from \in S /\ to \notin S
  <2>1. At(S)' = At(S) \ {w} /\ w \in At(S)
    BY <1>3 DEF At, Go
  <2> QED
    BY <1>3, <2>1, AtFinite, FS_RemoveElement
<1> QED
  BY <1>1, <1>2, <1>3

-----------------------------------------------------------------------------
(* The invariant *)

PlaceInv ==
  /\ pc \in [Workers -> Pcs] /\ phase \in Phases /\ dispatched \in 0..Len(Peers)
  /\ \A w \in Workers : pc[w] = "none" <=> w > dispatched
  /\ phase = "resolve" => dispatched = 0
  /\ phase \in {"finish", "close", "returned"} => wg = 0
  /\ fileOpen <=> phase \notin {"resolve", "returned"}

CountInv ==
  /\ sem = Cardinality(At(Tokens)) /\ sem <= Concurrency
  /\ wg = Cardinality(At(Waiting))
  /\ inFlight = Cardinality(At(Flying))
  /\ completed = Cardinality(At(Counted)) /\ reported = At(Counted)

ResultInv ==
  /\ results \in Seq(Workers)
  /\ \A i \in DOMAIN results : results[i] \in At(Recorded)
  /\ \A w \in At(Recorded) : \E i \in DOMAIN results : results[i] = w
  /\ \A i, j \in DOMAIN results : results[i] = results[j] => i = j

BatchInv == PlaceInv /\ CountInv /\ ResultInv

LEMMA BatchInit == Init => BatchInv
<1> SUFFICES ASSUME Init PROVE BatchInv
  OBVIOUS
<1>1. PlaceInv
  BY WorkersFinite DEF Init, PlaceInv, Pcs, Phases
<1>2. /\ At(Tokens) = {} /\ At(Waiting) = {} /\ At(Flying) = {}
      /\ At(Counted) = {} /\ At(Recorded) = {}
  BY DEF Init, At, Tokens, Waiting, Flying, Midway, Counted, Recorded
<1>3. CountInv
  BY <1>2, FS_EmptySet, PeersAssumption DEF Init, CountInv
<1>4. ResultInv
  BY <1>2 DEF Init, ResultInv
<1> QED
  BY <1>1, <1>3, <1>4 DEF BatchInv

\* A step between two places that no counter tells apart.
LEMMA QuietStep ==
  ASSUME BatchInv, NEW w \in Workers, NEW from \in Midway, NEW to \in Midway,
         Go(w, from, to),
         UNCHANGED <<phase, dispatched, tokens, counts, fileOpen, reported, results>>
  PROVE  BatchInv'
<1>1. \A S \in {Tokens, Waiting, Flying, Counted, Recorded} : At(S)' = At(S)
  <2>1. pc \in [Workers -> Pcs]
    BY DEF BatchInv, PlaceInv
  <2>2. /\ At(Tokens)' = At(Tokens) /\ At(Waiting)' = At(Waiting)
        /\ At(Flying)' = At(Flying)
    BY <2>1, AtStep DEF Tokens, Waiting, Flying
  <2>3. At(Counted)' = At(Counted) /\ At(Recorded)' = At(Recorded)
    BY <2>1, AtStep DEF Counted, Recorded, Midway
  <2> QED
    BY <2>2, <2>3
<1>2. CountInv' /\ ResultInv'
  BY <1>1 DEF BatchInv, CountInv, ResultInv, tokens, counts
<1>3. PlaceInv'
  BY DEF BatchInv, PlaceInv, Go, Midway, Pcs, tokens
<1> QED
  BY <1>2, <1>3 DEF BatchInv

LEMMA BatchStep == BatchInv /\ [Next]_vars => BatchInv'
<1> SUFFICES ASSUME BatchInv, [Next]_vars PROVE BatchInv'
  OBVIOUS
<1>0. PlaceInv /\ CountInv /\ ResultInv /\ pc \in [Workers -> Pcs]
  BY DEF BatchInv, PlaceInv
<1>1. ASSUME NEW w \in Workers, Handshake(w) PROVE BatchInv'
  <2>1. \E to \in {"node", "record"} : Go(w, "handshake", to)
    BY <1>1 DEF Handshake
  <2> QED
    BY <1>1, <2>1, QuietStep DEF Handshake, Midway, run, tokens, counts, output, disk
<1>2. ASSUME NEW w \in Workers, Node(w) PROVE BatchInv'
  <2>1. \E to \in {"request", "teardown"} : Go(w, "node", to)
    BY <1>2 DEF Node
  <2> QED
    BY <1>2, <2>1, QuietStep DEF Node, Midway, run, tokens, counts, output, disk
<1>3. ASSUME NEW w \in Workers, Request(w) PROVE BatchInv'
  <2>1. \E to \in {"transfer", "teardown"} : Go(w, "request", to)
    BY <1>3 DEF Request
  <2> QED
    BY <1>3, <2>1, QuietStep DEF Request, Midway, run, tokens, counts, output, disk
<1>4. ASSUME NEW w \in Workers, Transfer(w) PROVE BatchInv'
  <2>1. \E to \in {"teardown"} : Go(w, "transfer", to)
    BY <1>4 DEF Transfer
  <2> QED
    BY <1>4, <2>1, QuietStep DEF Transfer, Midway, run, tokens, counts, output, disk
<1>5. ASSUME NEW w \in Workers, Teardown(w) PROVE BatchInv'
  <2>1. \E to \in {"record"} : Go(w, "teardown", to)
    BY <1>5 DEF Teardown
  <2> QED
    BY <1>5, <2>1, QuietStep DEF Teardown, Midway, run, tokens, counts, output, disk
<1>6. ASSUME NEW w \in Workers, Enter(w) PROVE BatchInv'
  <2>1. Go(w, "enter", "handshake")
    BY <1>6 DEF Enter
  <2>2. At(Tokens)' = At(Tokens)
    BY <1>0, <2>1, AtStep DEF Tokens, Midway, Flying, Tokens, Waiting, Counted
  <2>3. At(Waiting)' = At(Waiting)
    BY <1>0, <2>1, AtStep DEF Waiting, Midway, Flying, Tokens, Waiting, Counted
  <2>4. /\ At(Flying)' = At(Flying) \cup {w}
        /\ Cardinality(At(Flying)') = Cardinality(At(Flying)) + 1
    BY <1>0, <2>1, AtStep DEF Flying, Midway, Flying, Tokens, Waiting, Counted
  <2>5. At(Counted)' = At(Counted)
    BY <1>0, <2>1, AtStep DEF Counted, Midway, Flying, Tokens, Waiting, Counted
  <2>6. At(Recorded)' = At(Recorded)
    BY <1>0, <2>1, AtStep DEF Recorded, Midway, Flying, Tokens, Waiting, Counted
  <2>7. CountInv'
    BY <1>0, <1>6, <2>2, <2>3, <2>4, <2>5, <2>6 DEF Enter, CountInv, tokens, counts, output, run
  <2>8. ResultInv'
    BY <1>0, <1>6, <2>2, <2>3, <2>4, <2>5, <2>6 DEF Enter, ResultInv, output
  <2>9. PlaceInv'
    BY <1>0, <1>6, <2>1 DEF Enter, PlaceInv, Go, Pcs, tokens, run, disk, output
  <2> QED
    BY <2>7, <2>8, <2>9 DEF BatchInv
<1>7. ASSUME NEW w \in Workers, Record(w) PROVE BatchInv'
  <2>1. Go(w, "record", "report")
    BY <1>7 DEF Record
  <2>2. At(Tokens)' = At(Tokens)
    BY <1>0, <2>1, AtStep DEF Tokens, Midway, Flying, Tokens, Waiting, Counted
  <2>3. At(Waiting)' = At(Waiting)
    BY <1>0, <2>1, AtStep DEF Waiting, Midway, Flying, Tokens, Waiting, Counted
  <2>4. At(Flying)' = At(Flying)
    BY <1>0, <2>1, AtStep DEF Flying, Midway, Flying, Tokens, Waiting, Counted
  <2>5. At(Counted)' = At(Counted)
    BY <1>0, <2>1, AtStep DEF Counted, Midway, Flying, Tokens, Waiting, Counted
  <2>6. /\ At(Recorded)' = At(Recorded) \cup {w}
        /\ Cardinality(At(Recorded)') = Cardinality(At(Recorded)) + 1
    BY <1>0, <2>1, AtStep DEF Recorded, Midway, Flying, Tokens, Waiting, Counted
  <2>7. CountInv'
    BY <1>0, <1>7, <2>2, <2>3, <2>4, <2>5, <2>6 DEF Record, CountInv, tokens, counts, output, run
  <2>8. ResultInv'
    <3>1. results' = Append(results, w) /\ w \notin At(Recorded)
      BY <1>7, <2>1 DEF Record, Go, At, Recorded, Counted
    <3>2. results \in Seq(Workers) /\ \A i \in DOMAIN results : results[i] # w
      BY <1>0, <3>1 DEF ResultInv
    <3>3. /\ DOMAIN results' = 1..(Len(results) + 1) /\ DOMAIN results = 1..Len(results)
          /\ results'[Len(results) + 1] = w /\ Len(results) \in Nat
          /\ \A i \in DOMAIN results : results'[i] = results[i]
          /\ results' \in Seq(Workers)
      BY <3>1, <3>2
    <3>4. At(Recorded)' = At(Recorded) \cup {w}
      BY <2>6
    <3>5. \A i \in DOMAIN results' : i = Len(results) + 1 \/ i \in DOMAIN results
      BY <3>3
    <3>6. \A i \in DOMAIN results' : results'[i] \in At(Recorded)'
      BY <1>0, <3>3, <3>4, <3>5 DEF ResultInv
    <3>7. \A v \in At(Recorded)' : \E i \in DOMAIN results' : results'[i] = v
      <4>1. Len(results) + 1 \in DOMAIN results' /\ DOMAIN results \subseteq DOMAIN results'
        BY <3>3
      <4> QED
        BY <1>0, <3>3, <3>4, <4>1 DEF ResultInv
    <3>8. \A i, j \in DOMAIN results' : results'[i] = results'[j] => i = j
      BY <1>0, <3>2, <3>3, <3>5 DEF ResultInv
    <3> QED
      BY <3>3, <3>6, <3>7, <3>8 DEF ResultInv
  <2>9. PlaceInv'
    BY <1>0, <1>7, <2>1 DEF Record, PlaceInv, Go, Pcs, tokens, run, disk, output
  <2> QED
    BY <2>7, <2>8, <2>9 DEF BatchInv
<1>8. ASSUME NEW w \in Workers, Report(w) PROVE BatchInv'
  <2>1. Go(w, "report", "leave")
    BY <1>8 DEF Report
  <2>2. At(Tokens)' = At(Tokens)
    BY <1>0, <2>1, AtStep DEF Tokens, Midway, Flying, Tokens, Waiting, Counted
  <2>3. At(Waiting)' = At(Waiting)
    BY <1>0, <2>1, AtStep DEF Waiting, Midway, Flying, Tokens, Waiting, Counted
  <2>4. At(Flying)' = At(Flying)
    BY <1>0, <2>1, AtStep DEF Flying, Midway, Flying, Tokens, Waiting, Counted
  <2>5. /\ At(Counted)' = At(Counted) \cup {w}
        /\ Cardinality(At(Counted)') = Cardinality(At(Counted)) + 1
    BY <1>0, <2>1, AtStep DEF Counted, Midway, Flying, Tokens, Waiting, Counted
  <2>6. At(Recorded)' = At(Recorded)
    BY <1>0, <2>1, AtStep DEF Recorded, Midway, Flying, Tokens, Waiting, Counted
  <2>7. CountInv'
    BY <1>0, <1>8, <2>2, <2>3, <2>4, <2>5, <2>6 DEF Report, CountInv, tokens, counts, output, run
  <2>8. ResultInv'
    BY <1>0, <1>8, <2>2, <2>3, <2>4, <2>5, <2>6 DEF Report, ResultInv, output
  <2>9. PlaceInv'
    BY <1>0, <1>8, <2>1 DEF Report, PlaceInv, Go, Pcs, tokens, run, disk, output
  <2> QED
    BY <2>7, <2>8, <2>9 DEF BatchInv
<1>9. ASSUME NEW w \in Workers, Leave(w) PROVE BatchInv'
  <2>1. Go(w, "leave", "release")
    BY <1>9 DEF Leave
  <2>2. At(Tokens)' = At(Tokens)
    BY <1>0, <2>1, AtStep DEF Tokens, Midway, Flying, Tokens, Waiting, Counted
  <2>3. At(Waiting)' = At(Waiting)
    BY <1>0, <2>1, AtStep DEF Waiting, Midway, Flying, Tokens, Waiting, Counted
  <2>4. /\ At(Flying)' = At(Flying) \ {w}
        /\ Cardinality(At(Flying)') = Cardinality(At(Flying)) - 1
    BY <1>0, <2>1, AtStep DEF Flying, Midway, Flying, Tokens, Waiting, Counted
  <2>5. At(Counted)' = At(Counted)
    BY <1>0, <2>1, AtStep DEF Counted, Midway, Flying, Tokens, Waiting, Counted
  <2>6. At(Recorded)' = At(Recorded)
    BY <1>0, <2>1, AtStep DEF Recorded, Midway, Flying, Tokens, Waiting, Counted
  <2>7. CountInv'
    BY <1>0, <1>9, <2>2, <2>3, <2>4, <2>5, <2>6 DEF Leave, CountInv, tokens, counts, output, run
  <2>8. ResultInv'
    BY <1>0, <1>9, <2>2, <2>3, <2>4, <2>5, <2>6 DEF Leave, ResultInv, output
  <2>9. PlaceInv'
    BY <1>0, <1>9, <2>1 DEF Leave, PlaceInv, Go, Pcs, tokens, run, disk, output
  <2> QED
    BY <2>7, <2>8, <2>9 DEF BatchInv
<1>10. ASSUME NEW w \in Workers, Release(w) PROVE BatchInv'
  <2>1. Go(w, "release", "done")
    BY <1>10 DEF Release
  <2>2. /\ At(Tokens)' = At(Tokens) \ {w}
        /\ Cardinality(At(Tokens)') = Cardinality(At(Tokens)) - 1
    BY <1>0, <2>1, AtStep DEF Tokens, Midway, Flying, Tokens, Waiting, Counted
  <2>3. At(Waiting)' = At(Waiting)
    BY <1>0, <2>1, AtStep DEF Waiting, Midway, Flying, Tokens, Waiting, Counted
  <2>4. At(Flying)' = At(Flying)
    BY <1>0, <2>1, AtStep DEF Flying, Midway, Flying, Tokens, Waiting, Counted
  <2>5. At(Counted)' = At(Counted)
    BY <1>0, <2>1, AtStep DEF Counted, Midway, Flying, Tokens, Waiting, Counted
  <2>6. At(Recorded)' = At(Recorded)
    BY <1>0, <2>1, AtStep DEF Recorded, Midway, Flying, Tokens, Waiting, Counted
  <2>7. CountInv'
    BY <1>0, <1>10, <2>2, <2>3, <2>4, <2>5, <2>6, AtFinite, PeersAssumption
       DEF Release, CountInv, tokens, counts, output, run
  <2>8. ResultInv'
    BY <1>0, <1>10, <2>2, <2>3, <2>4, <2>5, <2>6 DEF Release, ResultInv, output
  <2>9. PlaceInv'
    BY <1>0, <1>10, <2>1 DEF Release, PlaceInv, Go, Pcs, tokens, run, disk, output
  <2> QED
    BY <2>7, <2>8, <2>9 DEF BatchInv
<1>11. ASSUME NEW w \in Workers, Done(w) PROVE BatchInv'
  <2>1. Go(w, "done", "gone")
    BY <1>11 DEF Done
  <2>2. At(Tokens)' = At(Tokens)
    BY <1>0, <2>1, AtStep DEF Tokens, Midway, Flying, Tokens, Waiting, Counted
  <2>3. /\ At(Waiting)' = At(Waiting) \ {w}
        /\ Cardinality(At(Waiting)') = Cardinality(At(Waiting)) - 1
    BY <1>0, <2>1, AtStep DEF Waiting, Midway, Flying, Tokens, Waiting, Counted
  <2>4. At(Flying)' = At(Flying)
    BY <1>0, <2>1, AtStep DEF Flying, Midway, Flying, Tokens, Waiting, Counted
  <2>5. At(Counted)' = At(Counted)
    BY <1>0, <2>1, AtStep DEF Counted, Midway, Flying, Tokens, Waiting, Counted
  <2>6. At(Recorded)' = At(Recorded)
    BY <1>0, <2>1, AtStep DEF Recorded, Midway, Flying, Tokens, Waiting, Counted
  <2>7. CountInv'
    BY <1>0, <1>11, <2>2, <2>3, <2>4, <2>5, <2>6 DEF Done, CountInv, tokens, counts, output, run
  <2>8. ResultInv'
    BY <1>0, <1>11, <2>2, <2>3, <2>4, <2>5, <2>6 DEF Done, ResultInv, output
  <2>9. PlaceInv'
    <3>1. w \in At(Waiting)
      BY <2>1 DEF Go, At, Waiting
    <3>2. wg # 0
      BY <1>0, <3>1, AtFinite, FS_EmptySet DEF CountInv
    <3> QED
      BY <1>0, <1>11, <2>1, <3>2 DEF Done, PlaceInv, Go, Pcs, run, disk, output
  <2> QED
    BY <2>7, <2>8, <2>9 DEF BatchInv
<1>12. CASE Dispatch
  <2> DEFINE w == dispatched + 1
  <2>1. w \in Workers /\ Go(w, "none", "enter") /\ dispatched' = w /\ sem < Concurrency
    BY <1>0, <1>12, WorkersFinite DEF Dispatch, Launch, PlaceInv
  <2> HIDE DEF w
  <2>2. Cardinality(At(Tokens)') = Cardinality(At(Tokens)) + 1
    BY <1>0, <2>1, AtStep DEF Tokens, Midway, Flying, Tokens, Waiting, Counted
  <2>3. Cardinality(At(Waiting)') = Cardinality(At(Waiting)) + 1
    BY <1>0, <2>1, AtStep DEF Waiting, Midway, Flying, Tokens, Waiting, Counted
  <2>4. At(Flying)' = At(Flying)
    BY <1>0, <2>1, AtStep DEF Flying, Midway, Flying, Tokens, Waiting, Counted
  <2>5. At(Counted)' = At(Counted)
    BY <1>0, <2>1, AtStep DEF Counted, Midway, Flying, Tokens, Waiting, Counted
  <2>6. At(Recorded)' = At(Recorded)
    BY <1>0, <2>1, AtStep DEF Recorded, Midway, Flying, Tokens, Waiting, Counted
  <2>7. CountInv'
    <3>1. sem' = sem + 1 /\ wg' = wg + 1 /\ UNCHANGED <<inFlight, completed, reported>>
      BY <1>12 DEF Dispatch, Launch, counts, output
    <3>2. sem \in Nat /\ Concurrency \in Nat
      BY <1>0, AtFinite, PeersAssumption DEF CountInv
    <3> QED
      BY <1>0, <2>1, <2>2, <2>3, <2>4, <2>5, <2>6, <3>1, <3>2 DEF CountInv
  <2>8. ResultInv'
    BY <1>0, <1>12, <2>2, <2>3, <2>4, <2>5, <2>6 DEF Dispatch, ResultInv, output
  <2>9. PlaceInv'
    <3>1. /\ phase = "dispatch" /\ phase' = phase /\ fileOpen' = fileOpen
          /\ dispatched' \in 0..Len(Peers)
      BY <1>0, <1>12, WorkersFinite DEF Dispatch, output, disk, PlaceInv
    <3>2. \A v \in Workers : v \in Nat /\ (pc'[v] = "none" <=> pc[v] = "none" /\ v # w)
      BY <1>0, <2>1, WorkersFinite DEF Go
    <3>3. \A v \in Workers : v > dispatched' <=> v > dispatched /\ v # w
      BY <1>0, <2>1, WorkersFinite DEF w, PlaceInv
    <3>4. pc' \in [Workers -> Pcs]
      BY <1>0, <2>1 DEF Go, Pcs
    <3> QED
      BY <1>0, <3>1, <3>2, <3>3, <3>4 DEF PlaceInv
  <2> QED
    BY <2>7, <2>8, <2>9 DEF BatchInv
<1>13. ASSUME Resolve \/ DispatchEnds \/ Waited \/ FinishRun \/ Close \/ Cancel \/ UNCHANGED vars
       PROVE  BatchInv'
  <2>1. UNCHANGED <<pc, dispatched, tokens, counts, results, reported>>
    BY <1>13 DEF Resolve, DispatchEnds, Waited, FinishRun, Close, Cancel, vars, run, output, disk
  <2>2. \A S \in {Tokens, Waiting, Flying, Counted, Recorded} : At(S)' = At(S)
    BY <2>1 DEF At
  <2>3. CountInv' /\ ResultInv'
    BY <1>0, <2>1, <2>2 DEF CountInv, ResultInv, tokens, counts
  <2>4. PlaceInv'
    <3>1. dispatched = 0 => wg = 0
      <4>1. ASSUME dispatched = 0 PROVE At(Waiting) = {}
        BY <1>0, <4>1, WorkersFinite DEF PlaceInv, At, Waiting, Tokens, Flying, Midway
      <4> QED
        BY <1>0, <4>1, FS_EmptySet DEF CountInv
    <3> QED
      BY <1>0, <1>13, <2>1, <3>1
         DEF PlaceInv, Phases, Resolve, DispatchEnds, Waited, FinishRun, Close, Cancel, vars,
             run, output, disk, tokens
  <2> QED
    BY <2>3, <2>4 DEF BatchInv
<1> QED
  BY <1>1, <1>2, <1>3, <1>4, <1>5, <1>6, <1>7, <1>8, <1>9, <1>10, <1>11, <1>12, <1>13
     DEF Next, RunNext, WorkerNext

LEMMA BatchHolds == Spec => []BatchInv
BY BatchInit, BatchStep, PTL DEF Spec

-----------------------------------------------------------------------------
(* The properties *)

\* No more than Concurrency tests are under way, whatever the plan is and whenever
\* the run is cancelled.
THEOREM TestsAreBounded == Spec => []BoundedConcurrency
<1>1. BatchInv => BoundedConcurrency
  <2> SUFFICES ASSUME BatchInv PROVE BoundedConcurrency
    OBVIOUS
  <2>1. CountInv /\ PlaceInv
    BY DEF BatchInv
  <2>2. {w \in Workers : Testing(w)} = At(Tokens)
    BY <2>1 DEF Testing, At, Tokens, Flying, Midway, PlaceInv, Pcs
  <2>3. At(Flying) \in SUBSET At(Tokens)
    BY DEF At, Tokens
  <2>4. Cardinality(At(Flying)) <= Cardinality(At(Tokens))
    BY <2>3, AtFinite, FS_Subset
  <2>5. Cardinality(At(Flying)) \in Nat /\ Cardinality(At(Tokens)) \in Nat /\ Concurrency \in Nat
    BY AtFinite, PeersAssumption
  <2> QED
    BY <2>1, <2>2, <2>4, <2>5 DEF BoundedConcurrency, CountInv
<1> QED
  BY <1>1, BatchHolds, PTL

\* When Run has returned every goroutine is gone, and each peer that was started
\* has exactly one result.
THEOREM NothingRunsAfterReturn == Spec => []NothingAfterReturn
<1>1. BatchInv => NothingAfterReturn
  <2> SUFFICES ASSUME BatchInv PROVE NothingAfterReturn
    OBVIOUS
  <2>1. PlaceInv /\ CountInv /\ ResultInv
    BY DEF BatchInv
  <2>2. ASSUME wg = 0 PROVE \A w \in Workers : pc[w] = IF w <= dispatched THEN "gone" ELSE "none"
    <3>1. At(Waiting) = {}
      BY <2>1, <2>2, AtFinite, FS_EmptySet DEF CountInv
    <3>2. \A w \in Workers : pc[w] \in {"none", "gone"}
      BY <2>1, <3>1 DEF At, Waiting, Tokens, Flying, Midway, PlaceInv, Pcs
    <3>3. \A w \in Workers : w \in Nat /\ dispatched \in Nat
      BY <2>1, WorkersFinite DEF PlaceInv
    <3> QED
      BY <2>1, <3>2, <3>3 DEF PlaceInv
  <2>3. ~fileOpen => \A w \in Workers : pc[w] \in {"none", "gone"}
    <3>1. CASE phase = "resolve"
      BY <2>1, <3>1, WorkersFinite DEF PlaceInv
    <3>2. CASE phase = "returned"
      BY <2>1, <2>2, <3>2 DEF PlaceInv
    <3> QED
      BY <2>1, <3>1, <3>2 DEF PlaceInv
  <2>4. ASSUME phase \in {"finish", "close", "returned"}
        PROVE  /\ \A w \in Workers : pc[w] = IF w <= dispatched THEN "gone" ELSE "none"
               /\ \A w \in 1..dispatched : Cardinality({i \in DOMAIN results : results[i] = w}) = 1
               /\ reported = 1..dispatched
               /\ completed = dispatched /\ inFlight = 0 /\ sem = 0
    <3>1. \A w \in Workers : pc[w] = IF w <= dispatched THEN "gone" ELSE "none"
      BY <2>1, <2>2, <2>4 DEF PlaceInv
    <3>2. dispatched \in Nat /\ dispatched <= Len(Peers) /\ 1..dispatched \subseteq Workers
      BY <2>1, WorkersFinite DEF PlaceInv
    <3>3. /\ At(Counted) = 1..dispatched /\ At(Recorded) = 1..dispatched
          /\ At(Flying) = {} /\ At(Tokens) = {}
      BY <3>1, <3>2, WorkersFinite DEF At, Counted, Recorded, Tokens, Flying, Midway
    <3>4. completed = dispatched /\ reported = 1..dispatched /\ inFlight = 0 /\ sem = 0
      BY <2>1, <3>2, <3>3, FS_Interval, FS_EmptySet DEF CountInv
    <3>5. ASSUME NEW w \in 1..dispatched
          PROVE  Cardinality({i \in DOMAIN results : results[i] = w}) = 1
      <4>1. PICK i \in DOMAIN results : results[i] = w
        BY <2>1, <3>3, <3>5 DEF ResultInv
      <4>2. {j \in DOMAIN results : results[j] = w} = {i}
        BY <2>1, <4>1 DEF ResultInv
      <4> QED
        BY <4>2, FS_Singleton
    <3> QED
      BY <3>1, <3>4, <3>5
  <2> QED
    BY <2>3, <2>4 DEF NothingAfterReturn
<1> QED
  BY <1>1, BatchHolds, PTL

-----------------------------------------------------------------------------
(* The ranking *)

Outcomes == [speed : Nat, ping : Nat \cup {NoPing}, error : BOOLEAN]

\* Less orders what was measured, up to ties.
LEMMA LessIsWeakOrder ==
  ASSUME measured \in [Workers -> Outcomes], NEW a \in Workers, NEW b \in Workers, NEW c \in Workers
  PROVE  /\ ~Less(a, a)
         /\ Less(a, b) /\ Less(b, c) => Less(a, c)
         /\ Less(a, b) /\ ~Less(c, b) => Less(a, c)
         /\ ~Less(b, a) /\ Less(b, c) => Less(a, c)
         /\ ~Less(b, a) /\ ~Less(c, b) => ~Less(c, a)
<1>1. \A w \in Workers : /\ Peers[w] \in Nat /\ PingOf(w) \in Int /\ measured[w].speed \in Nat
                         /\ measured[w].error \in BOOLEAN
  BY PeersAssumption, SMTT(30) DEF Workers, PingOf, Outcomes, NoPing, Worst
<1> QED
  BY <1>1 DEF Less

\* A stable sort puts what is at j before what is at k.
Ahead(s, j, k) == Less(s[j], s[k]) \/ (j < k /\ ~Less(s[k], s[j]))
AheadOf(s, k) == {j \in DOMAIN s : Ahead(s, j, k)}

LEMMA AheadIsTotalOrder ==
  ASSUME measured \in [Workers -> Outcomes], NEW s \in Seq(Workers),
         NEW i \in DOMAIN s, NEW j \in DOMAIN s, NEW k \in DOMAIN s
  PROVE  /\ ~Ahead(s, i, i)
         /\ i # j => Ahead(s, i, j) \/ Ahead(s, j, i)
         /\ Ahead(s, i, j) /\ Ahead(s, j, k) => Ahead(s, i, k)
<1>1. s[i] \in Workers /\ s[j] \in Workers /\ s[k] \in Workers /\ i \in Nat /\ j \in Nat /\ k \in Nat
  OBVIOUS
<1>2. ~Ahead(s, i, i)
  BY <1>1, LessIsWeakOrder DEF Ahead
<1>3. i # j => Ahead(s, i, j) \/ Ahead(s, j, i)
  BY <1>1 DEF Ahead
<1>4. Ahead(s, i, j) /\ Ahead(s, j, k) => Ahead(s, i, k)
  <2>1. CASE Less(s[i], s[j]) /\ Less(s[j], s[k])
    BY <1>1, <2>1, LessIsWeakOrder DEF Ahead
  <2>2. CASE Less(s[i], s[j]) /\ ~Less(s[k], s[j])
    BY <1>1, <2>2, LessIsWeakOrder DEF Ahead
  <2>3. CASE ~Less(s[j], s[i]) /\ Less(s[j], s[k])
    BY <1>1, <2>3, LessIsWeakOrder DEF Ahead
  <2>4. CASE i < j /\ j < k /\ ~Less(s[j], s[i]) /\ ~Less(s[k], s[j])
    BY <1>1, <2>4, LessIsWeakOrder DEF Ahead
  <2> QED
    BY <2>1, <2>2, <2>3, <2>4 DEF Ahead
<1> QED
  BY <1>2, <1>3, <1>4

\* Place numbers the rows from 1, in that order.
LEMMA PlaceCounts ==
  ASSUME measured \in [Workers -> Outcomes], NEW s \in Seq(Workers)
  PROVE  /\ \A k \in DOMAIN s : Place(s, k) \in 1..Len(s)
         /\ \A j, k \in DOMAIN s : Ahead(s, j, k) => Place(s, j) < Place(s, k)
<1>1. DOMAIN s = 1..Len(s) /\ Len(s) \in Nat
  OBVIOUS
<1>2. \A k \in DOMAIN s : Place(s, k) = 1 + Cardinality(AheadOf(s, k))
  BY DEF Place, AheadOf, Ahead
<1>3. IsFiniteSet(DOMAIN s) /\ Cardinality(DOMAIN s) = Len(s)
  <2>1. IsFiniteSet(1..Len(s)) /\ Cardinality(1..Len(s)) = IF 1 > Len(s) THEN 0 ELSE Len(s) - 1 + 1
    BY <1>1, FS_Interval, SMTT(30)
  <2> QED
    BY <1>1, <2>1
<1>4. \A k \in DOMAIN s : IsFiniteSet(AheadOf(s, k)) /\ Cardinality(AheadOf(s, k)) \in Nat
  <2> TAKE k \in DOMAIN s
  <2>1. AheadOf(s, k) \in SUBSET (DOMAIN s)
    BY DEF AheadOf
  <2> QED
    BY <1>3, <2>1, FS_Subset, FS_CardinalityType
<1>5. ASSUME NEW k \in DOMAIN s PROVE Place(s, k) \in 1..Len(s)
  <2>1. AheadOf(s, k) \in SUBSET (DOMAIN s) /\ k \notin AheadOf(s, k)
    BY AheadIsTotalOrder DEF AheadOf
  <2>2. Cardinality(AheadOf(s, k)) <= Len(s) /\ Cardinality(AheadOf(s, k)) # Len(s)
    BY <1>3, <2>1, FS_Subset
  <2> QED
    BY <1>1, <1>2, <1>4, <2>2
<1>6. ASSUME NEW j \in DOMAIN s, NEW k \in DOMAIN s, Ahead(s, j, k)
      PROVE  Place(s, j) < Place(s, k)
  <2>1. AheadOf(s, j) \in SUBSET AheadOf(s, k)
    <3> SUFFICES ASSUME NEW i \in DOMAIN s, Ahead(s, i, j) PROVE Ahead(s, i, k)
      BY DEF AheadOf
    <3> QED
      BY <1>6, AheadIsTotalOrder
  <2>2. j \in AheadOf(s, k) /\ j \notin AheadOf(s, j)
    BY <1>6, AheadIsTotalOrder DEF AheadOf
  <2>3. Cardinality(AheadOf(s, j)) <= Cardinality(AheadOf(s, k))
        /\ Cardinality(AheadOf(s, j)) # Cardinality(AheadOf(s, k))
    BY <1>4, <2>1, <2>2, FS_Subset
  <2> QED
    BY <1>2, <1>4, <2>3
<1> QED
  BY <1>5, <1>6

\* Sorted is s in another order, the one of Ahead; q says where each row comes from.
LEMMA SortedIsInOrder ==
  ASSUME measured \in [Workers -> Outcomes], NEW s \in Seq(Workers)
  PROVE  /\ Sorted(s) \in Seq(Workers) /\ Len(Sorted(s)) = Len(s)
         /\ \E q \in [1..Len(s) -> 1..Len(s)] :
              /\ \A i \in 1..Len(s) : Sorted(s)[i] = s[q[i]]
              /\ \A k \in 1..Len(s) : \E i \in 1..Len(s) : q[i] = k
              /\ \A i, j \in 1..Len(s) : i < j => Ahead(s, q[i], q[j])
<1> DEFINE D == DOMAIN s
           place == [k \in D |-> Place(s, k)]
           q == [i \in D |-> CHOOSE k \in D : Place(s, k) = i]
<1>1. D = 1..Len(s) /\ Len(s) \in Nat /\ IsFiniteSet(D)
  <2>1. D = 1..Len(s) /\ Len(s) \in Nat
    OBVIOUS
  <2> QED
    BY <2>1, FS_Interval
<1>2. \A j, k \in D : j # k => Place(s, j) # Place(s, k)
  <2> SUFFICES ASSUME NEW j \in D, NEW k \in D, j # k PROVE Place(s, j) # Place(s, k)
    OBVIOUS
  <2>1. Ahead(s, j, k) \/ Ahead(s, k, j)
    BY <1>1, AheadIsTotalOrder
  <2>2. Place(s, j) \in Nat /\ Place(s, k) \in Nat
    BY <1>1, PlaceCounts
  <2> QED
    BY <1>1, <2>1, <2>2, PlaceCounts
<1>3. place \in Injection(D, D)
  <2>1. place \in [D -> D]
    BY <1>1, PlaceCounts
  <2> QED
    BY <1>2, <2>1 DEF Injection, IsInjective
<1>4. \A i \in D : \E k \in D : Place(s, k) = i
  <2>1. place \in Surjection(D, D)
    BY <1>1, <1>3, FS_Injection
  <2> QED
    BY <2>1 DEF Surjection
<1>5. \A i \in D : q[i] \in D /\ Place(s, q[i]) = i
  BY <1>4
<1>6. q \in [D -> D]
  BY <1>5
<1>7. \A i \in D : Sorted(s)[i] = s[q[i]]
  BY DEF Sorted
<1>8. Sorted(s) \in Seq(Workers) /\ Len(Sorted(s)) = Len(s)
  <2>1. Sorted(s) = [i \in D |-> s[q[i]]]
    BY DEF Sorted
  <2>2. \A i \in D : s[q[i]] \in Workers
    BY <1>5
  <2> HIDE DEF q
  <2> QED
    BY <1>1, <2>1, <2>2
<1>9. \A k \in D : \E i \in D : q[i] = k
  <2> SUFFICES ASSUME NEW k \in D PROVE \E i \in D : q[i] = k
    OBVIOUS
  <2>1. Place(s, k) \in D
    BY <1>1, PlaceCounts
  <2>2. q[Place(s, k)] \in D /\ Place(s, q[Place(s, k)]) = Place(s, k)
    BY <1>5, <2>1
  <2> HIDE DEF q
  <2> QED
    BY <1>2, <2>1, <2>2
<1>10. \A i, j \in D : i < j => Ahead(s, q[i], q[j])
  <2> SUFFICES ASSUME NEW i \in D, NEW j \in D, i < j PROVE Ahead(s, q[i], q[j])
    OBVIOUS
  <2>1. q[i] \in D /\ q[j] \in D /\ Place(s, q[i]) = i /\ Place(s, q[j]) = j
    BY <1>5
  <2> HIDE DEF q
  <2>2. q[i] # q[j] /\ ~Ahead(s, q[j], q[i])
    BY <1>1, <2>1, PlaceCounts
  <2> QED
    BY <1>1, <2>1, <2>2, AheadIsTotalOrder
<1> HIDE DEF q
<1> QED
  BY <1>1, <1>6, <1>7, <1>8, <1>9, <1>10

-----------------------------------------------------------------------------
(* What is measured, written and returned *)

\* Only Dispatch adds to late, only Transfer measures, only Record writes a result
\* or a line.
LEMMA BatchFrame ==
  [Next]_vars =>
    /\ UNCHANGED <<late, dispatched>> \/ Dispatch
    /\ UNCHANGED measured \/ \E w \in Workers : Transfer(w)
    /\ UNCHANGED <<results, file, faults>> \/ \E w \in Workers : Record(w)
    /\ UNCHANGED final \/ FinishRun
    /\ cancelled' \in {cancelled, TRUE}
  BY DEF Next, RunNext, WorkerNext, vars, run, tokens, counts, disk, output, Resolve, Dispatch,
         DispatchEnds, Waited, FinishRun, Close, Enter, Handshake, Node, Request, Transfer,
         Teardown, Record, Report, Leave, Release, Done, Cancel

\* Who has not measured anything yet, and who never will.
Unmeasured == {"none", "enter", "handshake", "node", "request", "transfer"}

MeasureInv ==
  /\ cancelled \in BOOLEAN /\ late \subseteq Workers
  /\ measured \in [Workers -> Outcomes]
  /\ \A w \in Workers : pc[w] \in Unmeasured => measured[w].error
  /\ \A w \in late : cancelled /\ pc[w] \notin {"none", "transfer"} /\ measured[w].error

LEMMA MeasureInit == Init => MeasureInv
<1>1. Failed \in Outcomes /\ Failed.error
  BY DEF Failed, Outcomes, NoPing
<1> QED
  BY <1>1 DEF Init, MeasureInv

\* A late peer is not let through to its transfer, and nobody else measures it.
LEMMA MeasureStep ==
  ASSUME BatchInv, MeasureInv, [Next]_vars
  PROVE  MeasureInv'
<1>0. /\ pc \in [Workers -> Pcs] /\ measured \in [Workers -> Outcomes]
      /\ late \subseteq Workers /\ cancelled \in BOOLEAN
  BY DEF BatchInv, PlaceInv, MeasureInv
<1>1. cancelled' \in BOOLEAN /\ (cancelled => cancelled')
  BY <1>0, BatchFrame
<1>2. ASSUME NEW v \in Workers, Transfer(v) PROVE MeasureInv'
  <2>1. pc[v] = "transfer" /\ pc' = [pc EXCEPT ![v] = "teardown"] /\ UNCHANGED <<late, cancelled>>
    BY <1>2 DEF Transfer, Go, run
  <2>2. measured' \in [Workers -> Outcomes] /\ \A w \in Workers : w # v => measured'[w] = measured[w]
    <3>1. CASE UNCHANGED measured
      BY <1>0, <3>1
    <3>2. CASE \E m \in Measurements : measured' = [measured EXCEPT ![v] = Ok(m)]
      <4>1. PICK m \in Measurements : measured' = [measured EXCEPT ![v] = Ok(m)]
        BY <3>2
      <4>2. Ok(m) \in Outcomes
        BY MeasureAssumption DEF Ok, Outcomes, NoPing
      <4> QED
        BY <1>0, <4>1, <4>2
    <3> QED
      BY <1>2, <3>1, <3>2 DEF Transfer
  <2>3. v \notin late
    BY <2>1 DEF MeasureInv
  <2> QED
    BY <1>0, <2>1, <2>2, <2>3 DEF MeasureInv, Unmeasured
<1>3. CASE Dispatch
  <2>1. /\ dispatched' \in Workers /\ Go(dispatched', "none", "enter") /\ UNCHANGED <<measured, cancelled>>
        /\ late' = IF cancelled THEN late \cup {dispatched'} ELSE late
    BY <1>3, WorkersFinite DEF Dispatch, BatchInv, PlaceInv
  <2> QED
    BY <1>0, <2>1 DEF MeasureInv, Unmeasured, Go
<1>4. ASSUME UNCHANGED <<measured, late>>,
             \A w \in Workers : /\ pc'[w] \in Unmeasured => pc[w] \in Unmeasured
                                /\ pc'[w] = "none" => pc[w] = "none"
                                /\ pc'[w] = "transfer" => pc[w] = "transfer" \/ ~cancelled
      PROVE  MeasureInv'
  BY <1>0, <1>1, <1>4 DEF MeasureInv
<1>5. ASSUME NEW v \in Workers, Request(v) PROVE MeasureInv'
  <2>1. /\ pc[v] = "request" /\ UNCHANGED <<measured, late>>
        /\ \/ ~cancelled /\ pc' = [pc EXCEPT ![v] = "transfer"]
           \/ pc' = [pc EXCEPT ![v] = "teardown"]
    BY <1>5 DEF Request, MayRequest, Go, run
  <2> QED
    BY <1>0, <1>4, <2>1 DEF Unmeasured
<1>6. ASSUME NEW v \in Workers,
             Enter(v) \/ Handshake(v) \/ Node(v) \/ Teardown(v) \/ Record(v) \/ Report(v)
               \/ Leave(v) \/ Release(v) \/ Done(v)
      PROVE  MeasureInv'
  <2>1. UNCHANGED <<measured, late>>
    BY <1>6 DEF Enter, Handshake, Node, Teardown, Record, Report, Leave, Release, Done, run
  <2>2. \E to \in Pcs : /\ pc' = [pc EXCEPT ![v] = to] /\ to \notin {"none", "transfer"}
                        /\ to \in Unmeasured => pc[v] \in Unmeasured
    BY <1>6 DEF Enter, Handshake, Node, Teardown, Record, Report, Leave, Release, Done, Go,
                Pcs, Unmeasured
  <2> QED
    BY <1>0, <1>4, <2>1, <2>2
<1>7. CASE Resolve \/ DispatchEnds \/ Waited \/ FinishRun \/ Close \/ Cancel \/ UNCHANGED vars
  <2>1. UNCHANGED <<measured, late, pc>>
    BY <1>7 DEF Resolve, DispatchEnds, Waited, FinishRun, Close, Cancel, vars, run
  <2> QED
    BY <1>4, <2>1
<1> QED
  BY <1>2, <1>3, <1>5, <1>6, <1>7 DEF Next, RunNext, WorkerNext

LEMMA MeasureHolds == Spec => [](BatchInv /\ MeasureInv)
BY BatchInit, BatchStep, MeasureInit, MeasureStep, PTL DEF Spec

\* A peer that was started although the run was cancelled is a failure in the results.
THEOREM LatePeersFail == Spec => []NothingMeasuredAfterCancel
<1>1. MeasureInv => NothingMeasuredAfterCancel
  BY DEF MeasureInv, NothingMeasuredAfterCancel
<1> QED
  BY <1>1, MeasureHolds, PTL

\* How many results a failed write may have cost so far: a file that ends in a line
\* that was cut short is about to cost the next one.
Broken == file # <<>> /\ file[Len(file)] = Torn

FileInv ==
  /\ file \in Seq(Workers \cup {Torn}) /\ faults \in 0..MaxFaults
  /\ \A i \in DOMAIN file : file[i] # Torn => \E k \in DOMAIN results : results[k] = file[i]
  /\ Without(file, {Torn}) = Without(results, Unwritten)
  /\ IsFiniteSet(Lost)
  /\ Cardinality(Lost) + (IF Broken THEN 1 ELSE 0) <= 2 * faults

LEMMA FileInit == Init => FileInv
<1> SUFFICES ASSUME Init PROVE FileInv
  OBVIOUS
<1>1. results = <<>> /\ Lost = {} /\ Cardinality(Lost) = 0 /\ IsFiniteSet(Lost)
  BY FS_EmptySet DEF Init, Lost
<1>2. Without(<<>>, Unwritten) = <<>> /\ Without(<<>>, {Torn}) = <<>>
  BY WithoutEmpty
<1>3. Without(<<Torn>>, {Torn}) = <<>>
  <2>1. <<>> \in Seq({Torn}) /\ Torn \in {Torn} /\ <<Torn>> = Append(<<>>, Torn)
    OBVIOUS
  <2>2. Without(Append(<<>>, Torn), {Torn}) = Without(<<>>, {Torn})
    BY <2>1, WithoutAppend
  <2> QED
    BY <1>2, <2>1, <2>2
<1>4. CASE file = <<>> /\ faults = 0
  BY <1>1, <1>2, <1>3, <1>4, MeasureAssumption DEF FileInv, Broken
<1>5. CASE file = <<Torn>> /\ faults = 1 /\ MaxFaults > 0
  BY <1>1, <1>2, <1>3, <1>5, MeasureAssumption DEF FileInv, Broken
<1> QED
  BY <1>4, <1>5 DEF Init

\* The result that is recorded is new, and so is its line.
LEMMA RecordIsNew ==
  ASSUME BatchInv, FileInv, NEW w \in Workers, Record(w)
  PROVE  /\ results \in Seq(Workers) /\ results' = Append(results, w) /\ WriteLine(w)
         /\ \A k \in DOMAIN results : results[k] # w
         /\ w \in Unwritten
<1>1. pc[w] = "record" /\ results' = Append(results, w) /\ WriteLine(w)
  BY DEF Record, Go
<1>2. results \in Seq(Workers) /\ \A k \in DOMAIN results : results[k] \in At(Recorded)
  BY DEF BatchInv, ResultInv
<1>3. w \notin At(Recorded)
  BY <1>1 DEF At, Recorded, Counted
<1>4. \A k \in DOMAIN results : results[k] # w
  BY <1>2, <1>3
<1>5. w # Torn
  BY TornAssumption DEF Workers
<1>6. \A i \in DOMAIN file : file[i] # w
  BY <1>4, <1>5 DEF FileInv
<1> QED
  BY <1>1, <1>2, <1>4, <1>6 DEF Unwritten

\* A line that was readable stays so, whatever is appended: only the newest result
\* can be lost in addition.
LEMMA LostGrows ==
  ASSUME FileInv, NEW w \in Workers, results \in Seq(Workers), results' = Append(results, w),
         NEW x \in Workers \cup {Torn}, file' \in {file, Append(file, x)}
  PROVE  /\ Lost' \subseteq Lost \cup {Len(results) + 1}
         /\ IsFiniteSet(Lost') /\ Cardinality(Lost') \in Nat /\ Cardinality(Lost) \in Nat
         /\ Cardinality(Lost') <= Cardinality(Lost) + 1
<1>1. file \in Seq(Workers \cup {Torn}) /\ IsFiniteSet(Lost)
  BY DEF FileInv
<1>2. \A j \in DOMAIN file : j \in DOMAIN file' /\ file'[j] = file[j] /\ j \in Nat
                             /\ (j > 1 => j - 1 \in DOMAIN file)
  BY <1>1, SMTT(30)
<1>3. /\ DOMAIN results' = 1..(Len(results) + 1) /\ Len(results) \in Nat
      /\ DOMAIN results = 1..Len(results)
      /\ \A i \in DOMAIN results : results'[i] = results[i]
  OBVIOUS
<1>4. \A j \in DOMAIN file : Readable(j) => Readable(j)'
  BY <1>2 DEF Readable
<1>5. Lost' \subseteq Lost \cup {Len(results) + 1}
  <2> SUFFICES ASSUME NEW i \in DOMAIN results, i \notin Lost PROVE i \notin Lost'
    BY <1>3 DEF Lost
  <2>1. PICK j \in DOMAIN file : file[j] = results[i] /\ Readable(j)
    BY DEF Lost
  <2> QED
    BY <1>2, <1>3, <1>4, <2>1 DEF Lost
<1>6. /\ IsFiniteSet(Lost \cup {Len(results) + 1}) /\ Cardinality(Lost) \in Nat
      /\ Cardinality(Lost \cup {Len(results) + 1}) <= Cardinality(Lost) + 1
  <2>1. Cardinality(Lost) \in Nat /\ IsFiniteSet(Lost \cup {Len(results) + 1})
    BY <1>1, FS_AddElement, FS_CardinalityType
  <2>2. CASE Len(results) + 1 \in Lost
    <3>1. Lost \cup {Len(results) + 1} = Lost
      BY <2>2
    <3>2. Cardinality(Lost) <= Cardinality(Lost) + 1
      BY <2>1
    <3> QED
      BY <2>1, <3>1, <3>2, Zenon
  <2>3. CASE Len(results) + 1 \notin Lost
    <3>1. Cardinality(Lost \cup {Len(results) + 1}) = Cardinality(Lost) + 1
      BY <1>1, <2>3, FS_AddElement
    <3> QED
      BY <2>1, <3>1
  <2> QED
    BY <2>2, <2>3
<1>7. /\ IsFiniteSet(Lost') /\ Cardinality(Lost') \in Nat
      /\ Cardinality(Lost') <= Cardinality(Lost \cup {Len(results) + 1})
  BY <1>5, <1>6, FS_Subset, FS_CardinalityType
<1>8. Cardinality(Lost \cup {Len(results) + 1}) \in Nat
  BY <1>6, FS_CardinalityType
<1> QED
  BY <1>5, <1>6, <1>7, <1>8

\* Each way a line may be written keeps what the file says in step with the slice.
LEMMA FileStep ==
  ASSUME BatchInv, FileInv, [Next]_vars
  PROVE  FileInv'
<1>1. CASE UNCHANGED <<results, file, faults>>
  BY <1>1 DEF FileInv, Unwritten, Lost, Readable, Broken
<1>2. ASSUME NEW w \in Workers, Record(w) PROVE FileInv'
  <2>1. /\ results \in Seq(Workers) /\ results' = Append(results, w)
        /\ \A k \in DOMAIN results : results[k] # w
        /\ w \in Unwritten
    BY <1>2, RecordIsNew
  <2>2. /\ file \in Seq(Workers \cup {Torn}) /\ faults \in 0..MaxFaults
        /\ \A i \in DOMAIN file : file[i] # Torn => \E k \in DOMAIN results : results[k] = file[i]
        /\ Without(file, {Torn}) = Without(results, Unwritten)
        /\ Cardinality(Lost) + (IF Broken THEN 1 ELSE 0) <= 2 * faults
    BY DEF FileInv
  <2>3. /\ DOMAIN results' = 1..(Len(results) + 1) /\ Len(results) \in Nat
        /\ DOMAIN results = 1..Len(results) /\ results'[Len(results) + 1] = w
        /\ \A i \in DOMAIN results : results'[i] = results[i]
    BY <2>1
  <2>4. DOMAIN file = 1..Len(file) /\ Len(file) \in Nat /\ w # Torn /\ Torn \notin Workers
    BY <2>2, TornAssumption DEF Workers
  <2>5. CASE file' = Append(file, w) /\ UNCHANGED faults
    <3>1. /\ file' \in Seq(Workers \cup {Torn}) /\ DOMAIN file' = 1..(Len(file) + 1)
          /\ Len(file') = Len(file) + 1
          /\ file'[Len(file) + 1] = w /\ \A i \in DOMAIN file : file'[i] = file[i]
      BY <2>2, <2>5
    <3>2. \A i \in DOMAIN file' : file'[i] # Torn => \E k \in DOMAIN results' : results'[k] = file'[i]
      BY <2>2, <2>3, <2>4, <3>1, SMTT(30)
    <3>3. Unwritten' = Unwritten \ {w}
      BY <2>4, <3>1 DEF Unwritten
    <3>4. Without(file', {Torn}) = Append(Without(file, {Torn}), w)
      <4>1. Without(Append(file, w), {Torn}) =
              IF w \in {Torn} THEN Without(file, {Torn}) ELSE Append(Without(file, {Torn}), w)
        BY <2>2, WithoutAppend
      <4> QED
        BY <2>4, <2>5, <4>1
    <3>5. Without(results', Unwritten') = Append(Without(results, Unwritten \ {w}), w)
      <4>1. Without(Append(results, w), Unwritten \ {w}) =
              IF w \in Unwritten \ {w} THEN Without(results, Unwritten \ {w})
              ELSE Append(Without(results, Unwritten \ {w}), w)
        BY <2>1, WithoutAppend
      <4> QED
        BY <2>1, <3>3, <4>1
    <3>6. Without(results, Unwritten \ {w}) = Without(results, Unwritten)
      <4>1. \A i \in 1..Len(results) : results[i] \in Unwritten \ {w} <=> results[i] \in Unwritten
        BY <2>1, <2>3
      <4> QED
        BY <2>1, <4>1, WithoutTheSame
    <3>7. /\ Lost' \subseteq Lost \cup {Len(results) + 1}
          /\ IsFiniteSet(Lost') /\ Cardinality(Lost') \in Nat /\ Cardinality(Lost) \in Nat
          /\ Cardinality(Lost') <= Cardinality(Lost) + 1
      BY <2>1, <2>5, LostGrows
    <3>8. ~Broken'
      BY <2>4, <3>1 DEF Broken
    <3>9. ASSUME ~Broken PROVE Cardinality(Lost') <= Cardinality(Lost)
      <4>0. PICK n : n = Len(file) + 1
        OBVIOUS
      <4>1. Readable(n)' /\ n \in DOMAIN file' /\ file'[n] = w
        <5>1. Len(file) + 1 > 1 => file[Len(file)] # Torn /\ file'[(Len(file) + 1) - 1] = file[Len(file)]
          BY <2>4, <3>1, <3>9 DEF Broken
        <5> QED
          BY <2>4, <3>1, <4>0, <5>1 DEF Readable
      <4>2. Len(results) + 1 \notin Lost'
        BY <2>3, <2>4, <3>1, <4>1 DEF Lost
      <4>3. Lost' \in SUBSET Lost
        BY <3>7, <4>2
      <4> QED
        BY <4>3, FS_Subset DEF FileInv
    <3>10. Cardinality(Lost') + (IF Broken' THEN 1 ELSE 0) <= 2 * faults'
      BY <2>2, <2>5, <3>7, <3>8, <3>9, MeasureAssumption
    <3> QED
      BY <2>2, <2>5, <3>1, <3>2, <3>4, <3>5, <3>6, <3>7, <3>10 DEF FileInv
  <2>6. ASSUME faults < MaxFaults, faults' = faults + 1, file' \in {file, Append(file, Torn)}
        PROVE  FileInv'
    <3>1. /\ file' \in Seq(Workers \cup {Torn}) /\ faults' \in 0..MaxFaults
          /\ \A i \in DOMAIN file' : \/ i \in DOMAIN file /\ file'[i] = file[i]
                                     \/ file'[i] = Torn
          /\ \A i \in DOMAIN file : i \in DOMAIN file' /\ file'[i] = file[i]
      BY <2>2, <2>6, MeasureAssumption, SMTT(30)
    <3>2. \A i \in DOMAIN file' : file'[i] # Torn => \E k \in DOMAIN results' : results'[k] = file'[i]
      BY <2>2, <2>3, <3>1
    <3>3. Unwritten' = Unwritten
      BY <2>4, <3>1 DEF Unwritten
    <3>4. Without(file', {Torn}) = Without(file, {Torn})
      <4>1. Without(Append(file, Torn), {Torn}) = Without(file, {Torn})
        BY <2>2, WithoutAppend
      <4> QED
        BY <2>6, <4>1
    <3>5. Without(results', Unwritten') = Without(results, Unwritten)
      <4>1. Without(Append(results, w), Unwritten) =
              IF w \in Unwritten THEN Without(results, Unwritten)
              ELSE Append(Without(results, Unwritten), w)
        BY <2>1, WithoutAppend
      <4> QED
        BY <2>1, <3>3, <4>1
    <3>6. /\ IsFiniteSet(Lost') /\ Cardinality(Lost') \in Nat /\ Cardinality(Lost) \in Nat
          /\ Cardinality(Lost') <= Cardinality(Lost) + 1
      BY <2>1, <2>6, LostGrows
    <3>7. Cardinality(Lost') + (IF Broken' THEN 1 ELSE 0) <= 2 * faults'
      <4>1. Cardinality(Lost') + 1 <= 2 * (faults + 1)
        <5>1. Cardinality(Lost) <= 2 * faults
          BY <2>2, <3>6, MeasureAssumption
        <5> QED
          BY <2>2, <3>6, <5>1, MeasureAssumption
      <4> QED
        BY <2>2, <2>6, <3>6, <4>1, MeasureAssumption
    <3> QED
      BY <2>2, <3>1, <3>2, <3>4, <3>5, <3>6, <3>7 DEF FileInv
  <2> QED
    BY <1>2, <2>5, <2>6, RecordIsNew DEF WriteLine
<1> QED
  BY <1>1, <1>2, BatchFrame

LEMMA FileHolds == Spec => [](BatchInv /\ FileInv)
BY BatchInit, BatchStep, FileInit, FileStep, PTL DEF Spec

\* Whenever the run is killed, the file has the results in their order, less what
\* the writes that failed have cost.
THEOREM CheckpointsHold == Spec => []CheckpointHoldsResults
<1>1. FileInv => CheckpointHoldsResults
  <2> SUFFICES ASSUME FileInv PROVE CheckpointHoldsResults
    OBVIOUS
  <2>1. Cardinality(Lost) \in Nat /\ faults \in Nat
    BY FS_CardinalityType, MeasureAssumption DEF FileInv
  <2> QED
    BY <2>1 DEF FileInv, CheckpointHoldsResults
<1> QED
  BY <1>1, FileHolds, PTL

\* From finishRun to the close nothing moves: every goroutine is gone.
RankInv ==
  /\ fileOpen \in BOOLEAN /\ final \in Seq(Workers)
  /\ phase = "close" => final = Sorted(Filtered)

LEMMA FilteredIsSubsequence ==
  ASSUME BatchInv
  PROVE  /\ Filtered \in Seq(Workers)
         /\ Subsequence(Filtered, results, {w \in Workers : ~measured[w].error /\ ~Passes(w)},
                        Len(results))
<1>1. results \in Seq(Workers)
  BY DEF BatchInv, ResultInv
<1> QED
  BY <1>1, WithoutKeepsTheRest DEF Filtered

LEMMA RankInit == Init => RankInv
<1>1. <<>> \in Seq(Workers)
  OBVIOUS
<1> QED
  BY <1>1 DEF Init, RankInv

LEMMA RankStep ==
  ASSUME BatchInv, MeasureInv, RankInv, [Next]_vars
  PROVE  RankInv'
<1>1. fileOpen' \in BOOLEAN
  BY DEF RankInv, Next, RunNext, WorkerNext, vars, run, tokens, counts, disk, output, Resolve,
         Dispatch, DispatchEnds, Waited, FinishRun, Close, Enter, Handshake, Node, Request,
         Transfer, Teardown, Record, Report, Leave, Release, Done, Cancel
<1>2. CASE FinishRun
  <2>0. UNCHANGED <<measured, results>>
    BY <1>2 DEF FinishRun, output
  <2>1. final' = Sorted(Filtered)
    BY <1>2 DEF FinishRun
  <2>2. Filtered \in Seq(Workers) /\ measured \in [Workers -> Outcomes]
    BY FilteredIsSubsequence DEF MeasureInv
  <2>3. Sorted(Filtered) \in Seq(Workers)
    BY <2>2, SortedIsInOrder
  <2>4. Sorted(Filtered)' = Sorted(Filtered)
    BY <2>0 DEF Sorted, Place, Less, PingOf, Filtered, Passes
  <2> QED
    BY <1>1, <2>1, <2>3, <2>4 DEF RankInv
<1>3. ASSUME ~FinishRun PROVE RankInv'
  <2>1. final' = final
    BY <1>3, BatchFrame
  <2>2. ASSUME phase' = "close" PROVE final' = Sorted(Filtered)'
    <3>1. phase = "close"
      BY <1>3, <2>2 DEF Next, RunNext, WorkerNext, vars, run, Resolve, Dispatch, DispatchEnds,
             Waited, FinishRun, Close, Enter, Handshake, Node, Request, Transfer, Teardown,
             Record, Report, Leave, Release, Done, Cancel
    <3>2. At(Waiting) = {}
      BY <3>1, AtFinite, FS_EmptySet DEF BatchInv, PlaceInv, CountInv
    <3>3. \A w \in Workers : pc[w] \notin {"transfer", "record"}
      BY <3>2 DEF At, Waiting, Tokens, Flying, Midway
    <3>4. \A w \in Workers : ~Transfer(w) /\ ~Record(w)
      BY <3>3 DEF Transfer, Record, Go
    <3>5. UNCHANGED <<measured, results>>
      BY <3>4, BatchFrame
    <3>6. Sorted(Filtered)' = Sorted(Filtered)
      BY <3>5 DEF Sorted, Place, Less, PingOf, Filtered, Passes
    <3> QED
      BY <2>1, <3>1, <3>6 DEF RankInv
  <2> QED
    BY <1>1, <2>1, <2>2 DEF RankInv
<1> QED
  BY <1>2, <1>3

LEMMA RankHolds == Spec => [](BatchInv /\ MeasureInv /\ FileInv /\ RankInv)
BY BatchInit, BatchStep, MeasureInit, MeasureStep, FileInit, FileStep, RankInit, RankStep, PTL
   DEF Spec

\* What Run returns is what was asked for: all that failed or met the thresholds, the
\* failures last, and otherwise by the measure and then by who finished first.
THEOREM ResultsAreRanked == Spec => []RankedAsAsked
<1>1. BatchInv /\ MeasureInv /\ RankInv => RankedAsAsked
  <2> SUFFICES ASSUME BatchInv, MeasureInv, RankInv, phase = "close" PROVE RankedAsAsked
    BY DEF RankedAsAsked
  <2> DEFINE t    == Filtered
             n    == Len(t)
             gone == {w \in Workers : ~measured[w].error /\ ~Passes(w)}
  <2>1. /\ results \in Seq(Workers) /\ measured \in [Workers -> Outcomes]
        /\ final = Sorted(t) /\ t \in Seq(Workers)
    BY FilteredIsSubsequence DEF BatchInv, ResultInv, MeasureInv, RankInv
  <2>2. Subsequence(t, results, gone, Len(results))
    BY FilteredIsSubsequence
  <2>3. /\ \A i \in 1..n : \E k \in DOMAIN results : t[i] = results[k] /\ results[k] \notin gone
        /\ \A k \in DOMAIN results : results[k] \notin gone => \E i \in 1..n : t[i] = results[k]
        /\ \A i, j \in 1..n : i < j => Before(t[i], t[j])
    <3>1. DOMAIN results = 1..Len(results)
      BY <2>1
    <3> HIDE DEF t, gone, n
    <3>2. /\ \A i \in 1..n : \E k \in DOMAIN results : t[i] = results[k] /\ results[k] \notin gone
          /\ \A k \in DOMAIN results : results[k] \notin gone => \E i \in 1..n : t[i] = results[k]
      BY <2>2, <3>1 DEF Subsequence, n
    <3>3. ASSUME NEW i \in 1..n, NEW j \in 1..n, i < j PROVE Before(t[i], t[j])
      <4>1. \E k, l \in DOMAIN results : k < l /\ t[i] = results[k] /\ t[j] = results[l]
        <5>1. \A a, b \in 1..Len(t) : a < b =>
                \E k, l \in 1..Len(results) : k < l /\ t[a] = results[k] /\ t[b] = results[l]
          BY <2>2 DEF Subsequence
        <5>2. i \in 1..Len(t) /\ j \in 1..Len(t)
          BY DEF n
        <5>3. \E k, l \in 1..Len(results) : k < l /\ t[i] = results[k] /\ t[j] = results[l]
          BY <3>3, <5>1, <5>2
        <5> QED
          BY ONLY <3>1, <5>3
      <4> QED
        BY <4>1 DEF Before
    <3> QED
      BY <3>2, <3>3
  <2>4. At(Recorded) = 1..dispatched
    <3>1. At(Waiting) = {} /\ dispatched \in 0..Len(Peers)
      BY AtFinite, FS_EmptySet DEF BatchInv, PlaceInv, CountInv
    <3>2. \A w \in Workers : pc[w] = "gone" \/ pc[w] = "none"
      BY <3>1 DEF At, Waiting, Tokens, Flying, Midway, BatchInv, PlaceInv, Pcs
    <3>3. \A w \in Workers : pc[w] = "none" <=> w > dispatched
      BY DEF BatchInv, PlaceInv
    <3> QED
      BY <3>1, <3>2, <3>3, WorkersFinite DEF At, Recorded, Counted
  <2>5. /\ \A k \in DOMAIN results : results[k] \in 1..dispatched
        /\ \A w \in 1..dispatched : \E k \in DOMAIN results : results[k] = w
    BY <2>4 DEF BatchInv, ResultInv
  <2>6. PICK q \in [1..n -> 1..n] :
          /\ \A i \in 1..n : final[i] = t[q[i]]
          /\ \A k \in 1..n : \E i \in 1..n : q[i] = k
          /\ \A i, j \in 1..n : i < j => Ahead(t, q[i], q[j])
    BY <2>1, SortedIsInOrder
  <2>7. DOMAIN final = 1..n /\ n \in Nat
    <3>1. final \in Seq(Workers) /\ Len(final) = n
      BY <2>1, SortedIsInOrder
    <3> QED
      BY <2>1, <3>1
  <2>8. \A w \in Workers : w \notin gone <=> measured[w].error \/ Meets(w)
    <3>1. \A w \in Workers : measured[w].speed \in Nat /\ measured[w].ping \in Nat \cup {-1}
      BY <2>1 DEF Outcomes, NoPing
    <3> QED
      BY <3>1, MeasureAssumption DEF Passes, Meets, NoPing
  <2>9. \A k \in DOMAIN results : results[k] \in Workers
    BY <2>1
  <2> HIDE DEF t, gone, n
  <2>10. {final[i] : i \in DOMAIN final} = {w \in 1..dispatched : measured[w].error \/ Meets(w)}
    <3>1. ASSUME NEW i \in 1..n
          PROVE  final[i] \in 1..dispatched /\ (measured[final[i]].error \/ Meets(final[i]))
      <4>1. q[i] \in 1..n /\ final[i] = t[q[i]]
        BY <2>6
      <4>2. PICK k \in DOMAIN results : final[i] = results[k] /\ results[k] \notin gone
        BY <2>3, <4>1
      <4> QED
        BY <2>5, <2>8, <2>9, <4>2
    <3>2. ASSUME NEW w \in 1..dispatched, measured[w].error \/ Meets(w)
          PROVE  \E i \in 1..n : final[i] = w
      <4>1. PICK k \in DOMAIN results : results[k] = w
        BY <2>5
      <4>2. PICK j \in 1..n : t[j] = w
        BY <2>3, <2>8, <2>9, <3>2, <4>1
      <4>3. PICK i \in 1..n : q[i] = j
        BY <2>6
      <4> QED
        BY <2>6, <4>2, <4>3
    <3> QED
      BY <2>7, <3>1, <3>2
  <2>11. ASSUME NEW i \in 1..n, NEW j \in 1..n, i < j
         PROVE  LET w == final[i]
                    v == final[j]
                IN  \/ ~measured[w].error /\ measured[v].error
                    \/ measured[w].error /\ measured[v].error /\ Peers[w] <= Peers[v]
                    \/ /\ ~measured[w].error /\ ~measured[v].error
                       /\ Key(w) < Key(v) \/ (Key(w) = Key(v) /\ Before(w, v))
    <3> DEFINE w == final[i]
               v == final[j]
    <3>1. Less(w, v) \/ (Before(w, v) /\ ~Less(v, w))
      <4>1. Ahead(t, q[i], q[j]) /\ q[i] \in 1..n /\ q[j] \in 1..n /\ w = t[q[i]] /\ v = t[q[j]]
        BY <2>6, <2>11
      <4> HIDE DEF w, v
      <4> QED
        BY <2>3, <4>1 DEF Ahead
    <3>2. w \in Workers /\ v \in Workers
      <4>1. q[i] \in 1..n /\ q[j] \in 1..n /\ w = t[q[i]] /\ v = t[q[j]]
        BY <2>6
      <4> HIDE DEF w, v
      <4> QED
        BY <2>3, <2>9, <4>1
    <3>3. \A u \in Workers : /\ Peers[u] \in Nat /\ measured[u].error \in BOOLEAN
                             /\ measured[u].speed \in Nat /\ PingOf(u) \in Int
                             /\ Key(u) = IF SortBy = "ping" THEN PingOf(u) ELSE 0 - measured[u].speed
      BY <2>1, PeersAssumption DEF Workers, Outcomes, PingOf, Key, NoPing, Worst
    <3> HIDE DEF w, v
    <3>4. ASSUME NEW a \in Workers, NEW b \in Workers
          PROVE  Less(a, b) <=>
                   \/ measured[a].error /\ measured[b].error /\ Peers[a] < Peers[b]
                   \/ ~measured[a].error /\ measured[b].error
                   \/ ~measured[a].error /\ ~measured[b].error /\ Key(a) < Key(b)
      <4>1. (IF SortBy = "ping" THEN PingOf(a) < PingOf(b)
                                ELSE measured[a].speed > measured[b].speed) <=> Key(a) < Key(b)
        BY <3>3, SMTT(30)
      <4> QED
        BY <4>1 DEF Less
    <3>5. \A u \in Workers : Peers[u] \in Nat /\ measured[u].error \in BOOLEAN /\ Key(u) \in Int
      BY <3>3
    <3>6. CASE Less(w, v)
      BY <3>2, <3>4, <3>5, <3>6 DEF w, v
    <3>7. CASE Before(w, v) /\ ~Less(v, w) /\ ~Less(w, v)
      BY <3>2, <3>4, <3>5, <3>7 DEF w, v
    <3> QED
      BY <3>1, <3>6, <3>7
  <2> QED
    BY <2>7, <2>10, <2>11 DEF RankedAsAsked
<1> QED
  BY <1>1, RankHolds, PTL

\* Every counter counts, and every list lists peers.
THEOREM TypeCorrect == Spec => []TypeOK
<1>1. BatchInv /\ MeasureInv /\ FileInv /\ RankInv => TypeOK
  <2> SUFFICES ASSUME BatchInv, MeasureInv, FileInv, RankInv PROVE TypeOK
    OBVIOUS
  <2>1. sem \in Nat /\ wg \in Nat /\ inFlight \in Nat /\ completed \in Nat /\ reported \subseteq Workers
    <3>1. At(Counted) \subseteq Workers
      BY DEF At
    <3> QED
      BY <3>1, AtFinite DEF BatchInv, CountInv
  <2> QED
    BY <2>1 DEF TypeOK, BatchInv, PlaceInv, ResultInv, MeasureInv, Outcomes, FileInv, RankInv
<1> QED
  BY <1>1, RankHolds, PTL

-----------------------------------------------------------------------------
(* Each goroutine is a test as runPeerTest promises it *)

\* What a test's stage, and what it measured, depend on.
LEMMA TestSame ==
  ASSUME NEW w \in Workers, UNCHANGED <<pc[w], measured[w], cancelled>>
  PROVE  [Test(w)!Next]_(Test(w)!vars)
BY DEF Test!vars, Stage

LEMMA TestStep ==
  ASSUME BatchInv, MeasureInv, [Next]_vars, NEW w \in Workers
  PROVE  [Test(w)!Next]_(Test(w)!vars)
<1>0. /\ pc \in [Workers -> Pcs] /\ measured \in [Workers -> Outcomes]
      /\ cancelled \in BOOLEAN
  BY DEF BatchInv, PlaceInv, MeasureInv
<1>1. ASSUME NEW v \in Workers, NEW from, NEW to, Go(v, from, to), UNCHANGED cancelled,
             UNCHANGED measured \/ (\E o : measured' = [measured EXCEPT ![v] = o])
      PROVE  /\ v # w => [Test(w)!Next]_(Test(w)!vars)
             /\ v = w => pc[w] = from /\ pc'[w] = to
  <2>1. v # w => UNCHANGED <<pc[w], measured[w]>>
    BY <1>0, <1>1 DEF Go
  <2> QED
    BY <1>0, <1>1, <2>1, TestSame DEF Go
<1>2. ASSUME NEW v \in Workers, Handshake(v) PROVE [Test(w)!Next]_(Test(w)!vars)
  <2>1. PICK to \in {"node", "record"} : Go(v, "handshake", to)
    BY <1>2 DEF Handshake
  <2>2. UNCHANGED <<measured, cancelled>>
    BY <1>2 DEF Handshake
  <2>3. CASE v = w
    <3>1. Test(w)!Handshake
      BY <1>1, <2>1, <2>2, <2>3 DEF Test!Handshake, Test!Go, Stage
    <3> QED
      BY <3>1 DEF Test!Next
  <2> QED
    BY <1>1, <2>1, <2>2, <2>3
<1>3. ASSUME NEW v \in Workers, Node(v) PROVE [Test(w)!Next]_(Test(w)!vars)
  <2>1. PICK to \in {"request", "teardown"} : Go(v, "node", to)
    BY <1>3 DEF Node
  <2>2. UNCHANGED <<measured, cancelled>>
    BY <1>3 DEF Node
  <2>3. CASE v = w
    <3>1. Test(w)!Build
      BY <1>1, <2>1, <2>2, <2>3 DEF Test!Build, Test!Go, Stage
    <3> QED
      BY <3>1 DEF Test!Next
  <2> QED
    BY <1>1, <2>1, <2>2, <2>3
<1>4. ASSUME NEW v \in Workers, Request(v) PROVE [Test(w)!Next]_(Test(w)!vars)
  <2>1. PICK to \in {"transfer", "teardown"} :
          Go(v, "request", to) /\ (to = "transfer" => ~cancelled)
    BY <1>4 DEF Request, MayRequest
  <2>2. UNCHANGED <<measured, cancelled>>
    BY <1>4 DEF Request
  <2>3. CASE v = w /\ to = "transfer"
    <3>1. Test(w)!Flow
      BY <1>1, <2>1, <2>2, <2>3 DEF Test!Flow, Stage
    <3> QED
      BY <3>1 DEF Test!Next
  <2>4. CASE v = w /\ to = "teardown"
    <3>1. Test(w)!Leave
      BY <1>1, <2>1, <2>2, <2>4 DEF Test!Leave, Test!Go, Stage
    <3> QED
      BY <3>1 DEF Test!Next
  <2> QED
    BY <1>1, <2>1, <2>2, <2>3, <2>4
<1>5. ASSUME NEW v \in Workers, Transfer(v) PROVE [Test(w)!Next]_(Test(w)!vars)
  <2>1. Go(v, "transfer", "teardown") /\ UNCHANGED cancelled
    BY <1>5 DEF Transfer
  <2>2. \/ UNCHANGED measured
        \/ \E m \in Measurements : measured' = [measured EXCEPT ![v] = Ok(m)]
    BY <1>5 DEF Transfer
  <2>3. CASE v # w
    BY <1>1, <2>1, <2>2, <2>3
  <2>4. CASE v = w /\ UNCHANGED measured
    <3>1. Test(w)!Leave
      BY <1>1, <2>1, <2>4 DEF Test!Leave, Test!Go, Stage
    <3> QED
      BY <3>1 DEF Test!Next
  <2>5. ASSUME v = w, NEW m \in Measurements, measured' = [measured EXCEPT ![v] = Ok(m)]
        PROVE  [Test(w)!Next]_(Test(w)!vars)
    <3>1. pc[w] = "transfer" /\ pc'[w] = "teardown"
      BY <1>1, <2>1, <2>5
    <3>2. ~measured'[w].error
      BY <1>0, <2>5 DEF Ok
    <3>3. Test(w)!Measure
      BY <2>1, <3>1, <3>2 DEF Test!Measure, Stage
    <3> QED
      BY <3>3 DEF Test!Next
  <2> QED
    BY <2>2, <2>3, <2>4, <2>5
<1>6. ASSUME NEW v \in Workers, Teardown(v) PROVE [Test(w)!Next]_(Test(w)!vars)
  <2>1. Go(v, "teardown", "record") /\ UNCHANGED <<measured, cancelled>>
    BY <1>6 DEF Teardown
  <2>2. CASE v = w
    <3>1. Test(w)!TornDown
      BY <1>1, <2>1, <2>2 DEF Test!TornDown, Test!Go, Stage
    <3> QED
      BY <3>1 DEF Test!Next
  <2> QED
    BY <1>1, <2>1, <2>2
<1>7. ASSUME NEW v \in Workers, Enter(v) PROVE [Test(w)!Next]_(Test(w)!vars)
  <2>1. Go(v, "enter", "handshake") /\ UNCHANGED <<measured, cancelled>>
    BY <1>7 DEF Enter
  <2>2. CASE v = w
    <3>1. Test(w)!Begin
      BY <1>1, <2>1, <2>2 DEF Test!Begin, Test!Go, Stage
    <3> QED
      BY <3>1 DEF Test!Next
  <2> QED
    BY <1>1, <2>1, <2>2
\* Outside of runPeerTest
<1>8. ASSUME NEW v \in Workers, NEW from, NEW to, Go(v, from, to),
             UNCHANGED <<measured, cancelled>>,
             \/ {from, to} \subseteq {"none", "enter"}
             \/ {from, to} \subseteq {"record", "report", "leave", "release", "done", "gone"}
      PROVE  [Test(w)!Next]_(Test(w)!vars)
  <2>1. CASE v = w
    <3>1. UNCHANGED Stage(w) /\ pc[w] # "transfer" /\ pc'[w] # "transfer"
      BY <1>1, <1>8, <2>1 DEF Stage
    <3> QED
      BY <1>8, <3>1 DEF Test!vars
  <2> QED
    BY <1>1, <1>8, <2>1
<1>9. ASSUME NEW v \in Workers, Record(v) \/ Report(v) \/ Leave(v) \/ Release(v) \/ Done(v)
      PROVE  [Test(w)!Next]_(Test(w)!vars)
  <2>1. UNCHANGED <<measured, cancelled>>
    BY <1>9 DEF Record, Report, Leave, Release, Done
  <2>2. \E from, to \in {"record", "report", "leave", "release", "done", "gone"} : Go(v, from, to)
    BY <1>9 DEF Record, Report, Leave, Release, Done
  <2> QED
    BY <1>8, <2>1, <2>2
<1>10. CASE Dispatch
  <2>1. dispatched' \in Workers /\ Go(dispatched', "none", "enter") /\ UNCHANGED <<measured, cancelled>>
    BY <1>10, WorkersFinite DEF Dispatch, BatchInv, PlaceInv
  <2> QED
    BY <1>8, <2>1
<1>11. CASE Cancel
  <2>1. Test(w)!Cancel
    BY <1>11 DEF Cancel, Test!Cancel, Stage
  <2> QED
    BY <2>1 DEF Test!Next
<1>12. CASE Resolve \/ DispatchEnds \/ Waited \/ FinishRun \/ Close \/ UNCHANGED vars
  <2>1. UNCHANGED <<pc, measured, cancelled>>
    BY <1>12 DEF Resolve, DispatchEnds, Waited, FinishRun, Close, vars
  <2> QED
    BY <2>1, TestSame
<1> QED
  BY <1>2, <1>3, <1>4, <1>5, <1>6, <1>7, <1>9, <1>10, <1>11, <1>12 DEF Next, RunNext, WorkerNext

\* dispatch and its goroutines: whatever the plan, the tokens and the faults, each peer
\* goes through the stages of runPeerTest, and nothing is measured that was not moving
\* before the cancel.
THEOREM WorkersRefine == Spec => WorkersAreTests
<1>1. Init => \A w \in Workers : Test(w)!Init
  BY DEF Init, Test!Init, Stage, Failed
<1>2. BatchInv /\ MeasureInv /\ [Next]_vars
        => [\A w \in Workers : [Test(w)!Next]_(Test(w)!vars)]_vars
  BY TestStep
<1> QED
  BY <1>1, <1>2, MeasureHolds, PTL DEF Spec, WorkersAreTests

\* The same of one peer, as a behaviour of TestStages.
THEOREM OneWorkerRefines == ASSUME NEW w \in Workers PROVE Spec => Test(w)!Spec
<1>1. Init => Test(w)!Init
  BY DEF Init, Test!Init, Stage, Failed
<1>2. BatchInv /\ MeasureInv /\ [Next]_vars => [Test(w)!Next]_(Test(w)!vars)
  BY TestStep
<1> QED
  BY <1>1, <1>2, MeasureHolds, PTL DEF Spec, Test!Spec

=============================================================================
