------------------------ MODULE FetchPipelineProofs ------------------------
(***************************************************************************)
(* Proofs about the streaming install for any set of packages, any number  *)
(* of workers and any room in the channels: no placed package is lost on   *)
(* its way from the resolver to an outcome, and the install fails exactly  *)
(* when a placed package could not be fetched or extracted; the governor   *)
(* leaks no slot; and a tree that the stager built beside the pipeline is  *)
(* whole when the volume build adopts it.                                  *)
(*                                                                         *)
(* The stager hangs on the end of the pipeline and gives nothing back, so  *)
(* the first two do not depend on what its drain does.                     *)
(***************************************************************************)
EXTENDS FetchPipeline, TLAPS, FiniteSetTheorems, NaturalsInduction, WellFoundedInduction, SequenceTheorems

Busy == {"slot", "fetch", "send"}
Has(s, v) == \E i \in DOMAIN s : s[i] = v

(* TypeOK without the stager and the governor. *)
Typed ==
    /\ sink \in {"async", "blocking"} /\ main \in {"resolve", "drain", "join", "end"}
    /\ toPlace \subseteq Units /\ overflow \in Seq(Units)
    /\ units \in Seq(Work) /\ handoff \in Seq(Message)
    /\ dpc \in [Downloaders -> Busy \cup {"recv", "done"}] /\ DOMAIN item = Downloaders
    /\ epc \in [Extractors -> {"recv", "extract", "done"}] /\ DOMAIN pending = Extractors
    /\ firstError \subseteq Extractors /\ outcomes \subseteq Units /\ faulty \in BOOLEAN
    /\ result \in {"none", "unresolved", "failed", "gap", "ok"}

(* What a worker has in hand: nothing has failed before it was fetched. *)
WorkFits ==
    /\ \A d \in Downloaders : dpc[d] \in Busy =>
          item[d] \in Message /\ (dpc[d] # "send" => item[d].ok = TRUE)
    /\ \A e \in Extractors : epc[e] = "extract" => pending[e] \in Work

(* Every stage ends after the one before it, with nothing left to take. *)
Drained ==
    /\ main \in {"drain", "join"} => toPlace = {}
    /\ main = "join" => overflow = <<>>
    /\ \A d \in Downloaders : dpc[d] = "done" => Closed /\ units = <<>>
    /\ \A e \in Extractors : epc[e] = "done" => AllDone(dpc) /\ handoff = <<>>

(* A failure on its way was met, and one that was met is on its way.      *)
FaultsReal ==
    /\ \A d \in Downloaders : dpc[d] = "send" /\ item[d].ok = FALSE => faulty
    /\ \A m \in Message : Has(handoff, m) /\ m.ok = FALSE => faulty
    /\ firstError # {} => faulty
FaultsSeen == faulty =>
    \/ \E d \in Downloaders : dpc[d] = "send" /\ item[d].ok = FALSE
    \/ \E m \in Message : Has(handoff, m) /\ m.ok = FALSE
    \/ firstError # {}

(* Until an extractor gives up, a placed package is in one of the stages.  *)
Held(u) == \E d \in Downloaders : dpc[d] \in Busy /\ item[d].work = u
Passed(u) == \E m \in Message : m.work = u /\ Has(handoff, m)
Unpacking(u) == \E e \in Extractors : epc[e] = "extract" /\ pending[e] = u
Somewhere(u) ==
    \/ u \in toPlace \/ Has(overflow, u) \/ Has(units, u)
    \/ Held(u) \/ Passed(u) \/ Unpacking(u) \/ u \in outcomes
NothingLost == firstError = {} => \A u \in Units : Somewhere(u)

(* What join_pipeline reports still holds: nobody is left to change it.    *)
Reported ==
    /\ main = "end" <=> result # "none"
    /\ result \in {"failed", "gap", "ok"} =>
          /\ AllDone(dpc) /\ AllDone(epc) /\ toPlace = {} /\ overflow = <<>>
          /\ result = "failed" <=> firstError # {}
          /\ result = "gap" => outcomes # Units

IInv == Typed /\ WorkFits /\ Drained /\ FaultsReal /\ FaultsSeen /\ NothingLost /\ Reported

(* The governor: every slot in use is a download under way. *)
Fetching == {d \in Downloaders : dpc[d] = "fetch"}
SlotsExact ==
    /\ limit \in Least .. Width
    /\ inFlight = Cardinality(Fetching)
USE PipelineAssumption
-----------------------------------------------------------------------------
(* What a channel holds after a send. *)
LEMMA AppendHas ==
  ASSUME NEW S, NEW s \in Seq(S), NEW x \in S
  PROVE  \A v : Has(Append(s, x), v) <=> Has(s, v) \/ v = x
<1>1. /\ DOMAIN Append(s, x) = DOMAIN s \cup {Len(s) + 1}
      /\ Append(s, x)[Len(s) + 1] = x
      /\ \A i \in DOMAIN s : Append(s, x)[i] = s[i]
  OBVIOUS
<1> QED BY <1>1 DEF Has

(* What a channel holds after a receive. *)
LEMMA TailHas ==
  ASSUME NEW S, NEW s \in Seq(S), s # <<>>
  PROVE  /\ Tail(s) \in Seq(S) /\ Head(s) \in S /\ Has(s, Head(s))
         /\ \A v : Has(s, v) <=> v = Head(s) \/ Has(Tail(s), v)
<1>1. /\ Tail(s) \in Seq(S) /\ Head(s) \in S
      /\ 1 \in DOMAIN s /\ s[1] = Head(s)
      /\ \A i \in DOMAIN Tail(s) : i + 1 \in DOMAIN s /\ Tail(s)[i] = s[i + 1]
      /\ \A i \in DOMAIN s : i # 1 => i - 1 \in DOMAIN Tail(s) /\ Tail(s)[i - 1] = s[i]
  OBVIOUS
<1>2. ASSUME NEW v, Has(s, v) PROVE v = Head(s) \/ Has(Tail(s), v)
  <2>1. PICK i \in DOMAIN s : s[i] = v
    BY <1>2 DEF Has
  <2> QED BY <1>1, <2>1 DEF Has
<1>3. ASSUME NEW v, Has(Tail(s), v) PROVE Has(s, v)
  <2>1. PICK i \in DOMAIN Tail(s) : Tail(s)[i] = v
    BY <1>3 DEF Has
  <2> QED BY <1>1, <2>1 DEF Has
<1> QED BY <1>1, <1>2, <1>3 DEF Has

(* An empty channel holds nothing. *)
LEMMA EmptyHas == \A v : ~ Has(<<>>, v)
  BY DEF Has

(* The pipeline before the first package is placed. *)
LEMMA InitIInv == Init => IInv
<1> SUFFICES ASSUME Init PROVE IInv
  OBVIOUS
<1> USE DEF Init
<1>1. Typed
  <2>1. <<>> \in Seq(Units) /\ <<>> \in Seq(Work) /\ <<>> \in Seq(Message)
    OBVIOUS
  <2> QED BY <2>1 DEF Typed, Busy
<1>2. WorkFits /\ Drained
  BY DEF WorkFits, Drained, Busy
<1>3. FaultsReal /\ FaultsSeen
  BY EmptyHas DEF FaultsReal, FaultsSeen
<1>4. NothingLost
  BY DEF NothingLost, Somewhere
<1>5. Reported
  BY DEF Reported
<1> QED BY <1>1, <1>2, <1>3, <1>4, <1>5 DEF IInv

(* While a downloader runs, no extractor has ended and nothing is reported. *)
LEMMA DownloaderRuns ==
  ASSUME IInv, NEW d \in Downloaders, dpc[d] # "done"
  PROVE  /\ ~ AllDone(dpc) /\ \A e \in Extractors : epc[e] # "done"
         /\ result \notin {"failed", "gap", "ok"}
<1>1. ~ AllDone(dpc)
  BY DEF IInv, Typed, AllDone
<1> QED BY <1>1 DEF IInv, Drained, Reported

(* While an extractor runs, join_pipeline is still waiting for it. *)
LEMMA ExtractorRuns ==
  ASSUME IInv, NEW e \in Extractors, epc[e] # "done"
  PROVE  ~ AllDone(epc) /\ result \notin {"failed", "gap", "ok"}
<1>1. ~ AllDone(epc)
  BY DEF IInv, Typed, AllDone
<1> QED BY <1>1 DEF IInv, Reported

(* The main thread does not disturb the workers. *)
LEMMA WorkersKept ==
  ASSUME IInv, UNCHANGED <<dpc, item, handoff, epc, pending, firstError, outcomes, faulty>>
  PROVE  WorkFits' /\ FaultsReal' /\ FaultsSeen'
  BY DEF IInv, WorkFits, FaultsReal, FaultsSeen, Has

(* What leaves one of the resolver's three places without a worker taking  *)
(* it is in another.                                                       *)
LEMMA UnitsKept ==
  ASSUME IInv, UNCHANGED <<dpc, item, handoff, epc, pending, firstError, outcomes>>,
         \A u \in Units : u \in toPlace \/ Has(overflow, u) \/ Has(units, u) =>
                          u \in toPlace' \/ Has(overflow, u)' \/ Has(units, u)'
  PROVE  NothingLost'
  BY DEF IInv, NothingLost, Somewhere, Held, Passed, Unpacking, Has

(* The sink sends a placed package, or keeps it when the channel is full   *)
(* and the sink must not block.                                            *)
LEMMA EmitInv == ASSUME IInv, NEW u \in Units, Emit(u) PROVE IInv'
<1>1. /\ main = "resolve" /\ u \in toPlace /\ toPlace' = toPlace \ {u}
      /\ \/ units' = Append(units, u) /\ UNCHANGED overflow
         \/ overflow' = Append(overflow, u) /\ UNCHANGED units
      /\ UNCHANGED <<sink, main, dpc, item, handoff, epc, pending, firstError, outcomes, faulty, result>>
  BY DEF Emit, downloadVars, extractVars
<1>2. units \in Seq(Work) /\ overflow \in Seq(Units) /\ u \in Work
  BY DEF IInv, Typed, Work
<1>3. Typed'
  <2>1. Append(units, u) \in Seq(Work) /\ Append(overflow, u) \in Seq(Units)
    BY <1>2
  <2> QED BY <1>1, <1>2, <2>1 DEF IInv, Typed
<1>4. Drained'
  BY <1>1 DEF IInv, Drained, Closed
<1>5. NothingLost'
  <2>1. \A v : Has(Append(units, u), v) <=> Has(units, v) \/ v = u
    BY <1>2, AppendHas
  <2>2. \A v : Has(Append(overflow, u), v) <=> Has(overflow, v) \/ v = u
    BY <1>2, AppendHas
  <2>3. \A v \in Units : v \in toPlace \/ Has(overflow, v) \/ Has(units, v) =>
                         v \in toPlace' \/ Has(overflow', v) \/ Has(units', v)
    BY <1>1, <2>1, <2>2
  <2> QED BY <1>1, <2>3, UnitsKept DEF Has
<1>6. Reported'
  BY <1>1 DEF IInv, Reported
<1> QED BY <1>1, <1>3, <1>4, <1>5, <1>6, WorkersKept DEF IInv

(* A hint goes into the channel only if there is room. *)
LEMMA PrefetchInv == ASSUME IInv, NEW a \in Hints, Prefetch(a) PROVE IInv'
<1>1. /\ main = "resolve" /\ units' = Append(units, a)
      /\ UNCHANGED <<sink, main, toPlace, overflow, dpc, item, handoff, epc, pending, firstError, outcomes, faulty, result>>
  BY DEF Prefetch, downloadVars, extractVars
<1>2. units \in Seq(Work) /\ a \in Work
  BY DEF IInv, Typed, Work
<1>3. Typed'
  <2>1. units' \in Seq(Work)
    BY <1>1, <1>2
  <2> QED BY <1>1, <2>1 DEF IInv, Typed
<1>4. Drained'
  BY <1>1 DEF IInv, Drained, Closed
<1>5. NothingLost'
  <2>1. \A v \in Units : v \in toPlace \/ Has(overflow, v) \/ Has(units, v) =>
                         v \in toPlace' \/ Has(overflow', v) \/ Has(units', v)
    BY <1>1, <1>2, AppendHas
  <2> QED BY <1>1, <2>1, UnitsKept DEF Has
<1>6. Reported'
  BY <1>1 DEF IInv, Reported
<1> QED BY <1>1, <1>3, <1>4, <1>5, <1>6, WorkersKept DEF IInv

(* After the resolution the kept packages are sent, in their order. *)
LEMMA SendOverflowInv == ASSUME IInv, SendOverflow PROVE IInv'
<1>1. /\ main = "drain" /\ overflow # <<>>
      /\ units' = Append(units, Head(overflow)) /\ overflow' = Tail(overflow)
      /\ UNCHANGED <<sink, main, toPlace, dpc, item, handoff, epc, pending, firstError, outcomes, faulty, result>>
  BY DEF SendOverflow, downloadVars, extractVars
<1>2. units \in Seq(Work) /\ overflow \in Seq(Units) /\ Units \subseteq Work
  BY DEF IInv, Typed, Work
<1>3. /\ Tail(overflow) \in Seq(Units) /\ Head(overflow) \in Work
      /\ \A v : Has(overflow, v) <=> v = Head(overflow) \/ Has(Tail(overflow), v)
  BY <1>1, <1>2, TailHas
<1>4. Typed'
  <2>1. units' \in Seq(Work) /\ overflow' \in Seq(Units)
    BY <1>1, <1>2, <1>3
  <2> QED BY <1>1, <2>1 DEF IInv, Typed
<1>5. Drained'
  BY <1>1 DEF IInv, Drained, Closed
<1>6. NothingLost'
  <2>1. \A v : Has(units', v) <=> Has(units, v) \/ v = Head(overflow)
    BY <1>1, <1>2, <1>3, AppendHas
  <2>2. \A v \in Units : v \in toPlace \/ Has(overflow, v) \/ Has(units, v) =>
                         v \in toPlace' \/ Has(overflow', v) \/ Has(units', v)
    BY <1>1, <1>3, <2>1
  <2> QED BY <1>1, <2>2, UnitsKept DEF Has
<1>7. Reported'
  BY <1>1 DEF IInv, Reported
<1> QED BY <1>1, <1>4, <1>5, <1>6, <1>7, WorkersKept DEF IInv

(* The end of the resolution, its failure, and closing the channel once    *)
(* nothing is kept back.                                                   *)
LEMMA MainInv == ASSUME IInv, Resolved \/ ResolutionFails \/ CloseUnits PROVE IInv'
<1>1. UNCHANGED <<sink, toPlace, overflow, units, dpc, item, handoff, epc, pending, firstError, outcomes, faulty>>
  BY DEF Resolved, ResolutionFails, CloseUnits, resolverVars, downloadVars, extractVars
<1>2. \/ main = "resolve" /\ toPlace = {} /\ main' = "drain" /\ result' = result
      \/ main = "resolve" /\ main' = "end" /\ result' = "unresolved"
      \/ main = "drain" /\ overflow = <<>> /\ main' = "join" /\ result' = result
  BY DEF Resolved, ResolutionFails, CloseUnits
<1>3. Typed'
  BY <1>1, <1>2 DEF IInv, Typed
<1>4. Drained'
  BY <1>1, <1>2 DEF IInv, Drained, Closed, AllDone
<1>5. NothingLost'
  BY <1>1, UnitsKept DEF Has
<1>6. Reported'
  BY <1>1, <1>2 DEF IInv, Reported
<1> QED BY <1>1, <1>3, <1>4, <1>5, <1>6, WorkersKept DEF IInv

(* join_pipeline waits for all workers, reports the first error, then      *)
(* compares outcomes and packages.                                         *)
LEMMA JoinInv == ASSUME IInv, Join PROVE IInv'
<1>1. /\ main = "join" /\ AllDone(dpc) /\ AllDone(epc) /\ main' = "end"
      /\ result' = IF firstError # {} THEN "failed"
                   ELSE IF sink = "async" /\ outcomes # Units THEN "gap" ELSE "ok"
      /\ UNCHANGED <<sink, toPlace, overflow, units, dpc, item, handoff, epc, pending, firstError, outcomes, faulty>>
  BY DEF Join, resolverVars, downloadVars, extractVars
<1>2. Typed'
  BY <1>1 DEF IInv, Typed
<1>3. Drained'
  BY <1>1 DEF IInv, Drained, Closed, AllDone
<1>4. NothingLost'
  BY <1>1, UnitsKept DEF Has
<1>5. Reported'
  BY <1>1 DEF IInv, Drained, Reported, AllDone
<1> QED BY <1>1, <1>2, <1>3, <1>4, <1>5, WorkersKept DEF IInv

(* A downloader takes a unit of work. *)
LEMMA ReceiveInv == ASSUME IInv, NEW d \in Downloaders, Receive(d) PROVE IInv'
<1>1. /\ dpc[d] = "recv" /\ units # <<>> /\ units' = Tail(units)
      /\ item' = [item EXCEPT ![d] = [work |-> Head(units), ok |-> TRUE]]
      /\ dpc' = [dpc EXCEPT ![d] = "slot"]
      /\ UNCHANGED <<sink, main, toPlace, overflow, handoff, epc, pending, firstError, outcomes, faulty, result>>
  BY DEF Receive, resolverVars, extractVars
<1>2. /\ Tail(units) \in Seq(Work) /\ Head(units) \in Work
      /\ \A v : Has(units, v) <=> v = Head(units) \/ Has(Tail(units), v)
  <2>1. units \in Seq(Work)
    BY DEF IInv, Typed
  <2> QED BY <1>1, <2>1, TailHas
<1>3. /\ dpc'[d] = "slot" /\ item'[d] = [work |-> Head(units), ok |-> TRUE]
      /\ \A x \in Downloaders : x # d => dpc'[x] = dpc[x] /\ item'[x] = item[x]
  BY <1>1 DEF IInv, Typed
<1>4. item'[d] \in Message /\ item'[d].work = Head(units) /\ item'[d].ok = TRUE
  BY <1>2, <1>3 DEF Message
<1>5. Typed'
  BY <1>1, <1>2 DEF IInv, Typed, Busy
<1>6. WorkFits'
  BY <1>1, <1>3, <1>4 DEF IInv, WorkFits, Busy
<1>7. Drained'
  <2>1. \A x \in Downloaders : dpc[x] # "done"
    BY <1>1 DEF IInv, Drained
  <2> QED BY <1>1, <1>3, <2>1, DownloaderRuns DEF IInv, Drained
<1>8. FaultsReal' /\ FaultsSeen'
  BY <1>1, <1>3 DEF IInv, FaultsReal, FaultsSeen, Has
<1>9. NothingLost'
  <2>1. ASSUME NEW u \in Units, Held(u) PROVE Held(u)'
    BY <1>1, <1>3, <2>1 DEF Held, Busy
  <2>2. ASSUME NEW u \in Units, Has(units, u) PROVE Has(units, u)' \/ Held(u)'
    <3>1. CASE u = Head(units)
      BY <1>3, <1>4, <3>1 DEF Held, Busy
    <3>2. CASE u # Head(units)
      BY <1>1, <1>2, <2>2, <3>2 DEF Has
    <3> QED BY <3>1, <3>2
  <2> QED BY <1>1, <2>1, <2>2 DEF IInv, NothingLost, Somewhere, Passed, Unpacking, Has
<1>10. Reported'
  BY <1>1, DownloaderRuns DEF IInv, Reported
<1> QED BY <1>5, <1>6, <1>7, <1>8, <1>9, <1>10 DEF IInv

(* A downloader ends when the channel is closed and empty. *)
LEMMA DownloaderEndsInv == ASSUME IInv, NEW d \in Downloaders, DownloaderEnds(d) PROVE IInv'
<1>1. /\ dpc[d] = "recv" /\ units = <<>> /\ Closed /\ dpc' = [dpc EXCEPT ![d] = "done"]
      /\ UNCHANGED <<sink, main, toPlace, overflow, units, item, handoff, epc, pending, firstError, outcomes, faulty, result>>
  BY DEF DownloaderEnds, resolverVars, extractVars
<1>2. dpc'[d] = "done" /\ \A x \in Downloaders : x # d => dpc'[x] = dpc[x]
  BY <1>1 DEF IInv, Typed
<1>3. Typed'
  BY <1>1 DEF IInv, Typed
<1>4. WorkFits'
  BY <1>1, <1>2 DEF IInv, WorkFits, Busy
<1>5. Drained'
  BY <1>1, <1>2, DownloaderRuns DEF IInv, Drained, Closed
<1>6. FaultsReal' /\ FaultsSeen'
  BY <1>1, <1>2 DEF IInv, FaultsReal, FaultsSeen, Has
<1>7. NothingLost'
  <2>1. ASSUME NEW u \in Units, Held(u) PROVE Held(u)'
    BY <1>1, <1>2, <2>1 DEF Held, Busy
  <2> QED BY <1>1, <2>1 DEF IInv, NothingLost, Somewhere, Passed, Unpacking, Has
<1>8. Reported'
  BY <1>1, DownloaderRuns DEF IInv, Reported
<1> QED BY <1>3, <1>4, <1>5, <1>6, <1>7, <1>8 DEF IInv

(* A downloader waits for a slot of the governor. *)
LEMMA AcquireSlotInv == ASSUME IInv, NEW d \in Downloaders, AcquireSlot(d) PROVE IInv'
<1>1. /\ dpc[d] = "slot" /\ dpc' = [dpc EXCEPT ![d] = "fetch"]
      /\ UNCHANGED <<sink, main, toPlace, overflow, units, item, handoff, epc, pending, firstError, outcomes, faulty, result>>
  BY DEF AcquireSlot, resolverVars, extractVars
<1>2. dpc'[d] = "fetch" /\ \A x \in Downloaders : x # d => dpc'[x] = dpc[x]
  BY <1>1 DEF IInv, Typed
<1>3. Typed'
  BY <1>1 DEF IInv, Typed, Busy
<1>4. WorkFits'
  BY <1>1, <1>2 DEF IInv, WorkFits, Busy
<1>5. Drained'
  BY <1>1, <1>2, DownloaderRuns DEF IInv, Drained, Closed
<1>6. FaultsReal' /\ FaultsSeen'
  BY <1>1, <1>2 DEF IInv, FaultsReal, FaultsSeen, Has
<1>7. NothingLost'
  <2>1. ASSUME NEW u \in Units, Held(u) PROVE Held(u)'
    BY <1>1, <1>2, <2>1 DEF Held, Busy
  <2> QED BY <1>1, <2>1 DEF IInv, NothingLost, Somewhere, Passed, Unpacking, Has
<1>8. Reported'
  BY <1>1, DownloaderRuns DEF IInv, Reported
<1> QED BY <1>3, <1>4, <1>5, <1>6, <1>7, <1>8 DEF IInv

(* A download ends, well or not; a hint that failed is dropped, a package  *)
(* that failed goes on with its error.                                     *)
LEMMA FetchedInv == ASSUME IInv, NEW d \in Downloaders, Fetched(d) PROVE IInv'
<1>1. /\ dpc[d] = "fetch"
      /\ UNCHANGED <<sink, main, toPlace, overflow, units, handoff, epc, pending, firstError, outcomes, result>>
  BY DEF Fetched, resolverVars, extractVars
<1>2. item[d] \in Message /\ item[d].ok = TRUE /\ item[d].work \in Work
  BY <1>1 DEF IInv, WorkFits, Busy, Message
<1>3. PICK ok \in BOOLEAN :
        /\ item' = [item EXCEPT ![d] = IF ~ok /\ item[d].work \in Hints THEN Nothing
                                       ELSE [item[d] EXCEPT !.ok = ok]]
        /\ dpc' = [dpc EXCEPT ![d] = IF ~ok /\ item[d].work \in Hints THEN "recv" ELSE "send"]
        /\ faulty' = (faulty \/ (~ok /\ ~(~ok /\ item[d].work \in Hints)))
  BY DEF Fetched, IInv, Typed
<1>4. \A x \in Downloaders : x # d => dpc'[x] = dpc[x] /\ item'[x] = item[x]
  BY <1>3 DEF IInv, Typed
<1>5. \/ dpc'[d] = "recv" /\ item[d].work \notin Units /\ faulty' = faulty
      \/ /\ dpc'[d] = "send" /\ item'[d] \in Message /\ item'[d].work = item[d].work
         /\ item'[d].ok = ok /\ faulty' = (faulty \/ ~ok)
  <2>1. CASE ~ok /\ item[d].work \in Hints
    BY <1>3, <2>1 DEF IInv, Typed
  <2>2. CASE ~(~ok /\ item[d].work \in Hints)
    <3>1. [item[d] EXCEPT !.ok = ok] \in Message /\ [item[d] EXCEPT !.ok = ok].work = item[d].work /\ [item[d] EXCEPT !.ok = ok].ok = ok
      BY <1>2 DEF Message
    <3> QED BY <1>3, <2>2, <3>1 DEF IInv, Typed
  <2> QED BY <2>1, <2>2
<1>6. Typed'
  <2>1. dpc' \in [Downloaders -> Busy \cup {"recv", "done"}] /\ DOMAIN item' = Downloaders
    BY <1>3 DEF IInv, Typed, Busy
  <2>2. faulty' \in BOOLEAN
    BY <1>3
  <2> QED BY <1>1, <2>1, <2>2 DEF IInv, Typed
<1>7. WorkFits'
  BY <1>1, <1>4, <1>5 DEF IInv, WorkFits, Busy
<1>8. Drained'
  BY <1>1, <1>4, <1>5, DownloaderRuns DEF IInv, Drained, Closed
<1>9. FaultsReal'
  BY <1>1, <1>4, <1>5 DEF IInv, FaultsReal, Has
<1>10. FaultsSeen'
  BY <1>1, <1>4, <1>5 DEF IInv, FaultsSeen, Has
<1>11. NothingLost'
  <2>1. ASSUME NEW u \in Units, Held(u) PROVE Held(u)'
    BY <1>1, <1>4, <1>5, <2>1 DEF Held, Busy
  <2> QED BY <1>1, <2>1 DEF IInv, NothingLost, Somewhere, Passed, Unpacking, Has
<1>12. Reported'
  BY <1>1, DownloaderRuns DEF IInv, Reported
<1> QED BY <1>6, <1>7, <1>8, <1>9, <1>10, <1>11, <1>12 DEF IInv

(* The result is handed to the extractors when there is room. *)
LEMMA SendInv == ASSUME IInv, NEW d \in Downloaders, Send(d) PROVE IInv'
<1>1. /\ dpc[d] = "send" /\ handoff' = Append(handoff, item[d])
      /\ item' = [item EXCEPT ![d] = Nothing] /\ dpc' = [dpc EXCEPT ![d] = "recv"]
      /\ UNCHANGED <<sink, main, toPlace, overflow, units, epc, pending, firstError, outcomes, faulty, result>>
  BY DEF Send, resolverVars, extractVars
<1>2. item[d] \in Message /\ handoff \in Seq(Message)
  BY <1>1 DEF IInv, Typed, WorkFits, Busy
<1>3. dpc'[d] = "recv" /\ \A x \in Downloaders : x # d => dpc'[x] = dpc[x] /\ item'[x] = item[x]
  BY <1>1 DEF IInv, Typed
<1>4. handoff' \in Seq(Message) /\ \A v : Has(handoff', v) <=> Has(handoff, v) \/ v = item[d]
  BY <1>1, <1>2, AppendHas
<1>5. Typed'
  BY <1>1, <1>4 DEF IInv, Typed, Busy
<1>6. WorkFits'
  BY <1>1, <1>3 DEF IInv, WorkFits, Busy
<1>7. Drained'
  BY <1>1, <1>3, DownloaderRuns DEF IInv, Drained, Closed
<1>8. FaultsReal'
  BY <1>1, <1>3, <1>4 DEF IInv, FaultsReal, Has
<1>9. FaultsSeen'
  <2>1. ASSUME NEW x \in Downloaders, dpc[x] = "send", item[x].ok = FALSE
        PROVE  (dpc'[x] = "send" /\ item'[x].ok = FALSE) \/ (item[d].ok = FALSE /\ Has(handoff', item[d]))
    BY <1>3, <1>4, <2>1
  <2>2. ASSUME NEW m \in Message, Has(handoff, m) PROVE Has(handoff', m)
    BY <1>4, <2>2
  <2> QED BY <1>1, <1>2, <2>1, <2>2 DEF IInv, FaultsSeen, Has
<1>10. NothingLost'
  <2>1. ASSUME NEW u \in Units, Held(u) PROVE Held(u)' \/ Passed(u)'
    <3>1. PICK x \in Downloaders : dpc[x] \in Busy /\ item[x].work = u
      BY <2>1 DEF Held
    <3>2. CASE x = d
      BY <1>2, <1>4, <3>1, <3>2 DEF Passed, Has
    <3>3. CASE x # d
      BY <1>3, <3>1, <3>3 DEF Held
    <3> QED BY <3>2, <3>3
  <2>2. ASSUME NEW u \in Units, Passed(u) PROVE Passed(u)'
    BY <1>4, <2>2 DEF Passed, Has
  <2> QED BY <1>1, <2>1, <2>2 DEF IInv, NothingLost, Somewhere, Unpacking, Has
<1>11. Reported'
  BY <1>1, DownloaderRuns DEF IInv, Reported
<1> QED BY <1>5, <1>6, <1>7, <1>8, <1>9, <1>10, <1>11 DEF IInv

(* An extractor takes a result; after an error it goes on taking and drops *)
(* what it takes.                                                          *)
LEMMA TakeInv == ASSUME IInv, NEW e \in Extractors, Take(e) PROVE IInv'
<1> DEFINE m == Head(handoff)
<1>1. /\ epc[e] = "recv" /\ handoff # <<>> /\ handoff' = Tail(handoff)
      /\ UNCHANGED <<sink, main, toPlace, overflow, units, dpc, item, outcomes, faulty, result>>
  BY DEF Take, resolverVars, downloadVars
<1>2. \/ /\ m.ok /\ e \notin firstError /\ epc' = [epc EXCEPT ![e] = "extract"]
         /\ pending' = [pending EXCEPT ![e] = m.work] /\ UNCHANGED firstError
      \/ ~(m.ok /\ e \notin firstError) /\ firstError' = firstError \cup {e} /\ UNCHANGED <<epc, pending>>
  BY DEF Take
<1>3. /\ Tail(handoff) \in Seq(Message) /\ m \in Message /\ Has(handoff, m)
      /\ \A v : Has(handoff, v) <=> v = m \/ Has(Tail(handoff), v)
  <2>1. handoff \in Seq(Message)
    BY DEF IInv, Typed
  <2> QED BY <1>1, <2>1, TailHas
<1> HIDE DEF m
<1>4. m.work \in Work /\ m.ok \in BOOLEAN
  BY <1>3 DEF Message
<1>5. CASE /\ m.ok /\ e \notin firstError /\ epc' = [epc EXCEPT ![e] = "extract"]
           /\ pending' = [pending EXCEPT ![e] = m.work] /\ UNCHANGED firstError
  <2>1. /\ epc'[e] = "extract" /\ pending'[e] = m.work
        /\ \A x \in Extractors : x # e => epc'[x] = epc[x] /\ pending'[x] = pending[x]
    BY <1>5 DEF IInv, Typed
  <2>2. Typed'
    BY <1>1, <1>3, <1>5 DEF IInv, Typed
  <2>3. WorkFits'
    BY <1>1, <1>4, <2>1 DEF IInv, WorkFits
  <2>4. Drained'
    BY <1>1, <2>1 DEF IInv, Drained, Closed
  <2>5. FaultsReal' /\ FaultsSeen'
    BY <1>1, <1>3, <1>5 DEF IInv, FaultsReal, FaultsSeen
  <2>6. NothingLost'
    <3>1. ASSUME NEW u \in Units, Passed(u) PROVE Passed(u)' \/ Unpacking(u)'
      BY <1>1, <1>3, <2>1, <3>1 DEF Passed, Unpacking
    <3>2. ASSUME NEW u \in Units, Unpacking(u) PROVE Unpacking(u)'
      BY <1>1, <2>1, <3>2 DEF Unpacking
    <3> QED BY <1>1, <1>5, <3>1, <3>2 DEF IInv, NothingLost, Somewhere, Held, Has
  <2>7. Reported'
    BY <1>1, ExtractorRuns DEF IInv, Reported
  <2> QED BY <2>2, <2>3, <2>4, <2>5, <2>6, <2>7 DEF IInv
<1>6. CASE ~(m.ok /\ e \notin firstError) /\ firstError' = firstError \cup {e} /\ UNCHANGED <<epc, pending>>
  <2>1. firstError' # {} /\ firstError' \subseteq Extractors
    BY <1>6 DEF IInv, Typed
  <2>2. faulty
    BY <1>3, <1>4, <1>6 DEF IInv, FaultsReal
  <2>3. Typed'
    BY <1>1, <1>3, <1>6, <2>1 DEF IInv, Typed
  <2>4. WorkFits'
    BY <1>1, <1>6 DEF IInv, WorkFits
  <2>5. Drained'
    BY <1>1, <1>6 DEF IInv, Drained, Closed
  <2>6. FaultsReal' /\ FaultsSeen' /\ NothingLost'
    BY <1>1, <2>1, <2>2 DEF FaultsReal, FaultsSeen, NothingLost
  <2>7. Reported'
    BY <1>1, ExtractorRuns DEF IInv, Reported
  <2> QED BY <2>3, <2>4, <2>5, <2>6, <2>7 DEF IInv
<1> QED BY <1>2, <1>5, <1>6

(* An extractor ends when the downloaders have ended and nothing is handed *)
(* over any more.                                                          *)
LEMMA ExtractorEndsInv == ASSUME IInv, NEW e \in Extractors, ExtractorEnds(e) PROVE IInv'
<1>1. /\ epc[e] = "recv" /\ handoff = <<>> /\ AllDone(dpc) /\ epc' = [epc EXCEPT ![e] = "done"]
      /\ UNCHANGED <<sink, main, toPlace, overflow, units, dpc, item, handoff, pending, firstError, outcomes, faulty, result>>
  BY DEF ExtractorEnds, resolverVars, downloadVars
<1>2. epc'[e] = "done" /\ \A x \in Extractors : x # e => epc'[x] = epc[x]
  BY <1>1 DEF IInv, Typed
<1>3. Typed'
  BY <1>1 DEF IInv, Typed
<1>4. WorkFits'
  BY <1>1, <1>2 DEF IInv, WorkFits
<1>5. Drained'
  BY <1>1, <1>2 DEF IInv, Drained, Closed, AllDone
<1>6. FaultsReal' /\ FaultsSeen'
  BY <1>1 DEF IInv, FaultsReal, FaultsSeen, Has
<1>7. NothingLost'
  <2>1. ASSUME NEW u \in Units, Unpacking(u) PROVE Unpacking(u)'
    BY <1>1, <1>2, <2>1 DEF Unpacking
  <2> QED BY <1>1, <2>1 DEF IInv, NothingLost, Somewhere, Held, Passed, Has
<1>8. Reported'
  BY <1>1, ExtractorRuns DEF IInv, Reported
<1> QED BY <1>3, <1>4, <1>5, <1>6, <1>7, <1>8 DEF IInv

(* An unpacked package becomes an outcome, a hint does not. *)
LEMMA ExtractedInv == ASSUME IInv, NEW e \in Extractors, Extracted(e) PROVE IInv'
<1>1. /\ epc[e] = "extract" /\ outcomes' = outcomes \cup ({pending[e]} \cap Units)
      /\ epc' = [epc EXCEPT ![e] = "recv"] /\ pending' = [pending EXCEPT ![e] = Nothing]
      /\ UNCHANGED <<sink, main, toPlace, overflow, units, dpc, item, handoff, firstError, faulty, result>>
  BY DEF Extracted, resolverVars, downloadVars
<1>2. epc'[e] = "recv" /\ \A x \in Extractors : x # e => epc'[x] = epc[x] /\ pending'[x] = pending[x]
  BY <1>1 DEF IInv, Typed
<1>3. Typed'
  BY <1>1 DEF IInv, Typed
<1>4. WorkFits'
  BY <1>1, <1>2 DEF IInv, WorkFits
<1>5. Drained'
  BY <1>1, <1>2 DEF IInv, Drained, Closed, AllDone
<1>6. FaultsReal' /\ FaultsSeen'
  BY <1>1 DEF IInv, FaultsReal, FaultsSeen, Has
<1>7. NothingLost'
  <2>1. ASSUME NEW u \in Units, Unpacking(u) PROVE Unpacking(u)' \/ u \in outcomes'
    BY <1>1, <1>2, <2>1 DEF Unpacking
  <2> QED BY <1>1, <2>1 DEF IInv, NothingLost, Somewhere, Held, Passed, Has
<1>8. Reported'
  BY <1>1, ExtractorRuns DEF IInv, Reported
<1> QED BY <1>3, <1>4, <1>5, <1>6, <1>7, <1>8 DEF IInv

(* A package that cannot be unpacked is an error, and a real one. *)
LEMMA ExtractionFailsInv == ASSUME IInv, NEW e \in Extractors, ExtractionFails(e) PROVE IInv'
<1>1. /\ epc[e] = "extract"
      /\ firstError' = IF pending[e] \in Units THEN firstError \cup {e} ELSE firstError
      /\ faulty' = (faulty \/ pending[e] \in Units)
      /\ epc' = [epc EXCEPT ![e] = "recv"] /\ pending' = [pending EXCEPT ![e] = Nothing]
      /\ UNCHANGED <<sink, main, toPlace, overflow, units, dpc, item, handoff, outcomes, result>>
  BY DEF ExtractionFails, resolverVars, downloadVars
<1>2. epc'[e] = "recv" /\ \A x \in Extractors : x # e => epc'[x] = epc[x] /\ pending'[x] = pending[x]
  BY <1>1 DEF IInv, Typed
<1>3. Typed'
  <2>1. firstError' \subseteq Extractors /\ faulty' \in BOOLEAN
    BY <1>1 DEF IInv, Typed
  <2> QED BY <1>1, <2>1 DEF IInv, Typed
<1>4. WorkFits'
  BY <1>1, <1>2 DEF IInv, WorkFits
<1>5. Drained'
  BY <1>1, <1>2 DEF IInv, Drained, Closed, AllDone
<1>6. FaultsReal' /\ FaultsSeen'
  BY <1>1 DEF IInv, FaultsReal, FaultsSeen, Has
<1>7. NothingLost'
  <2>1. ASSUME NEW u \in Units, Unpacking(u), firstError' = {} PROVE Unpacking(u)'
    BY <1>1, <1>2, <2>1 DEF Unpacking
  <2> QED BY <1>1, <2>1 DEF IInv, NothingLost, Somewhere, Held, Passed, Has
<1>8. Reported'
  BY <1>1, ExtractorRuns DEF IInv, Reported
<1> QED BY <1>3, <1>4, <1>5, <1>6, <1>7, <1>8 DEF IInv

(* Nothing the stager does is seen by the pipeline. *)
LEMMA StagerInv ==
  ASSUME IInv, UNCHANGED <<sink, main, toPlace, overflow, units, dpc, item, handoff, epc, pending,
                           firstError, outcomes, faulty, result>>
  PROVE  IInv'
<1>1. Typed' /\ Drained' /\ Reported'
  BY DEF IInv, Typed, Drained, Reported, Closed, AllDone
<1>2. NothingLost'
  BY UnitsKept DEF Has
<1> QED BY <1>1, <1>2, WorkersKept DEF IInv

(* Every step keeps the invariant. *)
LEMMA NextIInv == IInv /\ [Next]_vars => IInv'
<1> SUFFICES ASSUME IInv, [Next]_vars PROVE IInv'
  OBVIOUS
<1>1. CASE MainStep
  BY <1>1, EmitInv, MainInv, SendOverflowInv, JoinInv DEF MainStep
<1>2. ASSUME NEW a \in Hints, Prefetch(a) PROVE IInv'
  BY <1>2, PrefetchInv
<1>3. ASSUME NEW d \in Downloaders, DownloaderStep(d) PROVE IInv'
  BY <1>3, ReceiveInv, DownloaderEndsInv, AcquireSlotInv, FetchedInv, SendInv DEF DownloaderStep
<1>4. ASSUME NEW e \in Extractors, ExtractorStep(e) PROVE IInv'
  BY <1>4, TakeInv, ExtractorEndsInv, ExtractedInv, ExtractionFailsInv DEF ExtractorStep
<1>5. CASE StagerStep
  BY <1>5, StagerInv DEF StagerStep, StageNext, StagerEnds, resolverVars, downloadVars,
     extractVars
<1>6. CASE UNCHANGED vars
  BY <1>6, StagerInv DEF vars, resolverVars, downloadVars, extractVars
<1> QED BY <1>1, <1>2, <1>3, <1>4, <1>5, <1>6 DEF Next

(* The inductive invariant holds in every reachable state. *)
THEOREM Invariance == Spec => []IInv
  BY InitIInv, NextIInv, PTL DEF Spec

(* A streaming install that reports success has an outcome for every       *)
(* placed package, one that reports a failure met one, and                 *)
(* assert_outcomes_complete never fires: for any packages, workers and     *)
(* channel sizes, in whatever order the parts arrive.                      *)
THEOREM Outcomes == Spec => []OutcomesExact
<1>1. ASSUME IInv, result \in {"failed", "gap", "ok"}
      PROVE  (faulty <=> firstError # {}) /\ (firstError = {} => outcomes = Units)
  <2>1. /\ \A d \in Downloaders : dpc[d] = "done"
        /\ \A e \in Extractors : epc[e] = "done"
        /\ toPlace = {} /\ overflow = <<>>
    BY <1>1 DEF IInv, Typed, Reported, AllDone
  <2>2. units = <<>> /\ handoff = <<>>
    BY <1>1, <2>1 DEF IInv, Drained
  <2>3. faulty <=> firstError # {}
    BY <1>1, <2>1, <2>2, EmptyHas DEF IInv, FaultsReal, FaultsSeen
  <2>4. ASSUME NEW u \in Units PROVE ~ Held(u) /\ ~ Passed(u) /\ ~ Unpacking(u)
    BY <2>1, <2>2, EmptyHas DEF Held, Passed, Unpacking, Busy
  <2>5. firstError = {} => Units \subseteq outcomes
    BY <1>1, <2>1, <2>2, <2>4, EmptyHas DEF IInv, NothingLost, Somewhere
  <2> QED BY <1>1, <2>3, <2>5 DEF IInv, Typed
<1>2. IInv => OutcomesExact
  BY <1>1 DEF OutcomesExact, FailuresAreReal, NothingDropped, IInv, Typed, Reported
<1> QED BY <1>2, Invariance, PTL

-----------------------------------------------------------------------------
(* The governor's width is the number of downloaders, so the downloads     *)
(* under way never exceed it.                                              *)
LEMMA WidthCounts ==
  /\ Width \in Nat /\ Least \in Nat /\ Least <= Width
  /\ IsFiniteSet(Fetching) /\ Cardinality(Fetching) \in 0 .. Width
<1>1. Width \in Nat
  BY FS_CardinalityType DEF Width
<1>2. Fetching \subseteq Downloaders
  BY DEF Fetching
<1>3. IsFiniteSet(Fetching) /\ Cardinality(Fetching) <= Width /\ Cardinality(Fetching) \in Nat
  BY <1>2, FS_Subset, FS_CardinalityType DEF Width
<1> QED BY <1>1, <1>3 DEF Least

(* A slot is taken exactly when a download begins and given back exactly   *)
(* when it ends, however the limit moves meanwhile.                        *)
LEMMA GovernorStep == SlotsExact /\ Typed /\ [Next]_vars => SlotsExact'
<1> SUFFICES ASSUME SlotsExact, Typed, [Next]_vars PROVE SlotsExact'
  OBVIOUS
<1>1. ASSUME UNCHANGED <<limit, inFlight>>, Fetching' = Fetching PROVE SlotsExact'
  BY <1>1 DEF SlotsExact
<1>2. ASSUME NEW d \in Downloaders, Receive(d) \/ DownloaderEnds(d) \/ Send(d) PROVE SlotsExact'
  <2>1. UNCHANGED <<limit, inFlight>> /\ Fetching' = Fetching
    BY <1>2 DEF Receive, DownloaderEnds, Send, Fetching, Typed
  <2> QED BY <1>1, <2>1
<1>3. ASSUME NEW d \in Downloaders, AcquireSlot(d) PROVE SlotsExact'
  <2>1. UNCHANGED limit /\ inFlight' = inFlight + 1
    BY <1>3 DEF AcquireSlot
  <2>2. Fetching' = Fetching \cup {d} /\ d \notin Fetching
    BY <1>3 DEF AcquireSlot, Fetching, Typed
  <2>3. Cardinality(Fetching \cup {d}) = Cardinality(Fetching) + 1
    BY <2>2, WidthCounts, FS_AddElement
  <2> QED BY <2>1, <2>2, <2>3 DEF SlotsExact
<1>4. ASSUME NEW d \in Downloaders, Fetched(d) PROVE SlotsExact'
  <2>1. inFlight' = inFlight - 1 /\ limit' \in NewLimits \cup {limit}
    BY <1>4 DEF Fetched
  <2>2. Fetching' = Fetching \ {d} /\ d \in Fetching
    BY <1>4 DEF Fetched, Fetching, Typed
  <2>3. Cardinality(Fetching \ {d}) = Cardinality(Fetching) - 1
    BY <2>2, WidthCounts, FS_RemoveElement
  <2>4. limit' \in Least .. Width
    BY <2>1, WidthCounts DEF NewLimits, Halved, SlotsExact
  <2> QED BY <2>1, <2>2, <2>3, <2>4 DEF SlotsExact
<1>5. ASSUME NEW e \in Extractors, ExtractorStep(e) PROVE UNCHANGED downloadVars
  BY <1>5 DEF ExtractorStep, Take, ExtractorEnds, Extracted, ExtractionFails
<1>6. CASE MainStep \/ StagerStep \/ (\E a \in Hints : Prefetch(a)) \/ UNCHANGED vars
  <2>1. UNCHANGED downloadVars
    BY <1>6 DEF MainStep, StagerStep, Emit, Resolved, ResolutionFails, SendOverflow, CloseUnits,
       Join, StageNext, StagerEnds, Prefetch, vars
  <2> QED BY <1>1, <2>1 DEF downloadVars, Fetching
<1>7. ASSUME NEW e \in Extractors, ExtractorStep(e) PROVE SlotsExact'
  BY <1>1, <1>5, <1>7 DEF downloadVars, Fetching
<1> QED BY <1>2, <1>3, <1>4, <1>6, <1>7 DEF Next, DownloaderStep

(* The governor leaks no slot and invents none: its counter is the number  *)
(* of downloads under way, however often it halves or grows its limit and  *)
(* whatever fails.                                                         *)
THEOREM GovernorExact == Spec => [](SlotsExact /\ inFlight \in 0 .. Width)
<1>1. Init => SlotsExact
  <2> SUFFICES ASSUME Init PROVE SlotsExact
    OBVIOUS
  <2>1. Fetching = {}
    BY DEF Init, Fetching
  <2> QED BY <2>1, WidthCounts, FS_EmptySet DEF Init, SlotsExact
<1>2. IInv => Typed
  BY DEF IInv
<1>3. SlotsExact => inFlight \in 0 .. Width
  BY WidthCounts DEF SlotsExact
<1> QED BY <1>1, <1>2, <1>3, GovernorStep, Invariance, PTL DEF Spec

-----------------------------------------------------------------------------
(***************************************************************************)
(* The stager's loops.                                                     *)
(***************************************************************************)
(* A set of numbers that has 0 and with n also n + 1 has them all. *)
LEMMA Climb ==
    ASSUME NEW N \in Nat, NEW G, 0 \in G, \A n \in 0 .. N : n < N /\ n \in G => n + 1 \in G
    PROVE  0 .. N \subseteq G
  <1> DEFINE B == (0 .. N) \ G
  <1> SUFFICES ASSUME B # {} PROVE FALSE
    OBVIOUS
  <1>1. B \subseteq Nat /\ B # {}
    OBVIOUS
  <1>2. IsWellFoundedOn(OpToRel(<, Nat), Nat)
    BY NatLessThanWellFounded
  <1>3. PICK x \in B : \A y \in B : ~ (<<y, x>> \in OpToRel(<, Nat))
    <2> HIDE DEF B
    <2> QED
      BY <1>1, <1>2, WFMin
  <1>4. x \in Nat /\ x <= N /\ x \notin G
    <2>1. x \in 0 .. N /\ x \notin G
      OBVIOUS
    <2> QED
      BY <2>1
  <1>5. \A y \in B : ~ (y < x)
    BY <1>1, <1>3 DEF OpToRel
  <1>6. x # 0
    BY <1>4
  <1>7. x - 1 \in 0 .. N /\ x - 1 < x /\ x - 1 < N /\ (x - 1) + 1 = x
    BY <1>4, <1>6
  <1>8. x - 1 \in G
    BY <1>5, <1>7
  <1>9. (x - 1) + 1 \in G
    BY <1>7, <1>8
  <1> QED
    BY <1>4, <1>7, <1>9

(* f is a run of a loop from first, whose n-th turn makes step[n][a] of a. *)
IsRun(f, N, S, first, step) ==
    f \in [0 .. N -> S] /\ f[0] = first /\ \A n \in 1 .. N : f[n] = step[n][f[n - 1]]
StaysIn(step, N, S) == \A n \in 1 .. N : \A a \in S : step[n][a] \in S

(* A loop of N turns has a run. *)
LEMMA Runs ==
    ASSUME NEW N \in Nat, NEW S, NEW first \in S, NEW step, StaysIn(step, N, S)
    PROVE  \E f : IsRun(f, N, S, first, step)
  <1>0. \A n \in 1 .. N : \A a \in S : step[n][a] \in S
    BY DEF StaysIn
  <1> DEFINE Run(k) == \E f : IsRun(f, k, S, first, step)
             G == {k \in 0 .. N : Run(k)}
  <1>1. 0 \in G
    <2>1. [n \in 0 .. 0 |-> first] \in [0 .. 0 -> S]
      OBVIOUS
    <2>2. [n \in 0 .. 0 |-> first][0] = first /\ 1 .. 0 = {}
      OBVIOUS
    <2>3. Run(0)
      <3> DEFINE f == [n \in 0 .. 0 |-> first]
      <3> HIDE DEF f
      <3>1. f \in [0 .. 0 -> S] /\ f[0] = first /\ \A n \in 1 .. 0 : f[n] = step[n][f[n - 1]]
        BY <2>1, <2>2 DEF f
      <3> QED
        BY <3>1 DEF IsRun
    <2> QED
      BY <2>3
  <1>2. ASSUME NEW k \in 0 .. N, k < N, k \in G PROVE k + 1 \in G
    <2>1. PICK f \in [0 .. k -> S] : f[0] = first /\ \A n \in 1 .. k : f[n] = step[n][f[n - 1]]
      BY <1>2 DEF IsRun
    <2> DEFINE g == [n \in 0 .. k + 1 |-> IF n <= k THEN f[n] ELSE step[k + 1][f[k]]]
    <2>2. k + 1 \in 1 .. N /\ f[k] \in S
      BY <1>2, <2>1
    <2>3. step[k + 1][f[k]] \in S
      BY <1>0, <2>2
    <2>4. g \in [0 .. k + 1 -> S]
      BY <2>1, <2>3
    <2>5. g[0] = first
      BY <2>1
    <2>6. ASSUME NEW n \in 1 .. k + 1 PROVE g[n] = step[n][g[n - 1]]
      <3>1. CASE n <= k
        <4>1. n \in 1 .. k /\ n - 1 \in 0 .. k + 1 /\ n - 1 <= k
          BY <3>1
        <4> QED
          BY <2>1, <4>1
      <3>2. CASE n = k + 1
        <4>1. n - 1 = k /\ g[k] = f[k]
          BY <3>2
        <4>2. g[n] = step[k + 1][f[k]]
          BY <3>2
        <4> QED
          BY <3>2, <4>1, <4>2
      <3> QED
        BY <3>1, <3>2
    <2> HIDE DEF g
    <2>7. Run(k + 1)
      BY <2>4, <2>5, <2>6 DEF IsRun
    <2> QED
      BY <2>2, <2>7
  <1>3. N \in G
    <2> HIDE DEF G
    <2>1. \A k \in 0 .. N : k < N /\ k \in G => k + 1 \in G
      BY <1>2
    <2>2. 0 .. N \subseteq G
      BY <1>1, <2>1, Climb
    <2> QED
      BY <2>2
  <1> QED
    BY <1>3

(* What the stager's thread works on. *)
Stagers ==
    [active : BOOLEAN, dead : BOOLEAN, packages : SUBSET Units, waiting : Seq(Units),
     preActivation : Seq(Units), tree : SUBSET Units]
Once(w) == \A i, j \in DOMAIN w : w[i] = w[j] => i = j
(* The tree is whole so far, no package is in it before those around it,   *)
(* and nobody is cloned twice.                                             *)
Ordered(s) ==
    /\ s \in Stagers /\ s.tree = s.packages
    /\ \A u \in s.packages : Above[u] \subseteq s.packages
    /\ Once(s.waiting) /\ \A i \in DOMAIN s.waiting : s.waiting[i] \notin s.packages
(* No waiter's turn has come. *)
Settled(s) == \A i \in DOMAIN s.waiting : ~(Above[s.waiting[i]] \subseteq s.packages)
SameMode(s, t) == t.active = s.active /\ t.dead = s.dead /\ t.preActivation = s.preActivation

(* A visit clones the waiter or puts it at the end. *)
LEMMA Visits ==
    ASSUME NEW s \in Stagers, NEW u \in Units, NEW gate
    PROVE  /\ Visit(s, u, gate) \in Stagers /\ SameMode(s, Visit(s, u, gate))
           /\ \/ /\ Ready(s, u, gate) /\ Visit(s, u, gate).packages = s.packages \cup {u}
                 /\ Visit(s, u, gate).waiting = s.waiting
                 /\ Visit(s, u, gate).tree = {v \in s.tree : u \notin Above[v]} \cup {u}
              \/ /\ ~Ready(s, u, gate) /\ Visit(s, u, gate).packages = s.packages
                 /\ Visit(s, u, gate).waiting = Append(s.waiting, u)
                 /\ Visit(s, u, gate).tree = s.tree
  <1>1. Append(s.waiting, u) \in Seq(Units)
    BY DEF Stagers
  <1>2. CASE Ready(s, u, gate)
    BY <1>2 DEF Visit, Clone, Stagers, SameMode
  <1>3. CASE ~Ready(s, u, gate)
    BY <1>1, <1>3 DEF Visit, Stagers, SameMode
  <1> QED
    BY <1>2, <1>3

(* The same while ancestors come first. *)
LEMMA GatedVisits ==
    ASSUME NEW s \in Stagers, NEW u \in Units
    PROVE  /\ Visit(s, u, TRUE) \in Stagers /\ SameMode(s, Visit(s, u, TRUE))
           /\ Above[u] \subseteq s.packages =>
                 /\ Visit(s, u, TRUE).packages = s.packages \cup {u} /\ Visit(s, u, TRUE).waiting = s.waiting
                 /\ Visit(s, u, TRUE).tree = {v \in s.tree : u \notin Above[v]} \cup {u}
           /\ ~(Above[u] \subseteq s.packages) =>
                 /\ Visit(s, u, TRUE).packages = s.packages /\ Visit(s, u, TRUE).waiting = Append(s.waiting, u)
                 /\ Visit(s, u, TRUE).tree = s.tree
  <1>1. Append(s.waiting, u) \in Seq(Units)
    BY DEF Stagers
  <1>2. CASE Above[u] \subseteq s.packages
    BY <1>2 DEF Visit, Ready, Clone, Stagers, SameMode
  <1>3. CASE ~(Above[u] \subseteq s.packages)
    BY <1>1, <1>3 DEF Visit, Ready, Stagers, SameMode
  <1> QED
    BY <1>2, <1>3

(* A round visits every waiter once, in the order of arrival. *)
LEMMA RoundVisits ==
    ASSUME NEW s \in Stagers, NEW gate
    PROVE  \E f \in [0 .. Len(s.waiting) -> Stagers] :
              /\ f[0] = [s EXCEPT !.waiting = <<>>]
              /\ \A n \in 1 .. Len(s.waiting) : f[n] = Visit(f[n - 1], s.waiting[n], gate)
              /\ Round(s, gate) = f[Len(s.waiting)]
  <1> DEFINE N == Len(s.waiting)
             first == [s EXCEPT !.waiting = <<>>]
             step == [n \in 1 .. N |-> [a \in Stagers |-> Visit(a, s.waiting[n], gate)]]
             Loop(f) == f = [n \in 0 .. N |-> IF n = 0 THEN first ELSE Visit(f[n - 1], s.waiting[n], gate)]
  <1>1. N \in Nat /\ first \in Stagers /\ \A n \in 1 .. N : s.waiting[n] \in Units
    <2>1. s.waiting \in Seq(Units) /\ <<>> \in Seq(Units)
      BY DEF Stagers
    <2>2. first \in Stagers
      BY <2>1 DEF Stagers
    <2> QED
      BY <2>1, <2>2
  <1>2. \A n \in 1 .. N : \A a \in Stagers : step[n][a] = Visit(a, s.waiting[n], gate)
    OBVIOUS
  <1>3. StaysIn(step, N, Stagers)
    BY <1>1, <1>2, Visits DEF StaysIn
  <1>4. PICK f : IsRun(f, N, Stagers, first, step)
    <2>1. N \in Nat /\ first \in Stagers
      BY <1>1
    <2> HIDE DEF N, first, step
    <2> QED
      BY <1>3, <2>1, Runs
  <1> HIDE DEF first, step
  <1>5. f \in [0 .. N -> Stagers] /\ f[0] = first /\ \A n \in 1 .. N : f[n] = Visit(f[n - 1], s.waiting[n], gate)
    <2>1. f \in [0 .. N -> Stagers] /\ f[0] = first /\ \A n \in 1 .. N : f[n] = step[n][f[n - 1]]
      BY <1>4 DEF IsRun
    <2>2. ASSUME NEW n \in 1 .. N PROVE f[n - 1] \in Stagers
      <3>1. n - 1 \in 0 .. N
        BY <1>1
      <3> QED
        BY <2>1, <3>1
    <2> QED
      BY <1>2, <2>1, <2>2
  <1>6. Loop(f)
    BY <1>1, <1>5
  <1> DEFINE v == CHOOSE g : Loop(g)
  <1>7. Loop(v)
    BY <1>6
  <1>8. Round(s, gate) = v[N]
    BY DEF Round, first
  <1> HIDE DEF v
  <1>9. v[0] = first /\ \A n \in 1 .. N : v[n] = Visit(v[n - 1], s.waiting[n], gate)
    BY <1>1, <1>7
  <1>10. \A n \in 0 .. N : v[n] \in Stagers
    <2> DEFINE G == {n \in 0 .. N : v[n] \in Stagers}
    <2>1. 0 \in G
      BY <1>1, <1>9
    <2>2. ASSUME NEW n \in 0 .. N, n < N, n \in G PROVE n + 1 \in G
      <3>1. n + 1 \in 1 .. N /\ (n + 1) - 1 = n
        BY <1>1, <2>2
      <3>2. v[n + 1] = Visit(v[n], s.waiting[n + 1], gate)
        BY <1>9, <3>1
      <3>3. v[n + 1] \in Stagers
        BY <1>1, <2>2, <3>1, <3>2, Visits
      <3> QED
        BY <1>1, <3>1, <3>3
    <2> HIDE DEF G
    <2>3. 0 .. N \subseteq G
      BY <1>1, <2>1, <2>2, Climb
    <2> QED
      BY <2>3 DEF G
  <1>11. v \in [0 .. N -> Stagers]
    BY <1>7, <1>10
  <1> QED
    BY <1>8, <1>9, <1>11 DEF first

(* After n visits of a round that began in s: whoever was visited is       *)
(* cloned or waits again, and unless somebody has been cloned nothing has  *)
(* changed.                                                                *)
Midway(s, n, a) ==
    /\ Ordered(a) /\ SameMode(s, a) /\ s.packages \subseteq a.packages
    /\ \A v \in a.packages : v \in s.packages \/ \E i \in 1 .. n : v = s.waiting[i]
    /\ \A j \in DOMAIN a.waiting : \E i \in 1 .. n : a.waiting[j] = s.waiting[i]
    /\ \A i \in 1 .. n : s.waiting[i] \in a.packages \/ \E j \in DOMAIN a.waiting : a.waiting[j] = s.waiting[i]
    /\ \/ /\ a.packages = s.packages /\ Len(a.waiting) = n
          /\ \A i \in 1 .. n : a.waiting[i] = s.waiting[i] /\ ~(Above[s.waiting[i]] \subseteq s.packages)
       \/ Len(a.waiting) < n /\ ~Settled(s)

(* A channel or queue after one more. *)
LEMMA Appended ==
    ASSUME NEW S, NEW w \in Seq(S), NEW u \in S
    PROVE  /\ Append(w, u) \in Seq(S) /\ Len(Append(w, u)) = Len(w) + 1 /\ Len(w) \in Nat
           /\ DOMAIN Append(w, u) = DOMAIN w \cup {Len(w) + 1} /\ Len(w) + 1 \notin DOMAIN w /\ DOMAIN w = 1 .. Len(w)
           /\ Append(w, u)[Len(w) + 1] = u /\ \A i \in DOMAIN w : Append(w, u)[i] = w[i]
  OBVIOUS

(* The next visit of the round. *)
LEMMA VisitMidway ==
    ASSUME NEW s, Ordered(s), NEW n \in Nat, n < Len(s.waiting), NEW a, Midway(s, n, a)
    PROVE  Midway(s, n + 1, Visit(a, s.waiting[n + 1], TRUE))
  <1> DEFINE u == s.waiting[n + 1]
             b == Visit(a, u, TRUE)
  <1>1. /\ s \in Stagers /\ s.waiting \in Seq(Units)
        /\ Len(s.waiting) \in Nat /\ DOMAIN s.waiting = 1 .. Len(s.waiting)
        /\ a \in Stagers /\ a.waiting \in Seq(Units) /\ a.packages \subseteq Units
    BY DEF Ordered, Midway, Stagers
  <1>2. n + 1 \in DOMAIN s.waiting /\ u \in Units /\ \A i \in 1 .. n : i \in DOMAIN s.waiting /\ i # n + 1
    BY <1>1
  <1>3. \A i \in 1 .. n : s.waiting[i] # u
    BY <1>2 DEF Ordered, Once
  <1>4. u \notin a.packages /\ \A j \in DOMAIN a.waiting : a.waiting[j] # u
    BY <1>2, <1>3 DEF Midway, Ordered
  <1>5. \A i : i \in 1 .. n + 1 <=> i \in 1 .. n \/ i = n + 1
    OBVIOUS
  <1> DEFINE Visited ==
               /\ b \in Stagers /\ SameMode(a, b)
               /\ Above[u] \subseteq a.packages =>
                     /\ b.packages = a.packages \cup {u} /\ b.waiting = a.waiting
                     /\ b.tree = {v \in a.tree : u \notin Above[v]} \cup {u}
               /\ ~(Above[u] \subseteq a.packages) =>
                     b.packages = a.packages /\ b.waiting = Append(a.waiting, u) /\ b.tree = a.tree
  <1>0. Visited
    <2>1. a \in Stagers /\ u \in Units
      BY <1>1, <1>2
    <2> HIDE DEF u
    <2> QED
      BY <2>1, GatedVisits
  <1>6. b \in Stagers /\ SameMode(s, b)
    BY <1>0 DEF Midway, SameMode
  <1>7. CASE Above[u] \subseteq a.packages
    <2>1. /\ b.packages = a.packages \cup {u} /\ b.waiting = a.waiting
          /\ b.tree = {v \in a.tree : u \notin Above[v]} \cup {u}
      BY <1>0, <1>7
    <2>2. b.tree = b.packages
      BY <1>4, <2>1 DEF Midway, Ordered
    <2> HIDE DEF b, u
    <2>3. Ordered(b)
      BY <1>4, <1>6, <1>7, <2>1, <2>2 DEF Midway, Ordered
    <2>4. /\ s.packages \subseteq b.packages
          /\ \A v \in b.packages : v \in s.packages \/ \E i \in 1 .. n + 1 : v = s.waiting[i]
      BY <1>5, <2>1 DEF Midway, u
    <2>5. \A j \in DOMAIN b.waiting : \E i \in 1 .. n + 1 : b.waiting[j] = s.waiting[i]
      BY <1>5, <2>1 DEF Midway
    <2>6. \A i \in 1 .. n + 1 : s.waiting[i] \in b.packages \/ \E j \in DOMAIN b.waiting : b.waiting[j] = s.waiting[i]
      BY <1>5, <2>1 DEF Midway, u
    <2>7. Len(b.waiting) < n + 1 /\ ~Settled(s)
      <3>1. Len(a.waiting) \in Nat
        BY <1>1
      <3>2. CASE a.packages = s.packages /\ Len(a.waiting) = n
        BY <1>2, <1>7, <2>1, <3>2 DEF Settled, u
      <3>3. CASE Len(a.waiting) < n /\ ~Settled(s)
        BY <2>1, <3>1, <3>3
      <3> QED
        BY <3>2, <3>3 DEF Midway
    <2> QED
      BY <1>6, <2>3, <2>4, <2>5, <2>6, <2>7 DEF Midway, b, u
  <1>8. CASE ~(Above[u] \subseteq a.packages)
    <2>1. b.packages = a.packages /\ b.waiting = Append(a.waiting, u) /\ b.tree = a.tree
      BY <1>0, <1>8
    <2>2. /\ DOMAIN b.waiting = DOMAIN a.waiting \cup {Len(a.waiting) + 1}
          /\ Len(a.waiting) + 1 \notin DOMAIN a.waiting
          /\ b.waiting[Len(a.waiting) + 1] = u /\ \A i \in DOMAIN a.waiting : b.waiting[i] = a.waiting[i]
          /\ Len(b.waiting) = Len(a.waiting) + 1 /\ Len(a.waiting) \in Nat /\ DOMAIN a.waiting = 1 .. Len(a.waiting)
      <3>1. a.waiting \in Seq(Units) /\ u \in Units
        BY <1>1, <1>2
      <3> HIDE DEF b, u
      <3> QED
        BY <2>1, <3>1, Appended
    <2> HIDE DEF b, u
    <2>3. Ordered(b)
      <3>1. Once(b.waiting)
        BY <1>4, <2>2 DEF Midway, Ordered, Once
      <3>2. \A i \in DOMAIN b.waiting : b.waiting[i] \notin b.packages
        BY <1>4, <2>1, <2>2 DEF Midway, Ordered
      <3> QED
        BY <1>6, <2>1, <3>1, <3>2 DEF Midway, Ordered
    <2>4. /\ s.packages \subseteq b.packages
          /\ \A v \in b.packages : v \in s.packages \/ \E i \in 1 .. n + 1 : v = s.waiting[i]
      BY <1>5, <2>1 DEF Midway
    <2>5. \A j \in DOMAIN b.waiting : \E i \in 1 .. n + 1 : b.waiting[j] = s.waiting[i]
      BY <1>5, <2>2 DEF Midway, u
    <2>6. \A i \in 1 .. n + 1 : s.waiting[i] \in b.packages \/ \E j \in DOMAIN b.waiting : b.waiting[j] = s.waiting[i]
      BY <1>5, <2>1, <2>2 DEF Midway, u
    <2>7. \/ /\ b.packages = s.packages /\ Len(b.waiting) = n + 1
             /\ \A i \in 1 .. n + 1 : b.waiting[i] = s.waiting[i] /\ ~(Above[s.waiting[i]] \subseteq s.packages)
          \/ Len(b.waiting) < n + 1 /\ ~Settled(s)
      <3>1. CASE /\ a.packages = s.packages /\ Len(a.waiting) = n
                 /\ \A i \in 1 .. n : a.waiting[i] = s.waiting[i] /\ ~(Above[s.waiting[i]] \subseteq s.packages)
        BY <1>5, <1>8, <2>1, <2>2, <3>1 DEF u
      <3>2. CASE Len(a.waiting) < n /\ ~Settled(s)
        BY <2>2, <3>2
      <3> QED
        BY <3>1, <3>2 DEF Midway
    <2> QED
      BY <1>6, <2>3, <2>4, <2>5, <2>6, <2>7 DEF Midway, b, u
  <1> QED
    BY <1>7, <1>8

(* Who is cloned or waits. *)
Contents(s) == s.packages \cup {s.waiting[i] : i \in DOMAIN s.waiting}

(* A round keeps the tree whole; it clones somebody or nobody's turn is    *)
(* left.                                                                   *)
LEMMA RoundOrdered ==
    ASSUME NEW s, Ordered(s)
    PROVE  /\ Ordered(Round(s, TRUE)) /\ SameMode(s, Round(s, TRUE)) /\ Contents(Round(s, TRUE)) = Contents(s)
           /\ Settled(Round(s, TRUE)) \/ Len(Round(s, TRUE).waiting) < Len(s.waiting)
           /\ Settled(s) => Settled(Round(s, TRUE))
  <1> DEFINE N == Len(s.waiting)
  <1>1. s \in Stagers /\ s.waiting \in Seq(Units) /\ N \in Nat /\ DOMAIN s.waiting = 1 .. N
    BY DEF Ordered, Stagers
  <1>2. PICK f \in [0 .. N -> Stagers] :
           /\ f[0] = [s EXCEPT !.waiting = <<>>]
           /\ \A n \in 1 .. N : f[n] = Visit(f[n - 1], s.waiting[n], TRUE)
           /\ Round(s, TRUE) = f[N]
    BY <1>1, RoundVisits
  <1> DEFINE G == {n \in 0 .. N : Midway(s, n, f[n])}
  <1>3. 0 \in G
    <2>1. /\ f[0] \in Stagers /\ f[0].waiting = <<>> /\ f[0].packages = s.packages /\ f[0].tree = s.tree
          /\ SameMode(s, f[0])
      <3>1. s.waiting \in Seq(Units) /\ <<>> \in Seq(Units)
        BY <1>1
      <3>2. f[0] = [s EXCEPT !.waiting = <<>>]
        BY <1>2
      <3> QED
        BY <1>1, <3>1, <3>2 DEF Stagers, SameMode
    <2>2. DOMAIN <<>> = {} /\ Len(<<>>) = 0 /\ 1 .. 0 = {}
      OBVIOUS
    <2>3. Ordered(f[0])
      BY <2>1, <2>2 DEF Ordered, Once
    <2>4. Midway(s, 0, f[0])
      BY <2>1, <2>2, <2>3 DEF Midway
    <2> QED
      BY <1>1, <2>4
  <1>4. ASSUME NEW n \in 0 .. N, n < N, n \in G PROVE n + 1 \in G
    <2>1. n \in Nat /\ n + 1 \in 1 .. N /\ n + 1 \in 0 .. N /\ (n + 1) - 1 = n
      BY <1>1, <1>4
    <2>2. f[n + 1] = Visit(f[n], s.waiting[n + 1], TRUE)
      BY <1>2, <2>1
    <2>3. Midway(s, n + 1, f[n + 1])
      BY <1>4, <2>1, <2>2, VisitMidway
    <2> QED
      BY <2>1, <2>3
  <1>5. N \in G
    <2> HIDE DEF G
    <2>1. \A n \in 0 .. N : n < N /\ n \in G => n + 1 \in G
      BY <1>4
    <2>2. 0 .. N \subseteq G
      BY <1>1, <1>3, <2>1, Climb
    <2> QED
      BY <1>1, <2>2
  <1> DEFINE r == Round(s, TRUE)
  <1>6. Midway(s, N, r)
    BY <1>2, <1>5
  <1> HIDE DEF r, G
  <1>7. Contents(r) = Contents(s)
    <2>1. ASSUME NEW v \in Contents(r) PROVE v \in Contents(s)
      <3>1. CASE v \in r.packages
        BY <1>1, <1>6, <3>1 DEF Midway, Contents
      <3>2. CASE v \notin r.packages
        <4>1. PICK j \in DOMAIN r.waiting : v = r.waiting[j]
          BY <2>1, <3>2 DEF Contents
        <4>2. PICK i \in 1 .. N : r.waiting[j] = s.waiting[i]
          BY <1>6, <4>1 DEF Midway
        <4> QED
          BY <1>1, <4>1, <4>2 DEF Contents
      <3> QED
        BY <3>1, <3>2
    <2>2. ASSUME NEW v \in Contents(s) PROVE v \in Contents(r)
      <3>1. CASE v \in s.packages
        BY <1>6, <3>1 DEF Midway, Contents
      <3>2. CASE v \notin s.packages
        <4>1. PICK i \in DOMAIN s.waiting : v = s.waiting[i]
          BY <2>2, <3>2 DEF Contents
        <4>2. s.waiting[i] \in r.packages \/ \E j \in DOMAIN r.waiting : r.waiting[j] = s.waiting[i]
          BY <1>1, <1>6, <4>1 DEF Midway
        <4> QED
          BY <4>1, <4>2 DEF Contents
      <3> QED
        BY <3>1, <3>2
    <2> QED
      BY <2>1, <2>2
  <1>8. Settled(r) \/ Len(r.waiting) < N
    <2>1. r.waiting \in Seq(Units)
      BY <1>6 DEF Midway, Ordered, Stagers
    <2> QED
      BY <1>6, <2>1 DEF Midway, Settled
  <1>9. Settled(s) => Settled(r)
    <2>1. r.waiting \in Seq(Units)
      BY <1>6 DEF Midway, Ordered, Stagers
    <2> QED
      BY <1>6, <2>1 DEF Midway, Settled
  <1> QED
    BY <1>6, <1>7, <1>8, <1>9 DEF Midway, r

(* drain repeats the rounds until a round clones nobody: then nobody's     *)
(* turn is left.                                                           *)
LEMMA Drains ==
    ASSUME NEW s, Ordered(s), s.active
    PROVE  /\ Ordered(Drain(s, TRUE)) /\ SameMode(s, Drain(s, TRUE)) /\ Contents(Drain(s, TRUE)) = Contents(s)
           /\ Settled(Drain(s, TRUE))
  <1> DEFINE N == Len(s.waiting)
             S == {a \in Stagers : Ordered(a)}
             step == [n \in 1 .. N |-> [a \in S |-> Round(a, TRUE)]]
             Loop(f) == f = [n \in 0 .. N |-> IF n = 0 THEN s ELSE Round(f[n - 1], TRUE)]
  <1>1. N \in Nat /\ s \in S
    <2>1. s.waiting \in Seq(Units) /\ s \in Stagers
      BY DEF Ordered, Stagers
    <2> QED
      BY <2>1
  <1>2. \A n \in 1 .. N : \A a \in S : step[n][a] = Round(a, TRUE)
    OBVIOUS
  <1>3. StaysIn(step, N, S)
    <2>1. \A a \in S : Round(a, TRUE) \in S
      BY RoundOrdered DEF Ordered
    <2> HIDE DEF step, S
    <2> QED
      BY <1>2, <2>1 DEF StaysIn
  <1>4. PICK f : IsRun(f, N, S, s, step)
    <2> HIDE DEF N, S, step
    <2> QED
      BY <1>1, <1>3, Runs
  <1>5. Loop(f)
    <2> HIDE DEF step, S
    <2>1. f \in [0 .. N -> S] /\ f[0] = s /\ \A n \in 1 .. N : f[n] = step[n][f[n - 1]]
      BY <1>4 DEF IsRun
    <2>2. ASSUME NEW n \in 1 .. N PROVE f[n - 1] \in S
      <3>1. n - 1 \in 0 .. N
        BY <1>1
      <3> QED
        BY <2>1, <3>1
    <2>3. \A n \in 1 .. N : f[n] = Round(f[n - 1], TRUE)
      BY <1>2, <2>1, <2>2
    <2>4. \A n \in 0 .. N : f[n] = IF n = 0 THEN s ELSE Round(f[n - 1], TRUE)
      <3> HIDE DEF N
      <3>1. \A n \in 0 .. N : n = 0 \/ n \in 1 .. N
        BY <1>1
      <3> QED
        BY <2>1, <2>3, <3>1
    <2> HIDE DEF N
    <2> QED
      BY <2>1, <2>4
  <1> DEFINE v == CHOOSE g : Loop(g)
  <1>6. Loop(v)
    BY <1>5
  <1>7. Drain(s, TRUE) = v[N]
    BY DEF Drain
  <1> HIDE DEF v
  <1>8. v[0] = s /\ \A n \in 1 .. N : v[n] = Round(v[n - 1], TRUE)
    BY <1>1, <1>6
  <1> DEFINE Sound(a, n) ==
               /\ Ordered(a) /\ SameMode(s, a) /\ Contents(a) = Contents(s)
               /\ Settled(a) \/ Len(a.waiting) + n <= N
             G == {n \in 0 .. N : Sound(v[n], n)}
  <1>9. 0 \in G
    <2>1. N + 0 <= N /\ 0 \in 0 .. N
      <3> HIDE DEF N
      <3> QED
        BY <1>1
    <2>2. Sound(s, 0)
      BY <2>1 DEF SameMode
    <2> QED
      BY <1>8, <2>1, <2>2
  <1>10. ASSUME NEW n \in 0 .. N, n < N, n \in G PROVE n + 1 \in G
    <2>1. n + 1 \in 1 .. N /\ n + 1 \in 0 .. N /\ (n + 1) - 1 = n
      BY <1>1, <1>10
    <2> DEFINE a == v[n]
               b == Round(a, TRUE)
    <2>2. v[n + 1] = b
      BY <1>8, <2>1
    <2>3. Sound(a, n)
      BY <1>10
    <2> HIDE DEF a
    <2>4. /\ Ordered(b) /\ SameMode(a, b) /\ Contents(b) = Contents(a)
          /\ Settled(b) \/ Len(b.waiting) < Len(a.waiting)
          /\ Settled(a) => Settled(b)
      BY <2>3, RoundOrdered
    <2> HIDE DEF b
    <2>5. Len(a.waiting) \in Nat /\ Len(b.waiting) \in Nat
      <3>1. a.waiting \in Seq(Units) /\ b.waiting \in Seq(Units)
        BY <2>3, <2>4 DEF Ordered, Stagers
      <3> QED
        BY <3>1
    <2>6. Settled(b) \/ Len(b.waiting) + (n + 1) <= N
      <3>1. Settled(a) \/ Len(a.waiting) + n <= N
        BY <2>3
      <3>2. N \in Nat /\ n \in Nat
        BY <1>1
      <3>3. ASSUME ~Settled(b) PROVE Len(b.waiting) < Len(a.waiting) /\ Len(a.waiting) + n <= N
        BY <2>4, <3>1, <3>3
      <3> HIDE DEF N
      <3>4. ASSUME Len(b.waiting) < Len(a.waiting), Len(a.waiting) + n <= N PROVE Len(b.waiting) + (n + 1) <= N
        <4>1. \A x, y, k, M \in Nat : y < x /\ x + k <= M => y + (k + 1) <= M
          OBVIOUS
        <4> QED
          BY <2>5, <3>2, <3>4, <4>1
      <3> QED
        BY <3>3, <3>4
    <2>7. Sound(b, n + 1)
      BY <2>3, <2>4, <2>6 DEF SameMode
    <2> QED
      BY <2>1, <2>2, <2>7
  <1>11. N \in G
    <2> HIDE DEF G
    <2>1. \A n \in 0 .. N : n < N /\ n \in G => n + 1 \in G
      BY <1>10
    <2>2. 0 .. N \subseteq G
      BY <1>1, <1>9, <2>1, Climb
    <2> QED
      BY <1>1, <2>2
  <1> DEFINE d == Drain(s, TRUE)
  <1>12. Sound(d, N)
    BY <1>7, <1>11
  <1> HIDE DEF d
  <1>13. Settled(d)
    <2>1. d.waiting \in Seq(Units)
      BY <1>12 DEF Ordered, Stagers
    <2>2. Len(d.waiting) \in Nat /\ DOMAIN d.waiting = 1 .. Len(d.waiting)
      BY <2>1
    <2>3. CASE Len(d.waiting) + N <= N
      <3>1. DOMAIN d.waiting = {}
        <4>1. N \in Nat /\ Len(d.waiting) + N <= N
          BY <1>1, <2>3
        <4> HIDE DEF N
        <4>2. Len(d.waiting) = 0
          BY <2>2, <4>1
        <4> QED
          BY <2>2, <4>2
      <3> QED
        BY <3>1 DEF Settled
    <2> QED
      BY <1>12, <2>3
  <1> QED
    BY <1>12, <1>13 DEF d

(* Draining an empty queue does nothing. *)
LEMMA DrainsNobody ==
    ASSUME NEW s, s.waiting = <<>>, NEW gate
    PROVE  Drain(s, gate) = s
  <1> DEFINE Loop(f) == f = [n \in 0 .. Len(s.waiting) |-> IF n = 0 THEN s ELSE Round(f[n - 1], gate)]
             v == CHOOSE g : Loop(g)
  <1>1. Len(s.waiting) = 0
    OBVIOUS
  <1>2. Loop([n \in 0 .. 0 |-> s])
    BY <1>1
  <1>3. Loop(v)
    BY <1>2
  <1>4. Drain(s, gate) = IF s.active THEN v[Len(s.waiting)] ELSE s
    BY DEF Drain
  <1> HIDE DEF v
  <1>5. v[0] = s
    BY <1>1, <1>3
  <1> QED
    BY <1>1, <1>4, <1>5

(* If every package a unit is nested in is a unit too, the last to be      *)
(* extracted leaves nobody waiting.                                        *)
LEMMA NobodyStuck ==
    ASSUME NEW s, Ordered(s), Settled(s), Contents(s) = Units, \A u \in Units : Above[u] \subseteq Units
    PROVE  s.waiting = <<>>
  <1> DEFINE W == {s.waiting[i] : i \in DOMAIN s.waiting}
             C == {Cardinality(Above[u]) : u \in W}
  <1> SUFFICES ASSUME s.waiting # <<>> PROVE FALSE
    OBVIOUS
  <1>1. s.waiting \in Seq(Units) /\ s.packages \subseteq Units
    BY DEF Ordered, Stagers
  <1>2. W # {} /\ W \subseteq Units
    <2>1. 1 \in DOMAIN s.waiting
      BY <1>1
    <2>2. \A i \in DOMAIN s.waiting : s.waiting[i] \in Units
      BY <1>1
    <2> QED
      BY <2>1, <2>2
  <1>3. \A u \in Units : IsFiniteSet(Above[u]) /\ Cardinality(Above[u]) \in Nat
    BY NestingAssumption, FS_Subset, FS_CardinalityType
  <1>4. C # {} /\ C \subseteq Nat
    BY <1>2, <1>3
  <1>5. IsWellFoundedOn(OpToRel(<, Nat), Nat)
    BY NatLessThanWellFounded
  <1>6. PICK c \in C : \A e \in C : ~ (<<e, c>> \in OpToRel(<, Nat))
    <2> HIDE DEF C
    <2> QED
      BY <1>4, <1>5, WFMin
  <1>7. \A e \in C : ~ (e < c)
    BY <1>4, <1>6 DEF OpToRel
  <1>8. PICK u \in W : c = Cardinality(Above[u])
    OBVIOUS
  <1>9. PICK w \in Above[u] : w \notin s.packages
    BY DEF Settled
  <1>10. w \in Units /\ w \in W
    BY <1>2, <1>9 DEF Contents
  <1>11. Above[w] \subseteq Above[u] /\ w \notin Above[w]
    BY <1>2, <1>10, NestingAssumption
  <1>12. Cardinality(Above[w]) <= c /\ Cardinality(Above[w]) # c
    <2>1. IsFiniteSet(Above[u])
      BY <1>2, <1>3
    <2> QED
      BY <1>8, <1>9, <1>11, <2>1, FS_Subset
  <1>13. Cardinality(Above[w]) \in C /\ Cardinality(Above[w]) \in Nat /\ c \in Nat
    BY <1>3, <1>4, <1>10
  <1> QED
    BY <1>7, <1>12, <1>13

(* Everybody the stager has been handed. *)
Handed(s) == Contents(s) \cup {s.preActivation[i] : i \in DOMAIN s.preActivation}

(* The stager between two calls: dead and of no use, or with a whole tree  *)
(* and nobody whose turn it is; before it is activated all are queued.     *)
StagerFits(s) ==
    /\ s \in Stagers
    /\ s.dead => ~s.active
    /\ ~s.dead =>
          /\ Ordered(s) /\ Settled(s)
          /\ s.active => s.preActivation = <<>>
          /\ ~s.active => s.packages = {} /\ s.waiting = <<>> /\ Once(s.preActivation)

(* One more at the end of a queue that has not got it. *)
LEMMA AppendedOnce ==
    ASSUME NEW w \in Seq(Units), NEW u \in Units, Once(w), \A i \in DOMAIN w : w[i] # u
    PROVE  /\ Append(w, u) \in Seq(Units) /\ Once(Append(w, u))
           /\ {Append(w, u)[i] : i \in DOMAIN Append(w, u)} = {w[i] : i \in DOMAIN w} \cup {u}
  <1>1. /\ Append(w, u) \in Seq(Units)
        /\ DOMAIN Append(w, u) = DOMAIN w \cup {Len(w) + 1} /\ Len(w) + 1 \notin DOMAIN w
        /\ Append(w, u)[Len(w) + 1] = u /\ \A i \in DOMAIN w : Append(w, u)[i] = w[i]
    BY Appended
  <1> DEFINE q == Append(w, u)
             k == Len(w) + 1
  <1> HIDE DEF q, k
  <1>2. DOMAIN q = DOMAIN w \cup {k} /\ k \notin DOMAIN w /\ q[k] = u /\ \A i \in DOMAIN w : q[i] = w[i]
    BY <1>1 DEF q, k
  <1>3. Once(q)
    BY <1>2 DEF Once
  <1>4. {q[i] : i \in DOMAIN q} = {w[i] : i \in DOMAIN w} \cup {u}
    BY <1>2
  <1> QED
    BY <1>1, <1>3, <1>4 DEF q

(* stage takes one more package, wherever it comes among the others. *)
LEMMA Stages ==
    ASSUME NEW s, StagerFits(s), ~s.dead, NEW u \in Units, u \notin Handed(s), NEW hit \in BOOLEAN
    PROVE  /\ StagerFits(Stage(s, u, hit)) /\ ~Stage(s, u, hit).dead
           /\ Handed(Stage(s, u, hit)) = Handed(s) \cup {u}
  <1>1. s \in Stagers /\ Ordered(s) /\ Settled(s) /\ s.waiting \in Seq(Units) /\ s.preActivation \in Seq(Units)
    BY DEF StagerFits, Stagers
  <1>2. CASE ~s.active /\ ~hit
    <2> DEFINE q == Append(s.preActivation, u)
               r == [s EXCEPT !.preActivation = q]
    <2>1. Stage(s, u, hit) = r
      BY <1>2 DEF Stage
    <2>2. /\ q \in Seq(Units) /\ Once(q)
          /\ {q[i] : i \in DOMAIN q} = {s.preActivation[i] : i \in DOMAIN s.preActivation} \cup {u}
      <3>1. Once(s.preActivation) /\ \A i \in DOMAIN s.preActivation : s.preActivation[i] # u
        BY <1>2 DEF StagerFits, Handed
      <3> QED
        BY <1>1, <3>1, AppendedOnce
    <2> HIDE DEF q
    <2>3. /\ r \in Stagers /\ r.active = s.active /\ r.dead = s.dead /\ r.packages = s.packages
          /\ r.waiting = s.waiting /\ r.tree = s.tree /\ r.preActivation = q
      BY <1>1, <2>2 DEF Stagers
    <2> HIDE DEF r
    <2>4. Ordered(r) /\ Settled(r)
      BY <1>1, <2>3 DEF Ordered, Settled
    <2>5. StagerFits(r)
      BY <1>2, <2>2, <2>3, <2>4 DEF StagerFits
    <2>6. Handed(r) = Handed(s) \cup {u}
      <3>1. Contents(r) = Contents(s)
        BY <2>3 DEF Contents
      <3>2. Handed(r) = Contents(r) \cup {q[i] : i \in DOMAIN q}
        BY <2>3 DEF Handed
      <3> QED
        BY <2>2, <3>1, <3>2 DEF Handed
    <2> QED
      BY <2>1, <2>3, <2>5, <2>6
  <1>3. CASE s.active \/ hit
    <2> DEFINE w == s.waiting \o s.preActivation
               q == Append(w, u)
               t == [s EXCEPT !.active = TRUE, !.waiting = q, !.preActivation = <<>>]
    <2>1. Stage(s, u, hit) = Drain(t, TRUE)
      BY <1>3 DEF Stage
    <2>2. /\ w \in Seq(Units) /\ Once(w) /\ {w[i] : i \in DOMAIN w} = Handed(s) \ s.packages
          /\ s.packages \subseteq Handed(s)
      <3>1. CASE s.active
        <4>1. w = s.waiting /\ DOMAIN s.preActivation = {}
          <5>1. s.preActivation = <<>> /\ DOMAIN <<>> = {}
            BY <3>1 DEF StagerFits
          <5> QED
            BY <1>1, <5>1, ConcatEmptySeq
        <4> QED
          BY <1>1, <4>1 DEF Ordered, Handed, Contents
      <3>2. CASE ~s.active
        <4>1. w = s.preActivation /\ DOMAIN s.waiting = {} /\ s.packages = {} /\ Once(s.preActivation)
          <5>1. s.waiting = <<>> /\ DOMAIN <<>> = {} /\ s.packages = {} /\ Once(s.preActivation)
            BY <3>2 DEF StagerFits
          <5> QED
            BY <1>1, <5>1, ConcatEmptySeq
        <4> QED
          BY <1>1, <4>1 DEF Ordered, Handed, Contents
      <3> QED
        BY <3>1, <3>2
    <2> HIDE DEF w
    <2>3. q \in Seq(Units) /\ Once(q) /\ {q[i] : i \in DOMAIN q} = (Handed(s) \ s.packages) \cup {u}
      <3>1. \A i \in DOMAIN w : w[i] # u
        BY <2>2
      <3> QED
        BY <2>2, <3>1, AppendedOnce
    <2> HIDE DEF q
    <2>4. /\ t \in Stagers /\ t.active /\ t.active = TRUE /\ t.dead = s.dead /\ t.packages = s.packages
          /\ t.waiting = q /\ t.tree = s.tree /\ t.preActivation = <<>>
      <3>1. <<>> \in Seq(Units)
        OBVIOUS
      <3> QED
        BY <1>1, <2>3, <3>1 DEF Stagers
    <2> HIDE DEF t
    <2>5. Ordered(t)
      <3>1. \A i \in DOMAIN q : q[i] \notin s.packages
        BY <2>2, <2>3
      <3> QED
        BY <1>1, <2>3, <2>4, <3>1 DEF Ordered
    <2>6. Contents(t) = Handed(s) \cup {u}
      BY <2>2, <2>3, <2>4 DEF Contents
    <2> DEFINE r == Drain(t, TRUE)
    <2>7. Ordered(r) /\ SameMode(t, r) /\ Contents(r) = Contents(t) /\ Settled(r)
      BY <2>4, <2>5, Drains
    <2> HIDE DEF r
    <2>8. r.active /\ ~r.dead /\ r.preActivation = <<>> /\ r \in Stagers /\ DOMAIN <<>> = {}
      BY <2>4, <2>7 DEF SameMode, Ordered
    <2>9. StagerFits(r)
      BY <2>7, <2>8 DEF StagerFits
    <2>10. Handed(r) = Handed(s) \cup {u}
      BY <2>6, <2>7, <2>8 DEF Handed
    <2> QED
      BY <2>1, <2>8, <2>9, <2>10 DEF r
  <1> QED
    BY <1>2, <1>3

(* finish, when everybody has been extracted: nobody waits any more. *)
LEMMA Finishes ==
    ASSUME NEW s, StagerFits(s), s.active, Handed(s) = Units, \A u \in Units : Above[u] \subseteq Units
    PROVE  Finish(s) = s
  <1>1. ~s.dead /\ Ordered(s) /\ Settled(s) /\ s.preActivation = <<>> /\ DOMAIN <<>> = {}
    BY DEF StagerFits
  <1>2. Contents(s) = Units
    BY <1>1 DEF Handed
  <1>3. s.waiting = <<>>
    BY <1>1, <1>2, NobodyStuck
  <1>4. Drain(s, FALSE) = s
    BY <1>3, DrainsNobody
  <1> QED
    BY <1>1, <1>4 DEF Finish

-----------------------------------------------------------------------------
(***************************************************************************)
(* No package is on its way twice: a placed package is in one of the       *)
(* stages, and there once.                                                 *)
(***************************************************************************)
Stations == 1 .. 7
(* Where u is: not placed, kept back, in the channel, with a downloader,   *)
(* handed over, with an extractor, an outcome.                             *)
At(k, u) ==
    \/ k = 1 /\ u \in toPlace
    \/ k = 2 /\ Has(overflow, u)
    \/ k = 3 /\ Has(units, u)
    \/ k = 4 /\ Held(u)
    \/ k = 5 /\ \E i \in DOMAIN handoff : handoff[i].work = u
    \/ k = 6 /\ Unpacking(u)
    \/ k = 7 /\ u \in outcomes
OneStation == \A u \in Units : \A k, l \in Stations : At(k, u) /\ At(l, u) => k = l
(* The channels and the workers have a package once. *)
UnitOnce(s) == \A i, j \in DOMAIN s : s[i] = s[j] /\ s[i] \in Units => i = j
WorkOnce(s) == \A i, j \in DOMAIN s : s[i].work = s[j].work /\ s[i].work \in Units => i = j
HeldOnce ==
    \A c, d \in Downloaders :
        dpc[c] \in Busy /\ dpc[d] \in Busy /\ item[c].work = item[d].work /\ item[c].work \in Units => c = d
UnpackedOnce ==
    \A e, f \in Extractors :
        epc[e] = "extract" /\ epc[f] = "extract" /\ pending[e] = pending[f] /\ pending[e] \in Units => e = f
NothingTwice ==
    /\ OneStation
    /\ UnitOnce(overflow) /\ UnitOnce(units) /\ WorkOnce(handoff) /\ HeldOnce /\ UnpackedOnce

(* The stager is handed every outcome once: what it has and what waits in  *)
(* its channel are the outcomes, until a clone fails.                      *)
Queued == {staged[i][1] : i \in DOMAIN staged}
StagedOnce == \A i, j \in DOMAIN staged : staged[i][1] = staged[j][1] => i = j
HandedOnce ==
    /\ staged \in Seq(Units \X BOOLEAN) /\ spc \in {"run", "done"}
    /\ sink = "blocking" => spc = "done" /\ stager.active = FALSE
    /\ spc = "run" =>
          /\ StagerFits(stager)
          /\ ~stager.dead => StagedOnce /\ outcomes = Handed(stager) \cup Queued /\ Handed(stager) \cap Queued = {}
    /\ spc = "done" =>
          /\ sink = "async" => AllDone(epc)
          /\ stager.active /\ outcomes = Units => stager.tree = stager.packages

(* No package is nested in a path that is not downloaded, as a link is.    *)
AncestorsPlaced == \A u \in Units : Above[u] \subseteq Units

(* The invariant of the pipeline and the stager together.                  *)
SInv == IInv /\ NothingTwice /\ HandedOnce

(* A channel with one more. *)
LEMMA SentOnce ==
    ASSUME NEW S, NEW s \in Seq(S), NEW x \in S, UnitOnce(s), x \in Units => ~Has(s, x)
    PROVE  UnitOnce(Append(s, x))
  <1>1. /\ DOMAIN Append(s, x) = DOMAIN s \cup {Len(s) + 1}
        /\ Append(s, x)[Len(s) + 1] = x
        /\ \A i \in DOMAIN s : Append(s, x)[i] = s[i]
    BY Appended
  <1> DEFINE q == Append(s, x)
             k == Len(s) + 1
  <1> HIDE DEF q, k
  <1>2. DOMAIN q = DOMAIN s \cup {k} /\ q[k] = x /\ \A i \in DOMAIN s : q[i] = s[i]
    BY <1>1 DEF q, k
  <1>3. UnitOnce(q)
    BY <1>2 DEF UnitOnce, Has
  <1> QED
    BY <1>3 DEF q

(* A channel with one less. *)
LEMMA TakenOnce ==
    ASSUME NEW S, NEW s \in Seq(S), s # <<>>, UnitOnce(s)
    PROVE  UnitOnce(Tail(s)) /\ (Head(s) \in Units => ~Has(Tail(s), Head(s)))
  <1>1. /\ 1 \in DOMAIN s /\ s[1] = Head(s)
        /\ \A i \in DOMAIN Tail(s) : i \in Nat \ {0} /\ i + 1 \in DOMAIN s /\ Tail(s)[i] = s[i + 1]
    OBVIOUS
  <1>2. \A i, j \in DOMAIN Tail(s) : i + 1 = j + 1 => i = j
    BY <1>1
  <1>3. \A i \in DOMAIN Tail(s) : i + 1 # 1
    BY <1>1
  <1>4. UnitOnce(Tail(s))
    BY <1>1, <1>2 DEF UnitOnce
  <1>5. ASSUME Head(s) \in Units, Has(Tail(s), Head(s)) PROVE FALSE
    BY <1>1, <1>3, <1>5 DEF UnitOnce, Has
  <1> QED
    BY <1>4, <1>5

(* The hand-off with one more. *)
LEMMA HandedOnOnce ==
    ASSUME NEW s \in Seq(Message), NEW m \in Message, WorkOnce(s),
           m.work \in Units => \A i \in DOMAIN s : s[i].work # m.work
    PROVE  /\ WorkOnce(Append(s, m))
           /\ \A u : (\E i \in DOMAIN Append(s, m) : Append(s, m)[i].work = u) <=>
                     (\E i \in DOMAIN s : s[i].work = u) \/ u = m.work
  <1>1. /\ DOMAIN Append(s, m) = DOMAIN s \cup {Len(s) + 1}
        /\ Append(s, m)[Len(s) + 1] = m
        /\ \A i \in DOMAIN s : Append(s, m)[i] = s[i]
    BY Appended
  <1> DEFINE q == Append(s, m)
             k == Len(s) + 1
  <1> HIDE DEF q, k
  <1>2. DOMAIN q = DOMAIN s \cup {k} /\ q[k] = m /\ \A i \in DOMAIN s : q[i] = s[i]
    BY <1>1 DEF q, k
  <1>3. WorkOnce(q)
    BY <1>2 DEF WorkOnce
  <1>4. \A u : (\E i \in DOMAIN q : q[i].work = u) <=> (\E i \in DOMAIN s : s[i].work = u) \/ u = m.work
    BY <1>2
  <1> QED
    BY <1>3, <1>4 DEF q

(* The hand-off with one less. *)
LEMMA HandedOffOnce ==
    ASSUME NEW s \in Seq(Message), s # <<>>, WorkOnce(s)
    PROVE  /\ WorkOnce(Tail(s)) /\ \E i \in DOMAIN s : s[i] = Head(s)
           /\ Head(s).work \in Units => \A i \in DOMAIN Tail(s) : Tail(s)[i].work # Head(s).work
           /\ \A u : (\E i \in DOMAIN Tail(s) : Tail(s)[i].work = u) => \E i \in DOMAIN s : s[i].work = u
  <1>1. /\ 1 \in DOMAIN s /\ s[1] = Head(s)
        /\ \A i \in DOMAIN Tail(s) : i \in Nat \ {0} /\ i + 1 \in DOMAIN s /\ Tail(s)[i] = s[i + 1]
    OBVIOUS
  <1>2. \A i, j \in DOMAIN Tail(s) : i + 1 = j + 1 => i = j
    BY <1>1
  <1>3. \A i \in DOMAIN Tail(s) : i + 1 # 1
    BY <1>1
  <1>4. WorkOnce(Tail(s))
    BY <1>1, <1>2 DEF WorkOnce
  <1>5. ASSUME Head(s).work \in Units, NEW i \in DOMAIN Tail(s), Tail(s)[i].work = Head(s).work PROVE FALSE
    BY <1>1, <1>3, <1>5 DEF WorkOnce
  <1>6. ASSUME NEW u, NEW i \in DOMAIN Tail(s), Tail(s)[i].work = u PROVE \E j \in DOMAIN s : s[j].work = u
    BY <1>1, <1>6
  <1> QED
    BY <1>1, <1>4, <1>5, <1>6

(* A package goes from one station to another, or is given up. *)
LEMMA Moves ==
    ASSUME OneStation, NEW u, NEW i \in Stations, NEW j, u \in Units => At(i, u) /\ ~At(i, u)',
           \A v \in Units : \A k \in Stations : At(k, v)' => At(k, v) \/ (k = j /\ v = u)
    PROVE  OneStation'
  <1> SUFFICES ASSUME NEW v \in Units, NEW k \in Stations, NEW l \in Stations, At(k, v)', At(l, v)'
               PROVE  k = l
    BY DEF OneStation
  <1>1. CASE At(k, v) /\ At(l, v)
    BY <1>1 DEF OneStation
  <1>2. CASE ~At(k, v)
    BY <1>2 DEF OneStation
  <1>3. CASE ~At(l, v)
    BY <1>3 DEF OneStation
  <1> QED
    BY <1>1, <1>2, <1>3

(* What does not concern the channels and workers. *)
LEMMA TwiceKept ==
    ASSUME NothingTwice, UNCHANGED <<toPlace, overflow, units, dpc, item, handoff, epc, pending, outcomes>>
    PROVE  NothingTwice'
  <1>1. \A u \in Units : \A k \in Stations : At(k, u)' <=> At(k, u)
    BY DEF At, Held, Unpacking, Has
  <1>2. OneStation'
    BY <1>1 DEF NothingTwice, OneStation
  <1> QED
    BY <1>2 DEF NothingTwice, UnitOnce, WorkOnce, HeldOnce, UnpackedOnce

(* A package is placed once... *)
LEMMA EmitTwice == ASSUME IInv, NothingTwice, NEW u \in Units, Emit(u) PROVE NothingTwice'
  <1>1. /\ u \in toPlace /\ toPlace' = toPlace \ {u}
        /\ UNCHANGED <<dpc, item, handoff, epc, pending, outcomes>>
    BY DEF Emit, downloadVars, extractVars
  <1>2. units \in Seq(Work) /\ overflow \in Seq(Units) /\ u \in Work
    BY DEF IInv, Typed, Work
  <1>3. At(1, u) /\ ~At(1, u)' /\ ~Has(units, u) /\ ~Has(overflow, u)
    <2>1. At(1, u) /\ ~At(1, u)'
      BY <1>1 DEF At
    <2>2. ~At(2, u) /\ ~At(3, u)
      BY <2>1 DEF NothingTwice, OneStation, Stations
    <2> QED
      BY <2>1, <2>2 DEF At
  <1>4. CASE units' = Append(units, u) /\ UNCHANGED overflow
    <2>1. UnitOnce(units') /\ UnitOnce(overflow')
      BY <1>2, <1>3, <1>4, SentOnce DEF NothingTwice
    <2>2. \A v : Has(units', v) <=> Has(units, v) \/ v = u
      BY <1>2, <1>4, AppendHas
    <2>3. \A v \in Units : \A k \in Stations : At(k, v)' => At(k, v) \/ (k = 3 /\ v = u)
      BY <1>1, <1>4, <2>2 DEF At, Has, Held, Unpacking
    <2>4. OneStation'
      BY <1>3, <2>3, Moves DEF NothingTwice, Stations
    <2> QED
      BY <1>1, <2>1, <2>4 DEF NothingTwice, WorkOnce, HeldOnce, UnpackedOnce, UnitOnce
  <1>5. CASE overflow' = Append(overflow, u) /\ UNCHANGED units
    <2>1. UnitOnce(units') /\ UnitOnce(overflow')
      BY <1>2, <1>3, <1>5, SentOnce DEF NothingTwice
    <2>2. \A v : Has(overflow', v) <=> Has(overflow, v) \/ v = u
      BY <1>2, <1>5, AppendHas
    <2>3. \A v \in Units : \A k \in Stations : At(k, v)' => At(k, v) \/ (k = 2 /\ v = u)
      BY <1>1, <1>5, <2>2 DEF At, Has, Held, Unpacking
    <2>4. OneStation'
      BY <1>3, <2>3, Moves DEF NothingTwice, Stations
    <2> QED
      BY <1>1, <2>1, <2>4 DEF NothingTwice, WorkOnce, HeldOnce, UnpackedOnce, UnitOnce
  <1> QED
    BY <1>4, <1>5 DEF Emit

(* ... and a hint is not a package. *)
LEMMA PrefetchTwice == ASSUME IInv, NothingTwice, NEW a \in Hints, Prefetch(a) PROVE NothingTwice'
  <1>1. /\ units' = Append(units, a) /\ a \notin Units
        /\ UNCHANGED <<toPlace, overflow, dpc, item, handoff, epc, pending, outcomes>>
    BY PipelineAssumption DEF Prefetch, downloadVars, extractVars
  <1>2. units \in Seq(Work) /\ a \in Work
    BY DEF IInv, Typed, Work
  <1>3. UnitOnce(units')
    BY <1>1, <1>2, SentOnce DEF NothingTwice
  <1>4. \A v : Has(units', v) <=> Has(units, v) \/ v = a
    BY <1>1, <1>2, AppendHas
  <1>5. \A v \in Units : \A k \in Stations : At(k, v)' => At(k, v)
    BY <1>1, <1>4 DEF At, Has, Held, Unpacking
  <1>6. OneStation'
    BY <1>5 DEF NothingTwice, OneStation
  <1> QED
    BY <1>1, <1>3, <1>6 DEF NothingTwice, WorkOnce, HeldOnce, UnpackedOnce, UnitOnce

(* The overflow goes into the channel. *)
LEMMA SendOverflowTwice == ASSUME IInv, NothingTwice, SendOverflow PROVE NothingTwice'
  <1>1. PICK u : u = Head(overflow)
    OBVIOUS
  <1>2. /\ overflow # <<>> /\ units' = Append(units, u) /\ overflow' = Tail(overflow)
        /\ UNCHANGED <<toPlace, dpc, item, handoff, epc, pending, outcomes>>
    BY <1>1 DEF SendOverflow, downloadVars, extractVars
  <1>3. units \in Seq(Work) /\ overflow \in Seq(Units) /\ Units \subseteq Work
    BY DEF IInv, Typed, Work
  <1>4. /\ u \in Units /\ Has(overflow, u)
        /\ \A v : Has(overflow, v) <=> v = u \/ Has(Tail(overflow), v)
    BY <1>1, <1>2, <1>3, TailHas
  <1>5. UnitOnce(Tail(overflow)) /\ ~Has(Tail(overflow), u)
    BY <1>1, <1>2, <1>3, <1>4, TakenOnce DEF NothingTwice
  <1>6. At(2, u) /\ ~At(2, u)' /\ ~Has(units, u)
    <2>1. At(2, u) /\ ~At(2, u)'
      BY <1>2, <1>4, <1>5 DEF At, Has
    <2>2. ~At(3, u)
      BY <1>4, <2>1 DEF NothingTwice, OneStation, Stations
    <2> QED
      BY <2>1, <2>2 DEF At
  <1>7. UnitOnce(units')
    BY <1>2, <1>3, <1>4, <1>6, SentOnce DEF NothingTwice
  <1>8. \A v : Has(units', v) <=> Has(units, v) \/ v = u
    BY <1>2, <1>3, <1>4, AppendHas
  <1>9. \A v \in Units : \A k \in Stations : At(k, v)' => At(k, v) \/ (k = 3 /\ v = u)
    BY <1>2, <1>4, <1>8 DEF At, Has, Held, Unpacking
  <1>10. OneStation'
    BY <1>6, <1>9, Moves DEF NothingTwice, Stations
  <1> QED
    BY <1>2, <1>5, <1>7, <1>10 DEF NothingTwice, WorkOnce, HeldOnce, UnpackedOnce, UnitOnce

(* One downloader takes a package. *)
LEMMA ReceiveTwice == ASSUME IInv, NothingTwice, NEW d \in Downloaders, Receive(d) PROVE NothingTwice'
  <1>1. PICK u : u = Head(units)
    OBVIOUS
  <1>2. /\ dpc[d] = "recv" /\ units # <<>> /\ units' = Tail(units)
        /\ item' = [item EXCEPT ![d] = [work |-> u, ok |-> TRUE]] /\ dpc' = [dpc EXCEPT ![d] = "slot"]
        /\ UNCHANGED <<toPlace, overflow, handoff, epc, pending, outcomes>>
    BY <1>1 DEF Receive, resolverVars, extractVars
  <1>3. /\ dpc'[d] = "slot" /\ item'[d].work = u
        /\ \A x \in Downloaders : x # d => dpc'[x] = dpc[x] /\ item'[x] = item[x]
    BY <1>2 DEF IInv, Typed
  <1>4. units \in Seq(Work)
    BY DEF IInv, Typed
  <1>5. Has(units, u) /\ \A v : Has(units, v) <=> v = u \/ Has(Tail(units), v)
    BY <1>1, <1>2, <1>4, TailHas
  <1>6. UnitOnce(Tail(units)) /\ (u \in Units => ~Has(Tail(units), u))
    BY <1>1, <1>2, <1>4, TakenOnce DEF NothingTwice
  <1>7. u \in Units => At(3, u) /\ ~At(3, u)'
    BY <1>2, <1>5, <1>6 DEF At, Has
  <1>8. u \in Units => ~Held(u)
    BY <1>7 DEF NothingTwice, OneStation, Stations, At
  <1>9. \A v \in Units : Held(v)' => Held(v) \/ v = u
    BY <1>3 DEF Held
  <1>10. \A v \in Units : Has(units', v) => Has(units, v)
    BY <1>2, <1>5
  <1>11. \A v \in Units : \A k \in Stations : At(k, v)' => At(k, v) \/ (k = 4 /\ v = u)
    BY <1>2, <1>9, <1>10 DEF At, Has, Unpacking
  <1>12. OneStation'
    BY <1>7, <1>11, Moves DEF NothingTwice, Stations
  <1>13. HeldOnce'
    BY <1>3, <1>8 DEF NothingTwice, HeldOnce, Held, Busy
  <1> QED
    BY <1>2, <1>6, <1>12, <1>13 DEF NothingTwice, WorkOnce, UnpackedOnce, UnitOnce

(* A downloader that ends or gets its slot has what it had. *)
LEMMA DownloaderTwice ==
    ASSUME IInv, NothingTwice, NEW d \in Downloaders, DownloaderEnds(d) \/ AcquireSlot(d)
    PROVE  NothingTwice'
  <1>1. UNCHANGED <<toPlace, overflow, units, item, handoff, epc, pending, outcomes>>
    BY DEF DownloaderEnds, AcquireSlot, resolverVars, extractVars
  <1>2. /\ dpc'[d] \in Busy <=> dpc[d] \in Busy
        /\ \A x \in Downloaders : x # d => dpc'[x] = dpc[x]
    BY DEF DownloaderEnds, AcquireSlot, IInv, Typed, Busy
  <1>3. \A v \in Units : Held(v)' <=> Held(v)
    BY <1>1, <1>2 DEF Held
  <1>4. \A v \in Units : \A k \in Stations : At(k, v)' => At(k, v)
    BY <1>1, <1>3 DEF At, Has, Unpacking
  <1>5. OneStation'
    BY <1>4 DEF NothingTwice, OneStation
  <1>6. HeldOnce'
    BY <1>1, <1>2 DEF NothingTwice, HeldOnce
  <1> QED
    BY <1>1, <1>5, <1>6 DEF NothingTwice, WorkOnce, UnpackedOnce, UnitOnce

(* A downloader goes on with the package it has, or forgets a hint. *)
LEMMA FetchedTwice == ASSUME IInv, NothingTwice, NEW d \in Downloaders, Fetched(d) PROVE NothingTwice'
  <1>1. dpc[d] = "fetch" /\ UNCHANGED <<toPlace, overflow, units, handoff, epc, pending, outcomes>>
    BY DEF Fetched, resolverVars, extractVars
  <1>2. item[d] \in Message
    BY <1>1 DEF IInv, WorkFits, Busy
  <1>3. PICK ok \in BOOLEAN :
          /\ item' = [item EXCEPT ![d] = IF ~ok /\ item[d].work \in Hints THEN Nothing
                                         ELSE [item[d] EXCEPT !.ok = ok]]
          /\ dpc' = [dpc EXCEPT ![d] = IF ~ok /\ item[d].work \in Hints THEN "recv" ELSE "send"]
    BY DEF Fetched, IInv, Typed
  <1>4. \A x \in Downloaders : x # d => dpc'[x] = dpc[x] /\ item'[x] = item[x]
    BY <1>3 DEF IInv, Typed
  <1>5. dpc'[d] \in Busy => dpc[d] \in Busy /\ item'[d].work = item[d].work
    <2>1. CASE ~ok /\ item[d].work \in Hints
      BY <1>3, <2>1 DEF IInv, Typed, Busy
    <2>2. CASE ~(~ok /\ item[d].work \in Hints)
      <3>1. [item[d] EXCEPT !.ok = ok].work = item[d].work
        BY <1>2 DEF Message
      <3> QED
        BY <1>1, <1>3, <2>2, <3>1 DEF IInv, Typed, Busy
    <2> QED
      BY <2>1, <2>2
  <1>6. \A v \in Units : Held(v)' => Held(v)
    BY <1>4, <1>5 DEF Held
  <1>7. \A v \in Units : \A k \in Stations : At(k, v)' => At(k, v)
    BY <1>1, <1>6 DEF At, Has, Unpacking
  <1>8. OneStation'
    BY <1>7 DEF NothingTwice, OneStation
  <1>9. HeldOnce'
    BY <1>4, <1>5 DEF NothingTwice, HeldOnce
  <1> QED
    BY <1>1, <1>8, <1>9 DEF NothingTwice, WorkOnce, UnpackedOnce, UnitOnce

(* A downloader hands a package on. *)
LEMMA SendTwice == ASSUME IInv, NothingTwice, NEW d \in Downloaders, Send(d) PROVE NothingTwice'
  <1>1. PICK m : m = item[d]
    OBVIOUS
  <1>2. /\ dpc[d] = "send" /\ handoff' = Append(handoff, m)
        /\ item' = [item EXCEPT ![d] = Nothing] /\ dpc' = [dpc EXCEPT ![d] = "recv"]
        /\ UNCHANGED <<toPlace, overflow, units, epc, pending, outcomes>>
    BY <1>1 DEF Send, resolverVars, extractVars
  <1>3. m \in Message /\ handoff \in Seq(Message)
    BY <1>1, <1>2 DEF IInv, Typed, WorkFits, Busy
  <1>4. dpc'[d] = "recv" /\ \A x \in Downloaders : x # d => dpc'[x] = dpc[x] /\ item'[x] = item[x]
    BY <1>2 DEF IInv, Typed
  <1>5. m.work \in Units => At(4, m.work) /\ ~At(4, m.work)'
    BY <1>1, <1>2, <1>4 DEF NothingTwice, HeldOnce, At, Held, Busy
  <1>6. m.work \in Units => \A i \in DOMAIN handoff : handoff[i].work # m.work
    <2>1. m.work \in Units => ~At(5, m.work)
      BY <1>5 DEF NothingTwice, OneStation, Stations
    <2> QED
      BY <2>1 DEF At
  <1>7. /\ WorkOnce(handoff')
        /\ \A u : (\E i \in DOMAIN handoff' : handoff'[i].work = u) <=>
                  (\E i \in DOMAIN handoff : handoff[i].work = u) \/ u = m.work
    <2>1. WorkOnce(handoff)
      BY DEF NothingTwice
    <2>2. /\ WorkOnce(Append(handoff, m))
          /\ \A u : (\E i \in DOMAIN Append(handoff, m) : Append(handoff, m)[i].work = u) <=>
                    (\E i \in DOMAIN handoff : handoff[i].work = u) \/ u = m.work
      BY <1>3, <1>6, <2>1, HandedOnOnce
    <2> QED
      BY <1>2, <2>2
  <1>8. \A v \in Units : Held(v)' => Held(v)
    BY <1>4 DEF Held, Busy
  <1>9. \A v \in Units : \A k \in Stations : At(k, v)' => At(k, v) \/ (k = 5 /\ v = m.work)
    BY <1>2, <1>7, <1>8 DEF At, Has, Unpacking
  <1>10. OneStation'
    BY <1>5, <1>9, Moves DEF NothingTwice, Stations
  <1>11. HeldOnce'
    BY <1>4 DEF NothingTwice, HeldOnce, Busy
  <1> QED
    BY <1>2, <1>7, <1>10, <1>11 DEF NothingTwice, WorkOnce, UnpackedOnce, UnitOnce

(* One extractor takes a package, or drops it. *)
LEMMA TakeTwice == ASSUME IInv, NothingTwice, NEW e \in Extractors, Take(e) PROVE NothingTwice'
  <1>1. PICK m : m = Head(handoff)
    OBVIOUS
  <1>2. /\ epc[e] = "recv" /\ handoff # <<>> /\ handoff' = Tail(handoff)
        /\ UNCHANGED <<toPlace, overflow, units, dpc, item, outcomes>>
    BY DEF Take, resolverVars, downloadVars
  <1>3. \/ epc' = [epc EXCEPT ![e] = "extract"] /\ pending' = [pending EXCEPT ![e] = m.work]
        \/ UNCHANGED <<epc, pending>>
    BY <1>1 DEF Take
  <1>4. handoff \in Seq(Message)
    BY DEF IInv, Typed
  <1>5. /\ WorkOnce(handoff') /\ \E i \in DOMAIN handoff : handoff[i] = m
        /\ m.work \in Units => \A i \in DOMAIN handoff' : handoff'[i].work # m.work
        /\ \A u : (\E i \in DOMAIN handoff' : handoff'[i].work = u) => \E i \in DOMAIN handoff : handoff[i].work = u
    BY <1>1, <1>2, <1>4, HandedOffOnce DEF NothingTwice
  <1>6. m.work \in Units => At(5, m.work) /\ ~At(5, m.work)'
    BY <1>5 DEF At
  <1>7. m.work \in Units => ~Unpacking(m.work)
    <2>1. m.work \in Units => ~At(6, m.work)
      BY <1>6 DEF NothingTwice, OneStation, Stations
    <2> QED
      BY <2>1 DEF At
  <1>8. /\ \A x \in Extractors : x # e => epc'[x] = epc[x] /\ pending'[x] = pending[x]
        /\ epc'[e] = "extract" => pending'[e] = m.work
    BY <1>2, <1>3 DEF IInv, Typed
  <1>9. \A v \in Units : Unpacking(v)' => Unpacking(v) \/ v = m.work
    BY <1>8 DEF Unpacking
  <1>10. \A v \in Units : \A k \in Stations : At(k, v)' => At(k, v) \/ (k = 6 /\ v = m.work)
    BY <1>2, <1>5, <1>9 DEF At, Has, Held
  <1>11. OneStation'
    BY <1>6, <1>10, Moves DEF NothingTwice, Stations
  <1>12. UnpackedOnce'
    BY <1>7, <1>8 DEF NothingTwice, UnpackedOnce, Unpacking
  <1> QED
    BY <1>2, <1>5, <1>11, <1>12 DEF NothingTwice, WorkOnce, HeldOnce, UnitOnce

(* An extractor that ends had nothing. *)
LEMMA ExtractorEndsTwice == ASSUME IInv, NothingTwice, NEW e \in Extractors, ExtractorEnds(e) PROVE NothingTwice'
  <1>1. /\ epc[e] = "recv" /\ epc' = [epc EXCEPT ![e] = "done"]
        /\ UNCHANGED <<toPlace, overflow, units, dpc, item, handoff, pending, outcomes>>
    BY DEF ExtractorEnds, resolverVars, downloadVars
  <1>2. epc'[e] = "done" /\ \A x \in Extractors : x # e => epc'[x] = epc[x]
    BY <1>1 DEF IInv, Typed
  <1>3. \A v \in Units : \A k \in Stations : At(k, v)' => At(k, v)
    BY <1>1, <1>2 DEF At, Has, Held, Unpacking
  <1>4. OneStation'
    BY <1>3 DEF NothingTwice, OneStation
  <1>5. UnpackedOnce'
    BY <1>1, <1>2 DEF NothingTwice, UnpackedOnce
  <1> QED
    BY <1>1, <1>4, <1>5 DEF NothingTwice, WorkOnce, HeldOnce, UnitOnce

(* An extractor is done with its package, which is an outcome or not. *)
LEMMA UnpackedTwice ==
    ASSUME IInv, NothingTwice, NEW e \in Extractors, Extracted(e) \/ ExtractionFails(e)
    PROVE  NothingTwice'
  <1>1. PICK u : u = pending[e]
    OBVIOUS
  <1>2. /\ epc[e] = "extract" /\ outcomes' \subseteq outcomes \cup {u}
        /\ epc' = [epc EXCEPT ![e] = "recv"] /\ pending' = [pending EXCEPT ![e] = Nothing]
        /\ UNCHANGED <<toPlace, overflow, units, dpc, item, handoff>>
    BY <1>1 DEF Extracted, ExtractionFails, resolverVars, downloadVars
  <1>3. epc'[e] = "recv" /\ \A x \in Extractors : x # e => epc'[x] = epc[x] /\ pending'[x] = pending[x]
    BY <1>2 DEF IInv, Typed
  <1>4. u \in Units => At(6, u) /\ ~At(6, u)'
    BY <1>1, <1>2, <1>3 DEF NothingTwice, UnpackedOnce, At, Unpacking
  <1>5. \A v \in Units : Unpacking(v)' => Unpacking(v)
    BY <1>3 DEF Unpacking
  <1>6. \A v \in Units : \A k \in Stations : At(k, v)' => At(k, v) \/ (k = 7 /\ v = u)
    BY <1>2, <1>5 DEF At, Has, Held
  <1>7. OneStation'
    BY <1>4, <1>6, Moves DEF NothingTwice, Stations
  <1>8. UnpackedOnce'
    BY <1>3 DEF NothingTwice, UnpackedOnce
  <1> QED
    BY <1>2, <1>7, <1>8 DEF NothingTwice, WorkOnce, HeldOnce, UnitOnce

(* Before the first package is placed. *)
LEMMA InitTwice == Init => NothingTwice
  <1> SUFFICES ASSUME Init PROVE NothingTwice
    OBVIOUS
  <1>1. DOMAIN overflow = {} /\ DOMAIN units = {} /\ DOMAIN handoff = {}
    BY DEF Init
  <1>2. OneStation
    BY <1>1 DEF Init, OneStation, At, Has, Held, Unpacking, Busy
  <1> QED
    BY <1>1, <1>2 DEF Init, NothingTwice, UnitOnce, WorkOnce, HeldOnce, UnpackedOnce, Busy

(* No step doubles a package. *)
LEMMA NextTwice == ASSUME IInv, NothingTwice, [Next]_vars PROVE NothingTwice'
  <1>1. CASE MainStep
    <2>1. ASSUME Resolved \/ ResolutionFails \/ CloseUnits \/ Join PROVE NothingTwice'
      BY <2>1, TwiceKept DEF Resolved, ResolutionFails, CloseUnits, Join, resolverVars, downloadVars, extractVars
    <2> QED
      BY <1>1, <2>1, EmitTwice, SendOverflowTwice DEF MainStep
  <1>2. ASSUME NEW a \in Hints, Prefetch(a) PROVE NothingTwice'
    BY <1>2, PrefetchTwice
  <1>3. ASSUME NEW d \in Downloaders, DownloaderStep(d) PROVE NothingTwice'
    BY <1>3, ReceiveTwice, DownloaderTwice, FetchedTwice, SendTwice DEF DownloaderStep
  <1>4. ASSUME NEW e \in Extractors, ExtractorStep(e) PROVE NothingTwice'
    BY <1>4, TakeTwice, ExtractorEndsTwice, UnpackedTwice DEF ExtractorStep
  <1>5. CASE StagerStep
    BY <1>5, TwiceKept DEF StagerStep, StageNext, StagerEnds, resolverVars, downloadVars, extractVars
  <1>6. CASE UNCHANGED vars
    BY <1>6, TwiceKept DEF vars, resolverVars, downloadVars, extractVars
  <1> QED
    BY <1>1, <1>2, <1>3, <1>4, <1>5, <1>6 DEF Next

(***************************************************************************)
(* The stager and its channel.                                             *)
(***************************************************************************)
(* While an extractor runs the stager's channel is open. *)
LEMMA ChannelOpen ==
    ASSUME IInv, HandedOnce, NEW e \in Extractors, epc[e] # "done"
    PROVE  \/ spc = "run" /\ sink = "async"
           \/ spc = "done" /\ sink = "blocking" /\ ~stager.active
  <1>1. ~AllDone(epc)
    BY ExtractorRuns
  <1> QED
    BY <1>1 DEF HandedOnce, IInv, Typed

(* A step that neither extracts nor stages. *)
LEMMA HandedKept ==
    ASSUME HandedOnce, UNCHANGED <<sink, staged, stager, spc, outcomes>>,
           sink = "async" /\ spc = "done" => UNCHANGED epc
    PROVE  HandedOnce'
  BY DEF HandedOnce, StagedOnce, Queued, AllDone

(* An extractor hands its outcome to the stager. *)
LEMMA ExtractedHanded == ASSUME IInv, NothingTwice, HandedOnce, NEW e \in Extractors, Extracted(e) PROVE HandedOnce'
  <1>1. PICK w, cached : w = pending[e] /\ cached = (Artifact(w) \in images)
    OBVIOUS
  <1>2. /\ epc[e] = "extract" /\ outcomes' = outcomes \cup ({w} \cap Units)
        /\ staged' = IF w \in Units /\ sink = "async" THEN Append(staged, <<w, cached>>) ELSE staged
        /\ UNCHANGED <<sink, stager, spc>>
    BY <1>1 DEF Extracted
  <1>3. \/ spc = "run" /\ sink = "async"
        \/ spc = "done" /\ sink = "blocking" /\ ~stager.active
    BY <1>2, ChannelOpen
  <1>4. CASE spc = "done"
    BY <1>2, <1>3, <1>4 DEF HandedOnce
  <1>5. CASE spc = "run" /\ w \notin Units
    BY <1>2, <1>3, <1>5 DEF HandedOnce, StagedOnce, Queued
  <1>6. CASE spc = "run" /\ w \in Units
    <2>1. cached \in BOOLEAN /\ <<w, cached>> \in Units \X BOOLEAN /\ <<w, cached>>[1] = w
      <3>1. cached \in BOOLEAN
        <4>1. CASE Artifact(w) \in images
          BY <1>1, <4>1
        <4>2. CASE Artifact(w) \notin images
          BY <1>1, <4>2
        <4> QED
          BY <4>1, <4>2
      <3> QED
        BY <1>6, <3>1
    <2>2. w \notin outcomes
      <3>1. At(6, w)
        BY <1>1, <1>2 DEF At, Unpacking
      <3>2. ~At(7, w)
        BY <1>6, <3>1 DEF NothingTwice, OneStation, Stations
      <3> QED
        BY <3>2 DEF At
    <2>3. staged \in Seq(Units \X BOOLEAN) /\ staged' = Append(staged, <<w, cached>>)
      BY <1>2, <1>3, <1>6 DEF HandedOnce
    <2>4. /\ staged' \in Seq(Units \X BOOLEAN)
          /\ DOMAIN staged' = DOMAIN staged \cup {Len(staged) + 1} /\ Len(staged) + 1 \notin DOMAIN staged
          /\ staged'[Len(staged) + 1] = <<w, cached>> /\ \A i \in DOMAIN staged : staged'[i] = staged[i]
      BY <2>1, <2>3, Appended
    <2> DEFINE k == Len(staged) + 1
    <2> HIDE DEF k
    <2>5. /\ DOMAIN staged' = DOMAIN staged \cup {k}
          /\ staged'[k][1] = w /\ \A i \in DOMAIN staged : staged'[i] = staged[i]
      BY <2>1, <2>4 DEF k
    <2>6. Queued' = Queued \cup {w}
      BY <2>5 DEF Queued
    <2>7. ASSUME ~stager.dead
          PROVE  StagedOnce' /\ outcomes' = Handed(stager) \cup Queued' /\ Handed(stager) \cap Queued' = {}
      <3>1. StagedOnce /\ outcomes = Handed(stager) \cup Queued /\ Handed(stager) \cap Queued = {}
        BY <1>6, <2>7 DEF HandedOnce
      <3>2. w \notin Handed(stager) /\ w \notin Queued
        BY <2>2, <3>1
      <3>3. StagedOnce'
        BY <2>5, <3>1, <3>2 DEF StagedOnce, Queued
      <3> QED
        BY <1>2, <1>6, <2>6, <3>1, <3>2, <3>3
    <2> QED
      BY <1>2, <1>3, <1>6, <2>4, <2>7 DEF HandedOnce
  <1> QED
    BY <1>3, <1>4, <1>5, <1>6

(* A stager that failed is of no use, and stays so. *)
LEMMA DeadFits == StagerFits(Dead) /\ Dead.dead = TRUE
  <1>1. <<>> \in Seq(Units)
    OBVIOUS
  <1> QED
    BY <1>1 DEF StagerFits, Stagers, Dead, NewStager

(* The stager takes the next outcome. *)
LEMMA StageHanded == ASSUME IInv, HandedOnce, StageNext PROVE HandedOnce'
  <1>1. PICK u, hit : u = Head(staged)[1] /\ hit = Head(staged)[2]
    OBVIOUS
  <1>2. /\ spc = "run" /\ staged # <<>> /\ staged' = Tail(staged)
        /\ stager' \in {Stage(stager, u, hit), Dead}
        /\ stager.dead => stager' \in {stager, Dead}
        /\ UNCHANGED <<sink, spc, outcomes>>
    BY <1>1 DEF StageNext, extractVars, Stage
  <1>3. staged \in Seq(Units \X BOOLEAN) /\ StagerFits(stager)
    BY <1>2 DEF HandedOnce
  <1>4. /\ staged' \in Seq(Units \X BOOLEAN) /\ 1 \in DOMAIN staged /\ staged[1] = Head(staged)
        /\ Head(staged) \in Units \X BOOLEAN
        /\ \A i \in DOMAIN staged' : i \in Nat \ {0} /\ i + 1 \in DOMAIN staged /\ staged'[i] = staged[i + 1]
        /\ \A i \in DOMAIN staged : i # 1 => i - 1 \in DOMAIN staged' /\ staged'[i - 1] = staged[i]
    BY <1>2, <1>3
  <1>5. u \in Units /\ hit \in BOOLEAN
    BY <1>1, <1>4
  <1>6. CASE stager' = Dead
    BY <1>2, <1>4, <1>6, DeadFits DEF HandedOnce
  <1>7. CASE stager.dead /\ stager' = stager
    BY <1>2, <1>3, <1>4, <1>7 DEF HandedOnce
  <1>8. CASE ~stager.dead /\ stager' = Stage(stager, u, hit)
    <2>1. StagedOnce /\ outcomes = Handed(stager) \cup Queued /\ Handed(stager) \cap Queued = {}
      BY <1>2, <1>8 DEF HandedOnce
    <2>2. u \in Queued /\ u \notin Handed(stager)
      BY <1>1, <1>4, <2>1 DEF Queued
    <2>3. StagerFits(stager') /\ ~stager'.dead /\ Handed(stager') = Handed(stager) \cup {u}
      BY <1>3, <1>5, <1>8, <2>2, Stages
    <2>4. \A i, j \in DOMAIN staged' : i + 1 = j + 1 => i = j
      BY <1>4
    <2>5. \A i \in DOMAIN staged' : i + 1 # 1
      BY <1>4
    <2>6. StagedOnce'
      BY <1>4, <2>1, <2>4 DEF StagedOnce
    <2>7. Queued' = Queued \ {u}
      <3>1. ASSUME NEW x \in Queued' PROVE x \in Queued /\ x # u
        BY <1>1, <1>4, <2>1, <2>5, <3>1 DEF StagedOnce, Queued
      <3>2. ASSUME NEW x \in Queued, x # u PROVE x \in Queued'
        BY <1>1, <1>4, <3>2 DEF Queued
      <3> QED
        BY <3>1, <3>2
    <2>8. outcomes' = Handed(stager') \cup Queued' /\ Handed(stager') \cap Queued' = {}
      BY <1>2, <2>1, <2>2, <2>3, <2>7
    <2> QED
      BY <1>2, <1>4, <2>3, <2>6, <2>8 DEF HandedOnce
  <1> QED
    BY <1>2, <1>6, <1>7, <1>8

(* The stager ends when every extractor has and its channel is empty. *)
LEMMA EndHanded == ASSUME IInv, HandedOnce, StagerEnds, AncestorsPlaced PROVE HandedOnce'
  <1>1. /\ spc = "run" /\ staged = <<>> /\ AllDone(epc) /\ spc' = "done"
        /\ stager' \in {Finish(stager), Dead}
        /\ UNCHANGED <<sink, staged, epc, outcomes>>
    BY DEF StagerEnds, extractVars
  <1>2. StagerFits(stager) /\ sink # "blocking"
    BY <1>1 DEF HandedOnce
  <1>3. Dead.active = FALSE
    BY DEF Dead, NewStager
  <1>4. ~stager.active => Finish(stager) = stager
    BY DEF Finish, Drain
  <1>5. ASSUME stager'.active, outcomes = Units PROVE stager'.tree = stager'.packages
    <2>1. stager' = Finish(stager) /\ stager.active
      BY <1>1, <1>3, <1>4, <1>5
    <2>2. ~stager.dead
      BY <1>2, <2>1 DEF StagerFits, Stagers
    <2>3. Queued = {}
      BY <1>1 DEF Queued
    <2>4. Handed(stager) = Units
      BY <1>1, <1>5, <2>2, <2>3 DEF HandedOnce
    <2>5. stager' = stager
      BY <1>2, <2>1, <2>4, Finishes DEF AncestorsPlaced
    <2> QED
      BY <1>2, <2>2, <2>5 DEF StagerFits, Ordered
  <1>6. staged' \in Seq(Units \X BOOLEAN)
    BY <1>1 DEF HandedOnce
  <1>7. AllDone(epc)'
    BY <1>1 DEF AllDone
  <1> QED
    BY <1>1, <1>2, <1>5, <1>6, <1>7 DEF HandedOnce

(* A new stager. *)
LEMMA InitHanded == Init => HandedOnce
  <1> SUFFICES ASSUME Init PROVE HandedOnce
    OBVIOUS
  <1>1. <<>> \in Seq(Units) /\ <<>> \in Seq(Units \X BOOLEAN) /\ DOMAIN <<>> = {}
    OBVIOUS
  <1>2. stager = [active |-> FALSE, dead |-> FALSE, packages |-> {}, waiting |-> <<>>,
                  preActivation |-> <<>>, tree |-> {}]
    BY DEF Init, NewStager
  <1>3. /\ stager \in Stagers /\ stager.active = FALSE /\ stager.dead = FALSE /\ stager.packages = {}
        /\ stager.waiting = <<>> /\ stager.preActivation = <<>> /\ stager.tree = {}
    BY <1>1, <1>2 DEF Stagers
  <1>4. StagerFits(stager) /\ Handed(stager) = {}
    BY <1>1, <1>3 DEF StagerFits, Ordered, Settled, Once, Handed, Contents
  <1>5. staged = <<>> /\ Queued = {} /\ StagedOnce
    BY <1>1 DEF Init, Queued, StagedOnce
  <1> QED
    BY <1>1, <1>3, <1>4, <1>5 DEF Init, HandedOnce

(* Every step keeps it. *)
LEMMA NextHanded == ASSUME IInv, NothingTwice, HandedOnce, AncestorsPlaced, [Next]_vars PROVE HandedOnce'
  <1>1. CASE \/ MainStep \/ (\E a \in Hints : Prefetch(a))
             \/ (\E d \in Downloaders : DownloaderStep(d)) \/ UNCHANGED vars
    <2>1. UNCHANGED <<sink, staged, stager, spc, outcomes, epc>>
      BY <1>1 DEF MainStep, Emit, Resolved, ResolutionFails, SendOverflow, CloseUnits, Join, Prefetch,
         DownloaderStep, Receive, DownloaderEnds, AcquireSlot, Fetched, Send, vars, extractVars, stagerVars
    <2> QED
      BY <2>1, HandedKept
  <1>2. ASSUME NEW e \in Extractors, Take(e) \/ ExtractorEnds(e) \/ ExtractionFails(e) PROVE HandedOnce'
    <2>1. epc[e] # "done" /\ UNCHANGED <<sink, staged, stager, spc, outcomes>>
      BY <1>2 DEF Take, ExtractorEnds, ExtractionFails, stagerVars
    <2>2. ~(sink = "async" /\ spc = "done")
      BY <2>1, ChannelOpen
    <2> QED
      BY <2>1, <2>2, HandedKept
  <1>3. ASSUME NEW e \in Extractors, Extracted(e) PROVE HandedOnce'
    BY <1>3, ExtractedHanded
  <1>4. CASE StagerStep
    BY <1>4, StageHanded, EndHanded DEF StagerStep
  <1> QED
    BY <1>1, <1>2, <1>3, <1>4 DEF Next, ExtractorStep

(* A pre-staged tree that the volume build would adopt is whole: in        *)
(* whatever order the extractors finish, no package is missing, and none   *)
(* was cloned over the packages nested in it.  This needs every package    *)
(* path above a placed package to be a placed package: below a workspace   *)
(* link packages are cloned in the order of their arrival, and it fails.   *)
THEOREM AdoptedTreesWhole == AncestorsPlaced /\ Spec => []AdoptedTreeWhole
  <1> SUFFICES ASSUME AncestorsPlaced PROVE Spec => []AdoptedTreeWhole
    OBVIOUS
  <1>1. SInv /\ [Next]_vars => SInv'
    BY NextIInv, NextTwice, NextHanded DEF SInv
  <1>2. Init => SInv
    BY InitIInv, InitTwice, InitHanded DEF SInv
  <1>3. SInv /\ OutcomesExact => AdoptedTreeWhole
    <2> SUFFICES ASSUME SInv, OutcomesExact, result = "ok", spc = "done", Usable(stager, outcomes)
                 PROVE  stager.tree = outcomes
      BY DEF AdoptedTreeWhole
    <2>1. outcomes = Units
      BY DEF OutcomesExact, NothingDropped
    <2> QED
      BY <2>1 DEF SInv, HandedOnce, Usable
  <1> QED
    BY <1>1, <1>2, <1>3, Outcomes, PTL DEF Spec
=============================================================================
