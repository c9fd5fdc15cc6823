---------------------------- MODULE FetchPipeline ----------------------------
(***************************************************************************)
(* src/cli/install.rs, the streaming install: while the resolver places    *)
(* packages, download workers fetch their artifacts, extract workers       *)
(* unpack them into store images, and the volume stager clones the images  *)
(* into the tree of the graph volume.  The stages are joined by channels:  *)
(*                                                                         *)
(*   resolver -units-> downloaders -handoff-> extractors -staged-> stager  *)
(*                                                                         *)
(* `units` and `handoff` are bounded, `staged` is not.  Two installs are   *)
(* modelled: run_streaming_async_install, whose sink never blocks, keeps   *)
(* an overflow list and sends speculative hints too, and which has the     *)
(* stager; and run_streaming_install, whose sink blocks when the channel   *)
(* is full (run_install sends its finished list the same way).             *)
(*                                                                         *)
(* The mutex around each receiver only serialises the workers, so taking a *)
(* message is one step.  Workers do not panic here, so extractors outlive  *)
(* every downloader and `extraction_gone` stays FALSE.                     *)
(***************************************************************************)
EXTENDS VolumeStager, FiniteSets

CONSTANTS
    ArtifactOf,     \* ArtifactOf[u]: the artifact of a placed unit
    Hints,          \* artifacts that metadata lookahead may guess
    Downloaders, Extractors,
    Nothing,        \* no work: a value different from every unit, hint and message
    UnitCap,        \* room in the unit channel (2 * download_workers)
    HandoffCap,     \* room in the handoff channel (2 * extract_workers)
    Floor           \* the governor's smallest width (4 in the code)

Width == Cardinality(Downloaders)
Least == IF Width < Floor THEN Width ELSE Floor

ASSUME PipelineAssumption ==
    /\ IsFiniteSet(Downloaders) /\ Downloaders # {} /\ Extractors # {}
    /\ UnitCap \in Nat \ {0} /\ HandoffCap \in Nat \ {0}
    /\ Floor \in Nat \ {0}
    /\ Hints \cap Units = {}
    /\ Nothing \notin Units \cup Hints

VARIABLES
    sink,       \* which of the two installs this is
    main,       \* the thread that resolves, sends, joins
    toPlace,    \* units the resolver has not placed yet
    overflow,   \* units that met a full channel
    prefetched, \* artifacts whose hint was sent
    units,      \* the unit channel
    limit, inFlight,    \* the download governor
    dpc, item,  \* each downloader and the work it has
    handoff,    \* the channel to the extractors
    epc, pending,       \* each extractor and the message it has
    firstError, \* the extractors that saw a failure
    images,     \* artifacts with an extracted image in the store
    fresh,      \* the ones among them this install extracted
    outcomes,   \* the units with a FetchOutcome
    staged, stager, spc,    \* the channel to the stager, and the stager
    faulty,     \* a placed unit could not be fetched or extracted
    result      \* what the install reports

resolverVars == <<toPlace, overflow, prefetched>>
downloadVars == <<limit, inFlight, dpc, item>>
extractVars == <<epc, pending, firstError, images, fresh, outcomes>>
stagerVars == <<staged, stager, spc>>
vars == <<sink, main, resolverVars, units, downloadVars, handoff, extractVars,
          stagerVars, faulty, result>>

Work == Units \cup Hints
Artifact(w) == IF w \in Units THEN ArtifactOf[w] ELSE w
Message == [work : Work, ok : BOOLEAN]

TypeOK ==
    /\ sink \in {"async", "blocking"}
    /\ main \in {"resolve", "drain", "join", "end"}
    /\ toPlace \subseteq Units
    /\ overflow \in Seq(Units) /\ prefetched \subseteq Hints
    /\ units \in Seq(Work) /\ Len(units) <= UnitCap
    /\ limit \in Least .. Width
    /\ inFlight \in 0 .. Width
    /\ dpc \in [Downloaders -> {"recv", "slot", "fetch", "send", "done"}]
    /\ item \in [Downloaders -> Message \cup {Nothing}]
    /\ handoff \in Seq(Message) /\ Len(handoff) <= HandoffCap
    /\ epc \in [Extractors -> {"recv", "extract", "done"}]
    /\ pending \in [Extractors -> Work \cup {Nothing}]
    /\ firstError \subseteq Extractors
    /\ fresh \subseteq images /\ outcomes \subseteq Units
    /\ staged \in Seq(Units \X BOOLEAN) /\ StagerType(stager)
    /\ spc \in {"run", "done"} /\ faulty \in BOOLEAN
    /\ result \in {"none", "unresolved", "failed", "gap", "ok"}

Init ==
    /\ sink \in {"async", "blocking"}
    /\ main = "resolve" /\ toPlace = Units
    /\ overflow = <<>> /\ prefetched = {} /\ units = <<>>
    /\ limit = Width /\ inFlight = 0
    /\ dpc = [d \in Downloaders |-> "recv"]
    /\ item = [d \in Downloaders |-> Nothing]
    /\ handoff = <<>>
    /\ epc = [e \in Extractors |-> "recv"]
    /\ pending = [e \in Extractors |-> Nothing]
    /\ firstError = {} /\ fresh = {} /\ outcomes = {}
    /\ images \in SUBSET ({ArtifactOf[u] : u \in Units} \cup Hints)
    /\ staged = <<>> /\ stager = NewStager
    /\ spc = IF sink = "async" THEN "run" ELSE "done"
    /\ faulty = FALSE /\ result = "none"

-----------------------------------------------------------------------------
(* The resolver and the install's main thread *)

Room == Len(units) < UnitCap

\* Mutant: a unit that meets a full channel is dropped like a hint.
EmitLossy(u) ==
    /\ main = "resolve" /\ u \in toPlace /\ Above[u] \cap toPlace = {}
    /\ toPlace' = toPlace \ {u}
    /\ units' = IF Room THEN Append(units, u) ELSE units
    /\ UNCHANGED <<sink, main, overflow, prefetched, downloadVars, handoff,
                   extractVars, stagerVars, faulty, result>>

\* announce and emit: a package is placed after the packages it is nested in.
\* TryChannelSink keeps what does not fit, ChannelSink waits for room.
Emit(u) ==
    /\ main = "resolve" /\ u \in toPlace /\ Above[u] \cap toPlace = {}
    /\ toPlace' = toPlace \ {u}
    /\ \/ Room /\ units' = Append(units, u) /\ UNCHANGED overflow
       \/ /\ sink = "async" /\ ~Room
          /\ overflow' = Append(overflow, u) /\ UNCHANGED units
    /\ UNCHANGED <<sink, main, prefetched, downloadVars, handoff, extractVars,
                   stagerVars, faulty, result>>

\* TryChannelSink::prefetch; a hint that does not fit gives its claim back.
Prefetch(a) ==
    /\ main = "resolve" /\ sink = "async" /\ a \in Hints \ prefetched
    /\ Room /\ units' = Append(units, a)
    /\ prefetched' = prefetched \cup {a}
    /\ UNCHANGED <<sink, main, toPlace, overflow, downloadVars, handoff,
                   extractVars, stagerVars, faulty, result>>

\* Resolution ends with a lockfile, or with an error that drops the sender
\* and leaves the scope to wait for the workers.
Resolved ==
    /\ main = "resolve" /\ toPlace = {}
    /\ main' = "drain"
    /\ UNCHANGED <<sink, resolverVars, units, downloadVars, handoff, extractVars,
                   stagerVars, faulty, result>>

ResolutionFails ==
    /\ main = "resolve"
    /\ main' = "end" /\ result' = "unresolved"
    /\ UNCHANGED <<sink, resolverVars, units, downloadVars, handoff, extractVars,
                   stagerVars, faulty>>

\* The blocking send of the overflowed units; then the sender is dropped.
SendOverflow ==
    /\ main = "drain" /\ overflow # <<>>
    /\ Room /\ units' = Append(units, Head(overflow))
    /\ overflow' = Tail(overflow)
    /\ UNCHANGED <<sink, main, toPlace, prefetched, downloadVars, handoff,
                   extractVars, stagerVars, faulty, result>>

CloseUnits ==
    /\ main = "drain" /\ overflow = <<>>
    /\ main' = "join"
    /\ UNCHANGED <<sink, resolverVars, units, downloadVars, handoff, extractVars,
                   stagerVars, faulty, result>>

AllDone(pc) == \A t \in DOMAIN pc : pc[t] = "done"

\* join_pipeline, and assert_outcomes_complete in the asynchronous install.
Join ==
    /\ main = "join" /\ AllDone(dpc) /\ AllDone(epc)
    /\ main' = "end"
    /\ result' = IF firstError # {} THEN "failed"
                 ELSE IF sink = "async" /\ outcomes # Units THEN "gap" ELSE "ok"
    /\ UNCHANGED <<sink, resolverVars, units, downloadVars, handoff, extractVars,
                   stagerVars, faulty>>

-----------------------------------------------------------------------------
(* Download workers *)

Closed == main \in {"join", "end"}

Receive(d) ==
    /\ dpc[d] = "recv" /\ units # <<>>
    /\ units' = Tail(units)
    /\ item' = [item EXCEPT ![d] = [work |-> Head(units), ok |-> TRUE]]
    /\ dpc' = [dpc EXCEPT ![d] = "slot"]
    /\ UNCHANGED <<sink, main, resolverVars, limit, inFlight, handoff, extractVars,
                   stagerVars, faulty, result>>

DownloaderEnds(d) ==
    /\ dpc[d] = "recv" /\ units = <<>> /\ Closed
    /\ dpc' = [dpc EXCEPT ![d] = "done"]
    /\ UNCHANGED <<sink, main, resolverVars, units, limit, inFlight, item, handoff,
                   extractVars, stagerVars, faulty, result>>

\* DownloadGovernor::acquire; the compare_exchange makes the count exact.
AcquireSlot(d) ==
    /\ dpc[d] = "slot" /\ inFlight < limit
    /\ inFlight' = inFlight + 1
    /\ dpc' = [dpc EXCEPT ![d] = "fetch"]
    /\ UNCHANGED <<sink, main, resolverVars, units, limit, item, handoff,
                   extractVars, stagerVars, faulty, result>>

Halved == IF limit \div 2 > Least THEN limit \div 2 ELSE Least

\* DownloadGovernor::release after a network download: latency may have
\* ballooned, or be healthy again, or no evaluation is due.
NewLimits == {limit, Halved} \cup {n \in {limit + 1} : n <= Width}

\* Mutant: a speculative failure is handed on like any other.
FetchedHintsCount(d) ==
    /\ dpc[d] = "fetch"
    /\ inFlight' = inFlight - 1
    /\ \E ok \in BOOLEAN :
        /\ item' = [item EXCEPT ![d].ok = ok]
        /\ limit' \in IF ok THEN NewLimits ELSE {limit}
        /\ dpc' = [dpc EXCEPT ![d] = "send"]
        /\ faulty' = (faulty \/ (~ok /\ item[d].work \in Units))
    /\ UNCHANGED <<sink, main, resolverVars, units, handoff, extractVars,
                   stagerVars, result>>

\* Mutant: an error returns early, before the slot is given back.
FetchedLeakingSlot(d) ==
    /\ dpc[d] = "fetch"
    /\ \E ok \in BOOLEAN :
        LET forgotten == ~ok /\ item[d].work \in Hints IN
        /\ inFlight' = IF ok THEN inFlight - 1 ELSE inFlight
        /\ item' = [item EXCEPT ![d] = IF forgotten THEN Nothing ELSE [@ EXCEPT !.ok = ok]]
        /\ limit' \in IF ok THEN NewLimits ELSE {limit}
        /\ dpc' = [dpc EXCEPT ![d] = IF forgotten THEN "recv" ELSE "send"]
        /\ faulty' = (faulty \/ (~ok /\ ~forgotten))
    /\ UNCHANGED <<sink, main, resolverVars, units, handoff, extractVars,
                   stagerVars, result>>

\* ensure_artifact returns; the slot is given back either way, and a failed
\* hint is forgotten.
Fetched(d) ==
    /\ dpc[d] = "fetch"
    /\ inFlight' = inFlight - 1
    /\ \E ok \in BOOLEAN :
        LET forgotten == ~ok /\ item[d].work \in Hints IN
        /\ item' = [item EXCEPT ![d] = IF forgotten THEN Nothing ELSE [@ EXCEPT !.ok = ok]]
        /\ limit' \in IF ok THEN NewLimits ELSE {limit}
        /\ dpc' = [dpc EXCEPT ![d] = IF forgotten THEN "recv" ELSE "send"]
        /\ faulty' = (faulty \/ (~ok /\ ~forgotten))
    /\ UNCHANGED <<sink, main, resolverVars, units, handoff, extractVars,
                   stagerVars, result>>

Send(d) ==
    /\ dpc[d] = "send" /\ Len(handoff) < HandoffCap
    /\ handoff' = Append(handoff, item[d])
    /\ item' = [item EXCEPT ![d] = Nothing]
    /\ dpc' = [dpc EXCEPT ![d] = "recv"]
    /\ UNCHANGED <<sink, main, resolverVars, units, limit, inFlight, extractVars,
                   stagerVars, faulty, result>>

-----------------------------------------------------------------------------
(* Extract workers *)

\* After an error a worker goes on receiving, and drops what it receives.
Take(e) ==
    /\ epc[e] = "recv" /\ handoff # <<>>
    /\ handoff' = Tail(handoff)
    /\ LET m == Head(handoff) IN
        IF m.ok /\ e \notin firstError
        THEN /\ epc' = [epc EXCEPT ![e] = "extract"]
             /\ pending' = [pending EXCEPT ![e] = m.work]
             /\ UNCHANGED firstError
        ELSE /\ firstError' = firstError \cup {e}
             /\ UNCHANGED <<epc, pending>>
    /\ UNCHANGED <<sink, main, resolverVars, units, downloadVars, images, fresh,
                   outcomes, stagerVars, faulty, result>>

ExtractorEnds(e) ==
    /\ epc[e] = "recv" /\ handoff = <<>> /\ AllDone(dpc)
    /\ epc' = [epc EXCEPT ![e] = "done"]
    /\ UNCHANGED <<sink, main, resolverVars, units, downloadVars, handoff, pending,
                   firstError, images, fresh, outcomes, stagerVars, faulty, result>>

\* ensure_image under the image's lock, then the outcome and the hand-off to
\* the stager, which is passed `image.cached`.
Extracted(e) ==
    LET w == pending[e]
        cached == Artifact(w) \in images
    IN
    /\ epc[e] = "extract"
    /\ images' = images \cup {Artifact(w)}
    /\ fresh' = IF cached THEN fresh ELSE fresh \cup {Artifact(w)}
    /\ outcomes' = outcomes \cup ({w} \cap Units)
    /\ staged' = IF w \in Units /\ sink = "async" THEN Append(staged, <<w, cached>>) ELSE staged
    /\ epc' = [epc EXCEPT ![e] = "recv"]
    /\ pending' = [pending EXCEPT ![e] = Nothing]
    /\ UNCHANGED <<sink, main, resolverVars, units, downloadVars, handoff,
                   firstError, stager, spc, faulty, result>>

\* An extraction error counts when the unit is placed.
ExtractionFails(e) ==
    LET placed == pending[e] \in Units IN
    /\ epc[e] = "extract"
    /\ firstError' = IF placed THEN firstError \cup {e} ELSE firstError
    /\ faulty' = (faulty \/ placed)
    /\ epc' = [epc EXCEPT ![e] = "recv"]
    /\ pending' = [pending EXCEPT ![e] = Nothing]
    /\ UNCHANGED <<sink, main, resolverVars, units, downloadVars, handoff, images,
                   fresh, outcomes, stagerVars, result>>

-----------------------------------------------------------------------------
(* The stager's thread: it ends when every extractor's sender is gone *)

StageNext ==
    /\ spc = "run" /\ staged # <<>>
    /\ staged' = Tail(staged)
    /\ LET after == Stage(stager, Head(staged)[1], Head(staged)[2]) IN
        stager' \in {after} \cup (IF Touches(stager, after) THEN {Dead} ELSE {})
    /\ UNCHANGED <<sink, main, resolverVars, units, downloadVars, handoff,
                   extractVars, spc, faulty, result>>

StagerEnds ==
    /\ spc = "run" /\ staged = <<>> /\ AllDone(epc)
    /\ LET after == Finish(stager) IN
        stager' \in {after} \cup (IF Touches(stager, after) THEN {Dead} ELSE {})
    /\ spc' = "done"
    /\ UNCHANGED <<sink, main, resolverVars, units, downloadVars, handoff,
                   extractVars, staged, faulty, result>>

-----------------------------------------------------------------------------
MainStep ==
    \/ \E u \in Units : Emit(u)
    \/ Resolved \/ ResolutionFails \/ SendOverflow \/ CloseUnits \/ Join

DownloaderStep(d) ==
    Receive(d) \/ DownloaderEnds(d) \/ AcquireSlot(d) \/ Fetched(d) \/ Send(d)

ExtractorStep(e) == Take(e) \/ ExtractorEnds(e) \/ Extracted(e) \/ ExtractionFails(e)

StagerStep == StageNext \/ StagerEnds

Next ==
    \/ MainStep
    \/ \E a \in Hints : Prefetch(a)
    \/ \E d \in Downloaders : DownloaderStep(d)
    \/ \E e \in Extractors : ExtractorStep(e)
    \/ StagerStep

\* Threads run, requests and extractions end (the HTTP client has time-outs),
\* and resolution ends; nobody has to send a hint.
Fairness ==
    /\ WF_vars(MainStep) /\ WF_vars(StagerStep)
    /\ \A d \in Downloaders : WF_vars(DownloaderStep(d))
    /\ \A e \in Extractors : WF_vars(ExtractorStep(e))

Spec == Init /\ [][Next]_vars
FairSpec == Spec /\ Fairness

-----------------------------------------------------------------------------
(* Properties *)

ScopeEnds == main = "end" /\ AllDone(dpc) /\ AllDone(epc) /\ spc = "done"

\* The install reports a failure exactly when a placed package could not be
\* fetched or extracted: speculation never fails an install, and no failed
\* package is lost between the workers (cli/install.rs:1664).
FailuresAreReal == result \in {"ok", "gap", "failed"} => (result = "failed") = faulty

\* A resolved install whose packages could all be fetched has an outcome for
\* each of them, whatever channels were full: the internal error of
\* assert_outcomes_complete never comes up (cli/install.rs:2239).
NothingDropped ==
    /\ result # "gap"
    /\ result = "ok" => outcomes = Units

\* Every placed package is fetched, or the install fails for one that was not.
OutcomesExact == FailuresAreReal /\ NothingDropped

\* A pre-staged tree that the volume build would adopt has the files of every
\* package in it, in whatever order the extractors finished (volume.rs:795).
AdoptedTreeWhole ==
    result = "ok" /\ spc = "done" /\ Usable(stager, outcomes) => stager.tree = outcomes

\* When every image was a cache hit the stager stays dormant (volume.rs:789).
DormantOnCacheHits == spc = "done" /\ fresh = {} => ~stager.active

\* Every install comes to an end with all its threads, although channels are
\* bounded and workers fail (cli/install.rs:1532).
EveryThreadEnds == <>ScopeEnds

=============================================================================
