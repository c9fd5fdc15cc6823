----------------------------- MODULE HttpClient -----------------------------
(***************************************************************************)
(* src/http/mod.rs and src/http/retry.rs: what one call of the client does *)
(* against a server whose answers are a script, one per request it gets.   *)
(* An answer is a kind: "ok" (status below 400), "redirect" to a url,      *)
(* "misdirect" (no usable Location), "busy" (408, 429, 5xx), "lost"        *)
(* (connect failure or timeout), "refused" (another 4xx), "broken"         *)
(* (another transport error).  A url is a number; its origin is its half.  *)
(***************************************************************************)
EXTENDS Naturals, Sequences, SequencesExt

Origin(url) == url \div 2
IsRetryable(answer) == answer.kind \in {"busy", "lost"}

Pending == "pending"
OpenGet(url) ==
    [out |-> Pending, current |-> url, visited |-> {}, hop |-> 0, attempt |-> 1, sent |-> <<>>]

(* Mutant: a redirected request starts over with fresh bookkeeping. *)
FollowForgetting(call, target, maxHops) ==
    IF call.hop >= maxHops THEN [call EXCEPT !.out = "hops"]
    ELSE IF target \in call.visited THEN [call EXCEPT !.out = "loop"]
    ELSE [call EXCEPT !.current = target, !.visited = {}]

(* A redirect: the hop limit, then the next url, which must be new.        *)
Follow(call, target, maxHops) ==
    IF call.hop >= maxHops THEN [call EXCEPT !.out = "hops"]
    ELSE IF target \in call.visited THEN [call EXCEPT !.out = "loop"]
    ELSE [call EXCEPT !.current = target, !.hop = @ + 1]

(* execute_get: one request and its answer.  The caller's headers go only  *)
(* to the origin of the first url.  A retry starts at the first url.       *)
GetStep(call, answer, url, attempts, maxHops) ==
    LET request == [url |-> call.current, attempt |-> call.attempt,
                    headers |-> call.hop = 0 \/ Origin(call.current) = Origin(url)]
        asked == [call EXCEPT !.visited = @ \cup {call.current}, !.sent = Append(@, request)]
    IN  IF call.out # Pending THEN call
        ELSE CASE answer.kind = "redirect" -> Follow(asked, answer.to, maxHops)
               [] answer.kind = "misdirect" -> [asked EXCEPT !.out = "misdirect"]
               [] answer.kind = "ok" -> [asked EXCEPT !.out = "ok"]
               [] IsRetryable(answer) /\ call.attempt < attempts ->
                    [asked EXCEPT !.current = url, !.visited = {}, !.hop = 0, !.attempt = @ + 1]
               [] OTHER -> [asked EXCEPT !.out = answer.kind]

ExecuteGet(url, script, attempts, maxHops) ==
    FoldLeft(LAMBDA call, answer : GetStep(call, answer, url, attempts, maxHops),
             OpenGet(url), script)

(* Mutant: once means once more. *)
JsonAttemptsTwice(retries, retry) == IF retry THEN retries + 1 ELSE 2

(* request_json: how often a mutation may be sent. *)
JsonAttempts(retries, retry) == IF retry THEN retries + 1 ELSE 1

(* request_json follows no redirect: a mutation is refused one. *)
RequestJson(url, script, retries, retry) ==
    LET attempts == JsonAttempts(retries, retry)
        Send(call, answer) ==
            LET asked == [call EXCEPT !.sent = Append(@, url)] IN
            IF call.out # Pending THEN call
            ELSE IF IsRetryable(answer) /\ call.attempt < attempts
                 THEN [asked EXCEPT !.attempt = @ + 1]
            ELSE [asked EXCEPT !.out = answer.kind]
    IN  FoldLeft(Send, OpenGet(url), script)

(* Mutant: the server's wish goes before the limit. *)
RetryDelayUnclamped(network, retry, retryAfter) ==
    LET power == network.factor ^ retry
        grown == network.min * IF power > network.width THEN network.width ELSE power
    IN  IF grown > network.max THEN network.max
        ELSE IF grown > retryAfter THEN grown ELSE retryAfter

(* retry_delay: both steps that may overflow saturate.  width stands for   *)
(* u32::MAX, and for the largest Duration divided by it.                   *)
RetryDelay(network, retry, retryAfter) ==
    LET power == network.factor ^ retry
        factor == IF power > network.width THEN network.width ELSE power
        product == network.min * factor
        exponential == IF product > network.width * network.width THEN network.max ELSE product
        requested == IF exponential > retryAfter THEN exponential ELSE retryAfter
    IN  IF requested < network.max THEN requested ELSE network.max

(* read_bounded: what is read of a body, one byte past the limit at most.  *)
ReadBounded(size, limit) ==
    LET consumed == IF size < limit + 1 THEN size ELSE limit + 1
    IN  IF consumed > limit THEN "too large" ELSE "read"

(* Mutant: the origin of the next page is not checked. *)
ListTokensAnywhere(next, foreign, maxPages) ==
    LET Turn(walk, i) ==
            LET page == Last(walk.pages) IN
            IF walk.out # Pending THEN walk
            ELSE IF next[page] = 0 THEN [walk EXCEPT !.out = "ok"]
            ELSE IF Len(walk.pages) >= maxPages THEN [walk EXCEPT !.out = "limit"]
            ELSE [walk EXCEPT !.pages = Append(@, next[page])]
    IN  FoldLeft(Turn, [out |-> Pending, pages |-> <<1>>], [i \in 1 .. maxPages |-> i])

(* list_tokens: pages are numbers, next[p] the page after p, 0 for none;   *)
(* foreign pages are at another origin.  The pages visited are a sequence. *)
ListTokens(next, foreign, maxPages) ==
    LET Turn(walk, i) ==
            LET page == Last(walk.pages) IN
            IF walk.out # Pending THEN walk
            ELSE IF next[page] = 0 THEN [walk EXCEPT !.out = "ok"]
            ELSE IF next[page] \in foreign THEN [walk EXCEPT !.out = "foreign"]
            ELSE IF Len(walk.pages) >= maxPages THEN [walk EXCEPT !.out = "limit"]
            ELSE IF next[page] \in Range(walk.pages) THEN [walk EXCEPT !.out = "cycle"]
            ELSE [walk EXCEPT !.pages = Append(@, next[page])]
    IN  FoldLeft(Turn, [out |-> Pending, pages |-> <<1>>], [i \in 1 .. maxPages |-> i])
-----------------------------------------------------------------------------
(* execute_get ends whatever the server does: each attempt asks for every  *)
(* url at most once and for at most maxHops + 1, an attempt is repeated    *)
(* only after an answer worth it, and the caller's headers stay at the     *)
(* first origin.                                                           *)
GetEnds(url, script, attempts, maxHops) ==
    LET call == ExecuteGet(url, script, attempts, maxHops)
        In(a) == {i \in DOMAIN call.sent : call.sent[i].attempt = a}
    IN  /\ Len(call.sent) <= Len(script)
        /\ Len(script) >= attempts * (maxHops + 1) => call.out # Pending
        /\ \A i, j \in DOMAIN call.sent :
             i < j /\ call.sent[i].attempt = call.sent[j].attempt => call.sent[i].url # call.sent[j].url
        /\ \A i \in DOMAIN call.sent :
             Origin(call.sent[i].url) # Origin(url) => ~call.sent[i].headers
        /\ \A a \in 1 .. call.attempt - 1 : \E i \in In(a) : IsRetryable(script[i])

(* A mutation that must not be repeated (minting a token) is sent once     *)
(* whatever is lost on the way; a repeatable one is repeated only while    *)
(* its answers are lost or busy, and succeeds if an attempt does.          *)
MutationSentOnce(url, script, retries, retry) ==
    LET call == RequestJson(url, script, retries, retry)
    IN  /\ ~retry => Len(call.sent) <= 1
        /\ Len(call.sent) <= retries + 1
        /\ retry /\ (\E i \in DOMAIN script : i <= retries + 1 /\ script[i].kind = "ok"
                       /\ \A j \in 1 .. i - 1 : IsRetryable(script[j])) => call.out = "ok"

(* The wait before a retry is at least what the server asked for and what  *)
(* the backoff grew to, except for the configured maximum, which nothing   *)
(* exceeds, and it never shrinks from one retry to the next.               *)
DelayWithinBounds(network, retry, retryAfter) ==
    LET delay == RetryDelay(network, retry, retryAfter)
    IN  /\ delay <= network.max
        /\ delay < network.max => delay >= retryAfter /\ delay >= network.min
        /\ delay <= RetryDelay(network, retry + 1, retryAfter)

(* A token list is complete or refused: it is returned only when it ends   *)
(* at a page without a successor, every page was read once, and none came  *)
(* from elsewhere.                                                         *)
TokenListComplete(next, foreign, maxPages) ==
    LET walk == ListTokens(next, foreign, maxPages)
    IN  /\ walk.out # Pending
        /\ walk.out = "ok" => /\ next[Last(walk.pages)] = 0
                              /\ Range(walk.pages) \cap foreign = {}
        /\ \A i \in 1 .. Len(walk.pages) - 1 : next[walk.pages[i]] = walk.pages[i + 1]
=============================================================================
