---------------------------- MODULE BrowserSession ----------------------------
(* The signed-in page: one AuthSession (auth/session.ts) holds the tokens and renews
   them; every API request (api/request.ts, api/client.ts) carries the access token
   and, refused with it, joins the one refresh and is sent once more. A page signs
   in once: signing in again loads a new page. Source paths are below
   meridian/frontend/src. *)
EXTENDS Naturals, Sequences

CONSTANTS Requests,   \* the requests the page makes
          Streams,    \* those answered as an event stream
          Greets,     \* the server opens a stream with a status frame of its own
          MaxTokens,  \* bound on access tokens
          MaxFaults   \* bound on hiccups, refusals of the grant and lost headers

SessionAssumption == /\ Streams \subseteq Requests /\ Greets \in BOOLEAN
                     /\ MaxTokens \in Nat \ {0} /\ MaxFaults \in Nat

VARIABLES status, tokens, gen, inflight, timer,  \* AuthSession
          calls,       \* the generations of the token requests in flight
          refreshing, signedOut,  \* of api/request.ts
          req,         \* each request, from its first byte to what the page shows
          dead,        \* the access tokens the API takes for expired
          left,        \* the person signed out
          faults
session == <<status, tokens, gen, inflight, timer, signedOut>>
vars == <<session, calls, refreshing, req, dead, left, faults>>

None   == 0
Tokens == 1..MaxTokens
Ends   == {"answered", "ended", "asked", "gaveup"}
Waits  == {"waiting", "renewed", "denied"}
Wire   == {"sent", "resent", "reading"}
Idle   == [at |-> "idle", tok |-> None, first |-> None, used |-> None, from |-> "http", code |-> "expired",
           attempt |-> 0, heard |-> FALSE, spoke |-> FALSE, over |-> FALSE, runs |-> 0]

Init == /\ status = "signing" /\ tokens = None /\ gen = 0 /\ inflight = FALSE /\ timer = FALSE
        /\ calls = <<>> /\ refreshing = FALSE /\ signedOut = FALSE
        /\ req = [r \in Requests |-> Idle]
        /\ dead = {} /\ left = FALSE /\ faults = 0

Fault == faults < MaxFaults /\ faults' = faults + 1
\* Whatever the session was doing no longer counts.
SignedOut == /\ status' = "out" /\ tokens' = None /\ gen' = gen + 1
             /\ inflight' = FALSE /\ timer' = FALSE
EndSession == IF signedOut THEN UNCHANGED session ELSE SignedOut /\ signedOut' = TRUE
ApplyTokens(t) == /\ status' = "in" /\ tokens' = t /\ timer' = TRUE
                  /\ UNCHANGED <<gen, signedOut>>

-----------------------------------------------------------------------------
(* AuthSession. *)
SignIn == /\ status = "signing"
          /\ \/ ApplyTokens(1) /\ UNCHANGED inflight
             \/ SignedOut /\ UNCHANGED signedOut     \* refused, or no traveler in the token
          /\ UNCHANGED <<calls, refreshing, req, dead, left, faults>>
\* Mutant: every caller starts a refresh of its own.
RefreshAlone == tokens # None /\ calls' = Append(calls, gen) /\ inflight' = TRUE
RefreshNow == /\ tokens # None
              /\ calls' = IF inflight THEN calls ELSE Append(calls, gen)
              /\ inflight' = TRUE
\* The timer, or the tab shown again with a minute left.
Renews == /\ status = "in" /\ tokens < MaxTokens
          /\ RefreshNow
          /\ timer' = FALSE
          /\ UNCHANGED <<status, tokens, gen, signedOut, refreshing, req, dead, left, faults>>
TimerFires == timer /\ Renews
TabShown   == ~inflight /\ Renews
SignOut == /\ status # "out"
           /\ SignedOut /\ UNCHANGED signedOut
           /\ left' = TRUE
           /\ UNCHANGED <<calls, refreshing, req, dead, faults>>

\* A refresh ends: whoever waits for it learns whether the page has a token now.
Told == IF refreshing
        THEN [r \in Requests |-> IF req[r].at = "waiting"
                THEN [req[r] EXCEPT !.at = IF tokens' # None THEN "renewed" ELSE "denied"]
                ELSE req[r]]
        ELSE req
AnswerCounts == Head(calls) = gen
Answered == /\ calls' = Tail(calls)
            /\ refreshing' = FALSE /\ req' = Told
            /\ UNCHANGED <<dead, left>>
Renewed == /\ calls # <<>>
           /\ IF AnswerCounts
              THEN /\ tokens < MaxTokens /\ ApplyTokens(tokens + 1)
                   /\ inflight' = FALSE
              ELSE UNCHANGED session
           /\ Answered
           /\ UNCHANGED faults
\* Mutant: a failed refresh arms no timer.
NoRetry == UNCHANGED timer
Retry == timer' = TRUE
\* A refusal ends the session; a hiccup retries until the token has really expired.
RefreshFails(refused) ==
  /\ calls # <<>>
  /\ IF ~AnswerCounts THEN UNCHANGED session
     ELSE \E expired \in {FALSE} \cup {x \in {TRUE} : tokens \in dead} :
            IF refused \/ expired THEN SignedOut /\ UNCHANGED signedOut
            ELSE Retry /\ inflight' = FALSE /\ UNCHANGED <<status, tokens, gen, signedOut>>
  /\ Answered /\ Fault

-----------------------------------------------------------------------------
(* Requests. *)
Send(r) == /\ req[r].at = "idle" /\ status = "in"
           /\ req' = [req EXCEPT ![r] = [Idle EXCEPT !.at = "sent", !.tok = tokens, !.first = tokens]]
           /\ UNCHANGED <<session, calls, refreshing, dead, left, faults>>
Accept(r) ==
  /\ req[r].at \in {"sent", "resent"} /\ req[r].tok \notin dead \cup {None}
  /\ req' = [req EXCEPT ![r] =
       IF r \in Streams
       THEN [@ EXCEPT !.at = "reading", !.runs = req[r].runs + 1, !.used = req[r].tok, !.tok = tokens]
       ELSE [@ EXCEPT !.at = "answered"]]
  /\ UNCHANGED <<session, calls, refreshing, dead, left, faults>>

\* One refresh serves every request refused with the same token.
RefreshOnce(r, tok, from, code) ==
  LET answer(at) == req' = [req EXCEPT ![r] = [@ EXCEPT !.at = at, !.from = from, !.code = code]]
  IN  /\ \/ tokens \notin {None, tok} /\ answer("renewed") /\ UNCHANGED <<calls, inflight, refreshing>>
         \/ /\ tokens = tok /\ tokens # None /\ answer("waiting")
            /\ refreshing' = TRUE
            /\ IF refreshing THEN UNCHANGED <<calls, inflight>> ELSE RefreshNow
         \/ /\ tokens = None
            /\ answer(IF refreshing THEN "waiting" ELSE "denied") /\ UNCHANGED <<calls, inflight, refreshing>>
      /\ UNCHANGED <<status, tokens, gen, timer, signedOut>>
End(r, how) == req' = [req EXCEPT ![r].at = how]
EndsWith(r, how) == End(r, how) /\ EndSession /\ UNCHANGED <<calls, refreshing>>

\* A 401: the token expired, or (sign_in_required) it never reached the backend.
Refuse(r, code) ==
  /\ req[r].at \in {"sent", "resent"}
  /\ IF code = "required" THEN tokens # MaxTokens /\ Fault
     ELSE req[r].tok \in dead \cup {None} /\ UNCHANGED faults
  /\ IF req[r].at = "resent" THEN EndsWith(r, "ended")
     ELSE RefreshOnce(r, req[r].tok, "http", code)
  /\ UNCHANGED <<dead, left>>
Headers(r) == tokens
Resume(r) ==
  /\ req[r].at \in {"renewed", "denied"}
  /\ IF req[r].code = "required" \/ (req[r].at = "denied" /\ req[r].from = "stream")
     THEN EndsWith(r, "ended")
     ELSE /\ req' = [req EXCEPT ![r] =
               IF req[r].at = "denied" THEN [@ EXCEPT !.at = "ended"]
               ELSE IF req[r].over THEN [@ EXCEPT !.at = "gaveup"]
               ELSE IF req[r].from = "http" THEN [@ EXCEPT !.at = "resent", !.tok = Headers(r)]
               ELSE [@ EXCEPT !.at = "sent", !.tok = Headers(r), !.attempt = 1]]
          /\ UNCHANGED <<session, calls, refreshing>>
  /\ UNCHANGED <<dead, left, faults>>

\* The frames of a stream: the server's own, what the turn publishes, the last one.
Greet(r) == /\ Greets /\ req[r].at = "reading" /\ ~req[r].heard
            /\ req' = [req EXCEPT ![r].heard = TRUE]
            /\ UNCHANGED <<session, calls, refreshing, dead, left, faults>>
Framed(r) == req[r].at = "reading" /\ (Greets => req[r].heard)
Speak(r) == /\ Framed(r)
            /\ req' = [req EXCEPT ![r] = [@ EXCEPT !.heard = TRUE, !.spoke = TRUE]]
            /\ UNCHANGED <<session, calls, refreshing, dead, left, faults>>
Complete(r) == /\ Framed(r)
               /\ End(r, "answered")
               /\ UNCHANGED <<session, calls, refreshing, dead, left, faults>>
ContentDelivered(r) == req[r].heard
StreamExpired(r) ==
  /\ Framed(r) /\ req[r].used \in dead
  /\ \/ /\ ContentDelivered(r) /\ End(r, "asked")
        /\ IF refreshing \/ tokens # req[r].tok \/ tokens = None
           THEN UNCHANGED <<session, calls, refreshing>>
           ELSE RefreshNow /\ refreshing' = TRUE /\ UNCHANGED <<status, tokens, gen, timer, signedOut>>
     \/ ~ContentDelivered(r) /\ req[r].attempt > 0 /\ EndsWith(r, "ended")
     \/ ~ContentDelivered(r) /\ req[r].attempt = 0 /\ RefreshOnce(r, req[r].tok, "stream", "expired")
  /\ UNCHANGED <<dead, left, faults>>
StreamRequired(r) == /\ Framed(r) /\ tokens # MaxTokens /\ Fault
                     /\ RefreshOnce(r, req[r].tok, "stream", "required")
                     /\ UNCHANGED <<dead, left>>

Capped(r) == req[r].at \in Wire \cup Waits
\* The idle limit, the hard cap or the person: the wait is over, the fetch aborted.
GiveUp(r) == /\ Capped(r) /\ ~req[r].over
             /\ req' = [req EXCEPT ![r] = IF @.at \in Wire THEN [@ EXCEPT !.at = "gaveup"]
                                          ELSE [@ EXCEPT !.over = TRUE]]
             /\ UNCHANGED <<session, calls, refreshing, dead, left, faults>>

\* A token lives for minutes, a request for less than two: none outlives a token that
\* was issued after it started.
Expire(t) == /\ tokens # None /\ t \in 1..tokens \ dead /\ t < MaxTokens
             /\ \A r \in Requests : req[r].at \in Wire \cup Waits => req[r].first >= t
             /\ dead' = dead \cup {t}
             /\ UNCHANGED <<session, calls, refreshing, req, left, faults>>

Works(r) == \/ Send(r) \/ Accept(r) \/ Resume(r)
            \/ \E code \in {"expired", "required"} : Refuse(r, code)
            \/ Greet(r) \/ Speak(r) \/ Complete(r)
            \/ StreamExpired(r) \/ StreamRequired(r) \/ GiveUp(r)
Next == \/ SignIn \/ TimerFires \/ TabShown \/ SignOut \/ Renewed
        \/ \E refused \in BOOLEAN : RefreshFails(refused)
        \/ \E r \in Requests : Works(r)
        \/ \E t \in Tokens : Expire(t)
Spec == Init /\ [][Next]_vars

-----------------------------------------------------------------------------
TypeOK ==
  /\ status \in {"signing", "in", "out"} /\ tokens \in Tokens \cup {None} /\ gen \in Nat
  /\ inflight \in BOOLEAN /\ timer \in BOOLEAN /\ refreshing \in BOOLEAN /\ signedOut \in BOOLEAN
  /\ (status = "in") <=> (tokens # None)
  /\ \A r \in Requests : /\ req[r].at \in {"idle"} \cup Wire \cup Waits \cup Ends
                         /\ req[r].runs \in 0..2
  /\ dead \subseteq Tokens /\ faults \in 0..MaxFaults

\* A session that ended stays ended: no answer that was under way brings it back.
StaysOut == status = "out" => status' = "out"
EndedStaysEnded == [][StaysOut]_vars

\* "One expiry never sends two requests": the timer, the tab and any number of
\* refused requests share one refresh.
OneRefresh == Len(calls) <= 1

\* However many requests expire and in whatever order their refusals arrive, the
\* requests end the session only when the person or a fault ended it.
KeptUnlessRefused == signedOut /\ ~left => faults > 0

\* The server starts the work of a stream again only if the person saw nothing of
\* the first run, and at most once.
RunsAgain == \A r \in Requests : req'[r].runs > req[r].runs /\ req[r].runs > 0
                                 => ~req[r].heard /\ req[r].runs = 1
RunsAgainUnheard == [][RunsAgain]_vars

\* "A token that expires inside the stream is refreshed and the request is sent again
\* once, but only if nothing reached the caller yet": the person is asked to send it
\* again only after the turn has said something.
AskedOnlyAfterSpeech == \A r \in Requests : req[r].at = "asked" => req[r].spoke

RefreshAnswered == Renewed \/ \E refused \in BOOLEAN : RefreshFails(refused)
Awaited(r) == req[r].at \in Wire \cup Waits
Ended(r) == req[r].over \/ req[r].at \in Ends
Expired == tokens \in dead
-----------------------------------------------------------------------------
(* The inductive invariant: a session that ended stays ended because its generation *)
(* is over, and a request that was renewed has a token later than its first one,    *)
(* which cannot have expired before it.                                             *)

Rows == [at : {"idle"} \cup Wire \cup Waits \cup Ends, tok : Tokens \cup {None},
         first : Tokens \cup {None}, used : Tokens \cup {None}, from : {"http", "stream"},
         code : {"expired", "required"}, attempt : {0, 1}, heard : BOOLEAN, spoke : BOOLEAN,
         over : BOOLEAN, runs : 0..2]
SessionTyped ==
  /\ status \in {"signing", "in", "out"} /\ tokens \in Tokens \cup {None} /\ gen \in Nat
  /\ inflight \in BOOLEAN /\ timer \in BOOLEAN /\ refreshing \in BOOLEAN
  /\ signedOut \in BOOLEAN /\ left \in BOOLEAN /\ dead \subseteq Tokens /\ faults \in 0..MaxFaults

\* A token request in flight is of the first generation, the only one with tokens.
OneCall ==
  /\ calls \in {<<>>, <<0>>}
  /\ status = "in" <=> tokens # None
  /\ tokens # None => \A t \in dead : t <= tokens
  /\ status = "out" <=> gen # 0
  /\ status = "signing" => calls = <<>> /\ dead = {}
  /\ inflight => status = "in" /\ calls # <<>>
  /\ status = "in" /\ calls # <<>> => inflight

Blame == left \/ faults > 0
OutIsBlamed == /\ status = "signing" => \A r \in Requests : req[r].at = "idle"
               /\ status = "out" => Blame \/ \A r \in Requests : req[r].at = "idle"

\* A request that may still be sent has had no run that anyone heard, and one at most.
RunsFit(q) ==
  /\ q.runs <= q.attempt + 1
  /\ q.at \in {"sent", "resent"} => q.runs <= q.attempt /\ ~q.heard
  /\ q.at \in Waits /\ q.code = "expired" =>
       /\ ~q.heard
       /\ IF q.from = "http" THEN q.runs <= q.attempt ELSE q.attempt = 0

\* Unless the person or a fault is to blame, what a request is sent again with is later
\* than the token it was first sent with; no token that expired is.
TokensFit(q) ==
  /\ q.code = "required" => faults > 0
  /\ q.at \in Wire \cup Waits =>
       /\ q.first # None /\ \A t \in dead : t <= q.first
       /\ tokens # None => q.first <= tokens /\ q.tok <= tokens
       /\ q.tok >= q.first \/ Blame
  /\ q.at = "waiting" => refreshing
  /\ q.at = "denied" => Blame
  /\ q.at = "renewed" => tokens > q.first \/ Blame
  /\ q.at = "resent" \/ (q.at = "sent" /\ q.attempt = 1) => q.tok > q.first \/ Blame
  /\ q.at = "reading" /\ q.attempt = 1 => q.used > q.first \/ Blame
RequestsTyped == req \in [Requests -> Rows]
AllFit == \A r \in Requests : RunsFit(req[r]) /\ TokensFit(req[r])

IInv == /\ SessionTyped /\ OneCall /\ OutIsBlamed /\ RequestsTyped /\ AllFit
        /\ KeptUnlessRefused
=============================================================================
