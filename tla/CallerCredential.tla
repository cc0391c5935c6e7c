-------------------------- MODULE CallerCredential --------------------------
(***************************************************************************)
(* The signed-in person's access token at every hop: minted for the one    *)
(* traveler the person is bound to, verified by the backend, kept for the  *)
(* length of a request, forwarded to a Runtime and from there to the       *)
(* Gateway, whose interceptor and policies decide before a target acts.    *)
(* People also call a Runtime or the Gateway themselves, with their own    *)
(* token and any arguments. The mode is jwt. Time passes between any steps.*)
(***************************************************************************)
EXTENDS Naturals, FiniteSets

CONSTANTS Turns, People, Travelers,
          Bindings,          \* a person's active bindings to travelers
          ApiTraveler,       \* the traveler of the shared API token
          Kinds,             \* of turns: "concierge", "workflow"
          Designs,           \* which layers of the Gateway pin the traveler
          Lifetime,          \* of an access token
          Skew, Margin,      \* the backend's leeway, and what a sender wants left
          MaxTime, MaxCalls, MaxConflicts  \* bounds

ASSUME ClocksFit == {Lifetime, Skew, Margin, MaxTime, MaxCalls, MaxConflicts} \subseteq Nat
ASSUME OneOwner == ApiTraveler \in Travelers /\ Bindings \in [People -> SUBSET Travelers]
ASSUME KindsKnown == Kinds \subseteq {"concierge", "workflow"}

VARIABLES now, tokens,     \* the time, and the token in each person's browser
          turn,            \* the requests, one record each
          holder,          \* the process's cells for tokens
          wire, runs,      \* messages to a Runtime, and what runs there
          design, effects  \* at the Gateway and its targets

vars == <<now, tokens, turn, holder, wire, runs, design, effects>>

NoToken == [claim |-> "nobody", exp |-> 0]
Me == "me"
Tools == {"search", "hold"}
Pinned == {"hold"}

Idle == [stage |-> "idle", token |-> NoToken, kind |-> "none", confirmed |-> FALSE,
         open |-> FALSE, sends |-> 0, conflicts |-> 0,
         answer |-> "none", mayHaveRun |-> FALSE]

Init == /\ now = 0 /\ tokens = [p \in People |-> NoToken]
        /\ turn = [t \in Turns |-> Idle] /\ holder = [t \in Turns |-> NoToken]
        /\ wire = {} /\ runs = {} /\ design \in Designs /\ effects = {}

Tick == now < MaxTime /\ now' = now + 1 /\ UNCHANGED <<tokens, turn, holder, wire, runs, design, effects>>

\* What a token must still be worth: to the backend, to whoever forwards it, to an authorizer.
Accepted(token) == token.exp + Skew > now
Fresh(token) == token.exp > now + Margin
Live(token) == token.exp > now

-----------------------------------------------------------------------------
(* Sign-in.                                                                *)
\* A sign-in or a refresh: the trigger adds the one bound traveler, or refuses.
SignIn(p) ==
    /\ Cardinality(Bindings[p]) = 1 /\ ~Fresh(tokens[p])
    /\ \E v \in Bindings[p] : tokens' = [tokens EXCEPT ![p] = [claim |-> v, exp |-> now + Lifetime]]
    /\ UNCHANGED <<now, turn, holder, wire, runs, design, effects>>

-----------------------------------------------------------------------------
(* The backend.                                                            *)
\* Mutant: one cell for the process.
OneCell(t) == CHOOSE u \in Turns : TRUE
\* The cell a request's context names; tasks and threads it starts share it.
Cell(t) == t

\* Mutant: the cell is left as it was when the request ends.
KeptOn(t) == holder
\* A request's end empties its cell, whoever still shares it.
Emptied(t) == [holder EXCEPT ![Cell(t)] = NoToken]

\* A request with the shared API token, or with a person's own.
Arrive(t) ==
    /\ turn[t].stage = "idle"
    /\ \E token \in {NoToken} \cup {tokens[p] : p \in People}, kind \in Kinds,
          confirmed \in BOOLEAN :
          turn' = [turn EXCEPT ![t] = [Idle EXCEPT !.stage = "arrived", !.token = token, !.kind = kind,
                                                   !.confirmed = confirmed, !.open = TRUE]]
    /\ holder' = Emptied(t)
    /\ UNCHANGED <<now, tokens, wire, runs, design, effects>>

Own(t) == IF turn[t].token = NoToken THEN ApiTraveler ELSE turn[t].token.claim
Answered(t, answer, mayHaveRun) ==
    turn' = [turn EXCEPT ![t].stage = "ended", ![t].answer = answer, ![t].open = FALSE,
                         ![t].mayHaveRun = mayHaveRun]

\* The one seam every route depends on: only a verified person's token is bound.
Verify(t) ==
    /\ turn[t].stage = "arrived"
    /\ \/ /\ turn[t].token = NoToken \/ Accepted(turn[t].token)
          /\ turn' = [turn EXCEPT ![t].stage = "verified"]
          /\ holder' = IF turn[t].token = NoToken THEN holder
                       ELSE [holder EXCEPT ![Cell(t)] = turn[t].token]
       \/ /\ turn[t].token # NoToken /\ ~Accepted(turn[t].token)
          /\ Answered(t, "unauthorized", FALSE) /\ holder' = Emptied(t)
       \/ /\ turn[t].token # NoToken \* the signing keys cannot be fetched
          /\ Answered(t, "unavailable", FALSE) /\ holder' = Emptied(t)
    /\ UNCHANGED <<now, tokens, wire, runs, design, effects>>

\* A request that names another traveler is refused whatever the caller claims.
AuthorizeTraveler(t) ==
    /\ turn[t].stage = "verified"
    /\ \E asked \in {Me} \cup Travelers :
          IF asked \in {Me, Own(t)}
          THEN turn' = [turn EXCEPT ![t].stage = "working"] /\ UNCHANGED holder
          ELSE Answered(t, "forbidden", FALSE) /\ holder' = Emptied(t)
    /\ UNCHANGED <<now, tokens, wire, runs, design, effects>>

\* The page leaves, or the stream reaches its ceiling: its request ends and the work goes on.
Leave(t) ==
    /\ turn[t].stage \in {"working", "sent"} /\ turn[t].open
    /\ turn' = [turn EXCEPT ![t].open = FALSE] /\ holder' = Emptied(t)
    /\ UNCHANGED <<now, tokens, wire, runs, design, effects>>

Refused(t, answer) == Answered(t, answer, FALSE) /\ holder' = Emptied(t) /\ UNCHANGED wire

\* The cell is read where the Runtime is invoked, each time.
Send(t) ==
    LET token == holder[Cell(t)] IN
    /\ turn[t].stage = "working"
    /\ \/ token = NoToken /\ Refused(t, "sign_in_required")
       \/ token # NoToken /\ ~Fresh(token) /\ Refused(t, "token_expired")
       \/ /\ token # NoToken /\ Fresh(token) /\ UNCHANGED holder
          /\ turn' = [turn EXCEPT ![t].stage = "sent", ![t].sends = @ + 1]
          /\ wire' = wire \cup {[turn |-> t, attempt |-> turn[t].sends + 1, kind |-> turn[t].kind,
                                 token |-> token, names |-> Own(t), confirmed |-> turn[t].confirmed]}
    /\ UNCHANGED <<now, tokens, runs, design, effects>>

Outstanding(t) == {m \in wire : m.turn = t}

\* The Runtime cannot be connected to.
NotMade(t) ==
    /\ turn[t].stage = "sent" /\ Outstanding(t) # {}
    /\ wire' = {m \in wire : ~(m.turn = t /\ m.attempt = turn[t].sends)} /\ wire' # wire
    /\ Answered(t, "failed", FALSE) /\ holder' = Emptied(t)
    /\ UNCHANGED <<now, tokens, runs, design, effects>>

\* Mutant: any turn of the Concierge is sent again.
AnyTurnAgain(t) == turn[t].kind = "concierge" /\ turn[t].sends = 1
\* Only a turn that cannot authorize a write is sent again, once.
RetryAllowed(t) == turn[t].kind = "concierge" /\ ~turn[t].confirmed /\ turn[t].sends = 1

\* The connection closes before any header: the message may have arrived, or still will.
Drop(t) ==
    /\ turn[t].stage = "sent"
    /\ \E lost \in SUBSET Outstanding(t) : wire' = wire \ lost
    /\ IF RetryAllowed(t)
       THEN turn' = [turn EXCEPT ![t].stage = "working"] /\ UNCHANGED holder
       ELSE Answered(t, "failed", TRUE) /\ holder' = Emptied(t)
    /\ UNCHANGED <<now, tokens, runs, design, effects>>

\* The session is being provisioned: the workflow's client waits and sends again.
Conflict(t) ==
    /\ turn[t].kind = "workflow" /\ turn[t].conflicts < MaxConflicts /\ turn[t].stage = "sent"
    /\ Outstanding(t) # {} /\ wire' = wire \ Outstanding(t)
    /\ turn' = [turn EXCEPT ![t].stage = "working", ![t].conflicts = @ + 1]
    /\ UNCHANGED <<now, tokens, holder, runs, design, effects>>

-----------------------------------------------------------------------------
(* People who call a Runtime or the Gateway themselves.                    *)
CallRuntime(t) ==
    /\ turn[t].stage = "idle"
    /\ \E p \in People, kind \in Kinds, names \in {Me} \cup Travelers, confirmed \in BOOLEAN :
          /\ tokens[p] # NoToken
          /\ turn' = [turn EXCEPT ![t] = [Idle EXCEPT !.stage = "direct", !.token = tokens[p], !.kind = kind,
                                          !.confirmed = confirmed]]
          /\ wire' = wire \cup {[turn |-> t, attempt |-> 0, kind |-> kind, token |-> tokens[p],
                                 names |-> names, confirmed |-> confirmed]}
    /\ UNCHANGED <<now, tokens, holder, runs, design, effects>>

NewRun(m, acting) == [turn |-> m.turn, attempt |-> m.attempt, kind |-> m.kind, token |-> m.token,
                      acting |-> acting, confirmed |-> m.confirmed, stage |-> "thinking",
                      tool |-> "none", calls |-> 0]

CallGateway(t) ==
    /\ turn[t].stage = "idle"
    /\ \E p \in People, names \in Travelers :
          LET m == [turn |-> t, attempt |-> 0, kind |-> "script", token |-> tokens[p], confirmed |-> TRUE] IN
          /\ tokens[p] # NoToken /\ runs' = runs \cup {NewRun(m, names)}
          /\ turn' = [turn EXCEPT ![t] = [Idle EXCEPT !.stage = "direct", !.token = tokens[p],
                                          !.kind = "script", !.confirmed = TRUE]]
    /\ UNCHANGED <<now, tokens, holder, wire, design, effects>>

-----------------------------------------------------------------------------
(* A Runtime.                                                              *)
\* An answer reaches the backend only on the connection it still waits on.
Reply(t, attempt, answer, mayHaveRun) ==
    IF turn[t].stage = "sent" /\ turn[t].sends = attempt
    THEN Answered(t, answer, mayHaveRun) /\ holder' = Emptied(t)
    ELSE UNCHANGED <<turn, holder>>

\* The authorizer, then the entry point: the traveler is the token's, and nobody else is named.
Take(m) ==
    /\ wire' = wire \ {m}
    /\ \/ /\ ~Fresh(m.token) /\ UNCHANGED runs
          /\ Reply(m.turn, m.attempt, "token_expired", Live(m.token))
       \/ /\ Fresh(m.token) /\ m.names \notin {Me, m.token.claim} /\ UNCHANGED runs
          /\ Reply(m.turn, m.attempt, "failed", TRUE)
       \/ /\ Fresh(m.token) /\ m.names \in {Me, m.token.claim}
          /\ runs' = runs \cup {NewRun(m, m.token.claim)} /\ UNCHANGED <<turn, holder>>
    /\ UNCHANGED <<now, tokens, design, effects>>

Moved(r, stage) == runs' = (runs \ {r}) \cup {[r EXCEPT !.stage = stage]}
Over(r, answer) == runs' = runs \ {r} /\ Reply(r.turn, r.attempt, answer, TRUE)
\* The workflow gives a run up on a failed call; the Concierge shows its model the error.
ToolError(r) == IF r.kind = "workflow" THEN Over(r, "failed")
                ELSE Moved(r, "thinking") /\ UNCHANGED <<turn, holder>>

\* The run calls a tool; the workflow's client looks at the token before every send.
Call(r) ==
    /\ r.stage = "thinking" /\ r.calls < MaxCalls
    /\ \/ r.kind = "workflow" /\ ~Fresh(r.token) /\ Over(r, "token_expired")
       \/ /\ r.kind # "workflow" \/ Fresh(r.token)
          /\ \E tool \in Tools :
                runs' = (runs \ {r}) \cup {[r EXCEPT !.stage = "called", !.tool = tool, !.calls = @ + 1]}
          /\ UNCHANGED <<turn, holder>>
    /\ UNCHANGED <<now, tokens, wire, design, effects>>

Finish(r) == /\ r.stage = "thinking" /\ Over(r, "result")
             /\ UNCHANGED <<now, tokens, wire, design, effects>>

-----------------------------------------------------------------------------
(* The Gateway.                                                            *)
\* A 401 is an expired token to the workflow, and the end of the turn to the Concierge.
Admit(r) ==
    /\ r.stage = "called"
    /\ IF Live(r.token) THEN Moved(r, "admitted") /\ UNCHANGED <<turn, holder>>
       ELSE Over(r, IF r.kind = "workflow" THEN "token_expired" ELSE "failed")
    /\ UNCHANGED <<now, tokens, wire, design, effects>>

\* Mutant: only an absent argument is filled in.
PinIfMissing(r) == r.acting
\* The traveler argument a pinned tool is called with, whatever was sent.
PinTraveler(r) == r.token.claim

Intercept(r) ==
    /\ r.stage = "admitted"
    /\ \/ /\ r.tool \notin Pinned \/ design = "cedar"
          /\ Moved(r, "intercepted") /\ UNCHANGED <<turn, holder>>
       \/ /\ r.tool \in Pinned /\ design # "cedar" /\ Live(r.token) /\ UNCHANGED <<turn, holder>>
          /\ runs' = (runs \ {r}) \cup {[r EXCEPT !.stage = "intercepted", !.acting = PinTraveler(r)]}
       \/ r.tool \in Pinned /\ design # "cedar" /\ ~Live(r.token) /\ ToolError(r)
    /\ UNCHANGED <<now, tokens, wire, design, effects>>

\* Cedar: a hold is confirmed, and for the token's traveler where the design binds it.
Permitted(r) == \/ r.tool = "search"
                \/ /\ r.tool = "hold" /\ r.confirmed
                   /\ (design = "interceptor" \/ r.acting = r.token.claim)

Decide(r) ==
    /\ r.stage = "intercepted"
    /\ IF Permitted(r) THEN Moved(r, "allowed") /\ UNCHANGED <<turn, holder>> ELSE ToolError(r)
    /\ UNCHANGED <<now, tokens, wire, design, effects>>

Act(r) ==
    /\ r.stage = "allowed" /\ Moved(r, "thinking")
    /\ effects' = effects \cup {[turn |-> r.turn, tool |-> r.tool, traveler |-> r.acting]}
    /\ UNCHANGED <<now, tokens, turn, holder, wire, design>>

Next == \/ Tick
        \/ \E p \in People : SignIn(p)
        \/ \E t \in Turns : \/ Arrive(t) \/ Verify(t) \/ AuthorizeTraveler(t) \/ Leave(t) \/ Send(t)
                            \/ NotMade(t) \/ Drop(t) \/ Conflict(t) \/ CallRuntime(t) \/ CallGateway(t)
        \/ \E m \in wire : Take(m)
        \/ \E r \in runs : Call(r) \/ Finish(r) \/ Admit(r) \/ Intercept(r) \/ Decide(r) \/ Act(r)

Spec == Init /\ [][Next]_vars

-----------------------------------------------------------------------------
AnyKind == Kinds \cup {"none", "script"}
Named == Travelers \cup {"nobody", Me}
Token == [claim : Travelers \cup {"nobody"}, exp : Nat]
Turn == [stage : {"idle", "arrived", "verified", "working", "sent", "ended", "direct"}, token : Token,
         kind : AnyKind, confirmed : BOOLEAN, open : BOOLEAN, sends : Nat,
         conflicts : Nat, mayHaveRun : BOOLEAN,
         answer : {"none", "unauthorized", "unavailable", "forbidden", "sign_in_required",
                   "token_expired", "failed", "result"}]
Message == [turn : Turns, attempt : Nat, kind : AnyKind, token : Token, names : Named, confirmed : BOOLEAN]
Run == [turn : Turns, attempt : Nat, kind : AnyKind, token : Token, acting : Named,
        confirmed : BOOLEAN, tool : Tools \cup {"none"}, calls : Nat,
        stage : {"thinking", "called", "admitted", "intercepted", "allowed"}]

TypeOK ==
    /\ now \in Nat /\ tokens \in [People -> Token] /\ design \in Designs
    /\ turn \in [Turns -> Turn] /\ holder \in [Turns -> Token]
    /\ wire \subseteq Message /\ runs \subseteq Run
    /\ effects \subseteq [turn : Turns, tool : Tools, traveler : Named]

\* An act with a traveler is for the traveler whose person's own token began the turn, whatever
\* a payload, a model or a script names and whichever layers the Gateway has.
ActsForItsCaller == \A e \in effects : e.tool \in Pinned => e.traveler = turn[e.turn].token.claim

\* No request forwards the token of another, and one without a person forwards none.
TokenStaysWithItsRequest == \A m \in wire : m.token = turn[m.turn].token

\* Work that outlives its request sends nothing more in its caller's name.
OutlivedSendsNothing == [][\A t \in Turns : turn'[t].sends > turn[t].sends => turn[t].open]_vars

Held(t) == \E e \in effects : e.turn = t /\ e.tool \in Pinned
\* A Concierge turn answered as expired has written nothing and will not, so it may be sent
\* again, also when an earlier attempt's message is still under way.
ExpiredConciergeWroteNothing ==
    \A t \in Turns : turn[t].kind = "concierge" /\ turn[t].answer = "token_expired" => ~Held(t)

\* Violated. An expired token means that nothing ran (token_expiry.py).
ExpiredMeansNothingRan ==
    \A t \in Turns : turn[t].answer = "token_expired" => \A e \in effects : e.turn # t

\* Violated. A streamed turn whose person was verified goes on when the page leaves (chat.py).
TurnKeepsItsCaller ==
    \A t \in Turns : turn[t].answer = "sign_in_required" => turn[t].token = NoToken

\* Violated. A Concierge turn that may not have run was never run (TurnProgress).
UnsentMeansNothingRan ==
    \A t \in Turns : turn[t].stage = "ended" /\ turn[t].kind = "concierge" /\ ~turn[t].mayHaveRun
                     => \A e \in effects : e.turn # t
=============================================================================
