----------------------- MODULE CallerCredential_proofs -----------------------
(* Why a hold is always for the traveler of its caller's own token, for any *)
(* number of people, requests and direct callers and in every design of the *)
(* Gateway; and why a Concierge turn answered as expired wrote nothing.     *)
EXTENDS CallerCredential, TLAPS

-----------------------------------------------------------------------------
(* The inductive invariant. *)

\* A request's cell holds its own caller's token, and only while the request is open.
CellsAreOwn == \A t \in Turns :
    /\ holder[t] \in {NoToken, turn[t].token}
    /\ turn[t].open \/ holder[t] = NoToken
    /\ turn[t].stage \in {"arrived", "verified"} => turn[t].open
    /\ turn[t].stage = "idle" => ~turn[t].open
    /\ turn[t].stage = "ended" \/ turn[t].answer = "none"

\* What was sent agrees with the turn it was sent for.
AgreesWith(x, t) == /\ x.token = turn[t].token /\ x.confirmed = turn[t].confirmed
                    /\ x.kind = turn[t].kind /\ turn[t].stage # "idle"
WireAgrees == \A m \in wire : AgreesWith(m, m.turn)
RunsAgree == \A r \in runs : AgreesWith(r, r.turn)

\* What each layer of the Gateway has established of a call that it let pass.
Known(r) ==
    /\ r.stage = "allowed" => r.tool \in Tools
    /\ r.tool \in Pinned =>
          /\ r.stage = "intercepted" /\ design # "cedar" => r.acting = r.token.claim
          /\ r.stage = "allowed" => r.acting = r.token.claim /\ r.confirmed
GatewayKnows == \A r \in runs : Known(r)

EffectsAgree == \A e \in effects :
    /\ turn[e.turn].stage # "idle"
    /\ e.tool \in Pinned => e.traveler = turn[e.turn].token.claim /\ turn[e.turn].confirmed

\* A confirmed turn of the Concierge has one message, and after it nothing else.
Guarded(t) == turn[t].kind = "concierge" /\ turn[t].confirmed /\ turn[t].stage # "direct"
NothingRuns(t) == (\A r \in runs : r.turn # t) /\ (\A e \in effects : e.turn # t)
NothingOf(t) == NothingRuns(t) /\ (\A m \in wire : m.turn # t)
SentOnce == \A t \in Turns : Guarded(t) =>
    /\ turn[t].stage \in {"arrived", "verified", "working"} => NothingOf(t) /\ turn[t].sends = 0
    /\ turn[t].answer = "token_expired" => NothingOf(t)
    /\ turn[t].stage = "sent" =>
          /\ \A m \in wire : m.turn = t => NothingRuns(t)
          /\ \A m, n \in wire : m.turn = t /\ n.turn = t => m = n

IInv == /\ TypeOK /\ CellsAreOwn /\ WireAgrees /\ RunsAgree /\ GatewayKnows /\ EffectsAgree /\ SentOnce

-----------------------------------------------------------------------------
(* Each action keeps it. *)

LEMMA InitInv == Init => IInv
  BY ClocksFit, KindsKnown DEF Init, Idle, IInv, TypeOK, Turn, Token, NoToken, Message, Run, Tools, Named, Me, AnyKind,
     CellsAreOwn, WireAgrees, RunsAgree, GatewayKnows, Known, EffectsAgree, SentOnce, Guarded

(* What an answer, or one changed stage, leaves alone in the turns. *)
Answers == {"none", "unauthorized", "unavailable", "forbidden", "sign_in_required",
            "token_expired", "failed", "result"}

Stages == {"idle", "arrived", "verified", "working", "sent", "ended", "direct"}

(* A turn's record with one field, or those of an answer, replaced is still a turn. *)
LEMMA TurnFields ==
  ASSUME NEW x \in Turn
  PROVE  /\ \A s \in Stages : [x EXCEPT !.stage = s] \in Turn
         /\ \A b \in BOOLEAN : [x EXCEPT !.open = b] \in Turn
         /\ \A s \in Stages, n \in Nat : [x EXCEPT !.stage = s, !.sends = n] \in Turn
         /\ \A s \in Stages, n \in Nat : [x EXCEPT !.stage = s, !.conflicts = n] \in Turn
         /\ \A a \in Answers, ran \in BOOLEAN :
               [x EXCEPT !.stage = "ended", !.answer = a, !.open = FALSE, !.mayHaveRun = ran] \in Turn
<1>1. /\ \A s \in Stages : [x EXCEPT !.stage = s] \in Turn
      /\ \A b \in BOOLEAN : [x EXCEPT !.open = b] \in Turn
  BY DEF Turn, Stages
<1>2. \A s \in Stages, n \in Nat : [x EXCEPT !.stage = s, !.sends = n] \in Turn
  BY DEF Turn, Stages
<1>3. \A s \in Stages, n \in Nat : [x EXCEPT !.stage = s, !.conflicts = n] \in Turn
  BY DEF Turn, Stages
<1>4. \A a \in Answers, ran \in BOOLEAN :
         [x EXCEPT !.stage = "ended", !.answer = a, !.open = FALSE, !.mayHaveRun = ran] \in Turn
  BY DEF Turn, Answers
<1> QED
  BY <1>1, <1>2, <1>3, <1>4

LEMMA StageKeeps ==
  ASSUME TypeOK, NEW t \in Turns, NEW s \in Stages, turn' = [turn EXCEPT ![t].stage = s]
  PROVE  turn' \in [Turns -> Turn]
<1>1. turn[t] \in Turn /\ turn' = [turn EXCEPT ![t] = [turn[t] EXCEPT !.stage = s]]
  BY DEF TypeOK
<1>2. [turn[t] EXCEPT !.stage = s] \in Turn
  BY <1>1, TurnFields
<1> QED
  BY <1>1, <1>2 DEF TypeOK

LEMMA AnsweredKeeps ==
  ASSUME TypeOK, NEW t \in Turns, NEW answer \in Answers, NEW ran \in BOOLEAN, Answered(t, answer, ran)
  PROVE  /\ turn' \in [Turns -> Turn] /\ turn'[t].stage = "ended" /\ turn'[t].answer = answer
         /\ ~turn'[t].open
         /\ turn'[t].token = turn[t].token /\ turn'[t].kind = turn[t].kind
         /\ turn'[t].confirmed = turn[t].confirmed /\ turn'[t].sends = turn[t].sends
         /\ \A u \in Turns \ {t} : turn'[u] = turn[u]
<1> DEFINE new == [turn[t] EXCEPT !.stage = "ended", !.answer = answer, !.open = FALSE, !.mayHaveRun = ran]
<1>1. turn[t] \in Turn
  BY DEF TypeOK
<1>2. new \in Turn
  BY <1>1, TurnFields
<1>3. turn' = [turn EXCEPT ![t] = new]
  BY <1>1 DEF TypeOK, Turn, Answered
<1>4. /\ new.stage = "ended" /\ new.answer = answer /\ ~new.open
      /\ new.token = turn[t].token /\ new.kind = turn[t].kind
      /\ new.confirmed = turn[t].confirmed /\ new.sends = turn[t].sends
  BY <1>1 DEF Turn
<1> HIDE DEF new
<1> QED
  BY <1>2, <1>3, <1>4 DEF TypeOK

LEMMA EmptiedKeeps ==
  ASSUME TypeOK, NEW t \in Turns, holder' = Emptied(t)
  PROVE  /\ holder' \in [Turns -> Token] /\ holder'[t] = NoToken
         /\ \A u \in Turns \ {t} : holder'[u] = holder[u]
  BY DEF TypeOK, Token, NoToken, Emptied, Cell

\* A turn keeps what was sent for it, and an open turn is never an idle one again.
Kept == \A u \in Turns : /\ turn'[u].token = turn[u].token /\ turn'[u].kind = turn[u].kind
                         /\ turn'[u].confirmed = turn[u].confirmed
                         /\ turn[u].stage # "idle" => turn'[u].stage # "idle"

LEMMA ReplyKeeps ==
  ASSUME IInv, NEW t \in Turns, NEW attempt, NEW answer \in Answers \ {"none"}, NEW ran \in BOOLEAN,
         Reply(t, attempt, answer, ran)
  PROVE  /\ turn' \in [Turns -> Turn] /\ holder' \in [Turns -> Token] /\ Kept /\ CellsAreOwn'
         /\ \A u \in Turns : \/ turn'[u] = turn[u]
                            \/ /\ u = t /\ turn'[u].stage = "ended" /\ turn'[u].answer = answer
                               /\ turn[u].stage = "sent"
<1>1. CASE turn[t].stage = "sent" /\ turn[t].sends = attempt
  <2>1. Answered(t, answer, ran) /\ holder' = Emptied(t)
    BY <1>1 DEF Reply
  <2>2. answer \in Answers
    OBVIOUS
  <2> QED
    BY <1>1, <2>1, <2>2, AnsweredKeeps, EmptiedKeeps DEF IInv, Kept, CellsAreOwn
<1>2. CASE ~(turn[t].stage = "sent" /\ turn[t].sends = attempt)
  BY <1>2 DEF Reply, IInv, TypeOK, Kept, CellsAreOwn
<1> QED
  BY <1>1, <1>2

(* Where no turn changed in what was sent for it, messages, runs and effects still agree. *)
LEMMA WireKept ==
  ASSUME IInv, Kept, wire' \subseteq wire
  PROVE  WireAgrees'
  BY DEF IInv, TypeOK, Message, Kept, WireAgrees, AgreesWith

LEMMA RunsKept ==
  ASSUME IInv, Kept, runs' \subseteq runs, design' = design
  PROVE  RunsAgree' /\ GatewayKnows'
  BY DEF IInv, TypeOK, Run, Kept, RunsAgree, AgreesWith, GatewayKnows, Known

LEMMA EffectsKept ==
  ASSUME IInv, Kept, effects' = effects
  PROVE  EffectsAgree'
  BY DEF IInv, TypeOK, Kept, EffectsAgree

LEMMA TickInv ==
  ASSUME IInv, Tick
  PROVE  IInv'
<1> USE DEF Tick
<1>1. TypeOK'
  BY DEF IInv, TypeOK
<1>2. CellsAreOwn' /\ SentOnce' /\ EffectsAgree'
  BY DEF IInv, CellsAreOwn, SentOnce, Guarded, NothingOf, NothingRuns, EffectsAgree
<1>3. WireAgrees' /\ RunsAgree' /\ GatewayKnows'
  BY DEF IInv, WireAgrees, RunsAgree, AgreesWith, GatewayKnows, Known
<1> QED
  BY <1>1, <1>2, <1>3 DEF IInv

LEMMA SignInInv ==
  ASSUME IInv, NEW p \in People, SignIn(p)
  PROVE  IInv'
<1> USE DEF SignIn
<1>1. TypeOK'
  <2>1. PICK v \in Bindings[p] : tokens' = [tokens EXCEPT ![p] = [claim |-> v, exp |-> now + Lifetime]]
    OBVIOUS
  <2>2. v \in Travelers /\ now \in Nat /\ Lifetime \in Nat
    BY OneOwner, ClocksFit DEF IInv, TypeOK
  <2>3. [claim |-> v, exp |-> now + Lifetime] \in Token
    BY <2>2 DEF Token
  <2> QED
    BY <2>1, <2>3 DEF IInv, TypeOK
<1>2. CellsAreOwn' /\ SentOnce' /\ EffectsAgree'
  BY DEF IInv, CellsAreOwn, SentOnce, Guarded, NothingOf, NothingRuns, EffectsAgree
<1>3. WireAgrees' /\ RunsAgree' /\ GatewayKnows'
  BY DEF IInv, WireAgrees, RunsAgree, AgreesWith, GatewayKnows, Known
<1> QED
  BY <1>1, <1>2, <1>3 DEF IInv

LEMMA VerifyInv ==
  ASSUME IInv, NEW t \in Turns, Verify(t)
  PROVE  IInv'
<1>1. TypeOK'
  <2>1. turn' \in [Turns -> Turn]
    <3>1. CASE turn' = [turn EXCEPT ![t].stage = "verified"]
      BY <3>1, StageKeeps DEF IInv, Stages
    <3>2. CASE Answered(t, "unauthorized", FALSE)
      BY <3>2, AnsweredKeeps DEF IInv, Answers
    <3>3. CASE Answered(t, "unavailable", FALSE)
      BY <3>3, AnsweredKeeps DEF IInv, Answers
    <3> QED
      BY <3>1, <3>2, <3>3 DEF Verify
  <2>2. holder' \in [Turns -> Token]
    BY EmptiedKeeps DEF Verify, IInv, TypeOK, Turn, Cell, Refused
  <2> QED
    BY <2>1, <2>2 DEF Verify, IInv, TypeOK, Outstanding
<1>2. Kept
  BY DEF Verify, IInv, TypeOK, Turn, Kept, Answered
<1>3. WireAgrees'
  BY <1>2, WireKept DEF Verify, Outstanding
<1>4. RunsAgree' /\ GatewayKnows' /\ EffectsAgree'
  BY <1>2, RunsKept, EffectsKept DEF Verify
<1>5. CellsAreOwn'
  BY DEF Verify, Answered, IInv, TypeOK, Turn, CellsAreOwn, Emptied, Cell
<1>6. SentOnce'
  BY DEF Verify, Answered, IInv, TypeOK, Turn, Message, CellsAreOwn, SentOnce, Guarded, NothingOf, NothingRuns
<1> QED
  BY <1>1, <1>2, <1>3, <1>4, <1>5, <1>6 DEF IInv

LEMMA AuthorizeTravelerInv ==
  ASSUME IInv, NEW t \in Turns, AuthorizeTraveler(t)
  PROVE  IInv'
<1>1. TypeOK'
  <2>1. turn' \in [Turns -> Turn]
    <3>1. CASE turn' = [turn EXCEPT ![t].stage = "working"]
      BY <3>1, StageKeeps DEF IInv, Stages
    <3>2. CASE Answered(t, "forbidden", FALSE)
      BY <3>2, AnsweredKeeps DEF IInv, Answers
    <3> QED
      BY <3>1, <3>2 DEF AuthorizeTraveler
  <2>2. holder' \in [Turns -> Token]
    BY EmptiedKeeps DEF AuthorizeTraveler, IInv, TypeOK, Turn, Cell, Refused
  <2> QED
    BY <2>1, <2>2 DEF AuthorizeTraveler, IInv, TypeOK, Outstanding
<1>2. Kept
  BY DEF AuthorizeTraveler, IInv, TypeOK, Turn, Kept, Answered
<1>3. WireAgrees'
  BY <1>2, WireKept DEF AuthorizeTraveler, Outstanding
<1>4. RunsAgree' /\ GatewayKnows' /\ EffectsAgree'
  BY <1>2, RunsKept, EffectsKept DEF AuthorizeTraveler
<1>5. CellsAreOwn'
  BY DEF AuthorizeTraveler, Answered, IInv, TypeOK, Turn, CellsAreOwn, Emptied, Cell
<1>6. SentOnce'
  BY DEF AuthorizeTraveler, Answered, IInv, TypeOK, Turn, Message, CellsAreOwn, SentOnce, Guarded, NothingOf, NothingRuns
<1> QED
  BY <1>1, <1>2, <1>3, <1>4, <1>5, <1>6 DEF IInv

LEMMA LeaveInv ==
  ASSUME IInv, NEW t \in Turns, Leave(t)
  PROVE  IInv'
<1>1. TypeOK'
  <2>1. turn' \in [Turns -> Turn]
    BY TurnFields, AnsweredKeeps DEF Leave, IInv, TypeOK, Stages, Answers
  <2>2. holder' \in [Turns -> Token]
    BY EmptiedKeeps DEF Leave, IInv, TypeOK, Turn, Cell, Refused
  <2> QED
    BY <2>1, <2>2 DEF Leave, IInv, TypeOK, Outstanding
<1>2. Kept
  BY DEF Leave, IInv, TypeOK, Turn, Kept, Answered
<1>3. WireAgrees'
  BY <1>2, WireKept DEF Leave, Outstanding
<1>4. RunsAgree' /\ GatewayKnows' /\ EffectsAgree'
  BY <1>2, RunsKept, EffectsKept DEF Leave
<1>5. CellsAreOwn'
  BY DEF Leave, Answered, IInv, TypeOK, Turn, CellsAreOwn, Emptied, Cell
<1>6. SentOnce'
  BY DEF Leave, Answered, IInv, TypeOK, Turn, Message, CellsAreOwn, SentOnce, Guarded, NothingOf, NothingRuns
<1> QED
  BY <1>1, <1>2, <1>3, <1>4, <1>5, <1>6 DEF IInv

LEMMA ConflictInv ==
  ASSUME IInv, NEW t \in Turns, Conflict(t)
  PROVE  IInv'
<1>1. TypeOK'
  <2>1. turn' \in [Turns -> Turn]
    <3> DEFINE new == [turn[t] EXCEPT !.stage = "working", !.conflicts = turn[t].conflicts + 1]
    <3>1. turn' = [turn EXCEPT ![t] = new] /\ turn[t] \in Turn
      BY DEF Conflict, IInv, TypeOK
    <3>2. turn[t].conflicts + 1 \in Nat /\ "working" \in Stages
      BY <3>1 DEF Turn, Stages
    <3>3. new \in Turn
      BY <3>1, <3>2, TurnFields
    <3> QED
      BY <3>1, <3>3 DEF IInv, TypeOK
  <2>2. holder' \in [Turns -> Token]
    BY EmptiedKeeps DEF Conflict, IInv, TypeOK, Turn, Cell, Refused
  <2> QED
    BY <2>1, <2>2 DEF Conflict, IInv, TypeOK, Outstanding
<1>2. Kept
  BY DEF Conflict, IInv, TypeOK, Turn, Kept, Answered
<1>3. WireAgrees'
  BY <1>2, WireKept DEF Conflict, Outstanding
<1>4. RunsAgree' /\ GatewayKnows' /\ EffectsAgree'
  BY <1>2, RunsKept, EffectsKept DEF Conflict
<1>5. CellsAreOwn'
  BY DEF Conflict, Outstanding, Answered, IInv, TypeOK, Turn, CellsAreOwn, Emptied, Cell
<1>6. SentOnce'
  BY DEF Conflict, Outstanding, Answered, IInv, TypeOK, Turn, Message, CellsAreOwn, SentOnce, Guarded, NothingOf, NothingRuns
<1> QED
  BY <1>1, <1>2, <1>3, <1>4, <1>5, <1>6 DEF IInv

LEMMA NotMadeInv ==
  ASSUME IInv, NEW t \in Turns, NotMade(t)
  PROVE  IInv'
<1>1. TypeOK'
  <2>1. turn' \in [Turns -> Turn]
    BY TurnFields, AnsweredKeeps DEF NotMade, Outstanding, IInv, TypeOK, Stages, Answers
  <2>2. holder' \in [Turns -> Token]
    BY EmptiedKeeps DEF NotMade, IInv, TypeOK, Turn, Cell, Refused
  <2> QED
    BY <2>1, <2>2 DEF NotMade, IInv, TypeOK, Outstanding
<1>2. Kept
  BY DEF NotMade, IInv, TypeOK, Turn, Kept, Answered
<1>3. WireAgrees'
  BY <1>2, WireKept DEF NotMade, Outstanding
<1>4. RunsAgree' /\ GatewayKnows' /\ EffectsAgree'
  BY <1>2, RunsKept, EffectsKept DEF NotMade
<1>5. CellsAreOwn'
  BY DEF NotMade, Outstanding, Answered, IInv, TypeOK, Turn, CellsAreOwn, Emptied, Cell
<1>6. SentOnce'
  BY DEF NotMade, Outstanding, Answered, IInv, TypeOK, Turn, Message, CellsAreOwn, SentOnce, Guarded, NothingOf, NothingRuns
<1> QED
  BY <1>1, <1>2, <1>3, <1>4, <1>5, <1>6 DEF IInv

LEMMA DropInv ==
  ASSUME IInv, NEW t \in Turns, Drop(t)
  PROVE  IInv'
<1>1. TypeOK'
  <2>1. turn' \in [Turns -> Turn]
    <3>1. CASE turn' = [turn EXCEPT ![t].stage = "working"]
      BY <3>1, StageKeeps DEF IInv, Stages
    <3>2. CASE Answered(t, "failed", TRUE)
      BY <3>2, AnsweredKeeps DEF IInv, Answers
    <3> QED
      BY <3>1, <3>2 DEF Drop
  <2>2. holder' \in [Turns -> Token]
    BY EmptiedKeeps DEF Drop, IInv, TypeOK, Turn, Cell, Refused
  <2> QED
    BY <2>1, <2>2 DEF Drop, IInv, TypeOK, Outstanding
<1>2. Kept
  BY DEF Drop, IInv, TypeOK, Turn, Kept, Answered
<1>3. WireAgrees'
  BY <1>2, WireKept DEF Drop, Outstanding
<1>4. RunsAgree' /\ GatewayKnows' /\ EffectsAgree'
  BY <1>2, RunsKept, EffectsKept DEF Drop
<1>5. CellsAreOwn'
  BY DEF Drop, Outstanding, RetryAllowed, Answered, IInv, TypeOK, Turn, CellsAreOwn, Emptied, Cell
<1>6. SentOnce'
  <2>1. CASE RetryAllowed(t) /\ turn' = [turn EXCEPT ![t].stage = "working"]
    <3>1. turn'[t].confirmed = FALSE /\ \A u \in Turns \ {t} : turn'[u] = turn[u]
      BY <2>1 DEF RetryAllowed, IInv, TypeOK, Turn
    <3> QED
      BY <3>1 DEF Drop, IInv, SentOnce, Guarded, NothingOf, NothingRuns
  <2>2. CASE Answered(t, "failed", TRUE)
    <3>1. /\ turn'[t].stage = "ended" /\ turn'[t].answer = "failed"
          /\ \A u \in Turns \ {t} : turn'[u] = turn[u]
      BY <2>2, AnsweredKeeps DEF IInv, Answers
    <3> QED
      BY <3>1 DEF Drop, IInv, SentOnce, Guarded, NothingOf, NothingRuns
  <2> QED
    BY <2>1, <2>2 DEF Drop
<1> QED
  BY <1>1, <1>2, <1>3, <1>4, <1>5, <1>6 DEF IInv

LEMMA SendInv ==
  ASSUME IInv, NEW t \in Turns, Send(t)
  PROVE  IInv'
<1> DEFINE token == holder[Cell(t)]
          new == [turn[t] EXCEPT !.stage = "sent", !.sends = turn[t].sends + 1]
          m == [turn |-> t, attempt |-> turn[t].sends + 1, kind |-> turn[t].kind, token |-> token,
                names |-> Own(t), confirmed |-> turn[t].confirmed]
<1> SUFFICES ASSUME Send(t) PROVE IInv'
  OBVIOUS
<1>a. turn[t] \in Turn /\ token = holder[t] /\ turn[t].stage = "working" /\ turn[t].answer = "none"
  BY DEF Send, Cell, IInv, TypeOK, CellsAreOwn
<1>1. CASE \E answer \in {"sign_in_required", "token_expired"} : Refused(t, answer)
  <2>1. PICK answer \in {"sign_in_required", "token_expired"} : Refused(t, answer)
    BY <1>1
  <2>2. answer \in Answers /\ Answered(t, answer, FALSE) /\ holder' = Emptied(t) /\ wire' = wire
    BY <2>1 DEF Refused, Answers
  <2>3. /\ turn' \in [Turns -> Turn] /\ turn'[t].stage = "ended" /\ ~turn'[t].open
        /\ turn'[t].token = turn[t].token /\ turn'[t].kind = turn[t].kind
        /\ turn'[t].confirmed = turn[t].confirmed
        /\ \A u \in Turns \ {t} : turn'[u] = turn[u]
        /\ holder' \in [Turns -> Token] /\ holder'[t] = NoToken
        /\ \A u \in Turns \ {t} : holder'[u] = holder[u]
    BY <2>2, AnsweredKeeps, EmptiedKeeps DEF IInv
  <2>4. TypeOK' /\ Kept /\ CellsAreOwn'
    BY <2>2, <2>3, <1>a DEF Send, IInv, TypeOK, Kept, CellsAreOwn
  <2>5. WireAgrees' /\ RunsAgree' /\ GatewayKnows' /\ EffectsAgree'
    BY <2>2, <2>4, WireKept, RunsKept, EffectsKept DEF Send
  <2>6. SentOnce'
    BY <2>2, <2>3, <1>a DEF Send, IInv, SentOnce, Guarded, NothingOf, NothingRuns
  <2> QED
    BY <2>4, <2>5, <2>6 DEF IInv
<1>2. CASE /\ token # NoToken /\ UNCHANGED holder /\ wire' = wire \cup {m}
           /\ turn' = [turn EXCEPT ![t].stage = "sent", ![t].sends = @ + 1]
  <2>1. turn' = [turn EXCEPT ![t] = new] /\ new \in Turn
    <3>1. turn' = [turn EXCEPT ![t] = new]
      BY <1>2 DEF IInv, TypeOK
    <3>2. turn[t].sends + 1 \in Nat /\ "sent" \in Stages
      BY <1>a DEF Turn, Stages
    <3> QED
      BY <3>1, <3>2, <1>a, TurnFields
  <2>2. /\ turn' \in [Turns -> Turn] /\ turn'[t] = new /\ \A u \in Turns \ {t} : turn'[u] = turn[u]
    BY <2>1 DEF IInv, TypeOK
  <2>3. /\ new.stage = "sent" /\ new.token = turn[t].token /\ new.kind = turn[t].kind
        /\ new.confirmed = turn[t].confirmed /\ new.open = turn[t].open /\ new.answer = "none"
    BY <1>a DEF Turn
  <2> HIDE DEF new
  <2>4. token = turn[t].token /\ turn[t].open
    BY <1>2, <1>a DEF IInv, CellsAreOwn
  <2>5. m \in Message
    <3>1. /\ turn[t].token \in Token /\ turn[t].kind \in AnyKind /\ turn[t].confirmed \in BOOLEAN
          /\ turn[t].sends \in Nat
      BY <1>a DEF Turn
    <3>2. Own(t) \in Named
      BY <3>1, OneOwner DEF Own, Named, Token
    <3>3. turn[t].sends + 1 \in Nat
      BY <3>1
    <3> QED
      BY <2>4, <3>1, <3>2, <3>3 DEF Message
  <2>6. TypeOK' /\ Kept /\ CellsAreOwn'
    BY <1>2, <2>2, <2>3, <2>5, <1>a DEF Send, IInv, TypeOK, Kept, CellsAreOwn
  <2>7. RunsAgree' /\ GatewayKnows' /\ EffectsAgree'
    BY <2>6, RunsKept, EffectsKept DEF Send
  <2>8. WireAgrees'
    BY <1>2, <2>2, <2>3, <2>4, <2>6 DEF IInv, TypeOK, Message, WireAgrees, AgreesWith, Kept
  <2>9. SentOnce'
    BY <1>2, <2>2, <2>3, <1>a DEF Send, IInv, SentOnce, Guarded, NothingOf, NothingRuns
  <2> QED
    BY <2>6, <2>7, <2>8, <2>9 DEF IInv
<1> QED
  BY <1>1, <1>2 DEF Send

(* A turn that begins: nothing was sent for it before. *)
LEMMA BeginKeeps ==
  ASSUME IInv, NEW t \in Turns, turn[t].stage = "idle", NEW new \in Turn, new.stage # "idle",
         turn' = [turn EXCEPT ![t] = new]
  PROVE  /\ turn' \in [Turns -> Turn] /\ turn'[t] = new /\ \A u \in Turns \ {t} : turn'[u] = turn[u]
         /\ NothingOf(t) /\ holder[t] = NoToken
         /\ wire' = wire => WireAgrees'
         /\ runs' = runs /\ design' = design => RunsAgree' /\ GatewayKnows'
         /\ effects' = effects => EffectsAgree'
<1>1. turn' \in [Turns -> Turn] /\ turn'[t] = new /\ \A u \in Turns \ {t} : turn'[u] = turn[u]
  BY DEF IInv, TypeOK
<1>2. NothingOf(t) /\ holder[t] = NoToken
  BY DEF IInv, WireAgrees, RunsAgree, AgreesWith, EffectsAgree, NothingOf, NothingRuns, CellsAreOwn
<1>3. wire' = wire => WireAgrees'
  BY <1>1, <1>2 DEF IInv, TypeOK, Message, WireAgrees, AgreesWith, NothingOf
<1>4. runs' = runs /\ design' = design => RunsAgree' /\ GatewayKnows'
  BY <1>1, <1>2 DEF IInv, TypeOK, Run, RunsAgree, AgreesWith, GatewayKnows, Known, NothingOf, NothingRuns
<1>5. effects' = effects => EffectsAgree'
  BY <1>1, <1>2 DEF IInv, TypeOK, EffectsAgree, NothingOf, NothingRuns
<1> QED
  BY <1>1, <1>2, <1>3, <1>4, <1>5

LEMMA ArriveInv ==
  ASSUME IInv, NEW t \in Turns, Arrive(t)
  PROVE  IInv'
<1>1. PICK token \in {NoToken} \cup {tokens[p] : p \in People}, kind \in Kinds, confirmed \in BOOLEAN :
         turn' = [turn EXCEPT ![t] = [Idle EXCEPT !.stage = "arrived", !.token = token, !.kind = kind,
                                                  !.confirmed = confirmed, !.open = TRUE]]
  BY DEF Arrive
<1> DEFINE new == [Idle EXCEPT !.stage = "arrived", !.token = token, !.kind = kind,
                               !.confirmed = confirmed, !.open = TRUE]
<1>2. token \in Token
  BY <1>1 DEF IInv, TypeOK, NoToken, Token
<1>3. new \in Turn /\ new.stage = "arrived" /\ new.open /\ new.answer = "none" /\ new.sends = 0
  BY <1>2 DEF Turn, Idle, AnyKind
<1>4. turn' = [turn EXCEPT ![t] = new]
  BY <1>1
<1> HIDE DEF new
<1>5. turn[t].stage = "idle" /\ UNCHANGED <<now, tokens, wire, runs, design, effects>>
  BY DEF Arrive
<1>6. /\ turn' \in [Turns -> Turn] /\ turn'[t] = new /\ \A u \in Turns \ {t} : turn'[u] = turn[u]
      /\ NothingOf(t) /\ WireAgrees' /\ RunsAgree' /\ GatewayKnows' /\ EffectsAgree'
  BY <1>3, <1>4, <1>5, BeginKeeps
<1>7. holder' \in [Turns -> Token] /\ holder'[t] = NoToken /\ \A u \in Turns \ {t} : holder'[u] = holder[u]
  BY EmptiedKeeps DEF Arrive, IInv
<1>8. TypeOK' /\ CellsAreOwn'
  BY <1>3, <1>5, <1>6, <1>7 DEF IInv, TypeOK, CellsAreOwn
<1>9. SentOnce'
  BY <1>3, <1>5, <1>6 DEF IInv, SentOnce, Guarded, NothingOf, NothingRuns
<1> QED
  BY <1>6, <1>8, <1>9 DEF IInv

LEMMA CallRuntimeInv ==
  ASSUME IInv, NEW t \in Turns, CallRuntime(t)
  PROVE  IInv'
<1>1. PICK p \in People, kind \in Kinds, names \in {Me} \cup Travelers, confirmed \in BOOLEAN :
         /\ turn' = [turn EXCEPT ![t] = [Idle EXCEPT !.stage = "direct", !.token = tokens[p], !.kind = kind,
                                                     !.confirmed = confirmed]]
         /\ wire' = wire \cup {[turn |-> t, attempt |-> 0, kind |-> kind, token |-> tokens[p],
                                 names |-> names, confirmed |-> confirmed]}
  BY DEF CallRuntime
<1> DEFINE new == [Idle EXCEPT !.stage = "direct", !.token = tokens[p], !.kind = kind, !.confirmed = confirmed]
           m == [turn |-> t, attempt |-> 0, kind |-> kind, token |-> tokens[p],
                 names |-> names, confirmed |-> confirmed]
<1>2. tokens[p] \in Token /\ kind \in AnyKind
  BY DEF IInv, TypeOK, AnyKind
<1>3. /\ new \in Turn /\ new.stage = "direct" /\ new.answer = "none" /\ new.token = tokens[p]
      /\ new.kind = kind /\ new.confirmed = confirmed
  BY <1>2 DEF Turn, Idle
<1>4. m \in Message /\ m.turn = t /\ m.token = tokens[p] /\ m.kind = kind /\ m.confirmed = confirmed
  BY <1>2 DEF Message, Named
<1>5. turn' = [turn EXCEPT ![t] = new] /\ wire' = wire \cup {m}
  BY <1>1
<1> HIDE DEF new, m
<1>6. turn[t].stage = "idle" /\ UNCHANGED <<now, tokens, holder, runs, design, effects>>
  BY DEF CallRuntime
<1>7. /\ turn' \in [Turns -> Turn] /\ turn'[t] = new /\ \A u \in Turns \ {t} : turn'[u] = turn[u]
      /\ NothingOf(t) /\ holder[t] = NoToken /\ RunsAgree' /\ GatewayKnows' /\ EffectsAgree'
  BY <1>3, <1>5, <1>6, BeginKeeps
<1>8. TypeOK' /\ CellsAreOwn'
  BY <1>3, <1>4, <1>5, <1>6, <1>7 DEF IInv, TypeOK, CellsAreOwn
<1>9. WireAgrees'
  BY <1>3, <1>4, <1>5, <1>7 DEF IInv, TypeOK, Message, WireAgrees, AgreesWith, NothingOf
<1>10. SentOnce'
  BY <1>3, <1>4, <1>5, <1>6, <1>7 DEF IInv, SentOnce, Guarded, NothingOf, NothingRuns
<1> QED
  BY <1>7, <1>8, <1>9, <1>10 DEF IInv

LEMMA CallGatewayInv ==
  ASSUME IInv, NEW t \in Turns, CallGateway(t)
  PROVE  IInv'
<1>1. PICK p \in People, names \in Travelers :
         /\ runs' = runs \cup {NewRun([turn |-> t, attempt |-> 0, kind |-> "script", token |-> tokens[p],
                                       confirmed |-> TRUE], names)}
         /\ turn' = [turn EXCEPT ![t] = [Idle EXCEPT !.stage = "direct", !.token = tokens[p],
                                                     !.kind = "script", !.confirmed = TRUE]]
  BY DEF CallGateway
<1> DEFINE new == [Idle EXCEPT !.stage = "direct", !.token = tokens[p], !.kind = "script", !.confirmed = TRUE]
           r == NewRun([turn |-> t, attempt |-> 0, kind |-> "script", token |-> tokens[p],
                        confirmed |-> TRUE], names)
<1>2. tokens[p] \in Token
  BY DEF IInv, TypeOK
<1>3. /\ new \in Turn /\ new.stage = "direct" /\ new.answer = "none" /\ new.token = tokens[p]
      /\ new.kind = "script" /\ new.confirmed = TRUE
  BY <1>2 DEF Turn, Idle, AnyKind
<1>4. /\ r \in Run /\ r.turn = t /\ r.token = tokens[p] /\ r.kind = "script" /\ r.confirmed = TRUE
      /\ r.tool = "none" /\ r.stage = "thinking"
  BY <1>2 DEF Run, Named, NewRun, AnyKind
<1>5. turn' = [turn EXCEPT ![t] = new] /\ runs' = runs \cup {r}
  BY <1>1
<1> HIDE DEF new, r
<1>6. turn[t].stage = "idle" /\ UNCHANGED <<now, tokens, holder, wire, design, effects>>
  BY DEF CallGateway
<1>7. /\ turn' \in [Turns -> Turn] /\ turn'[t] = new /\ \A u \in Turns \ {t} : turn'[u] = turn[u]
      /\ NothingOf(t) /\ holder[t] = NoToken /\ WireAgrees' /\ EffectsAgree'
  BY <1>3, <1>5, <1>6, BeginKeeps
<1>8. TypeOK' /\ CellsAreOwn'
  BY <1>3, <1>4, <1>5, <1>6, <1>7 DEF IInv, TypeOK, CellsAreOwn
<1>9. RunsAgree' /\ GatewayKnows'
  <2>1. RunsAgree'
    <3> SUFFICES ASSUME NEW r2 \in runs' PROVE AgreesWith(r2, r2.turn)'
      BY DEF RunsAgree
    <3>1. CASE r2 = r
      BY <3>1, <1>3, <1>4, <1>7 DEF AgreesWith
    <3>2. CASE r2 \in runs
      BY <3>2, <1>7 DEF IInv, TypeOK, Run, RunsAgree, AgreesWith, NothingOf, NothingRuns
    <3> QED
      BY <3>1, <3>2, <1>5
  <2>2. GatewayKnows'
    BY <1>4, <1>5, <1>6 DEF IInv, GatewayKnows, Known, Pinned
  <2> QED
    BY <2>1, <2>2
<1>10. SentOnce'
  BY <1>3, <1>4, <1>5, <1>6, <1>7 DEF IInv, SentOnce, Guarded, NothingOf, NothingRuns
<1> QED
  BY <1>7, <1>8, <1>9, <1>10 DEF IInv

LEMMA TakeInv ==
  ASSUME IInv, NEW m \in wire, Take(m)
  PROVE  IInv'
<1> DEFINE t == m.turn
<1>1. m \in Message /\ t \in Turns /\ AgreesWith(m, t)
  BY DEF IInv, TypeOK, Message, WireAgrees
<1>2. wire' = wire \ {m} /\ UNCHANGED <<now, tokens, design, effects>>
  BY DEF Take
<1>3. CASE \E answer \in {"token_expired", "failed"}, ran \in BOOLEAN :
              Reply(t, m.attempt, answer, ran) /\ UNCHANGED runs
  <2>1. PICK answer \in {"token_expired", "failed"}, ran \in BOOLEAN :
           Reply(t, m.attempt, answer, ran) /\ UNCHANGED runs
    BY <1>3
  <2>2. answer \in Answers \ {"none"}
    BY DEF Answers
  <2>3. /\ turn' \in [Turns -> Turn] /\ holder' \in [Turns -> Token] /\ Kept /\ CellsAreOwn'
        /\ \A u \in Turns : \/ turn'[u] = turn[u]
                           \/ /\ u = t /\ turn'[u].stage = "ended" /\ turn'[u].answer = answer
                              /\ turn[u].stage = "sent"
    BY <1>1, <2>1, <2>2, ReplyKeeps
  <2>4. TypeOK'
    BY <1>2, <2>1, <2>3 DEF IInv, TypeOK
  <2>5. WireAgrees' /\ RunsAgree' /\ GatewayKnows' /\ EffectsAgree'
    BY <1>2, <2>1, <2>3, WireKept, RunsKept, EffectsKept
  <2>6. SentOnce'
    <3> SUFFICES ASSUME NEW u \in Turns, Guarded(u)'
                 PROVE  /\ turn'[u].stage \in {"arrived", "verified", "working"}
                              => NothingOf(u)' /\ turn'[u].sends = 0
                        /\ turn'[u].answer = "token_expired" => NothingOf(u)'
                        /\ turn'[u].stage = "sent" =>
                              /\ \A x \in wire' : x.turn = u => NothingRuns(u)'
                              /\ \A x, y \in wire' : x.turn = u /\ y.turn = u => x = y
      BY DEF SentOnce
    <3>1. CASE turn'[u] = turn[u]
      BY <3>1, <1>2, <2>1 DEF IInv, SentOnce, Guarded, NothingOf, NothingRuns
    <3>2. CASE u = t /\ turn'[u].stage = "ended" /\ turn[u].stage = "sent"
      <4>1. Guarded(u)
        BY <3>2, <2>3 DEF Guarded, Kept
      <4>2. NothingRuns(u) /\ \A x \in wire : x.turn = u => x = m
        BY <3>2, <4>1 DEF IInv, SentOnce
      <4> QED
        BY <3>2, <4>2, <1>2, <2>1 DEF NothingOf, NothingRuns
    <3> QED
      BY <3>1, <3>2, <2>3
  <2> QED
    BY <2>3, <2>4, <2>5, <2>6 DEF IInv
<1>4. CASE runs' = runs \cup {NewRun(m, m.token.claim)} /\ UNCHANGED <<turn, holder>>
  <2> DEFINE r == NewRun(m, m.token.claim)
  <2>1. /\ r \in Run /\ r.turn = t /\ AgreesWith(r, t) /\ r.tool = "none" /\ r.stage = "thinking"
    BY <1>1 DEF NewRun, Message, Run, Token, Named, AgreesWith
  <2>a. runs' = runs \cup {r} /\ UNCHANGED <<turn, holder>>
    BY <1>4
  <2> HIDE DEF r
  <2>2. TypeOK' /\ CellsAreOwn'
    BY <1>2, <2>a, <2>1 DEF IInv, TypeOK, CellsAreOwn
  <2>3. Kept
    BY <1>4 DEF Kept
  <2>4. WireAgrees' /\ EffectsAgree'
    BY <1>2, <2>3, WireKept, EffectsKept
  <2>5. RunsAgree'
    BY <2>a, <2>1 DEF IInv, RunsAgree, AgreesWith
  <2>6. GatewayKnows'
    BY <1>2, <2>a, <2>1 DEF IInv, GatewayKnows, Known, Pinned
  <2>7. SentOnce'
    BY <1>1, <1>2, <2>a, <2>1 DEF IInv, SentOnce, Guarded, NothingOf, NothingRuns
  <2> QED
    BY <2>2, <2>4, <2>5, <2>6, <2>7 DEF IInv
<1>5. Live(m.token) \in BOOLEAN
  BY DEF Live
<1> QED
  BY <1>3, <1>4, <1>5 DEF Take

(* A run that is over: whatever it answers, only the workflow answers that its token expired. *)
LEMMA OverInv ==
  ASSUME IInv, NEW r \in runs, NEW answer \in Answers \ {"none"}, Over(r, answer),
         answer = "token_expired" => r.kind = "workflow",
         UNCHANGED <<now, tokens, wire, design, effects>>
  PROVE  IInv'
<1> DEFINE t == r.turn
<1>1. r \in Run /\ t \in Turns /\ AgreesWith(r, t)
  BY DEF IInv, TypeOK, Run, RunsAgree
<1>2. runs' = runs \ {r} /\ Reply(t, r.attempt, answer, TRUE)
  BY DEF Over
<1>3. /\ turn' \in [Turns -> Turn] /\ holder' \in [Turns -> Token] /\ Kept /\ CellsAreOwn'
      /\ \A u \in Turns : \/ turn'[u] = turn[u]
                         \/ /\ u = t /\ turn'[u].stage = "ended" /\ turn'[u].answer = answer
                            /\ turn[u].stage = "sent"
  BY <1>1, <1>2, ReplyKeeps
<1>4. TypeOK'
  BY <1>2, <1>3 DEF IInv, TypeOK
<1>5. WireAgrees' /\ RunsAgree' /\ GatewayKnows' /\ EffectsAgree'
  BY <1>2, <1>3, WireKept, RunsKept, EffectsKept
<1>6. SentOnce'
  <2> SUFFICES ASSUME NEW u \in Turns, Guarded(u)'
               PROVE  /\ turn'[u].stage \in {"arrived", "verified", "working"}
                            => NothingOf(u)' /\ turn'[u].sends = 0
                      /\ turn'[u].answer = "token_expired" => NothingOf(u)'
                      /\ turn'[u].stage = "sent" =>
                            /\ \A x \in wire' : x.turn = u => NothingRuns(u)'
                            /\ \A x, y \in wire' : x.turn = u /\ y.turn = u => x = y
    BY DEF SentOnce
  <2>1. CASE turn'[u] = turn[u]
    BY <2>1, <1>2 DEF IInv, SentOnce, Guarded, NothingOf, NothingRuns
  <2>2. CASE u = t /\ turn'[u].stage = "ended" /\ turn'[u].answer = answer
    <3>1. turn'[u].kind = r.kind /\ turn'[u].kind = "concierge"
      BY <2>2, <1>1, <1>3 DEF Kept, AgreesWith, Guarded
    <3> QED
      BY <2>2, <3>1
  <2> QED
    BY <2>1, <2>2, <1>3
<1> QED
  BY <1>3, <1>4, <1>5, <1>6 DEF IInv

(* A run that goes on, having acted or not: it is still its turn's, and its layer's claim holds. *)
LEMMA GoesOnInv ==
  ASSUME IInv, NEW r \in runs, NEW r2 \in Run,
         r2.turn = r.turn, r2.token = r.token, r2.kind = r.kind, r2.confirmed = r.confirmed,
         Known(r2),
         \A x \in effects' \ effects :
            /\ x \in [turn : Turns, tool : Tools, traveler : Named] /\ x.turn = r.turn
            /\ x.tool \in Pinned => x.traveler = r.token.claim /\ r.confirmed,
         runs' = (runs \ {r}) \cup {r2}, effects \subseteq effects',
         UNCHANGED <<now, tokens, turn, holder, wire, design>>
  PROVE  IInv'
<1>1. r.turn \in Turns /\ AgreesWith(r, r.turn)
  BY DEF IInv, TypeOK, Run, RunsAgree
<1>2. TypeOK'
  <2>1. effects' \subseteq [turn : Turns, tool : Tools, traveler : Named]
    BY DEF IInv, TypeOK
  <2>2. runs' \subseteq Run
    BY DEF IInv, TypeOK
  <2> QED
    BY <2>1, <2>2 DEF IInv, TypeOK
<1>3. CellsAreOwn' /\ WireAgrees'
  BY DEF IInv, CellsAreOwn, WireAgrees, AgreesWith
<1>4. RunsAgree'
  BY <1>1 DEF IInv, RunsAgree, AgreesWith
<1>5. GatewayKnows'
  BY DEF IInv, GatewayKnows, Known
<1>6. EffectsAgree'
  <2>1. \A x \in effects' \ effects :
           /\ turn[x.turn].stage # "idle"
           /\ x.tool \in Pinned => x.traveler = turn[x.turn].token.claim /\ turn[x.turn].confirmed
    BY <1>1 DEF AgreesWith
  <2> QED
    BY <2>1 DEF IInv, EffectsAgree
<1>7. SentOnce'
  <2>1. \A u \in Turns : NothingRuns(u) => NothingRuns(u)'
    <3> SUFFICES ASSUME NEW u \in Turns, NothingRuns(u) PROVE NothingRuns(u)'
      OBVIOUS
    <3>1. r.turn # u
      BY DEF NothingRuns
    <3> QED
      BY <3>1 DEF NothingRuns
  <2> QED
    BY <2>1 DEF IInv, SentOnce, Guarded, NothingOf
<1> QED
  BY <1>2, <1>3, <1>4, <1>5, <1>6, <1>7 DEF IInv

(* A stage that says nothing about the traveler. *)
LEMMA MovedInv ==
  ASSUME IInv, NEW r \in runs, NEW stage \in {"thinking", "admitted"}, Moved(r, stage),
         UNCHANGED <<now, tokens, turn, holder, wire, design, effects>>
  PROVE  IInv'
<1> DEFINE r2 == [r EXCEPT !.stage = stage]
<1>1. r \in Run
  BY DEF IInv, TypeOK
<1>2. /\ r2 \in Run /\ r2.turn = r.turn /\ r2.token = r.token /\ r2.kind = r.kind
      /\ r2.confirmed = r.confirmed /\ r2.stage = stage
  BY <1>1 DEF Run
<1>3. runs' = (runs \ {r}) \cup {r2} /\ effects' = effects
  BY DEF Moved
<1> HIDE DEF r2
<1> QED
  BY <1>2, <1>3, GoesOnInv DEF Known

LEMMA ToolErrorInv ==
  ASSUME IInv, NEW r \in runs, ToolError(r), UNCHANGED <<now, tokens, wire, design, effects>>
  PROVE  IInv'
<1>1. CASE r.kind = "workflow"
  BY <1>1, OverInv DEF ToolError, Answers
<1>2. CASE r.kind # "workflow"
  BY <1>2, MovedInv DEF ToolError
<1> QED
  BY <1>1, <1>2

LEMMA CallInv ==
  ASSUME IInv, NEW r \in runs, Call(r)
  PROVE  IInv'
<1>1. CASE r.kind = "workflow" /\ Over(r, "token_expired")
  BY <1>1, OverInv DEF Call, Answers
<1>2. CASE /\ \E tool \in Tools :
                runs' = (runs \ {r}) \cup {[r EXCEPT !.stage = "called", !.tool = tool, !.calls = @ + 1]}
           /\ UNCHANGED <<turn, holder>>
  <2>1. PICK tool \in Tools :
           runs' = (runs \ {r}) \cup {[r EXCEPT !.stage = "called", !.tool = tool, !.calls = @ + 1]}
    BY <1>2
  <2> DEFINE r2 == [r EXCEPT !.stage = "called", !.tool = tool, !.calls = r.calls + 1]
  <2>2. r \in Run
    BY DEF IInv, TypeOK
  <2>3. r2 \in Run
    <3>1. r.calls + 1 \in Nat /\ tool \in Tools \cup {"none"}
      BY <2>2 DEF Run
    <3> QED
      BY <2>2, <3>1 DEF Run
  <2>4. /\ r2.turn = r.turn /\ r2.token = r.token /\ r2.kind = r.kind
        /\ r2.confirmed = r.confirmed /\ r2.stage = "called"
    BY <2>2 DEF Run
  <2>5. runs' = (runs \ {r}) \cup {r2} /\ effects' = effects
    BY <2>1, <2>2 DEF Call
  <2> HIDE DEF r2
  <2> QED
    BY <1>2, <2>3, <2>4, <2>5, GoesOnInv DEF Call, Known
<1> QED
  BY <1>1, <1>2 DEF Call

LEMMA FinishInv ==
  ASSUME IInv, NEW r \in runs, Finish(r)
  PROVE  IInv'
  BY OverInv DEF Finish, Answers

LEMMA AdmitInv ==
  ASSUME IInv, NEW r \in runs, Admit(r)
  PROVE  IInv'
<1>1. CASE Moved(r, "admitted") /\ UNCHANGED <<turn, holder>>
  BY <1>1, MovedInv DEF Admit
<1>2. CASE Over(r, IF r.kind = "workflow" THEN "token_expired" ELSE "failed")
  BY <1>2, OverInv DEF Admit, Answers
<1> QED
  BY <1>1, <1>2 DEF Admit

LEMMA InterceptInv ==
  ASSUME IInv, NEW r \in runs, Intercept(r)
  PROVE  IInv'
<1>1. r \in Run /\ r.token \in Token
  BY DEF IInv, TypeOK, Run
<1>2. CASE /\ r.tool \notin Pinned \/ design = "cedar"
           /\ Moved(r, "intercepted") /\ UNCHANGED <<turn, holder>>
  <2> DEFINE r2 == [r EXCEPT !.stage = "intercepted"]
  <2>1. /\ r2 \in Run /\ r2.turn = r.turn /\ r2.token = r.token /\ r2.kind = r.kind
        /\ r2.confirmed = r.confirmed /\ r2.stage = "intercepted" /\ r2.tool = r.tool
    BY <1>1 DEF Run
  <2>2. runs' = (runs \ {r}) \cup {r2} /\ effects' = effects
    BY <1>2 DEF Moved, Intercept
  <2> HIDE DEF r2
  <2> QED
    BY <1>2, <2>1, <2>2, GoesOnInv DEF Intercept, Known
<1>3. CASE /\ runs' = (runs \ {r}) \cup {[r EXCEPT !.stage = "intercepted", !.acting = PinTraveler(r)]}
           /\ UNCHANGED <<turn, holder>>
  <2> DEFINE r2 == [r EXCEPT !.stage = "intercepted", !.acting = PinTraveler(r)]
  <2>1. PinTraveler(r) \in Named
    BY <1>1 DEF PinTraveler, Token, Named
  <2>2. r2 \in Run
    BY <1>1, <2>1 DEF Run
  <2>3. /\ r2.turn = r.turn /\ r2.token = r.token /\ r2.kind = r.kind
        /\ r2.confirmed = r.confirmed /\ r2.stage = "intercepted" /\ r2.acting = r2.token.claim
    BY <1>1 DEF Run, PinTraveler
  <2>4. runs' = (runs \ {r}) \cup {r2} /\ effects' = effects
    BY <1>3 DEF Intercept
  <2> HIDE DEF r2
  <2> QED
    BY <1>3, <2>2, <2>3, <2>4, GoesOnInv DEF Intercept, Known
<1>4. CASE ToolError(r)
  BY <1>4, ToolErrorInv DEF Intercept
<1> QED
  BY <1>2, <1>3, <1>4 DEF Intercept

LEMMA DecideInv ==
  ASSUME IInv, NEW r \in runs, Decide(r)
  PROVE  IInv'
<1>1. r \in Run
  BY DEF IInv, TypeOK
<1>2. CASE Permitted(r) /\ Moved(r, "allowed") /\ UNCHANGED <<turn, holder>>
  <2> DEFINE r2 == [r EXCEPT !.stage = "allowed"]
  <2>1. /\ r2 \in Run /\ r2.turn = r.turn /\ r2.token = r.token /\ r2.kind = r.kind
        /\ r2.confirmed = r.confirmed /\ r2.stage = "allowed" /\ r2.tool = r.tool /\ r2.acting = r.acting
    BY <1>1 DEF Run
  <2>2. runs' = (runs \ {r}) \cup {r2} /\ effects' = effects
    BY <1>2 DEF Moved, Decide
  <2>3. r.tool \in Pinned => r.acting = r.token.claim /\ r.confirmed
    BY <1>2 DEF Permitted, Pinned, Decide, IInv, GatewayKnows, Known
  <2>4. r.tool \in Tools
    BY <1>2 DEF Permitted, Tools
  <2> HIDE DEF r2
  <2> QED
    BY <1>2, <2>1, <2>2, <2>3, <2>4, GoesOnInv DEF Decide, Known
<1>3. CASE ToolError(r)
  BY <1>3, ToolErrorInv DEF Decide
<1> QED
  BY <1>2, <1>3 DEF Decide

LEMMA ActInv ==
  ASSUME IInv, NEW r \in runs, Act(r)
  PROVE  IInv'
<1> DEFINE r2 == [r EXCEPT !.stage = "thinking"]
           x == [turn |-> r.turn, tool |-> r.tool, traveler |-> r.acting]
<1>1. r \in Run /\ r.stage = "allowed"
  BY DEF IInv, TypeOK, Act
<1>2. /\ r2 \in Run /\ r2.turn = r.turn /\ r2.token = r.token /\ r2.kind = r.kind
      /\ r2.confirmed = r.confirmed /\ r2.stage = "thinking"
  BY <1>1 DEF Run
<1>3. runs' = (runs \ {r}) \cup {r2} /\ effects' = effects \cup {x}
  BY DEF Moved, Act
<1>4. r.tool \in Tools
  BY <1>1 DEF IInv, GatewayKnows, Known
<1>5. x \in [turn : Turns, tool : Tools, traveler : Named] /\ x.turn = r.turn
  BY <1>1, <1>4 DEF Run
<1>6. x.tool \in Pinned => x.traveler = r.token.claim /\ r.confirmed
  BY <1>1 DEF IInv, GatewayKnows, Known
<1> HIDE DEF r2, x
<1> QED
  BY <1>2, <1>3, <1>5, <1>6, GoesOnInv DEF Act, Known

LEMMA StepInv == IInv /\ [Next]_vars => IInv'
<1> SUFFICES ASSUME IInv, [Next]_vars PROVE IInv'
  OBVIOUS
<1>1. CASE Next
  BY <1>1, TickInv, SignInInv, ArriveInv, VerifyInv, AuthorizeTravelerInv, LeaveInv, SendInv,
     NotMadeInv, DropInv, ConflictInv, CallRuntimeInv, CallGatewayInv, TakeInv, CallInv, FinishInv,
     AdmitInv, InterceptInv, DecideInv, ActInv DEF Next
<1>2. CASE UNCHANGED vars
  <2> USE <1>2 DEF vars
  <2>1. TypeOK' /\ CellsAreOwn' /\ EffectsAgree'
    BY DEF IInv, TypeOK, CellsAreOwn, EffectsAgree
  <2>2. WireAgrees' /\ RunsAgree' /\ GatewayKnows' /\ SentOnce'
    BY DEF IInv, WireAgrees, RunsAgree, AgreesWith, GatewayKnows, Known, SentOnce, Guarded, NothingOf, NothingRuns
  <2> QED
    BY <2>1, <2>2 DEF IInv
<1> QED
  BY <1>1, <1>2

(* A step that raises a request's count of messages is one that sends. *)
LEMMA SendsOnlyInSend ==
  ASSUME IInv, Next, NEW t \in Turns, turn'[t].sends > turn[t].sends
  PROVE  turn[t].open
<1>1. turn \in [Turns -> Turn] /\ turn[t] \in Turn /\ turn[t].sends \in Nat
  BY DEF IInv, TypeOK, Turn
<1>2. ASSUME turn'[t].sends = turn[t].sends \/ turn'[t].sends = 0 PROVE FALSE
  BY <1>1, <1>2
<1>3. CASE UNCHANGED turn
  BY <1>2, <1>3
<1>4. ASSUME NEW u \in Turns, Arrive(u) \/ CallRuntime(u) \/ CallGateway(u) PROVE FALSE
  <2>1. turn'[t].sends = turn[t].sends \/ turn'[t].sends = 0
    BY <1>4, <1>1 DEF Arrive, CallRuntime, CallGateway, Idle
  <2> QED
    BY <2>1, <1>2
<1>5. ASSUME NEW u \in Turns, Verify(u) \/ AuthorizeTraveler(u) \/ Leave(u) \/ NotMade(u) \/ Drop(u) \/ Conflict(u)
      PROVE  FALSE
  <2>1. turn'[t].sends = turn[t].sends
    BY <1>5, <1>1 DEF Verify, AuthorizeTraveler, Leave, NotMade, Drop, Conflict, Answered, Turn
  <2> QED
    BY <2>1, <1>2
<1>6. ASSUME NEW u \in Turns, NEW attempt, NEW answer, NEW ran, Reply(u, attempt, answer, ran)
      PROVE  FALSE
  <2>1. turn'[t].sends = turn[t].sends
    BY <1>6, <1>1 DEF Reply, Answered, Turn
  <2> QED
    BY <2>1, <1>2
<1>7. ASSUME NEW u \in Turns, Send(u) PROVE turn[t].open
  <2>1. CASE \E answer \in {"sign_in_required", "token_expired"} : Refused(u, answer)
    <3>1. turn'[t].sends = turn[t].sends
      BY <2>1, <1>1 DEF Refused, Answered, Turn
    <3> QED
      BY <3>1, <1>2
  <2>2. CASE holder[Cell(u)] # NoToken /\ turn' = [turn EXCEPT ![u].stage = "sent", ![u].sends = @ + 1]
    <3>1. turn[u].open
      BY <2>2 DEF Cell, IInv, CellsAreOwn
    <3>2. t # u => turn'[t] = turn[t]
      BY <2>2, <1>1
    <3> QED
      BY <3>1, <3>2, <1>2
  <2> QED
    BY <1>7, <2>1, <2>2 DEF Send
<1>8. ASSUME NEW m \in wire, Take(m) PROVE FALSE
  <2>1. m.turn \in Turns
    BY DEF IInv, TypeOK, Message
  <2> QED
    BY <1>3, <1>6, <1>8, <1>2, <2>1 DEF Take
<1>9. ASSUME NEW r \in runs, Call(r) \/ Finish(r) \/ Admit(r) \/ Intercept(r) \/ Decide(r) \/ Act(r) PROVE FALSE
  <2>1. r.turn \in Turns
    BY DEF IInv, TypeOK, Run
  <2>2. UNCHANGED turn \/ \E answer \in Answers : Reply(r.turn, r.attempt, answer, TRUE)
    BY <1>9 DEF Call, Finish, Admit, Intercept, Decide, Act, ToolError, Over, Answers
  <2> QED
    BY <1>2, <1>6, <2>1, <2>2
<1>10. CASE Tick \/ \E p \in People : SignIn(p)
  BY <1>2, <1>10 DEF Tick, SignIn
<1> QED
  BY <1>4, <1>5, <1>7, <1>8, <1>9, <1>10 DEF Next

-----------------------------------------------------------------------------
(* The theorems. *)

\* Every reachable state satisfies the inductive invariant.
THEOREM Inductive == Spec => []IInv
  BY InitInv, StepInv, PTL DEF Spec

\* Times, tokens, requests, messages, runs and effects keep their types.
THEOREM TypesHold == Spec => []TypeOK
<1>1. IInv => TypeOK
  BY DEF IInv
<1> QED
  BY <1>1, Inductive, PTL

\* A hold is for the traveler of the token that its turn began with, in every design of the
\* Gateway, also when a person calls the Runtime or the Gateway with arguments of their own.
THEOREM HoldsActForTheirCaller == Spec => []ActsForItsCaller
<1>1. IInv => ActsForItsCaller
  BY DEF IInv, EffectsAgree, ActsForItsCaller
<1> QED
  BY <1>1, Inductive, PTL

\* A message to a Runtime carries the token of the request that sent it.
THEOREM TokensStay == Spec => []TokenStaysWithItsRequest
<1>1. IInv => TokenStaysWithItsRequest
  BY DEF IInv, WireAgrees, AgreesWith, TokenStaysWithItsRequest
<1> QED
  BY <1>1, Inductive, PTL

\* Only an open request sends: the work that goes on after it finds its cell empty.
THEOREM OutlivedWorkSendsNothing == Spec => OutlivedSendsNothing
<1>1. IInv /\ [Next]_vars => [\A t \in Turns : turn'[t].sends > turn[t].sends => turn[t].open]_vars
  <2> SUFFICES ASSUME IInv, Next, NEW t \in Turns, turn'[t].sends > turn[t].sends PROVE turn[t].open
    OBVIOUS
  <2>1. turn \in [Turns -> Turn] /\ turn[t].sends \in Nat
    BY DEF IInv, TypeOK, Turn
  <2> QED
    BY SendsOnlyInSend, <2>1
<1> QED
  BY <1>1, Inductive, PTL DEF Spec, OutlivedSendsNothing

\* A turn of the Concierge answered "token_expired" holds nothing: an unconfirmed one never may,
\* and a confirmed one has no message, run or effect left that could.
THEOREM ExpiredWroteNothing == Spec => []ExpiredConciergeWroteNothing
<1>1. IInv => ExpiredConciergeWroteNothing
  <2> SUFFICES ASSUME IInv, NEW t \in Turns, turn[t].kind = "concierge",
                      turn[t].answer = "token_expired"
               PROVE  ~Held(t)
    BY DEF ExpiredConciergeWroteNothing
  <2>1. turn[t].stage = "ended"
    BY DEF IInv, CellsAreOwn
  <2>2. CASE turn[t].confirmed
    BY <2>1, <2>2 DEF IInv, SentOnce, Guarded, NothingOf, NothingRuns, Held
  <2>3. CASE ~turn[t].confirmed
    BY <2>3 DEF IInv, EffectsAgree, Held
  <2> QED
    BY <2>2, <2>3
<1> QED
  BY <1>1, Inductive, PTL
=============================================================================
