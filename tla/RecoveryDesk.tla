------------------------------ MODULE RecoveryDesk ------------------------------
(* The page over one traveler's turns: useMeridianShowcase sends concierge turns (phase
   4) and recoveries (phase 5), useJourney reads a recovery's saved progress, and
   DesktopMeridianApp decides what to read and when to show it. A recovery runs on at
   the server whatever the page does. Source paths are below meridian/frontend/src/showcase. *)
EXTENDS Naturals

CONSTANTS Views,      \* surfaces the person opens: the recovery desk, the concierge
          MaxTurns,   \* bound on requests
          MaxMoves,   \* bound on clears, phase changes, switches of view, reloads, dismissals
          MaxFaults   \* bound on lost answers, refusals, failed reads and runs

DeskAssumption == Views \subseteq {"desk", "concierge"} /\ Views # {} /\ MaxTurns \in Nat

VARIABLES page,    \* the state of the hook
          url,     \* the thread in the page's address
          turns,   \* every request sent, by number
          saved,   \* Aurora: the progress of each recovery
          live,    \* the recovery's worker holds its lease
          read,    \* the journey read of the page, and the document it shows
          moves, faults
vars == <<page, url, turns, saved, live, read, moves, faults>>

None    == 0
Turns   == 1..MaxTurns        \* a recovery has the number of the turn that started it
Concierge == MaxTurns + 1     \* the conversation of phase 4
NoDoc   == [thread |-> None, saved |-> "none", live |-> FALSE]
NoTurn  == [phase |-> None, thread |-> None, at |-> "unsent", waits |-> FALSE, gen |-> None]
Opened(v) == [view |-> v, sel |-> 4, last |-> None, conv |-> None, kind |-> None, gen |-> None,
              chat |-> None, write |-> FALSE, loading |-> FALSE, unresolved |-> None,
              awaiting |-> FALSE, error |-> FALSE, wiped |-> None, said |-> None]
NotRead == [key |-> None, poll |-> FALSE, at |-> "done", val |-> NoDoc, doc |-> NoDoc, fresh |-> FALSE]

Init == /\ page \in {Opened(v) : v \in Views}
        /\ url = None
        /\ turns = [n \in Turns |-> NoTurn]
        /\ saved = [n \in Turns |-> "none"] /\ live = [n \in Turns |-> FALSE]
        /\ read = NotRead
        /\ moves = 0 /\ faults = 0

Move  == moves < MaxMoves /\ moves' = moves + 1
Fault == faults < MaxFaults /\ faults' = faults + 1
server == <<saved, live>>
Unsent == {n \in Turns : turns[n].at = "unsent"}
Busy == page.chat # None \/ page.write \/ page.loading

-----------------------------------------------------------------------------
(* submitPrompt. *)
Send(n, phase, thread, p) ==
  /\ turns' = [turns EXCEPT ![n] = [phase |-> phase, thread |-> thread, at |-> "sent",
                                    waits |-> TRUE, gen |-> p.gen]]
  /\ page' = [p EXCEPT !.chat = n, !.loading = TRUE]
\* The next generation of the page: a turn of another phase starts a clean transcript.
Begin(phase) ==
  LET starts == page.kind \notin {None, phase}
  IN  [page EXCEPT !.gen = @ + 1, !.last = phase, !.error = FALSE,
                   !.wiped = IF starts THEN page.gen + 1 ELSE @,
                   !.said = IF starts THEN None ELSE @,
                   !.conv = IF starts THEN None ELSE @]
First(n) == n \in Unsent /\ \A m \in Unsent : n <= m
Ask(n) == /\ First(n) /\ ~Busy
          /\ page.sel = 4 \/ page.view = "concierge"
          /\ Send(n, 4, None, Begin(4))
          /\ url' = IF page.kind \notin {None, 4} THEN None ELSE url
          /\ UNCHANGED <<server, read, moves, faults>>
\* The address is kept before the recovery is sent.
Recover(n) == /\ First(n) /\ ~Busy /\ page.unresolved = None
              /\ Send(n, 5, n, [Begin(5) EXCEPT !.sel = 5, !.conv = n, !.kind = 5,
                                                !.wiped = page.gen + 1, !.said = None])
              /\ url' = n
              /\ UNCHANGED <<server, read, moves, faults>>
Resume(n) == /\ First(n) /\ ~Busy /\ page.unresolved = None
             /\ IF page.kind = 5 /\ page.conv # None
                THEN /\ Send(n, 5, page.conv, [Begin(5) EXCEPT !.sel = 5, !.kind = 5])
                     /\ url' = page.conv
                ELSE /\ page' = [Begin(5) EXCEPT !.error = TRUE]     \* open the saved recovery first
                     /\ Move /\ UNCHANGED <<turns, url>>
             /\ page.kind = 5 /\ page.conv # None => UNCHANGED moves
             /\ UNCHANGED <<server, read, faults>>
\* A recovery whose outcome is unknown has to be read again before the next one.
Blocked == /\ page.unresolved # None /\ ~page.error
           /\ page' = [page EXCEPT !.error = TRUE]
           /\ UNCHANGED <<url, turns, server, read, moves, faults>>

IsCurrent(n) == turns[n].gen = page.gen
Settled(n) == turns' = [turns EXCEPT ![n].waits = FALSE]
\* Text of a concierge turn as it is written; the first event names its conversation.
Stream(n) == /\ turns[n].waits /\ turns[n].phase = 4 /\ turns[n].at = "running" /\ IsCurrent(n)
             /\ page' = [page EXCEPT !.conv = Concierge, !.kind = 4, !.said = turns[n].gen]
             /\ UNCHANGED <<url, turns, server, read, moves, faults>>
Reply(n) == /\ turns[n].waits /\ turns[n].at = "answered"
            /\ Settled(n)
            /\ page' = IF ~IsCurrent(n) THEN page
                       ELSE [page EXCEPT !.chat = None, !.loading = FALSE, !.said = turns[n].gen,
                              !.kind = turns[n].phase,
                              !.conv = IF turns[n].phase = 5 THEN turns[n].thread ELSE Concierge]
            /\ UNCHANGED <<url, server, read, moves, faults>>
\* Refused, lost, or no longer waited for: of a recovery the outcome is unknown.
Fails(n) ==
  /\ turns[n].waits
  /\ Settled(n)
  /\ page' = IF ~IsCurrent(n) THEN page
             ELSE [page EXCEPT !.chat = None, !.loading = FALSE, !.error = TRUE, !.said = turns[n].gen,
                    !.unresolved = IF turns[n].phase = 5 THEN turns[n].thread ELSE @,
                    !.awaiting = @ \/ (turns[n].phase = 5 /\ turns[n].at # "refused")]
  /\ IF IsCurrent(n) /\ turns[n].at \notin {"refused", "busy"} THEN Fault ELSE UNCHANGED faults
  /\ UNCHANGED <<url, server, read, moves>>

-----------------------------------------------------------------------------
(* A hold or booking, a clean page, another view. *)
Write == /\ ~Busy /\ Move
         /\ page' = [page EXCEPT !.write = TRUE, !.loading = TRUE, !.error = FALSE]
         /\ UNCHANGED <<url, turns, server, read, faults>>
WriteEnds == /\ page.write
             /\ page' = [page EXCEPT !.write = FALSE, !.loading = FALSE]
             /\ UNCHANGED <<url, turns, server, read, moves, faults>>
StillLoading == page.write
Cleared == [page EXCEPT !.gen = @ + 1, !.wiped = page.gen + 1, !.said = None, !.chat = None,
                        !.unresolved = None, !.awaiting = FALSE, !.loading = StillLoading,
                        !.last = None, !.conv = None, !.error = FALSE]
ClearChat == /\ Move /\ page' = Cleared /\ url' = None
             /\ UNCHANGED <<turns, server, read, faults>>
SetSelectedPhase(p) == /\ p # page.sel \/ page.last \notin {None, p}
                       /\ Move /\ page' = [Cleared EXCEPT !.sel = p] /\ url' = None
                       /\ UNCHANGED <<turns, server, read, faults>>
SetView(v) == /\ v # page.view /\ Move
              /\ page' = [page EXCEPT !.view = v]
              /\ UNCHANGED <<url, turns, server, read, faults>>
ClearError == /\ page.error /\ Move
              /\ page' = [page EXCEPT !.error = FALSE]
              /\ UNCHANGED <<url, turns, server, read, faults>>
\* Everything but the address is lost.
Reload == /\ Move /\ page' = Opened(page.view)
          /\ turns' = [n \in Turns |-> [turns[n] EXCEPT !.waits = FALSE]]
          /\ read' = NotRead
          /\ UNCHANGED <<url, server, faults>>
\* Five minutes of reading are enough.
Limit == /\ page.awaiting
         /\ page' = [page EXCEPT !.awaiting = FALSE]
         /\ UNCHANGED <<url, turns, server, read, moves, faults>>

-----------------------------------------------------------------------------
(* useJourney and what the desk does with the document. *)
RunPhase == IF page.last # None THEN page.last ELSE page.sel
OnDesk == page.view = "desk"
Watching == OnDesk /\ RunPhase = 5 /\ page.loading /\ page.conv # None
ReadingBack == RunPhase = 5 /\ page.awaiting /\ ~page.loading /\ page.conv # None
Poll == Watching \/ ReadingBack
Key == IF ~(Poll \/ (OnDesk /\ ~page.loading)) THEN None
       ELSE IF RunPhase = 5 /\ page.conv \in Turns THEN page.conv ELSE url
Doc == IF read.key = Key THEN read.doc ELSE NoDoc
\* Another key or polling or not: the read under way is aborted and another one starts.
Restart == /\ read.key # Key \/ read.poll # Poll
           /\ read' = [NotRead EXCEPT !.key = Key, !.poll = Poll, !.doc = Doc,
                         !.fresh = read.key = Key /\ read.fresh,
                         !.at = IF Key = None THEN "done" ELSE "asked"]
           /\ UNCHANGED <<page, url, turns, server, moves, faults>>
Same == read.key = Key /\ read.poll = Poll /\ Key # None
\* The person reads it again, or a poll's second has passed.
Again == /\ Same /\ read.at = "done"
         /\ read' = [read EXCEPT !.at = "asked"]
         /\ UNCHANGED <<page, url, turns, server, moves, faults>>
Sample == /\ Same /\ read.at = "asked"
          /\ read' = [read EXCEPT !.at = "sampled",
                        !.val = IF saved[Key] = "none" THEN NoDoc
                                ELSE [thread |-> Key, saved |-> saved[Key], live |-> live[Key]]]
          /\ UNCHANGED <<page, url, turns, server, moves, faults>>
Apply == /\ Same /\ read.at = "sampled"
         /\ read' = [read EXCEPT !.at = "done", !.doc = read.val, !.val = NoDoc, !.fresh = TRUE]
         /\ UNCHANGED <<page, url, turns, server, moves, faults>>
ReadFails == /\ Same /\ read.at \in {"asked", "sampled"} /\ Fault
             /\ read' = [read EXCEPT !.at = "done", !.val = NoDoc]
             /\ UNCHANGED <<page, url, turns, server, moves>>

\* restoreJourney: the saved outcome takes the place of the conversation.
Restored(p, d) ==
  IF p.loading \/ d.saved \notin {"paused", "done"} THEN p
  ELSE [p EXCEPT !.unresolved = None, !.awaiting = FALSE, !.error = FALSE, !.sel = 5, !.last = 5,
                 !.kind = 5, !.conv = d.thread, !.wiped = p.gen + 1, !.said = None]
Settle == /\ ReadingBack /\ Doc # NoDoc /\ read.at = "done" /\ ~Doc.live
          /\ page' = Restored([page EXCEPT !.awaiting = FALSE], Doc)
          /\ UNCHANGED <<url, turns, server, read, moves, faults>>
NotShown == RunPhase # 5 \/ page.conv # Doc.thread \/ page.error
RestoreJourney == /\ OnDesk /\ Doc # NoDoc /\ (read.fresh \/ page.error)
                  /\ ~page.loading /\ NotShown
                  /\ page' = Restored(page, Doc)
                  /\ read' = [read EXCEPT !.fresh = FALSE]
                  /\ UNCHANGED <<url, turns, server, moves, faults>>

-----------------------------------------------------------------------------
(* The server: one worker of a recovery at a time; a saved step pauses or finishes it. *)
Claim(n) == /\ turns[n].at = "sent"
            /\ IF turns[n].phase = 4
               THEN turns' = [turns EXCEPT ![n].at = "running"] /\ UNCHANGED server
               ELSE IF live[turns[n].thread]
               THEN turns' = [turns EXCEPT ![n].at = "busy"] /\ UNCHANGED server
               ELSE /\ turns' = [turns EXCEPT ![n].at = "running"]
                    /\ live' = [live EXCEPT ![turns[n].thread] = TRUE]
                    /\ saved' = [saved EXCEPT ![turns[n].thread] = IF @ = "none" THEN "journey" ELSE @]
            /\ UNCHANGED <<page, url, read, moves, faults>>
SaveStep(n) == /\ turns[n].at = "running" /\ turns[n].phase = 5
               /\ saved' = [saved EXCEPT ![turns[n].thread] = "paused"]
               /\ UNCHANGED <<page, url, turns, live, read, moves, faults>>
Ends(n, at, s) == /\ turns[n].at = "running"
                  /\ turns' = [turns EXCEPT ![n].at = at]
                  /\ IF turns[n].phase = 4 THEN UNCHANGED server
                     ELSE /\ live' = [live EXCEPT ![turns[n].thread] = FALSE]
                          /\ saved' = [saved EXCEPT ![turns[n].thread] = s]
                  /\ UNCHANGED <<page, url, read, moves>>
Answer(n) == /\ turns[n].phase = 5 => saved[turns[n].thread] = "paused"
             /\ \E s \in {"paused", "done"} : Ends(n, "answered", s)
             /\ UNCHANGED faults
Refuse(n) == /\ Fault
             /\ Ends(n, "refused", IF turns[n].phase = 5 THEN saved[turns[n].thread] ELSE "none")

Turn(n)  == Ask(n) \/ Recover(n) \/ Resume(n)
Serve(n) == Claim(n) \/ SaveStep(n) \/ Answer(n) \/ Refuse(n)
Reads == Restart \/ Again \/ Sample \/ Apply
Next == \/ \E n \in Turns : \/ Turn(n) \/ Stream(n) \/ Reply(n) \/ Fails(n) \/ Serve(n)
        \/ Blocked \/ Write \/ WriteEnds \/ ClearChat \/ ClearError \/ Reload \/ Limit
        \/ \E p \in {4, 5} : SetSelectedPhase(p)
        \/ \E v \in Views : SetView(v)
        \/ Reads \/ ReadFails \/ Settle \/ RestoreJourney
Spec == Init /\ [][Next]_vars

-----------------------------------------------------------------------------
TypeOK ==
  /\ page.sel \in {4, 5} /\ page.last \in {None, 4, 5} /\ page.kind \in {None, 4, 5}
  /\ page.conv \in Turns \cup {None, Concierge} /\ page.unresolved \in Turns \cup {None}
  /\ url \in Turns \cup {None}
  /\ page.chat \in Turns \cup {None} /\ (page.chat # None => turns[page.chat].waits)
  /\ \A n \in Turns : saved[n] \in {"none", "journey", "paused", "done"} /\ live[n] \in BOOLEAN
  /\ read.at \in {"asked", "sampled", "done"}

\* Nothing of a turn the person left behind (its text, its error, its unknown outcome)
\* appears in the conversation that took its place.
NoStrayAnswer == page.said = None \/ page.said >= page.wiped

\* The page is busy exactly while it waits for a turn or a write: it never offers a
\* second one meanwhile, and is never left busy with nothing to wait for.
LoadingIsWaiting == page.loading <=> (page.chat # None \/ page.write)

\* "Re-read this saved recovery before resuming; its address is preserved on refresh":
\* a page that asks for that still has the address.
BlockedIsReadable == page.unresolved # None => url = page.unresolved

\* "After a Phase 5 turn it keeps reading the journey, and the traveler sees the result
\* when the worker's lease has ended."
KeepsReading ==
  [][page.awaiting /\ page.error /\ ~page'.error /\ page'.conv \in Turns /\ page'.conv = page.conv
       /\ moves' = moves => ~live[page.conv]]_vars

Owed(n) == page.unresolved = n /\ saved[n] \in {"paused", "done"}
Known(n) == page.unresolved # n
-----------------------------------------------------------------------------
(* The inductive invariant: the turn the page waits for is the one of its current    *)
(* generation, and nothing was wiped that this turn may still fill.                  *)

Saves == {"none", "journey", "paused", "done"}
Documents == [thread : Turns \cup {None}, saved : Saves, live : BOOLEAN]
Pages == [view : Views, sel : {4, 5}, last : {None, 4, 5}, conv : Turns \cup {None, Concierge},
          kind : {None, 4, 5}, gen : Nat, chat : Turns \cup {None}, write : BOOLEAN,
          loading : BOOLEAN, unresolved : Turns \cup {None}, awaiting : BOOLEAN,
          error : BOOLEAN, wiped : Nat, said : Nat]
Rows == [phase : {None, 4, 5}, thread : Turns \cup {None}, waits : BOOLEAN, gen : Nat,
         at : {"unsent", "sent", "running", "busy", "answered", "refused"}]
PageTyped == page \in Pages /\ url \in Turns \cup {None}
TurnsTyped == /\ turns \in [Turns -> Rows]
              /\ \A n \in Turns : turns[n].phase = 5 => turns[n].thread \in Turns
ServerTyped == saved \in [Turns -> Saves] /\ live \in [Turns -> BOOLEAN]
Finished(d) == d.saved \in {"paused", "done"} => d.thread \in Turns
ReadTyped ==
  /\ read \in [key : Turns \cup {None}, poll : BOOLEAN, at : {"asked", "sampled", "done"},
               val : Documents, doc : Documents, fresh : BOOLEAN]
  /\ Finished(read.val) /\ Finished(read.doc)

\* A conversation of kind 5 is a recovery's.
RecoveryIsNamed == page.kind = 5 => page.conv # Concierge

\* The one turn the page waits for is of its generation; no turn is of a later one.
OneIsAwaited ==
  /\ page.chat # None => turns[page.chat].waits /\ turns[page.chat].gen = page.gen /\ ~page.write
  /\ \A n \in Turns : turns[n].waits => /\ turns[n].gen <= page.gen
                                        /\ turns[n].gen = page.gen => page.chat = n

\* What is put away was put away before the turn the page waits for.
WipedBefore == /\ page.wiped <= page.gen + 1
               /\ page.chat # None => page.wiped <= page.gen

IInv == /\ PageTyped /\ TurnsTyped /\ ServerTyped /\ ReadTyped /\ RecoveryIsNamed /\ OneIsAwaited /\ WipedBefore
        /\ LoadingIsWaiting /\ NoStrayAnswer
=============================================================================
