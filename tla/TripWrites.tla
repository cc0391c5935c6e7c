------------------------------ MODULE TripWrites ------------------------------
(* Holds and bookings clicked on the page (useMeridianShowcase: holdTrip, confirmTrip,
   the restore at load). The browser keeps the identity of every hold it asked for
   before it asks; a click after a lost answer reads that hold back first. A write
   goes on at the server when the page stops waiting. Source paths are below
   meridian/. One terms key per product stands for (product, duration, travelers). *)
EXTENDS Naturals, FiniteSets

CONSTANTS Tabs,        \* tabs of one browser: they share its storage
          Products,
          MaxIntents,  \* bound on the hold identities the browser draws
          MaxFaults    \* bound on lost answers, failed reads, refusals and reloads

WritesAssumption == /\ Tabs # {} /\ "none" \notin Products
                    /\ MaxIntents \in Nat /\ MaxFaults \in Nat

VARIABLES device,   \* localStorage: the hold identity and the booking of each product
          hold,     \* Aurora: what became of each hold identity
          product,  \* the product each identity was drawn for
          work,     \* writes the server still runs
          tab,      \* the write each tab waits for
          shown,    \* the receipt each tab shows for each product
          restore,  \* the reads of a tab's page load that have not been applied
          faults
vars == <<device, hold, product, work, tab, shown, restore, faults>>

None    == 0
Intents == 1..MaxIntents
Nothing == [p \in Products |-> None]
Blank   == [id |-> None, status |-> "none"]
Empty   == [intents |-> Nothing, bookings |-> Nothing]
\* saved and saw: the storage and the receipt the tab had when it was clicked
Free    == [at |-> "idle", p |-> "none", id |-> None, saved |-> Empty, saw |-> None]
Drawn   == {i \in Intents : product[i] # "none"}

Init == /\ device = Empty
        /\ hold = [i \in Intents |-> "none"]
        /\ product = [i \in Intents |-> "none"]
        /\ work = {}
        /\ tab = [t \in Tabs |-> Free]
        /\ shown = [t \in Tabs |-> [p \in Products |-> Blank]]
        /\ restore = [t \in Tabs |-> "done"]
        /\ faults = 0

Fault == faults < MaxFaults /\ faults' = faults + 1
Receipt(i) == [id |-> i, status |-> hold[i]]
\* The receipt is shown and its booking id kept.
Remember(t, p, i) == /\ shown' = [shown EXCEPT ![t][p] = [id |-> i, status |-> hold'[i]]]
                     /\ device' = [device EXCEPT !.bookings[p] = i]
\* Mutant: a write that failed leaves its mark.
SettleHeld(t) == tab' = [tab EXCEPT ![t].at = "stuck"]
Settle(t) == tab' = [tab EXCEPT ![t] = Free]

NextIntent == CHOOSE j \in Intents \ Drawn : TRUE
\* A new identity is saved before it is sent.
Draw(t, p, saved) ==
  /\ Drawn # Intents
  /\ product' = [product EXCEPT ![NextIntent] = p]
  /\ device' = [saved EXCEPT !.intents[p] = NextIntent]
  /\ tab' = [tab EXCEPT ![t] = [Free EXCEPT !.at = "hold", !.p = p, !.id = NextIntent]]
  /\ work' = work \cup {<<t, NextIntent, "hold">>}
\* Mutant: the retry of a click draws a new identity.
ReadFirstNever(p) == FALSE
ReadFirst(p) == device.intents[p] # None
HoldClick(t, p) ==
  /\ tab[t].at = "idle"
  /\ shown[t][p].status \in {"held", "confirmed"} => hold[shown[t][p].id] = "expired"
  /\ IF ReadFirst(p)
     THEN /\ tab' = [tab EXCEPT ![t] = [at |-> "read hold", p |-> p, id |-> device.intents[p],
                                        saved |-> device, saw |-> shown[t][p].id]]
          /\ UNCHANGED <<device, product, work>>
     ELSE Draw(t, p, device)
  /\ UNCHANGED <<hold, shown, restore, faults>>
\* Only an expiry this tab showed permits a new identity.
SawItExpire(t) == tab[t].saw = tab[t].id /\ hold[tab[t].id] = "expired"
HoldRead(t) ==
  LET p == tab[t].p
      i == tab[t].id
  IN  /\ tab[t].at = "read hold"
      /\ UNCHANGED <<hold, restore, faults>>
      /\ CASE hold[i] = "none" -> /\ tab' = [tab EXCEPT ![t].at = "hold"]
                                  /\ work' = work \cup {<<t, i, "hold">>}
                                  /\ UNCHANGED <<device, product, shown>>
           [] SawItExpire(t) ->
                                  \* what the tab read of the storage before the read
                                  /\ Draw(t, p, tab[t].saved)
                                  /\ UNCHANGED shown
           [] OTHER            -> /\ Remember(t, p, i) /\ Settle(t)
                                  /\ UNCHANGED <<product, work>>
ConfirmClick(t, p) == /\ tab[t].at = "idle" /\ shown[t][p].status = "held"
                      /\ tab' = [tab EXCEPT ![t] = [Free EXCEPT !.at = "read booking", !.p = p, !.id = shown[t][p].id]]
                      /\ UNCHANGED <<device, hold, product, work, shown, restore, faults>>
BookingRead(t) ==
  /\ tab[t].at = "read booking"
  /\ UNCHANGED <<hold, product, restore, faults>>
  /\ Remember(t, tab[t].p, tab[t].id)
  /\ IF hold[tab[t].id] = "held"
     THEN /\ tab' = [tab EXCEPT ![t].at = "book"]
          /\ work' = work \cup {<<t, tab[t].id, "book">>}
     ELSE Settle(t) /\ UNCHANGED work
\* A failed read is not permission to write.
ReadFails(t) == /\ tab[t].at \in {"read hold", "read booking"}
                /\ Settle(t) /\ Fault
                /\ UNCHANGED <<device, hold, product, work, shown, restore>>

\* The server runs the write; the answer reaches the tab that still waits, or is lost.
Waits(w) == tab[w[1]].id = w[2] /\ tab[w[1]].at = w[3]
Written(w) == [hold EXCEPT ![w[2]] =
                 CASE w[3] = "hold" /\ @ = "none" -> "held"
                   [] w[3] = "book" /\ @ = "held" -> "confirmed"
                   [] OTHER -> @]
Serve(w) ==
  /\ w \in work /\ work' = work \ {w}
  /\ hold' = Written(w)
  /\ IF Waits(w)
     THEN \/ /\ Remember(w[1], tab[w[1]].p, w[2]) /\ Settle(w[1]) /\ UNCHANGED faults
          \/ /\ tab' = [tab EXCEPT ![w[1]].at = "read back"] /\ Fault
             /\ UNCHANGED <<shown, device>>
     ELSE UNCHANGED <<tab, shown, device, faults>>
  /\ UNCHANGED <<product, restore>>
\* Refused, in words the page may show: nothing was written.
Refuse(w) == /\ w \in work /\ work' = work \ {w}
             /\ IF Waits(w) THEN Settle(w[1]) ELSE UNCHANGED tab
             /\ Fault
             /\ UNCHANGED <<device, hold, product, shown, restore>>
\* The limits of the wait, or the person who stops it; the write goes on.
StopWaiting(t) == /\ tab[t].at \in {"hold", "book"}
                  /\ tab' = [tab EXCEPT ![t].at = "read back"]
                  /\ Fault
                  /\ UNCHANGED <<device, hold, product, work, shown, restore>>
\* Aurora is asked once; with nothing on record yet the outcome stays unknown.
ReadBack(t) == /\ tab[t].at = "read back"
               /\ UNCHANGED hold
               /\ IF hold[tab[t].id] = "none" THEN UNCHANGED <<shown, device>>
                  ELSE Remember(t, tab[t].p, tab[t].id)
               /\ Settle(t)
               /\ UNCHANGED <<product, work, restore, faults>>

\* A page load reads every hold and booking it has the identity of, then shows them.
Kept(p) == IF device.intents[p] # None THEN device.intents[p] ELSE device.bookings[p]
Reload(t) == /\ tab' = [tab EXCEPT ![t] = Free]
             /\ shown' = [shown EXCEPT ![t] = [p \in Products |-> Blank]]
             /\ restore' = [restore EXCEPT ![t] = "due"]
             /\ Fault
             /\ UNCHANGED <<device, hold, product, work>>
Restored(t) == /\ restore[t] = "due"
               /\ LET found == {p \in Products : Kept(p) # None /\ hold[Kept(p)] # "none"}
                  IN  /\ shown' = [shown EXCEPT ![t] =
                           [p \in Products |-> IF p \in found THEN Receipt(Kept(p)) ELSE @[p]]]
                      /\ device' = [device EXCEPT !.bookings =
                           [p \in Products |-> IF p \in found THEN Kept(p) ELSE @[p]]]
               /\ restore' = [restore EXCEPT ![t] = "done"]
               /\ UNCHANGED <<hold, product, work, tab, faults>>
RestoreFails(t) == /\ restore[t] = "due"
                   /\ restore' = [restore EXCEPT ![t] = "done"]
                   /\ Fault
                   /\ UNCHANGED <<device, hold, product, work, tab, shown>>
Expire(i) == /\ hold[i] = "held"
             /\ hold' = [hold EXCEPT ![i] = "expired"]
             /\ UNCHANGED <<device, product, work, tab, shown, restore, faults>>

Clicks(t) == \E p \in Products : HoldClick(t, p) \/ ConfirmClick(t, p)
Steps(t)  == HoldRead(t) \/ BookingRead(t) \/ ReadBack(t) \/ Restored(t)
Next == \/ \E t \in Tabs : \/ Clicks(t) \/ Steps(t)
                           \/ ReadFails(t) \/ StopWaiting(t) \/ Reload(t) \/ RestoreFails(t)
        \/ \E w \in work : Serve(w) \/ Refuse(w)
        \/ \E i \in Intents : Expire(i)
Spec == Init /\ [][Next]_vars

-----------------------------------------------------------------------------
TypeOK ==
  /\ device \in [intents: [Products -> Intents \cup {None}], bookings: [Products -> Intents \cup {None}]]
  /\ hold \in [Intents -> {"none", "held", "expired", "confirmed"}]
  /\ product \in [Intents -> Products \cup {"none"}]
  /\ work \subseteq Tabs \X Drawn \X {"hold", "book"}
  /\ \A t \in Tabs : /\ tab[t].at \in {"idle", "read hold", "hold", "read booking", "book", "read back"}
                     /\ (tab[t].at = "idle") <=> (tab[t].id = None)
  /\ faults \in 0..MaxFaults

\* The holds of a product the server has, or may still make.
Live(p) == {i \in Drawn : /\ product[i] = p
                          /\ \/ hold[i] \in {"held", "confirmed"}
                             \/ hold[i] = "none" /\ \E t \in Tabs : <<t, i, "hold">> \in work}

\* However often a hold is clicked, whatever answers are lost and whenever the page is
\* reloaded, one product never has two holds.
NoSecondHold == \A p \in Products : Cardinality(Live(p)) <= 1

\* "If storage is unavailable, do not start a write whose retry identity would
\* disappear on refresh": what the server holds, or may still hold, a reload finds.
NothingForgotten ==
  \A p \in Products : \A i \in Live(p) : device.intents[p] = i \/ device.bookings[p] = i

Confirmed(i) == hold[i] = "confirmed"
Shows(t, i) == \E p \in Products : shown[t][p] = [id |-> i, status |-> "confirmed"]

-----------------------------------------------------------------------------
(* The inductive invariant, for a person with one tab: what a tab holds in hand is what  *)
(* the browser keeps, and the browser keeps every identity that has not expired.        *)

OneTab == \A t, u \in Tabs : t = u

Known == Drawn \cup {None}
Statuses == {"none", "held", "expired", "confirmed"}
Stores == [intents : [Products -> Known], bookings : [Products -> Known]]
Receipts == [id : Known, status : Statuses]
Waitings == [at : {"idle", "read hold", "hold", "read booking", "book", "read back"},
             p : Products \cup {"none"}, id : Known, saved : Stores, saw : Known]
ServerTyped == /\ hold \in [Intents -> Statuses]
               /\ product \in [Intents -> Products \cup {"none"}]
               /\ work \subseteq Tabs \X Drawn \X {"hold", "book"}
               /\ faults \in 0..MaxFaults
DeviceKnown == device \in Stores
TabKnown == /\ tab \in [Tabs -> Waitings]
            /\ \A t \in Tabs : /\ (tab[t].at = "idle") <=> (tab[t].id = None)
                               /\ tab[t].at # "idle" => tab[t].p \in Products
ShownKnown == /\ shown \in [Tabs -> [Products -> Receipts]]
              /\ \A t \in Tabs, p \in Products : shown[t][p].id = None => shown[t][p].status = "none"

\* Between the click and the read of the hold nobody else drew an identity.
ReadIsCurrent ==
  \A t \in Tabs : tab[t].at = "read hold" =>
    /\ tab[t].saved.intents = device.intents
    /\ tab[t].id = device.intents[tab[t].p]

\* Only an expired hold has lost its place in the browser's storage.
UnexpiredIsKept == \A i \in Drawn : hold[i] # "expired" => device.intents[product[i]] = i

IInv == ServerTyped /\ DeviceKnown /\ TabKnown /\ ShownKnown /\ ReadIsCurrent /\ UnexpiredIsKept
=============================================================================
