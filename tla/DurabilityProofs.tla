-------------------------- MODULE DurabilityProofs --------------------------
(***************************************************************************)
(* What Durability keeps for any number of processes holding the run at    *)
(* once, any number of reservations and crashes, and any mix of reactions  *)
(* to an interrupted call: types, records that are backed by the biller    *)
(* and balance, and money that follows the provider's truth.  Then what    *)
(* one host at a time keeps on top: the spend of an uninterrupted run, and *)
(* the steps of ExactlyOnce.                                               *)
(***************************************************************************)
EXTENDS Durability, SumProofs, FiniteSetTheorems, TLAPS

-----------------------------------------------------------------------------
(* The inductive invariant. *)

\* What the journal says is so: the calls it knows of are reserved, what it
\* says of their outcome agrees with the provider, and a call it knows no
\* outcome of has not been billed for.
JournalIsTrue ==
    \A id \in Id :
        /\ journal[id] # "none" => id \in Issued
        /\ journal[id] = "success" => landed[id]
        /\ journal[id] \in {"failed", "denied"} => ~ landed[id]
        /\ id \in Issued /\ journal[id] \notin Outcome => biller[id].state = "reserved"

\* A call that is being made is made by one process.
MakesCall(h) == h.at \in {"journaling", "calling"}

CallsAreExclusive ==
    \A p, q \in Process :
        p # q /\ MakesCall(host[p]) /\ MakesCall(host[q]) => Now(p) # Now(q)

\* Places where nothing is claimed of the reservation in hand.
Free == {"down", "resuming", "settling", "driving", "iterating"}

\* The reservation in hand may be treated as the process is about to.
HandIsTrue(h) ==
    /\ HasReservation(h)
    /\ h.at = "journaling" => journal[h.id] = "none"
    /\ h.at = "calling" => journal[h.id] = "held"
    /\ h.at = "reacting" => journal[h.id] \in Outcome
    /\ h.at = "capturing" =>
         \/ h.outcome = "success" /\ landed[h.id] /\ journal[h.id] \in Outcome
         \/ h.outcome = "interrupted" /\ journal[h.id] = "interrupted"
    /\ h.at = "recording" => biller[h.id].state = "captured"
    /\ h.at = "releasing" => ~ landed[h.id] /\ journal[h.id] \in Outcome
    /\ h.at \in {"capturing", "recording", "releasing"} => h.next \in Free

\* What the process copied is still so.
CopyIsTrue(h) ==
    /\ \A id \in Id, outcome \in Outcome :
         <<id, outcome>> \in h.pending => journal[id] = outcome
    /\ \A id \in h.recon : journal[id] = "interrupted"
    /\ IsBacked(h.run)

IsTrue(h) == HandIsTrue(h) /\ CopyIsTrue(h)

\* The types of all that outlives the processes.
WorldType ==
    /\ \E n \in 0 .. MaxReservations : Issued = 1 .. n
    /\ \A id \in Issued : /\ biller[id].amount \in Amount
                          /\ Coherent(biller[id])
    /\ store \in Run
    /\ journal \in [Id -> JournalEntry]
    /\ landed \in [Id -> BOOLEAN]
    /\ crashes \in 0 .. MaxCrashes

WorldInv == WorldType /\ JournalIsTrue /\ MoneyFollowsTruth /\ IsBacked(store)

Inv == /\ WorldInv
       /\ host \in [Process -> Host]
       /\ CallsAreExclusive
       /\ \A p \in Process : IsTrue(host[p])

LEMMA InvImplies == Inv => TypeOK /\ RecordIsBacked /\ MoneyFollowsTruth
    BY DEF Inv, WorldInv, WorldType, TypeOK, IsTrue, HandIsTrue, CopyIsTrue,
           RecordIsBacked, Records, Run_

\* Ids are issued in order, from 1.
LEMMA IssuedIds ==
    ASSUME Inv
    PROVE  /\ Issued \subseteq Id
           /\ IsFiniteSet(Issued)
           /\ Issued = 1 .. Cardinality(Issued)
           /\ Cardinality(Issued) \in 0 .. MaxReservations
<1>1. PICK n \in 0 .. MaxReservations : Issued = 1 .. n
    BY DEF Inv, WorldInv, WorldType
<1>2. n \in Int /\ 1 .. n \subseteq Id
    BY <1>1, BoundAssumption DEF Id
<1>3. IsFiniteSet(1 .. n) /\ Cardinality(1 .. n) = n
    BY <1>1, <1>2, FS_Interval, BoundAssumption
<1> QED
    BY <1>1, <1>2, <1>3

-----------------------------------------------------------------------------
(* Steps of one process. *)

\* Process p may become h if the world stays right, what is right of any
\* process stays right in it, h is right, and h makes no call another makes.
LEMMA HostStep ==
    ASSUME Inv, WorldInv', NEW p \in Process, NEW h \in Host, Become(p, h), IsTrue(h)',
           \A q \in Process \ {p} : IsTrue(host[q])',
           MakesCall(h) =>
               \A q \in Process \ {p} : MakesCall(host[q]) => host[q].id # h.id
    PROVE  Inv'
<1>1. /\ host' \in [Process -> Host]
      /\ host'[p] = h
      /\ \A q \in Process \ {p} : host'[q] = host[q]
    BY DEF Inv, Become
<1>2. ASSUME NEW q \in Process PROVE IsTrue(host[q])'
  <2>1. CASE q = p
      BY <1>1, <2>1 DEF IsTrue, HandIsTrue, CopyIsTrue, HasReservation, IsBacked
  <2> QED
      BY <2>1
<1>3. CallsAreExclusive'
    BY <1>1 DEF Inv, CallsAreExclusive, Now, MakesCall
<1> QED
    BY <1>1, <1>2, <1>3 DEF Inv

\* The steps that leave the biller, the journal and the provider alone.
LEMMA QuietStep ==
    ASSUME Inv, NEW p \in Process, NEW h \in Host, Become(p, h), IsTrue(h),
           UNCHANGED <<biller, journal, landed>>,
           store' \in Run, IsBacked(store'), crashes' \in 0 .. MaxCrashes,
           MakesCall(h) =>
               \A q \in Process \ {p} : MakesCall(host[q]) => host[q].id # h.id
    PROVE  Inv'
<1>1. WorldInv'
    BY DEF Inv, WorldInv, WorldType, JournalIsTrue, MoneyFollowsTruth, IsBacked,
           Issued, Coherent
<1>2. \A q \in Process \ {p} : host'[q] = host[q]
    BY DEF Inv, Become
<1>3. \A q \in Process \ {p} : IsTrue(host[q])'
    BY <1>2 DEF Inv, IsTrue, HandIsTrue, CopyIsTrue, HasReservation, IsBacked, Issued
<1>4. IsTrue(h)'
    BY DEF IsTrue, HandIsTrue, CopyIsTrue, HasReservation, IsBacked, Issued
<1> QED
    BY <1>1, <1>3, <1>4, HostStep

\* The steps that rewrite one row of the biller.  A row settled as captured
\* stays so, the calls whose outcome is unknown are not billed, and the new
\* state is what the provider's truth allows.
LEMMA BillStep ==
    ASSUME Inv, NEW p \in Process, NEW h \in Host, Become(p, h), IsTrue(h)',
           ~ MakesCall(h),
           NEW id \in Issued, NEW row, biller' = [biller EXCEPT ![id] = row],
           Coherent(row), row.amount = biller[id].amount,
           journal[id] \in Outcome,
           biller[id].state = "captured" => row.state = "captured",
           row.state = "captured" => landed[id],
           row.state = "released" => ~ landed[id],
           row.state = "needs_reconciliation" => journal[id] = "interrupted",
           UNCHANGED <<store, journal, landed, crashes>>
    PROVE  Inv'
<1>1. /\ Issued' = Issued
      /\ biller'[id] = row
      /\ \A i \in Issued \ {id} : biller'[i] = biller[i]
    BY DEF Issued
<1>2. WorldType'
    BY <1>1 DEF Inv, WorldInv, WorldType, Coherent
<1>3. JournalIsTrue' /\ MoneyFollowsTruth' /\ IsBacked(store)'
    BY <1>1 DEF Inv, WorldInv, JournalIsTrue, MoneyFollowsTruth, IsBacked
<1>4. \A q \in Process \ {p} : host'[q] = host[q]
    BY DEF Inv, Become
<1>5. ASSUME NEW q \in Process \ {p} PROVE IsTrue(host[q])'
    BY <1>1, <1>4 DEF Inv, IsTrue, HandIsTrue, CopyIsTrue, HasReservation, IsBacked
<1> QED
    BY <1>2, <1>3, <1>5, HostStep DEF WorldInv

-----------------------------------------------------------------------------
(* One lemma per action. *)

LEMMA FreeHand == \A h : h.at \in Free => HandIsTrue(h) /\ ~ MakesCall(h)
    BY DEF Free, HandIsTrue, HasReservation, MakesCall

LEMMA DownIsTrue == Down \in Host /\ IsTrue(Down)
    BY FreeHand DEF Down, Host, Run, NoRun, Place, Phase, Terminal, NoOutcome, Free,
        IsTrue, CopyIsTrue, IsBacked

\* A free process that only moves elsewhere.
LEMMA GotoFree ==
    ASSUME Inv, NEW p \in Process, NEW place \in Free, Goto(p, place),
           UNCHANGED <<biller, store, journal, landed, crashes>>
    PROVE  Inv'
<1>1. PICK h \in Host : h = [host[p] EXCEPT !.at = place]
    BY DEF Inv, Host, Free, Place
<1>2. IsTrue(host[p])
    BY DEF Inv
<1>3. h.at \in Free /\ h.pending = host[p].pending /\ h.recon = host[p].recon
          /\ h.run = host[p].run
    BY <1>1 DEF Inv, Host
<1>4. IsTrue(h) /\ ~ MakesCall(h)
    BY <1>2, <1>3, FreeHand DEF IsTrue, CopyIsTrue
<1>5. Become(p, h)
    BY <1>1 DEF Goto
<1>6. store' \in Run /\ IsBacked(store') /\ crashes' \in 0 .. MaxCrashes
    BY DEF Inv, WorldInv, WorldType
<1> QED
    BY <1>4, <1>5, <1>6, QuietStep

\* A process that goes down, whatever it was doing.
LEMMA GoDown ==
    ASSUME Inv, NEW p \in Process, Become(p, Down),
           UNCHANGED <<biller, journal, landed>>,
           store' \in Run, IsBacked(store'), crashes' \in 0 .. MaxCrashes
    PROVE  Inv'
<1>1. PICK h \in Host : h = Down
    BY DownIsTrue
<1>2. IsTrue(h) /\ ~ MakesCall(h)
    BY <1>1, DownIsTrue DEF Down, MakesCall
<1> QED
    BY <1>1, <1>2, QuietStep

\* A process that checkpoints a backed run and stays free.
LEMMA CheckpointKeeps ==
    ASSUME Inv, NEW p \in Process, NEW run \in Run, NEW place \in Free,
           Checkpoint(p, run, place), IsBacked(run),
           UNCHANGED <<biller, journal, landed, crashes>>
    PROVE  Inv'
<1>1. PICK h \in Host : h = [host[p] EXCEPT !.run = run, !.at = place]
    BY DEF Inv, Host, Free, Place
<1>2. IsTrue(host[p])
    BY DEF Inv
<1>3. h.at \in Free /\ h.pending = host[p].pending /\ h.recon = host[p].recon
          /\ h.run = run
    BY <1>1 DEF Inv, Host
<1>4. IsTrue(h) /\ ~ MakesCall(h)
    BY <1>2, <1>3, FreeHand DEF IsTrue, CopyIsTrue
<1>5. Become(p, h) /\ store' = run
    BY <1>1 DEF Checkpoint
<1>6. crashes' \in 0 .. MaxCrashes
    BY DEF Inv, WorldInv, WorldType
<1> QED
    BY <1>4, <1>5, <1>6, QuietStep

LEMMA OpenKeeps == ASSUME Inv, NEW p \in Process, Open(p) PROVE Inv'
<1> DEFINE run == [NoRun EXCEPT !.phase = "running"]
<1>1. run \in Run /\ IsBacked(run)
    BY DEF NoRun, Run, Phase, Terminal, IsBacked
<1>2. /\ Checkpoint(p, run, "driving") /\ "driving" \in Free
      /\ UNCHANGED <<biller, journal, landed, crashes>>
    BY DEF Open, Free
<1> HIDE DEF run
<1> QED
    BY <1>1, <1>2, CheckpointKeeps

LEMMA ResumeKeeps == ASSUME Inv, NEW p \in Process, Resume(p) PROVE Inv'
<1>1. Journalled \in SUBSET (Id \X Outcome)
    BY DEF Journalled
<1>2. PICK h \in Host :
          h = [Down EXCEPT !.at = "resuming", !.run = store, !.pending = Journalled]
    BY <1>1, DownIsTrue DEF Host, Place, Inv, WorldInv, WorldType
<1>3. h.at \in Free /\ h.pending = Journalled /\ h.recon = {} /\ h.run = store
    BY <1>2 DEF Down, Free
<1>4. \A id \in Id, outcome \in Outcome : <<id, outcome>> \in Journalled
          => journal[id] = outcome
    BY DEF Journalled
<1>5. IsTrue(h) /\ ~ MakesCall(h)
    BY <1>3, <1>4, FreeHand DEF IsTrue, CopyIsTrue, Inv, WorldInv
<1>6. store' \in Run /\ IsBacked(store') /\ crashes' \in 0 .. MaxCrashes
      /\ UNCHANGED <<biller, journal, landed>>
    BY DEF Resume, Inv, WorldInv, WorldType
<1>7. Become(p, h)
    BY <1>2 DEF Resume
<1> QED
    BY <1>5, <1>6, <1>7, QuietStep

\* A process that sets out to capture or release a reservation rightly.
LEMMA TakeKeeps ==
    ASSUME Inv, NEW p \in Process, NEW g \in Host, CopyIsTrue(g),
           NEW place \in {"capturing", "releasing"}, NEW id \in Id,
           NEW outcome \in Outcome \cup {NoOutcome}, NEW next \in Free,
           Become(p, Take(g, place, id, outcome, next)),
           journal[id] \in Outcome,
           place = "capturing" =>
               \/ outcome = "success" /\ landed[id]
               \/ outcome = "interrupted" /\ journal[id] = "interrupted",
           place = "releasing" => ~ landed[id],
           UNCHANGED <<biller, store, journal, landed, crashes>>
    PROVE  Inv'
<1>1. PICK h \in Host : h = Take(g, place, id, outcome, next)
    BY DEF Take, Host, Free, Place
<1>2. /\ h.at = place /\ h.id = id /\ h.outcome = outcome /\ h.next = next
      /\ h.pending = g.pending /\ h.recon = g.recon /\ h.run = g.run
    BY <1>1 DEF Take, Host
<1>3. id \in Issued
    BY DEF Inv, WorldInv, JournalIsTrue, Outcome
<1>4. HandIsTrue(h)
    BY <1>2, <1>3 DEF HandIsTrue, HasReservation
<1>5. CopyIsTrue(h) /\ ~ MakesCall(h)
    BY <1>2 DEF CopyIsTrue, MakesCall
<1>6. store' \in Run /\ IsBacked(store') /\ crashes' \in 0 .. MaxCrashes
    BY DEF Inv, WorldInv, WorldType
<1> QED
    BY <1>1, <1>4, <1>5, <1>6, QuietStep DEF IsTrue

LEMMA ResumeReservationKeeps ==
    ASSUME Inv, NEW p \in Process, NEW id \in Id, NEW outcome \in Outcome,
           ResumeReservation(p, id, outcome)
    PROVE  Inv'
<1>1. PICK g \in Host : g = [host[p] EXCEPT !.pending = @ \ {<<id, outcome>>}]
    BY DEF Inv, Host
<1>2. /\ g.at = "resuming" /\ g.recon = host[p].recon /\ g.run = host[p].run
      /\ g.pending = host[p].pending \ {<<id, outcome>>}
    BY <1>1 DEF ResumeReservation, At, Inv, Host
<1>3. CopyIsTrue(host[p]) /\ journal[id] = outcome
    BY DEF Inv, IsTrue, CopyIsTrue, ResumeReservation
<1>4. CopyIsTrue(g)
    BY <1>2, <1>3 DEF CopyIsTrue
<1>5. UNCHANGED <<biller, store, journal, landed, crashes>>
    BY DEF ResumeReservation
<1>6. outcome = "success" => landed[id]
    BY <1>3 DEF Inv, WorldInv, JournalIsTrue
<1>7. outcome \in {"failed", "denied"} => ~ landed[id]
    BY <1>3 DEF Inv, WorldInv, JournalIsTrue
<1>8. \/ Become(p, g)
      \/ /\ outcome = "success"
         /\ Become(p, Take(g, "capturing", id, outcome, "resuming"))
      \/ /\ outcome \in {"failed", "denied"}
         /\ Become(p, Take(g, "releasing", id, NoOutcome, "resuming"))
      \/ /\ outcome = "interrupted"
         /\ Become(p, [g EXCEPT !.recon = @ \cup {id}])
    BY <1>1 DEF ResumeReservation, Decision, Outcome
<1>9. store' \in Run /\ IsBacked(store') /\ crashes' \in 0 .. MaxCrashes
    BY <1>5 DEF Inv, WorldInv, WorldType
<1>10. CASE Become(p, g)
  <2>1. IsTrue(g) /\ ~ MakesCall(g)
      BY <1>2, <1>4, FreeHand DEF IsTrue, Free
  <2> QED
      BY <1>5, <1>9, <1>10, <2>1, QuietStep
<1>11. CASE outcome = "success" /\ Become(p, Take(g, "capturing", id, outcome, "resuming"))
    BY <1>3, <1>4, <1>5, <1>6, <1>11, TakeKeeps DEF Free
<1>12. CASE /\ outcome \in {"failed", "denied"}
            /\ Become(p, Take(g, "releasing", id, NoOutcome, "resuming"))
    BY <1>3, <1>4, <1>5, <1>7, <1>12, TakeKeeps DEF Free
<1>13. CASE outcome = "interrupted" /\ Become(p, [g EXCEPT !.recon = @ \cup {id}])
  <2>1. PICK h \in Host : h = [g EXCEPT !.recon = @ \cup {id}]
      BY DEF Host
  <2>2. /\ h.at = "resuming" /\ h.recon = g.recon \cup {id}
        /\ h.run = g.run /\ h.pending = g.pending
      BY <1>2, <2>1 DEF Host
  <2>3. IsTrue(h) /\ ~ MakesCall(h)
      BY <1>3, <1>4, <1>13, <2>2, FreeHand DEF IsTrue, CopyIsTrue, Free
  <2> QED
      BY <1>5, <1>9, <1>13, <2>1, <2>3, QuietStep
<1> QED
    BY <1>8, <1>10, <1>11, <1>12, <1>13

LEMMA SettleKeeps ==
    ASSUME Inv, NEW p \in Process, NEW id \in Id, Settle(p, id) PROVE Inv'
<1>1. PICK g \in Host : g = [host[p] EXCEPT !.recon = @ \ {id}]
    BY DEF Inv, Host
<1>2. /\ g.pending = host[p].pending /\ g.run = host[p].run
      /\ g.recon = host[p].recon \ {id}
    BY <1>1 DEF Inv, Host
<1>3. CopyIsTrue(host[p]) /\ journal[id] = "interrupted"
    BY DEF Inv, IsTrue, CopyIsTrue, Settle
<1>4. CopyIsTrue(g)
    BY <1>2, <1>3 DEF CopyIsTrue
<1>5. UNCHANGED <<biller, store, journal, landed, crashes>>
    BY DEF Settle
<1>6. \/ landed[id] /\ Become(p, Take(g, "capturing", id, "success", "settling"))
      \/ ~ landed[id] /\ Become(p, Take(g, "releasing", id, NoOutcome, "settling"))
    BY <1>1 DEF Settle
<1>7. journal[id] \in Outcome /\ "success" \in Outcome /\ "settling" \in Free
    BY <1>3 DEF Outcome, Free
<1> QED
    BY <1>4, <1>5, <1>6, <1>7, TakeKeeps

LEMMA ReactKeeps == ASSUME Inv, NEW p \in Process, React(p) PROVE Inv'
<1>1. /\ host[p] \in Host /\ CopyIsTrue(host[p])
      /\ Now(p) \in Id /\ journal[Now(p)] \in Outcome
  <2>1. Now(p) \in Issued /\ journal[Now(p)] \in Outcome
      BY DEF Inv, IsTrue, HandIsTrue, HasReservation, React, At, Now
  <2> QED
      BY <2>1, IssuedIds DEF Inv, IsTrue
<1>2. UNCHANGED <<biller, store, journal, landed, crashes>>
    BY DEF React
<1>3. CASE /\ journal[Now(p)] = "success"
           /\ Become(p, Take(host[p], "capturing", Now(p), journal[Now(p)], "iterating"))
  <2>1. landed[Now(p)]
      BY <1>1, <1>3 DEF Inv, WorldInv, JournalIsTrue
  <2> QED
      BY <1>1, <1>2, <1>3, <2>1, TakeKeeps DEF Free
<1>4. CASE /\ journal[Now(p)] \in {"failed", "denied"}
           /\ Become(p, Take(host[p], "releasing", Now(p), NoOutcome, "iterating"))
  <2>1. ~ landed[Now(p)]
      BY <1>1, <1>4 DEF Inv, WorldInv, JournalIsTrue
  <2> QED
      BY <1>1, <1>2, <1>4, <2>1, TakeKeeps DEF Free
<1>5. CASE /\ journal[Now(p)] = "interrupted"
           /\ Become(p, [host[p] EXCEPT !.at = "settling", !.recon = {Now(p)}])
  <2>1. PICK h \in Host : h = [host[p] EXCEPT !.at = "settling", !.recon = {Now(p)}]
      BY <1>1 DEF Host, Place
  <2>2. /\ h.at = "settling" /\ h.recon = {Now(p)}
        /\ h.pending = host[p].pending /\ h.run = host[p].run
      BY <1>1, <2>1 DEF Host
  <2>3. IsTrue(h) /\ ~ MakesCall(h)
      BY <1>1, <1>5, <2>2, FreeHand DEF IsTrue, CopyIsTrue, Free
  <2>4. store' \in Run /\ IsBacked(store') /\ crashes' \in 0 .. MaxCrashes
      BY <1>2 DEF Inv, WorldInv, WorldType
  <2> QED
      BY <1>2, <1>5, <2>1, <2>3, <2>4, QuietStep
<1>6. CASE /\ journal[Now(p)] = "interrupted"
           /\ Become(p, Take(host[p], "capturing", Now(p), journal[Now(p)], "iterating"))
    BY <1>1, <1>2, <1>6, TakeKeeps DEF Free
<1> QED
    BY <1>3, <1>4, <1>5, <1>6 DEF React

LEMMA CaptureKeeps == ASSUME Inv, NEW p \in Process, Capture(p) PROVE Inv'
<1> DEFINE id == Now(p)
           outcome == host[p].outcome
           place == IF outcome = "interrupted" THEN host[p].next ELSE "recording"
<1>1. /\ host[p] \in Host /\ CopyIsTrue(host[p]) /\ id \in Issued
      /\ \/ outcome = "success" /\ landed[id] /\ journal[id] \in Outcome
         \/ outcome = "interrupted" /\ journal[id] = "interrupted"
      /\ host[p].next \in Free
    BY DEF Inv, IsTrue, HandIsTrue, HasReservation, Capture, At, Now
<1>2. PICK h \in Host : h = [host[p] EXCEPT !.at = place]
    BY <1>1 DEF Host, Free, Place
<1>3. /\ h.at = place /\ h.id = id /\ h.next = host[p].next /\ h.outcome = outcome
      /\ h.pending = host[p].pending /\ h.recon = host[p].recon /\ h.run = host[p].run
    BY <1>1, <1>2 DEF Host, Now
<1>4. Become(p, h) /\ UNCHANGED <<store, journal, landed, crashes>> /\ ~ MakesCall(h)
    BY <1>1, <1>2, <1>3 DEF Capture, Goto, MakesCall, Free
<1>5. Coherent(biller[id])
    BY <1>1 DEF Inv, WorldInv, WorldType
<1>6. CASE CaptureCharges(biller[id])
  <2> DEFINE row == AfterCapture(biller[id], outcome)
  <2>1. biller[id].state = "reserved" /\ biller' = [biller EXCEPT ![id] = row]
      BY <1>6 DEF Capture, CaptureCharges, Bill
  <2>2. /\ row.amount = biller[id].amount
        /\ row.state = CaptureTarget(outcome)
        /\ row.outcome = outcome
      BY <1>1 DEF AfterCapture, Inv, WorldInv, WorldType
  <2> HIDE DEF row
  <2>3. /\ outcome = "success" => row.state = "captured"
        /\ outcome = "interrupted" => row.state = "needs_reconciliation"
        /\ Coherent(row)
      BY <1>1, <2>2 DEF CaptureTarget, Coherent, Outcome
  <2>4. HandIsTrue(h)'
    <3>1. CASE outcome = "interrupted"
        BY <1>1, <1>3, <3>1 DEF HandIsTrue, HasReservation, Free
    <3>2. CASE outcome = "success"
        BY <1>1, <1>3, <2>1, <2>3, <3>2 DEF HandIsTrue, HasReservation, Issued
    <3> QED BY <1>1, <3>1, <3>2
  <2>5. CopyIsTrue(h)'
      BY <1>1, <1>3, <1>4, <2>1 DEF CopyIsTrue, IsBacked, Issued
  <2>6. journal[id] \in Outcome
      BY <1>1 DEF Outcome
  <2> QED
      BY <1>1, <1>4, <2>1, <2>2, <2>3, <2>4, <2>5, <2>6, BillStep DEF IsTrue
<1>7. CASE ~ CaptureCharges(biller[id])
  <2>1. biller' = biller /\ ~ CaptureRefused(biller[id], outcome)
      BY <1>7 DEF Capture
  <2>2. outcome = "success" => biller[id].state = "captured"
      BY <1>5, <1>7, <2>1 DEF CaptureRefused, CaptureCharges, IsCharged, Coherent
  <2>3. IsTrue(h)
    <3>1. CASE outcome = "interrupted"
        BY <1>1, <1>3, <3>1 DEF IsTrue, CopyIsTrue, HandIsTrue, HasReservation, Free
    <3>2. CASE outcome = "success"
        BY <1>1, <1>3, <2>2, <3>2 DEF IsTrue, CopyIsTrue, HandIsTrue, HasReservation
    <3> QED BY <1>1, <3>1, <3>2
  <2>4. store' \in Run /\ IsBacked(store') /\ crashes' \in 0 .. MaxCrashes
      BY <1>4 DEF Inv, WorldInv, WorldType
  <2> QED
      BY <1>4, <2>1, <2>3, <2>4, QuietStep
<1> QED
    BY <1>6, <1>7

LEMMA ReleaseKeeps == ASSUME Inv, NEW p \in Process, Release(p) PROVE Inv'
<1> DEFINE id == Now(p)
<1>1. /\ host[p] \in Host /\ CopyIsTrue(host[p]) /\ id \in Issued
      /\ ~ landed[id] /\ journal[id] \in Outcome
      /\ host[p].next \in Free
    BY DEF Inv, IsTrue, HandIsTrue, HasReservation, Release, At, Now
<1>2. PICK h \in Host : h = [host[p] EXCEPT !.at = host[p].next]
    BY <1>1 DEF Host
<1>3. /\ h.at \in Free
      /\ h.pending = host[p].pending /\ h.recon = host[p].recon /\ h.run = host[p].run
    BY <1>1, <1>2 DEF Host
<1>4. Become(p, h) /\ UNCHANGED <<store, journal, landed, crashes>> /\ ~ MakesCall(h)
    BY <1>2, <1>3, FreeHand DEF Release, Goto
<1>5. CASE ReleaseRefunds(biller[id])
  <2> DEFINE row == AfterRelease(biller[id])
  <2>1. /\ biller[id].state # "captured"
        /\ biller' = [biller EXCEPT ![id] = row]
      BY <1>5 DEF Release, ReleaseRefunds, Bill
  <2>2. row.amount = biller[id].amount /\ row.state = "released" /\ Coherent(row)
      BY <1>1 DEF AfterRelease, Coherent, Inv, WorldInv, WorldType
  <2> HIDE DEF row
  <2>3. HandIsTrue(h)'
      BY <1>3 DEF HandIsTrue, HasReservation, Free
  <2>4. CopyIsTrue(h)'
      BY <1>1, <1>3, <1>4, <2>1 DEF CopyIsTrue, IsBacked, Issued
  <2> QED
      BY <1>1, <1>4, <2>1, <2>2, <2>3, <2>4, BillStep DEF IsTrue
<1>6. CASE ~ ReleaseRefunds(biller[id])
  <2>1. biller' = biller
      BY <1>6 DEF Release
  <2>2. IsTrue(h)
      BY <1>1, <1>3, FreeHand DEF IsTrue, CopyIsTrue
  <2>3. store' \in Run /\ IsBacked(store') /\ crashes' \in 0 .. MaxCrashes
      BY <1>4 DEF Inv, WorldInv, WorldType
  <2> QED
      BY <1>4, <2>1, <2>2, <2>3, QuietStep
<1> QED
    BY <1>5, <1>6

\* record_capture keeps a record a record, backed if the new id is.
LEMMA RecordedRun ==
    ASSUME NEW run \in Run, NEW id \in Id, NEW amount \in Nat,
           IsBacked(run), id \in Issued, biller[id].state = "captured"
    PROVE  WithCapture(run, id, amount) \in Run /\ IsBacked(WithCapture(run, id, amount))
    BY DEF WithCapture, Run, IsBacked

LEMMA RecordCaptureKeeps == ASSUME Inv, NEW p \in Process, RecordCapture(p) PROVE Inv'
<1> DEFINE id == Now(p)
           run == WithCapture(Run_(p), id, biller[id].amount)
<1>1. /\ host[p].run \in Run /\ IsBacked(host[p].run)
      /\ id \in Issued /\ biller[id].state = "captured" /\ host[p].next \in Free
    BY DEF Inv, IsTrue, HandIsTrue, CopyIsTrue, HasReservation, RecordCapture, At, Now, Host
<1>2. biller[id].amount \in Nat /\ id \in Id
    BY <1>1, IssuedIds, AmountAssumption DEF Inv, WorldInv, WorldType
<1>3. run \in Run /\ IsBacked(run)
    BY <1>1, <1>2, RecordedRun DEF Run_
<1>4. /\ Checkpoint(p, run, host[p].next)
      /\ UNCHANGED <<biller, journal, landed, crashes>>
    BY DEF RecordCapture
<1> HIDE DEF run
<1> QED
    BY <1>1, <1>3, <1>4, CheckpointKeeps

LEMMA IterateKeeps == ASSUME Inv, NEW p \in Process, Iterate(p) PROVE Inv'
<1> DEFINE run == [Run_(p) EXCEPT !.iteration = @ + 1]
<1>1. host[p].run \in Run /\ IsBacked(host[p].run)
    BY DEF Inv, IsTrue, CopyIsTrue, Host
<1>2. run \in Run /\ IsBacked(run)
    BY <1>1 DEF Run, Run_, IsBacked
<1>3. /\ Checkpoint(p, run, "driving") /\ "driving" \in Free
      /\ UNCHANGED <<biller, journal, landed, crashes>>
    BY DEF Iterate, Free
<1> HIDE DEF run
<1> QED
    BY <1>2, <1>3, CheckpointKeeps

LEMMA CloseKeeps ==
    ASSUME Inv, NEW p \in Process, NEW phase \in Phase, Close(p, phase) PROVE Inv'
<1>1. host[p].run \in Run /\ IsBacked(host[p].run)
    BY DEF Inv, IsTrue, CopyIsTrue, Host
<1>2. store' \in Run /\ IsBacked(store')
    BY <1>1 DEF Close, Run, Run_, IsBacked
<1>3. /\ Become(p, Down) /\ UNCHANGED <<biller, journal, landed>>
      /\ crashes' \in 0 .. MaxCrashes
    BY DEF Close, Inv, WorldInv, WorldType
<1> QED
    BY <1>2, <1>3, GoDown

LEMMA CrashKeeps == ASSUME Inv, NEW p \in Process, Crash(p) PROVE Inv'
<1>1. store' \in Run /\ IsBacked(store') /\ crashes' \in 0 .. MaxCrashes
    BY BoundAssumption DEF Crash, Inv, WorldInv, WorldType
<1> QED
    BY <1>1, GoDown DEF Crash

LEMMA CaptureRaisesKeeps == ASSUME Inv, NEW p \in Process, CaptureRaises(p) PROVE Inv'
<1>1. store' \in Run /\ IsBacked(store') /\ crashes' \in 0 .. MaxCrashes
    BY DEF CaptureRaises, Inv, WorldInv, WorldType
<1> QED
    BY <1>1, GoDown DEF CaptureRaises

LEMMA AdoptKeeps ==
    ASSUME Inv, NEW p \in Process, NEW id \in Id, Adopt(p, id) PROVE Inv'
<1>1. PICK h \in Host : h = [host[p] EXCEPT !.at = "calling", !.id = id]
    BY DEF Inv, Host, Place
<1>2. /\ h.at = "calling" /\ h.id = id
      /\ h.pending = host[p].pending /\ h.recon = host[p].recon /\ h.run = host[p].run
    BY <1>1 DEF Inv, Host
<1>3. journal[id] = "held" /\ id \in Issued
    BY DEF Adopt, Inv, WorldInv, JournalIsTrue
<1>4. IsTrue(h)
    BY <1>2, <1>3 DEF Inv, IsTrue, CopyIsTrue, HandIsTrue, HasReservation
<1>5. \A q \in Process \ {p} : MakesCall(host[q]) => host[q].id # h.id
  <2> SUFFICES ASSUME NEW q \in Process \ {p}, MakesCall(host[q]), host[q].id = id
               PROVE  FALSE
      BY <1>2
  <2>1. host[q].at # "calling"
      BY DEF Adopt, At, Now
  <2>2. journal[id] = "none"
      BY <2>1 DEF MakesCall, Inv, IsTrue, HandIsTrue
  <2> QED
      BY <1>3, <2>2
<1>6. /\ Become(p, h) /\ UNCHANGED <<biller, store, journal, landed, crashes>>
    BY <1>1 DEF Adopt
<1>7. store' \in Run /\ IsBacked(store') /\ crashes' \in 0 .. MaxCrashes
    BY <1>6 DEF Inv, WorldInv, WorldType
<1> QED
    BY <1>4, <1>5, <1>6, <1>7, QuietStep

\* The steps that move the journal or the provider in one call this process
\* makes, of which nothing is billed yet.
LEMMA CallStep ==
    ASSUME Inv, NEW p \in Process, NEW h \in Host, Become(p, h), IsTrue(h)',
           NEW id \in Id, MakesCall(host[p]), host[p].id = id, h.id = id,
           NEW entry \in JournalEntry \ {"none"},
           journal' = [journal EXCEPT ![id] = entry],
           \A i \in Id \ {id} : landed'[i] = landed[i],
           landed' \in [Id -> BOOLEAN],
           entry = "success" => landed'[id],
           entry \in {"failed", "denied"} => ~ landed'[id],
           UNCHANGED <<biller, store, crashes>>
    PROVE  Inv'
<1>1. id \in Issued /\ journal[id] \notin Outcome /\ biller[id].state = "reserved"
    BY DEF Inv, IsTrue, HandIsTrue, HasReservation, MakesCall, WorldInv, JournalIsTrue, Outcome
<1>2. /\ journal'[id] = entry
      /\ \A i \in Id \ {id} : journal'[i] = journal[i]
      /\ journal' \in [Id -> JournalEntry]
    BY DEF Inv, WorldInv, WorldType
<1>3. WorldType' /\ IsBacked(store)'
    BY <1>2 DEF Inv, WorldInv, WorldType, IsBacked, Issued, Coherent
<1>4. JournalIsTrue'
    BY <1>1, <1>2 DEF Inv, WorldInv, JournalIsTrue, Issued
<1>5. MoneyFollowsTruth'
    BY <1>1, <1>2, IssuedIds DEF Inv, WorldInv, MoneyFollowsTruth, Issued
<1>6. ASSUME NEW q \in Process \ {p} PROVE IsTrue(host[q])'
  <2>1. host'[q] = host[q] /\ IsTrue(host[q])
      BY DEF Inv, Become
  <2>2. MakesCall(host[q]) => host[q].id # id
      BY DEF Inv, CallsAreExclusive, Now
  <2>3. HandIsTrue(host[q])'
    <3>1. HasReservation(host[q])'
        BY <2>1 DEF IsTrue, HandIsTrue, HasReservation, Issued
    <3>2. host[q].at \in {"journaling", "calling", "reacting", "capturing",
                         "recording", "releasing"} => host[q].id \in Id
        BY <2>1, IssuedIds DEF IsTrue, HandIsTrue, HasReservation
    <3>3. host[q].id = id => host[q].at \notin {"reacting", "capturing", "recording", "releasing"}
        BY <1>1, <2>1 DEF IsTrue, HandIsTrue, Outcome
    <3> QED
        BY <1>2, <2>1, <2>2, <3>1, <3>2, <3>3 DEF IsTrue, HandIsTrue, MakesCall
  <2>4. CopyIsTrue(host[q])'
    <3>1. /\ host[q].pending \subseteq Id \X Outcome
          /\ host[q].recon \subseteq Id
        BY DEF Inv, Host
    <3>2. IsBacked(host[q].run)'
        BY <2>1 DEF IsTrue, CopyIsTrue, IsBacked, Issued
    <3> QED
        BY <1>1, <1>2, <2>1, <3>1, <3>2 DEF IsTrue, CopyIsTrue, Outcome
  <2> QED
      BY <2>3, <2>4 DEF IsTrue
<1>7. MakesCall(h) => \A q \in Process \ {p} : MakesCall(host[q]) => host[q].id # h.id
    BY DEF Inv, CallsAreExclusive, Now
<1> QED
    BY <1>3, <1>4, <1>5, <1>6, <1>7, HostStep DEF WorldInv

LEMMA JournalKeeps == ASSUME Inv, NEW p \in Process, Journal(p) PROVE Inv'
<1>1. PICK h \in Host : h = [host[p] EXCEPT !.at = "calling"]
    BY DEF Inv, Host, Place
<1>2. /\ h.at = "calling" /\ h.id = host[p].id
      /\ h.pending = host[p].pending /\ h.recon = host[p].recon /\ h.run = host[p].run
    BY <1>1 DEF Inv, Host
<1>3. /\ Become(p, h) /\ MakesCall(host[p])
      /\ journal' = [journal EXCEPT ![host[p].id] = "held"]
      /\ UNCHANGED <<biller, store, landed, crashes>>
    BY <1>1 DEF Journal, Goto, Now, At, MakesCall
<1>4. host[p].id \in Issued /\ host[p].id \in Id /\ CopyIsTrue(host[p])
      /\ journal[host[p].id] = "none"
    BY IssuedIds DEF Inv, IsTrue, HandIsTrue, HasReservation, Journal, At
<1>5. HandIsTrue(h)'
    BY <1>2, <1>3, <1>4 DEF HandIsTrue, HasReservation, Issued, Inv, WorldInv, WorldType
<1>6. CopyIsTrue(h)'
  <2>1. h.pending \subseteq Id \X Outcome /\ h.recon \subseteq Id
      BY DEF Host
  <2> QED
      BY <1>2, <1>3, <1>4, <2>1 DEF CopyIsTrue, IsBacked, Issued, Outcome, Inv, WorldInv, WorldType
<1>7. "held" \in JournalEntry \ {"none"} /\ landed' \in [Id -> BOOLEAN]
    BY <1>3 DEF JournalEntry, Inv, WorldInv, WorldType
<1> QED
    BY <1>2, <1>3, <1>4, <1>5, <1>6, <1>7, CallStep DEF IsTrue

LEMMA CallKeeps ==
    ASSUME Inv, NEW p \in Process, NEW happened \in BOOLEAN, NEW outcome \in Outcome,
           Call(p, happened, outcome)
    PROVE  Inv'
<1>1. PICK h \in Host : h = [host[p] EXCEPT !.at = "reacting"]
    BY DEF Inv, Host, Place
<1>2. /\ h.at = "reacting" /\ h.id = host[p].id
      /\ h.pending = host[p].pending /\ h.recon = host[p].recon /\ h.run = host[p].run
    BY <1>1 DEF Inv, Host
<1>3. /\ Become(p, h) /\ MakesCall(host[p])
      /\ journal' = [journal EXCEPT ![host[p].id] = outcome]
      /\ landed' = [landed EXCEPT ![host[p].id] = happened]
      /\ UNCHANGED <<biller, store, crashes>>
    BY <1>1 DEF Call, Goto, Now, At, MakesCall
<1>4. host[p].id \in Issued /\ host[p].id \in Id /\ CopyIsTrue(host[p])
      /\ journal[host[p].id] = "held"
    BY IssuedIds DEF Inv, IsTrue, HandIsTrue, HasReservation, Call, At
<1>5. HandIsTrue(h)'
    BY <1>2, <1>3, <1>4 DEF HandIsTrue, HasReservation, Issued, Inv, WorldInv, WorldType
<1>6. CopyIsTrue(h)'
  <2>1. h.pending \subseteq Id \X Outcome /\ h.recon \subseteq Id
      BY DEF Host
  <2> QED
      BY <1>2, <1>3, <1>4, <2>1 DEF CopyIsTrue, IsBacked, Issued, Outcome, Inv, WorldInv, WorldType
<1>7. /\ outcome \in JournalEntry \ {"none"}
      /\ landed' \in [Id -> BOOLEAN]
      /\ landed'[host[p].id] = happened
      /\ \A i \in Id \ {host[p].id} : landed'[i] = landed[i]
    BY <1>3, <1>4 DEF JournalEntry, Outcome, Inv, WorldInv, WorldType
<1>8. (outcome = "success" => happened) /\ (outcome \in {"failed", "denied"} => ~ happened)
    BY DEF Call
<1>9. /\ outcome = "success" => landed'[host[p].id]
      /\ outcome \in {"failed", "denied"} => ~ landed'[host[p].id]
    BY <1>7, <1>8
<1> QED
    BY <1>2, <1>3, <1>4, <1>5, <1>6, <1>7, <1>9, CallStep DEF IsTrue

LEMMA ReserveKeeps ==
    ASSUME Inv, NEW p \in Process, NEW amount \in Amount, Reserve(p, amount) PROVE Inv'
<1> DEFINE id == Cardinality(Issued) + 1
           row == [amount |-> amount, state |-> "reserved", outcome |-> NoOutcome]
<1>1. /\ id \in Id /\ id \notin Issued
      /\ Issued \cup {id} = 1 .. id /\ id \in 0 .. MaxReservations
    BY IssuedIds, BoundAssumption DEF Reserve, Id
<1>2. /\ Issued' = Issued \cup {id}
      /\ biller'[id] = row
      /\ \A i \in Issued : biller'[i] = biller[i]
      /\ UNCHANGED <<store, journal, landed, crashes>>
    BY <1>1 DEF Reserve, Issued
<1>3. journal[id] = "none"
    BY <1>1 DEF Inv, WorldInv, WorldType, JournalIsTrue
<1>4. PICK h \in Host : h = [host[p] EXCEPT !.at = "journaling", !.id = id]
    BY <1>1 DEF Inv, Host, Place
<1>5. /\ h.at = "journaling" /\ h.id = id
      /\ h.pending = host[p].pending /\ h.recon = host[p].recon /\ h.run = host[p].run
    BY <1>4 DEF Inv, Host
<1>6. Become(p, h)
    BY <1>4 DEF Reserve
<1>7. row.amount = amount /\ row.state = "reserved" /\ Coherent(row)
    BY DEF Coherent
<1> HIDE DEF id, row
<1>8. WorldType'
    BY <1>1, <1>2, <1>7 DEF Inv, WorldInv, WorldType, Coherent
<1>9. JournalIsTrue' /\ MoneyFollowsTruth' /\ IsBacked(store)'
    BY <1>1, <1>2, <1>3, <1>7 DEF Inv, WorldInv, JournalIsTrue, MoneyFollowsTruth, IsBacked
<1>10. ASSUME NEW q \in Process \ {p} PROVE IsTrue(host[q])'
  <2>1. host'[q] = host[q] /\ IsTrue(host[q])
      BY <1>6 DEF Inv, Become
  <2> QED
      BY <1>2, <2>1 DEF IsTrue, HandIsTrue, CopyIsTrue, HasReservation, IsBacked
<1>11. IsTrue(h)'
    BY <1>2, <1>3, <1>5 DEF Inv, IsTrue, HandIsTrue, CopyIsTrue, HasReservation, IsBacked
<1>12. \A q \in Process \ {p} : MakesCall(host[q]) => host[q].id # h.id
    BY <1>1, <1>5 DEF Inv, IsTrue, HandIsTrue, HasReservation, MakesCall
<1> QED
    BY <1>6, <1>8, <1>9, <1>10, <1>11, <1>12, HostStep DEF WorldInv

-----------------------------------------------------------------------------
(* The invariant holds. *)

LEMMA InitInv == Init => Inv
<1> SUFFICES ASSUME Init PROVE Inv
    OBVIOUS
<1>1. Issued = {} /\ 1 .. 0 = {} /\ 0 \in 0 .. MaxReservations /\ 0 \in 0 .. MaxCrashes
    BY BoundAssumption DEF Init, Issued
<1>2. WorldType
    BY <1>1 DEF Init, WorldType, Run, NoRun, Phase, Terminal, JournalEntry
<1>3. JournalIsTrue /\ MoneyFollowsTruth /\ IsBacked(store)
    BY <1>1 DEF Init, JournalIsTrue, MoneyFollowsTruth, IsBacked, NoRun, Outcome
<1>4. \A p \in Process : host[p] = Down /\ ~ MakesCall(host[p])
    BY DEF Init, Down, MakesCall
<1> QED
    BY <1>2, <1>3, <1>4, DownIsTrue DEF Init, Inv, WorldInv, CallsAreExclusive

LEMMA NextInv == Inv /\ [Next]_vars => Inv'
<1> SUFFICES ASSUME Inv, [Next]_vars PROVE Inv'
    OBVIOUS
<1>1. ASSUME NEW p \in Process, Work(p) PROVE Inv'
  <2>1. CASE Resumed(p) \/ Settled(p)
      BY <2>1, GotoFree DEF Resumed, Settled, Free
  <2> QED
      BY <1>1, <2>1, ResumeKeeps, ResumeReservationKeeps, SettleKeeps, CaptureRaisesKeeps,
         CaptureKeeps, RecordCaptureKeeps, ReleaseKeeps, JournalKeeps, AdoptKeeps,
         CallKeeps, ReactKeeps, IterateKeeps DEF Work
<1>2. CASE UNCHANGED vars
  <2>1. UNCHANGED <<biller, store, journal, landed, host, crashes>>
      BY <1>2 DEF vars
  <2>2. WorldInv'
      BY <2>1 DEF Inv, WorldInv, WorldType, JournalIsTrue, MoneyFollowsTruth, IsBacked,
         Issued, Coherent
  <2>3. \A p \in Process : IsTrue(host[p])'
      BY <2>1 DEF Inv, IsTrue, HandIsTrue, CopyIsTrue, HasReservation, IsBacked, Issued
  <2> QED
      BY <2>1, <2>2, <2>3 DEF Inv, CallsAreExclusive, Now, MakesCall
<1> QED
    BY <1>1, <1>2, OpenKeeps, ReserveKeeps, CloseKeeps, CrashKeeps DEF Next

LEMMA InvAlways == SafetySpec => []Inv
    BY InitInv, NextInv, PTL DEF SafetySpec

-----------------------------------------------------------------------------
(* What a record charges is what its captures cost.  No step makes a record *)
(* but by copying one, by starting with none, or by showing one more        *)
(* capture at its cost; and no step changes a cost.                         *)

Balances(run) == run.charged = Cost(run.captured)

\* run shows what old shows.
ShowsSame(run, old) == run.captured = old.captured /\ run.charged = old.charged

\* run shows what old shows, and reservation id.
ShowsMore(run, old, id) ==
    run.captured = old.captured \cup {id} /\ run.charged = old.charged + biller[id].amount

Derived(run) ==
    \/ ShowsSame(run, NoRun)
    \/ \E old \in Records : ShowsSame(run, old)
    \/ \E old \in Records, id \in Issued : id \notin old.captured /\ ShowsMore(run, old, id)

AmountsStay ==
    /\ Issued \subseteq Issued'
    /\ \A id \in Issued : biller'[id].amount = biller[id].amount

LEMMA RecordsAreRuns ==
    ASSUME Inv, NEW run \in Records
    PROVE  run \in Run /\ IsBacked(run) /\ run.captured \subseteq Issued
    BY DEF Inv, WorldInv, WorldType, Records, Run_, Host, IsTrue, CopyIsTrue, IsBacked

LEMMA AmountsAreInt == Inv => \A id \in Issued : biller[id].amount \in Int
<1>1. \A amount \in Amount : amount \in Int
    BY AmountAssumption
<1> QED
    BY <1>1 DEF Inv, WorldInv, WorldType

LEMMA CostIsInt ==
    ASSUME Inv, NEW ids \in SUBSET Issued
    PROVE  IsFiniteSet(ids) /\ Cost(ids) \in Int
<1>1. IsFiniteSet(ids)
    BY IssuedIds, FS_Subset
<1>2. PICK f : f = [id \in Issued |-> biller[id].amount]
    OBVIOUS
<1>3. \A id \in ids : f[id] \in Int
    BY <1>2, AmountsAreInt
<1>4. SumFunctionOnSet(f, ids) \in Int
    BY <1>1, <1>3, SumIsInt
<1> QED
    BY <1>1, <1>2, <1>4 DEF Cost

LEMMA CostOfMore ==
    ASSUME Inv, NEW ids \in SUBSET Issued, NEW id \in Issued, id \notin ids
    PROVE  Cost(ids \cup {id}) = Cost(ids) + biller[id].amount
<1>1. IsFiniteSet(ids) /\ Cost(ids) \in Int
    BY CostIsInt
<1>2. PICK f : f = [i \in Issued |-> biller[i].amount]
    OBVIOUS
<1>3. \A i \in ids \cup {id} : f[i] \in Int
    BY <1>2, AmountsAreInt
<1>4. SumFunctionOnSet(f, ids \cup {id}) = f[id] + SumFunctionOnSet(f, ids)
    BY <1>1, <1>3, SumMore
<1>5. Cost(ids \cup {id}) = f[id] + Cost(ids)
    BY <1>2, <1>4 DEF Cost
<1>6. f[id] = biller[id].amount /\ f[id] \in Int
    BY <1>2, <1>3
<1> QED
    BY <1>1, <1>5, <1>6

LEMMA CostStays ==
    ASSUME Inv, AmountsStay, NEW ids \in SUBSET Issued
    PROVE  Cost(ids)' = Cost(ids)
<1>1. IsFiniteSet(ids)
    BY CostIsInt
<1>2. PICK f : f = [i \in Issued |-> biller[i].amount]
    OBVIOUS
<1>3. PICK g : g = [i \in Issued' |-> biller'[i].amount]
    OBVIOUS
<1>4. \A i \in ids : f[i] = g[i]
    BY <1>2, <1>3 DEF AmountsStay
<1>5. SumFunctionOnSet(f, ids) = SumFunctionOnSet(g, ids)
    BY <1>1, <1>4, SumSame
<1> QED
    BY <1>2, <1>3, <1>5 DEF Cost

LEMMA DerivedBalances ==
    ASSUME Inv, RecordBalances, AmountsStay, NEW run, Derived(run)
    PROVE  Balances(run)'
<1>1. CASE ShowsSame(run, NoRun)
  <2>1. {} \in SUBSET Issued /\ run.captured = {} /\ run.charged = 0
      BY <1>1 DEF ShowsSame, NoRun
  <2>2. Cost({}) = 0
      BY SumOfNone DEF Cost
  <2>3. Cost({})' = 0
      BY <2>1, <2>2, CostStays
  <2> QED
      BY <2>1, <2>3 DEF Balances
<1>2. ASSUME NEW old \in Records, ShowsSame(run, old) PROVE Balances(run)'
  <2>1. old.captured \in SUBSET Issued /\ old.charged = Cost(old.captured)
      BY RecordsAreRuns DEF RecordBalances
  <2>2. PICK ids \in SUBSET Issued : ids = old.captured
      BY <2>1
  <2>3. Cost(ids)' = Cost(ids)
      BY CostStays
  <2>4. run.captured = ids /\ run.charged = Cost(ids)
      BY <1>2, <2>1, <2>2 DEF ShowsSame
  <2> QED
      BY <2>3, <2>4 DEF Balances
<1>3. ASSUME NEW old \in Records, NEW id \in Issued, id \notin old.captured,
             ShowsMore(run, old, id)
      PROVE  Balances(run)'
  <2>1. old.captured \in SUBSET Issued /\ old.charged = Cost(old.captured)
      BY RecordsAreRuns DEF RecordBalances
  <2>2. PICK ids \in SUBSET Issued : ids = old.captured \cup {id}
      BY <2>1
  <2>3. Cost(ids)' = Cost(ids)
      BY CostStays
  <2>4. Cost(ids) = Cost(old.captured) + biller[id].amount
      BY <1>3, <2>1, <2>2, CostOfMore
  <2>5. run.captured = ids /\ run.charged = Cost(ids)
      BY <1>3, <2>1, <2>2, <2>4 DEF ShowsMore
  <2> QED
      BY <2>3, <2>5 DEF Balances
<1> QED
    BY <1>1, <1>2, <1>3 DEF Derived

LEMMA AmountsStayPut == Inv /\ Next => AmountsStay
<1> SUFFICES ASSUME Inv, Next PROVE AmountsStay
    OBVIOUS
<1>1. ASSUME NEW p \in Process, NEW amount \in Amount, Reserve(p, amount)
      PROVE  AmountsStay
  <2>1. PICK id : id = Cardinality(Issued) + 1
      OBVIOUS
  <2>2. id \notin Issued
      BY <2>1, IssuedIds
  <2>3. Issued' = Issued \cup {id} /\ \A i \in Issued : biller'[i] = biller[i]
      BY <1>1, <2>1, <2>2 DEF Reserve, Issued
  <2> QED
      BY <2>3 DEF AmountsStay
<1>2. ASSUME NEW p \in Process, Capture(p) PROVE AmountsStay
  <2>1. Now(p) \in Issued
      BY <1>2 DEF Inv, IsTrue, HandIsTrue, HasReservation, Capture, At, Now
  <2>2. PICK row : /\ row.amount = biller[Now(p)].amount
                   /\ biller' = biller \/ biller' = [biller EXCEPT ![Now(p)] = row]
    <3>1. PICK row : row = AfterCapture(biller[Now(p)], host[p].outcome)
        OBVIOUS
    <3>2. biller' = biller \/ biller' = [biller EXCEPT ![Now(p)] = row]
        BY <1>2, <3>1 DEF Capture, Bill
    <3>3. row.amount = biller[Now(p)].amount
        BY <3>1 DEF AfterCapture
    <3> QED
        BY <3>2, <3>3
  <2> QED
      BY <2>1, <2>2 DEF AmountsStay, Issued
<1>3. ASSUME NEW p \in Process, Release(p) PROVE AmountsStay
  <2>1. PICK row : /\ row.amount = biller[Now(p)].amount
                   /\ biller' = biller \/ biller' = [biller EXCEPT ![Now(p)] = row]
    <3>1. PICK row : row = AfterRelease(biller[Now(p)])
        OBVIOUS
    <3>2. biller' = biller \/ biller' = [biller EXCEPT ![Now(p)] = row]
        BY <1>3, <3>1 DEF Release, Bill
    <3>3. row.amount = biller[Now(p)].amount
        BY <3>1 DEF AfterRelease
    <3> QED
        BY <3>2, <3>3
  <2> QED
      BY <2>1 DEF AmountsStay, Issued
<1>4. ASSUME biller' = biller PROVE AmountsStay
    BY <1>4 DEF AmountsStay, Issued
<1>5. ASSUME NEW p \in Process,
             \/ Open(p) \/ Resume(p) \/ Resumed(p) \/ Settled(p) \/ CaptureRaises(p)
             \/ RecordCapture(p) \/ Journal(p) \/ React(p) \/ Iterate(p) \/ Crash(p)
             \/ \E phase \in Phase : Close(p, phase)
      PROVE  AmountsStay
    BY <1>4, <1>5 DEF Open, Resume, Resumed, Settled, CaptureRaises, RecordCapture,
       Journal, React, Iterate, Crash, Close
<1>6. ASSUME NEW p \in Process, NEW id \in Id,
             \/ Settle(p, id) \/ Adopt(p, id)
             \/ \E outcome \in Outcome : ResumeReservation(p, id, outcome)
      PROVE  AmountsStay
    BY <1>4, <1>6 DEF Settle, Adopt, ResumeReservation
<1>7. ASSUME NEW p \in Process, NEW happened \in BOOLEAN, NEW outcome \in Outcome,
             Call(p, happened, outcome)
      PROVE  AmountsStay
    BY <1>4, <1>7 DEF Call
<1> QED
    BY <1>1, <1>2, <1>3, <1>5, <1>6, <1>7 DEF Next, Work

\* A step is that of one process, which leaves the others' copies alone.
LEMMA DerivedAfter ==
    ASSUME Inv, NEW p \in Process, NEW h, Become(p, h), Derived(store'), Derived(h.run)
    PROVE  \A run \in Records' : Derived(run)
<1>1. host'[p] = h /\ \A q \in Process \ {p} : host'[q] = host[q]
    BY DEF Inv, Become
<1>2. \A q \in Process : Derived(host[q].run)
    BY DEF Derived, ShowsSame, Records, Run_
<1>3. \A q \in Process : Derived(host'[q].run)
    BY <1>1, <1>2
<1> QED
    BY <1>3 DEF Records, Run_

LEMMA CopiesAreDerived ==
    /\ Derived(store)
    /\ \A p \in Process : Derived(host[p].run)
    /\ Derived(NoRun)
    BY DEF Derived, ShowsSame, Records, Run_

LEMMA ShownIsDerived ==
    ASSUME NEW run, NEW old \in Records, ShowsSame(run, old)
    PROVE  Derived(run)
    BY DEF Derived

LEMMA RecordsDerive == Inv /\ Next => \A run \in Records' : Derived(run)
<1> SUFFICES ASSUME Inv, Next PROVE \A run \in Records' : Derived(run)
    OBVIOUS
<1>1. \A p \in Process : host[p] \in Host /\ host[p].run \in Run
    BY DEF Inv, Host
<1>2. \A p \in Process : Run_(p) \in Records
    BY DEF Records
<1>3. ASSUME NEW p \in Process, Open(p) PROVE \A run \in Records' : Derived(run)
  <2>1. PICK run : run = [NoRun EXCEPT !.phase = "running"]
      OBVIOUS
  <2>2. Derived(run)
      BY <2>1 DEF Derived, ShowsSame, NoRun
  <2>3. PICK h : h = [host[p] EXCEPT !.run = run, !.at = "driving"]
      OBVIOUS
  <2>4. h.run = run /\ Become(p, h) /\ store' = run
      BY <1>1, <1>3, <2>1, <2>3 DEF Open, Checkpoint, Host
  <2> QED
      BY <2>2, <2>4, DerivedAfter
<1>4. ASSUME NEW p \in Process, Resume(p) PROVE \A run \in Records' : Derived(run)
  <2>1. PICK h : h = [Down EXCEPT !.at = "resuming", !.run = store, !.pending = Journalled]
      OBVIOUS
  <2>2. h.run = store /\ Become(p, h) /\ store' = store
      BY <1>4, <2>1 DEF Resume, Down
  <2> QED
      BY <2>2, DerivedAfter, CopiesAreDerived
<1>5. ASSUME NEW p \in Process, RecordCapture(p) PROVE \A run \in Records' : Derived(run)
  <2>1. PICK run : run = WithCapture(Run_(p), Now(p), biller[Now(p)].amount)
      OBVIOUS
  <2>2. Now(p) \in Issued
      BY <1>5 DEF Inv, IsTrue, HandIsTrue, HasReservation, RecordCapture, At, Now
  <2>3. Derived(run)
    <3>1. CASE Now(p) \in Run_(p).captured
        BY <1>2, <2>1, <3>1 DEF WithCapture, Derived, ShowsSame
    <3>2. CASE Now(p) \notin Run_(p).captured
      <4>1. ShowsMore(run, Run_(p), Now(p))
          BY <2>1, <3>2 DEF WithCapture, ShowsMore
      <4> QED
          BY <1>2, <2>2, <3>2, <4>1 DEF Derived
    <3> QED
        BY <3>1, <3>2
  <2>4. PICK h : h = [host[p] EXCEPT !.run = run, !.at = host[p].next]
      OBVIOUS
  <2>5. h.run = run /\ Become(p, h) /\ store' = run
      BY <1>1, <1>5, <2>1, <2>4 DEF RecordCapture, Checkpoint, Host
  <2> QED
      BY <2>3, <2>5, DerivedAfter
<1>6. ASSUME NEW p \in Process, Iterate(p) PROVE \A run \in Records' : Derived(run)
  <2>1. PICK run : run = [Run_(p) EXCEPT !.iteration = @ + 1]
      OBVIOUS
  <2>2. ShowsSame(run, Run_(p))
      BY <1>1, <2>1 DEF ShowsSame, Run_, Run
  <2>3. PICK h : h = [host[p] EXCEPT !.run = run, !.at = "driving"]
      OBVIOUS
  <2>4. h.run = run /\ Become(p, h) /\ store' = run
      BY <1>1, <1>6, <2>1, <2>3 DEF Iterate, Checkpoint, Host
  <2> QED
      BY <1>2, <2>2, <2>4, ShownIsDerived, DerivedAfter
<1>7. ASSUME NEW p \in Process, NEW phase \in Phase, Close(p, phase)
      PROVE  \A run \in Records' : Derived(run)
  <2>1. ShowsSame(store', Run_(p))
      BY <1>1, <1>7 DEF Close, ShowsSame, Run_, Run
  <2>2. PICK h : h = Down
      OBVIOUS
  <2>3. h.run = NoRun /\ Become(p, h)
      BY <1>7, <2>2 DEF Close, Down
  <2> QED
      BY <1>2, <2>1, <2>3, ShownIsDerived, DerivedAfter, CopiesAreDerived
<1>8. ASSUME NEW p \in Process, Crash(p) \/ CaptureRaises(p)
      PROVE  \A run \in Records' : Derived(run)
  <2>1. PICK h : h = Down
      OBVIOUS
  <2>2. h.run = NoRun /\ Become(p, h) /\ store' = store
      BY <1>8, <2>1 DEF Crash, CaptureRaises, Down
  <2> QED
      BY <2>2, DerivedAfter, CopiesAreDerived
<1>9. ASSUME NEW p \in Process, NEW h, Become(p, h), h.run = host[p].run, store' = store
      PROVE  \A run \in Records' : Derived(run)
    BY <1>9, DerivedAfter, CopiesAreDerived
<1>10. ASSUME NEW p \in Process, NEW place, Goto(p, place), store' = store
       PROVE  \A run \in Records' : Derived(run)
  <2>1. PICK h : h = [host[p] EXCEPT !.at = place]
      OBVIOUS
  <2>2. Become(p, h) /\ h.run = host[p].run
      BY <1>1, <1>10, <2>1 DEF Goto, Host
  <2> QED
      BY <1>9, <1>10, <2>2
<1>11. ASSUME NEW p \in Process,
              \/ Resumed(p) \/ Settled(p) \/ Capture(p) \/ Release(p) \/ Journal(p)
              \/ \E happened \in BOOLEAN, outcome \in Outcome : Call(p, happened, outcome)
       PROVE  \A run \in Records' : Derived(run)
  <2>1. store' = store /\ \E place : Goto(p, place)
      BY <1>11 DEF Resumed, Settled, Capture, Release, Journal, Call
  <2> QED
      BY <1>10, <2>1
<1>12. ASSUME NEW p \in Process, NEW id \in Id, NEW outcome \in Outcome,
              ResumeReservation(p, id, outcome)
       PROVE  \A run \in Records' : Derived(run)
  <2>1. PICK g \in Host : g = [host[p] EXCEPT !.pending = @ \ {<<id, outcome>>}]
      BY <1>1 DEF Host
  <2>2. g.run = host[p].run /\ store' = store
      BY <1>1, <1>12, <2>1 DEF ResumeReservation, Host
  <2>3. \/ Become(p, g)
        \/ Become(p, Take(g, "capturing", id, outcome, "resuming"))
        \/ Become(p, Take(g, "releasing", id, NoOutcome, "resuming"))
        \/ Become(p, [g EXCEPT !.recon = @ \cup {id}])
      BY <1>12, <2>1 DEF ResumeReservation
  <2>4. /\ \A o : Take(g, "capturing", id, o, "resuming").run = g.run
        /\ \A o : Take(g, "releasing", id, o, "resuming").run = g.run
        /\ [g EXCEPT !.recon = @ \cup {id}].run = g.run
      BY DEF Take, Host
  <2> QED
      BY <1>9, <2>2, <2>3, <2>4
<1>13. ASSUME NEW p \in Process, NEW id \in Id, Settle(p, id)
       PROVE  \A run \in Records' : Derived(run)
  <2>1. PICK g \in Host : g = [host[p] EXCEPT !.recon = @ \ {id}]
      BY <1>1 DEF Host
  <2>2. g.run = host[p].run /\ store' = store
      BY <1>1, <1>13, <2>1 DEF Settle, Host
  <2>3. \/ Become(p, Take(g, "capturing", id, "success", "settling"))
        \/ Become(p, Take(g, "releasing", id, NoOutcome, "settling"))
      BY <1>13, <2>1 DEF Settle
  <2>4. /\ \A o : Take(g, "capturing", id, o, "settling").run = g.run
        /\ \A o : Take(g, "releasing", id, o, "settling").run = g.run
      BY DEF Take, Host
  <2> QED
      BY <1>9, <2>2, <2>3, <2>4
<1>14. ASSUME NEW p \in Process, React(p) PROVE \A run \in Records' : Derived(run)
  <2>1. \/ Become(p, Take(host[p], "capturing", Now(p), journal[Now(p)], "iterating"))
        \/ Become(p, Take(host[p], "releasing", Now(p), NoOutcome, "iterating"))
        \/ Become(p, [host[p] EXCEPT !.at = "settling", !.recon = {Now(p)}])
      BY <1>14 DEF React
  <2>2. /\ \A o : Take(host[p], "capturing", Now(p), o, "iterating").run = host[p].run
        /\ \A o : Take(host[p], "releasing", Now(p), o, "iterating").run = host[p].run
        /\ [host[p] EXCEPT !.at = "settling", !.recon = {Now(p)}].run = host[p].run
      BY <1>1 DEF Take, Host
  <2>3. store' = store
      BY <1>14 DEF React
  <2> QED
      BY <1>9, <2>1, <2>2, <2>3
<1>15. ASSUME NEW p \in Process, NEW id \in Id, Adopt(p, id)
       PROVE  \A run \in Records' : Derived(run)
  <2>1. PICK h : h = [host[p] EXCEPT !.at = "calling", !.id = id]
      OBVIOUS
  <2>2. h.run = host[p].run /\ Become(p, h) /\ store' = store
      BY <1>1, <1>15, <2>1 DEF Adopt, Host
  <2> QED
      BY <1>9, <2>2
<1>16. ASSUME NEW p \in Process, NEW amount \in Amount, Reserve(p, amount)
       PROVE  \A run \in Records' : Derived(run)
  <2>1. PICK h : h = [host[p] EXCEPT !.at = "journaling", !.id = Cardinality(Issued) + 1]
      OBVIOUS
  <2>2. h.run = host[p].run /\ Become(p, h) /\ store' = store
      BY <1>1, <1>16, <2>1 DEF Reserve, Host
  <2> QED
      BY <1>9, <2>2
<1> QED
    BY <1>3, <1>4, <1>5, <1>6, <1>7, <1>8, <1>11, <1>12, <1>13, <1>14, <1>15, <1>16
       DEF Next, Work

LEMMA InitBalances == Init => RecordBalances
<1> SUFFICES ASSUME Init, NEW run \in Records PROVE run.charged = Cost(run.captured)
    BY DEF RecordBalances
<1>1. run.captured = {} /\ run.charged = 0
    BY DEF Init, Records, Run_, Down, NoRun
<1> QED
    BY <1>1, SumOfNone DEF Cost

LEMMA NextBalances == Inv /\ RecordBalances /\ [Next]_vars => RecordBalances'
<1> SUFFICES ASSUME Inv, RecordBalances, [Next]_vars PROVE RecordBalances'
    OBVIOUS
<1>1. CASE Next
  <2>1. AmountsStay /\ \A run \in Records' : Derived(run)
      BY <1>1, AmountsStayPut, RecordsDerive
  <2>2. ASSUME NEW run \in Records' PROVE run.charged = Cost(run.captured)'
    <3>1. Balances(run)'
        BY <2>1, DerivedBalances
    <3> QED
        BY <3>1 DEF Balances
  <2> QED
      BY <2>2 DEF RecordBalances
<1>2. CASE UNCHANGED vars
  <2>1. Records' = Records /\ biller' = biller /\ Issued' = Issued
      BY <1>2 DEF vars, Records, Run_, Issued
  <2> QED
      BY <2>1 DEF RecordBalances, Cost
<1> QED
    BY <1>1, <1>2

-----------------------------------------------------------------------------
(* The theorems on any number of processes. *)

\* Whatever the processes do and wherever they die, every row, record and copy
\* keeps its type, and a process that is to bill has an issued reservation.
THEOREM TypeCorrect == SafetySpec => []TypeOK
    BY InvAlways, InvImplies, PTL

\* No number of processes racing over whole-row checkpoints, and no crash, makes
\* a record show a capture the biller has not settled: records may forget
\* captures, they never invent one.
THEOREM RecordsAreBacked == SafetySpec => []RecordIsBacked
    BY InvAlways, InvImplies, PTL

\* P9's money: a settled charge is for a call that landed, and a refund for one
\* that did not, for any number of processes, crashes and replays.
THEOREM ChargesFollowTruth == SafetySpec => []MoneyFollowsTruth
    BY InvAlways, InvImplies, PTL

\* "charged_credits" cannot drift from what it is charged for: whatever is
\* replayed, raced or lost, every record and every copy of it charges exactly
\* what the captures it shows cost at the biller.
THEOREM RecordsBalance == SafetySpec => []RecordBalances
    BY InvAlways, InitBalances, NextBalances, PTL DEF SafetySpec

-----------------------------------------------------------------------------
(* One host at a time that surfaces its interrupted calls: a landed call is *)
(* shown by the record or in the host's hands, until the run is closed.     *)

OneHost ==
    /\ \A p, q \in Process : p = q
    /\ OnInterrupted \subseteq {"surface"}

Billing == {"capturing", "recording", "releasing"}

\* The host works on the stored row itself, and has nothing left to resolve
\* where it drives the run.
Standing(h) ==
    /\ h.at # "down" => h.run = store /\ store.phase = "running"
    /\ h.at \in {"down", "driving", "iterating", "journaling", "calling", "reacting"} =>
         h.pending = {} /\ h.recon = {}
    /\ h.at = "settling" => h.pending = {}
    /\ h.at \in Billing => h.next \in {"resuming", "settling", "iterating"}
    /\ h.at \in Billing /\ h.next = "settling" => h.pending = {}
    /\ h.at \in Billing /\ h.next = "iterating" => h.pending = {} /\ h.recon = {}
    /\ h.at = "capturing" => h.outcome = "success"

\* The host is still to charge or to show the call, now or once it is resumed.
InHand(h, id) ==
    \/ h.at = "down"
    \/ <<id, journal[id]>> \in h.pending
    \/ id \in h.recon
    \/ h.at \in {"reacting", "capturing", "recording"} /\ h.id = id

Accounted(h) == \A id \in Id : landed[id] /\ id \notin store.captured => InHand(h, id)

SoloHost(h) == Standing(h) /\ Accounted(h)

SoloWorld ==
    /\ \A id \in Id : landed[id] => journal[id] \in Outcome
    /\ \A id \in Issued : biller[id].state # "needs_reconciliation"
    /\ store.phase = "absent" => store = NoRun /\ Landed = {}
    /\ store.phase \in Terminal => Landed \subseteq store.captured

Solo == SoloWorld /\ \A p \in Process : SoloHost(host[p])

\* A step the promise allows, or does not see.
Promised == [Promise!Next]_(Promise!vars)

Done == Solo' /\ Promised

LEMMA SoloStep ==
    ASSUME OneHost, Inv, NEW p \in Process, NEW h, Become(p, h), SoloHost(h)', SoloWorld'
    PROVE  Solo'
<1>1. \A q \in Process : host'[q] = h
    BY DEF Inv, Become, OneHost
<1> QED
    BY <1>1 DEF Solo, SoloHost, Standing, Accounted, InHand

\* What the promise sees of a run.
LEMMA Unseen ==
    ASSUME UNCHANGED <<journal, landed>>, Charged' = Charged,
           store'.captured = store.captured,
           store'.phase \in Terminal <=> store.phase \in Terminal
    PROVE  Promised
<1>1. [id \in Id |-> Fate(id)]' = [id \in Id |-> Fate(id)]
    BY DEF Fate
<1>2. (store.phase \in Terminal)' = (store.phase \in Terminal)
    OBVIOUS
<1> QED
    BY <1>1, <1>2 DEF Promised, Promise!vars

\* A step that changes the host alone.
LEMMA SoloQuiet ==
    ASSUME OneHost, Inv, Solo, NEW p \in Process, NEW h, Become(p, h), SoloHost(h),
           UNCHANGED <<biller, store, journal, landed>>
    PROVE  Done
<1>1. SoloHost(h)'
    BY DEF SoloHost, Standing, Accounted, InHand
<1>2. SoloWorld'
    BY DEF Solo, SoloWorld, Issued, Landed
<1>3. Promised
    BY Unseen DEF Charged, Issued
<1> QED
    BY <1>1, <1>2, <1>3, SoloStep DEF Done

\* What the host of a run that is being worked on stands for.
LEMMA AtWork ==
    ASSUME Inv, Solo, NEW p \in Process, ~ At(p, "down")
    PROVE  /\ host[p] \in Host /\ host[p].run = store /\ store \in Run
           /\ store.phase = "running" /\ store.phase \notin Terminal
           /\ store.phase # "absent"
    BY DEF Inv, WorldInv, WorldType, Solo, SoloHost, Standing, At, Terminal

LEMMA SoloResume == ASSUME OneHost, Inv, Solo, NEW p \in Process, Resume(p) PROVE Done
<1>1. PICK h : h = [Down EXCEPT !.at = "resuming", !.run = store, !.pending = Journalled]
    OBVIOUS
<1>2. h.at = "resuming" /\ h.run = store /\ h.pending = Journalled
    BY <1>1 DEF Down
<1>3. store.phase = "running"
    BY DEF Resume, Inv, WorldInv, WorldType, Run, Phase
<1>4. \A id \in Id : landed[id] => <<id, journal[id]>> \in Journalled
    BY DEF Journalled, Solo, SoloWorld
<1>5. SoloHost(h)
    BY <1>2, <1>3, <1>4 DEF SoloHost, Standing, Accounted, InHand, Billing
<1>6. Become(p, h) /\ UNCHANGED <<biller, store, journal, landed>>
    BY <1>1 DEF Resume
<1> QED
    BY <1>5, <1>6, SoloQuiet

LEMMA SoloResumeReservation ==
    ASSUME OneHost, Inv, Solo, NEW p \in Process, NEW id \in Id, NEW outcome \in Outcome,
           ResumeReservation(p, id, outcome)
    PROVE  Done
<1>1. PICK g \in Host : g = [host[p] EXCEPT !.pending = @ \ {<<id, outcome>>}]
    BY DEF Inv, Host
<1>2. /\ g.at = "resuming" /\ g.recon = host[p].recon /\ g.run = host[p].run
      /\ g.pending = host[p].pending \ {<<id, outcome>>}
    BY <1>1 DEF ResumeReservation, At, Inv, Host
<1>3. host[p].at = "resuming" /\ host[p].run = store /\ store.phase = "running"
    BY AtWork DEF ResumeReservation, At
<1>4. journal[id] = outcome
    BY DEF Inv, IsTrue, CopyIsTrue, ResumeReservation
<1>5. \A i \in Id : landed[i] /\ i \notin store.captured /\ i # id => InHand(g, i)
    BY <1>2, <1>3 DEF Solo, SoloHost, Accounted, InHand
<1>6. UNCHANGED <<biller, store, journal, landed>>
    BY DEF ResumeReservation
<1>7. \/ id \in store.captured /\ Become(p, g)
      \/ /\ outcome = "success"
         /\ Become(p, Take(g, "capturing", id, outcome, "resuming"))
      \/ /\ outcome \in {"failed", "denied"}
         /\ Become(p, Take(g, "releasing", id, NoOutcome, "resuming"))
      \/ /\ outcome = "interrupted"
         /\ Become(p, [g EXCEPT !.recon = @ \cup {id}])
    BY <1>1, <1>3 DEF ResumeReservation, Decision, Outcome, Run_
<1>8. CASE id \in store.captured /\ Become(p, g)
  <2>1. SoloHost(g)
      BY <1>2, <1>3, <1>5, <1>8 DEF SoloHost, Standing, Accounted, Billing
  <2> QED
      BY <1>6, <1>8, <2>1, SoloQuiet
<1>9. CASE /\ outcome = "success"
           /\ Become(p, Take(g, "capturing", id, outcome, "resuming"))
  <2>1. PICK h : h = Take(g, "capturing", id, outcome, "resuming")
      OBVIOUS
  <2>2. /\ h.at = "capturing" /\ h.id = id /\ h.outcome = "success" /\ h.next = "resuming"
        /\ h.pending = g.pending /\ h.recon = g.recon /\ h.run = g.run
      BY <1>9, <2>1 DEF Take, Host
  <2>3. SoloHost(h)
      BY <1>2, <1>3, <1>5, <2>2 DEF SoloHost, Standing, Accounted, InHand, Billing
  <2> QED
      BY <1>6, <1>9, <2>1, <2>3, SoloQuiet
<1>10. CASE /\ outcome \in {"failed", "denied"}
            /\ Become(p, Take(g, "releasing", id, NoOutcome, "resuming"))
  <2>1. PICK h : h = Take(g, "releasing", id, NoOutcome, "resuming")
      OBVIOUS
  <2>2. /\ h.at = "releasing" /\ h.id = id /\ h.next = "resuming"
        /\ h.pending = g.pending /\ h.recon = g.recon /\ h.run = g.run
      BY <2>1 DEF Take, Host
  <2>3. ~ landed[id]
      BY <1>4, <1>10 DEF Inv, WorldInv, JournalIsTrue
  <2>4. SoloHost(h)
      BY <1>2, <1>3, <1>5, <2>2, <2>3 DEF SoloHost, Standing, Accounted, InHand, Billing
  <2> QED
      BY <1>6, <1>10, <2>1, <2>4, SoloQuiet
<1>11. CASE /\ outcome = "interrupted"
            /\ Become(p, [g EXCEPT !.recon = @ \cup {id}])
  <2>1. PICK h : h = [g EXCEPT !.recon = @ \cup {id}]
      OBVIOUS
  <2>2. /\ h.at = "resuming" /\ h.pending = g.pending /\ h.recon = g.recon \cup {id}
        /\ h.run = g.run
      BY <1>2, <2>1 DEF Host
  <2>3. SoloHost(h)
      BY <1>2, <1>3, <1>5, <2>2 DEF SoloHost, Standing, Accounted, InHand, Billing
  <2> QED
      BY <1>6, <1>11, <2>1, <2>3, SoloQuiet
<1> QED
    BY <1>7, <1>8, <1>9, <1>10, <1>11

LEMMA SoloResumed ==
    ASSUME OneHost, Inv, Solo, NEW p \in Process, Resumed(p) PROVE Done
<1>1. PICK h : h = [host[p] EXCEPT !.at = "settling"]
    OBVIOUS
<1>2. /\ h.at = "settling" /\ h.pending = {} /\ h.recon = host[p].recon
      /\ h.run = host[p].run
    BY <1>1 DEF Resumed, Inv, Host
<1>3. host[p].at = "resuming" /\ host[p].run = store /\ store.phase = "running"
      /\ host[p].pending = {}
    BY AtWork DEF Resumed, At
<1>4. SoloHost(h)
    BY <1>2, <1>3 DEF Solo, SoloHost, Standing, Accounted, InHand, Billing
<1>5. Become(p, h) /\ UNCHANGED <<biller, store, journal, landed>>
    BY <1>1 DEF Resumed, Goto
<1> QED
    BY <1>4, <1>5, SoloQuiet

LEMMA SoloSettled ==
    ASSUME OneHost, Inv, Solo, NEW p \in Process, Settled(p) PROVE Done
<1>1. PICK h : h = [host[p] EXCEPT !.at = "driving"]
    OBVIOUS
<1>2. host[p].at = "settling" /\ host[p].run = store /\ store.phase = "running"
      /\ host[p].pending = {} /\ host[p].recon = {}
    BY AtWork DEF Settled, At, Solo, SoloHost, Standing
<1>3. h.at = "driving" /\ h.pending = {} /\ h.recon = {} /\ h.run = store
    BY <1>1, <1>2 DEF Inv, Host
<1>4. SoloHost(h)
    BY <1>2, <1>3 DEF Solo, SoloHost, Standing, Accounted, InHand, Billing
<1>5. Become(p, h) /\ UNCHANGED <<biller, store, journal, landed>>
    BY <1>1 DEF Settled, Goto
<1> QED
    BY <1>4, <1>5, SoloQuiet

LEMMA SoloSettle ==
    ASSUME OneHost, Inv, Solo, NEW p \in Process, NEW id \in Id, Settle(p, id) PROVE Done
<1>1. PICK g \in Host : g = [host[p] EXCEPT !.recon = @ \ {id}]
    BY DEF Inv, Host
<1>2. host[p].at = "settling" /\ host[p].run = store /\ store.phase = "running"
      /\ host[p].pending = {}
    BY AtWork DEF Settle, At, Solo, SoloHost, Standing
<1>3. /\ g.pending = {} /\ g.run = store /\ g.recon = host[p].recon \ {id}
    BY <1>1, <1>2 DEF Inv, Host
<1>4. \A i \in Id : landed[i] /\ i \notin store.captured /\ i # id => i \in g.recon
    BY <1>2, <1>3 DEF Solo, SoloHost, Accounted, InHand
<1>5. UNCHANGED <<biller, store, journal, landed>>
    BY DEF Settle
<1>6. \/ landed[id] /\ Become(p, Take(g, "capturing", id, "success", "settling"))
      \/ ~ landed[id] /\ Become(p, Take(g, "releasing", id, NoOutcome, "settling"))
    BY <1>1 DEF Settle
<1>7. CASE Become(p, Take(g, "capturing", id, "success", "settling"))
  <2>1. PICK h : h = Take(g, "capturing", id, "success", "settling")
      OBVIOUS
  <2>2. /\ h.at = "capturing" /\ h.id = id /\ h.outcome = "success" /\ h.next = "settling"
        /\ h.pending = g.pending /\ h.recon = g.recon /\ h.run = g.run
      BY <2>1 DEF Take, Host
  <2>3. SoloHost(h)
      BY <1>2, <1>3, <1>4, <2>2 DEF SoloHost, Standing, Accounted, InHand, Billing
  <2> QED
      BY <1>5, <1>7, <2>1, <2>3, SoloQuiet
<1>8. CASE ~ landed[id] /\ Become(p, Take(g, "releasing", id, NoOutcome, "settling"))
  <2>1. PICK h : h = Take(g, "releasing", id, NoOutcome, "settling")
      OBVIOUS
  <2>2. /\ h.at = "releasing" /\ h.id = id /\ h.next = "settling"
        /\ h.pending = g.pending /\ h.recon = g.recon /\ h.run = g.run
      BY <2>1 DEF Take, Host
  <2>3. SoloHost(h)
      BY <1>2, <1>3, <1>4, <1>8, <2>2 DEF SoloHost, Standing, Accounted, InHand, Billing
  <2> QED
      BY <1>5, <1>8, <2>1, <2>3, SoloQuiet
<1> QED
    BY <1>6, <1>7, <1>8

LEMMA SoloDown ==
    ASSUME OneHost, Inv, Solo, NEW p \in Process, Crash(p) \/ CaptureRaises(p) PROVE Done
<1>1. PICK h : h = Down
    OBVIOUS
<1>2. SoloHost(h)
    BY <1>1 DEF Down, SoloHost, Standing, Accounted, InHand, Billing
<1>3. Become(p, h) /\ UNCHANGED <<biller, store, journal, landed>>
    BY <1>1 DEF Crash, CaptureRaises
<1> QED
    BY <1>2, <1>3, SoloQuiet

LEMMA SoloAdopt ==
    ASSUME OneHost, Inv, Solo, NEW p \in Process, NEW id \in Id, Adopt(p, id) PROVE Done
<1>1. PICK h : h = [host[p] EXCEPT !.at = "calling", !.id = id]
    OBVIOUS
<1>2. host[p].at = "driving" /\ host[p].run = store /\ store.phase = "running"
      /\ host[p].pending = {} /\ host[p].recon = {}
    BY AtWork DEF Adopt, At, Solo, SoloHost, Standing
<1>3. h.at = "calling" /\ h.pending = {} /\ h.recon = {} /\ h.run = store
    BY <1>1, <1>2 DEF Inv, Host
<1>4. SoloHost(h)
    BY <1>2, <1>3 DEF Solo, SoloHost, Standing, Accounted, InHand, Billing
<1>5. Become(p, h) /\ UNCHANGED <<biller, store, journal, landed>>
    BY <1>1 DEF Adopt
<1> QED
    BY <1>4, <1>5, SoloQuiet

LEMMA SoloReact == ASSUME OneHost, Inv, Solo, NEW p \in Process, React(p) PROVE Done
<1>1. host[p].at = "reacting" /\ host[p].run = store /\ store.phase = "running"
      /\ host[p].pending = {} /\ host[p].recon = {} /\ host[p] \in Host
    BY AtWork DEF React, At, Solo, SoloHost, Standing
<1>2. UNCHANGED <<biller, store, journal, landed>>
    BY DEF React
<1>3. \A i \in Id : landed[i] /\ i \notin store.captured => i = Now(p)
    BY <1>1 DEF Solo, SoloHost, Accounted, InHand, Now
<1>4. Now(p) \in Id
    BY IssuedIds DEF Inv, IsTrue, HandIsTrue, HasReservation, React, At, Now
<1>5. \/ /\ journal[Now(p)] = "success"
         /\ Become(p, Take(host[p], "capturing", Now(p), "success", "iterating"))
      \/ /\ journal[Now(p)] \in {"failed", "denied"}
         /\ Become(p, Take(host[p], "releasing", Now(p), NoOutcome, "iterating"))
      \/ Become(p, [host[p] EXCEPT !.at = "settling", !.recon = {Now(p)}])
    BY DEF React, OneHost
<1>6. CASE /\ journal[Now(p)] = "success"
           /\ Become(p, Take(host[p], "capturing", Now(p), "success", "iterating"))
  <2>1. PICK h : h = Take(host[p], "capturing", Now(p), "success", "iterating")
      OBVIOUS
  <2>2. /\ h.at = "capturing" /\ h.id = Now(p) /\ h.outcome = "success"
        /\ h.next = "iterating" /\ h.pending = {} /\ h.recon = {} /\ h.run = store
      BY <1>1, <2>1 DEF Take, Host
  <2>3. SoloHost(h)
      BY <1>1, <1>3, <2>2 DEF SoloHost, Standing, Accounted, InHand, Billing
  <2> QED
      BY <1>2, <1>6, <2>1, <2>3, SoloQuiet
<1>7. CASE /\ journal[Now(p)] \in {"failed", "denied"}
           /\ Become(p, Take(host[p], "releasing", Now(p), NoOutcome, "iterating"))
  <2>1. PICK h : h = Take(host[p], "releasing", Now(p), NoOutcome, "iterating")
      OBVIOUS
  <2>2. /\ h.at = "releasing" /\ h.id = Now(p) /\ h.next = "iterating"
        /\ h.pending = {} /\ h.recon = {} /\ h.run = store
      BY <1>1, <2>1 DEF Take, Host
  <2>3. ~ landed[Now(p)]
      BY <1>4, <1>7 DEF Inv, WorldInv, JournalIsTrue
  <2>4. SoloHost(h)
      BY <1>1, <1>3, <2>2, <2>3 DEF SoloHost, Standing, Accounted, InHand, Billing
  <2> QED
      BY <1>2, <1>7, <2>1, <2>4, SoloQuiet
<1>8. CASE Become(p, [host[p] EXCEPT !.at = "settling", !.recon = {Now(p)}])
  <2>1. PICK h : h = [host[p] EXCEPT !.at = "settling", !.recon = {Now(p)}]
      OBVIOUS
  <2>2. h.at = "settling" /\ h.recon = {Now(p)} /\ h.pending = {} /\ h.run = store
      BY <1>1, <2>1 DEF Host
  <2>3. SoloHost(h)
      BY <1>1, <1>3, <2>2 DEF SoloHost, Standing, Accounted, InHand, Billing
  <2> QED
      BY <1>2, <1>8, <2>1, <2>3, SoloQuiet
<1> QED
    BY <1>5, <1>6, <1>7, <1>8

\* A step that writes the row, at one host that goes on from it or goes down.
LEMMA SoloWrites ==
    ASSUME OneHost, Inv, Solo, NEW p \in Process, NEW h, Become(p, h),
           UNCHANGED <<biller, journal, landed>>,
           store.captured \subseteq store'.captured,
           Standing(h)',
           \A id \in Id : landed[id] /\ id \notin store'.captured => InHand(h, id),
           store'.phase # "absent",
           store'.phase \in Terminal => Landed \subseteq store'.captured
    PROVE  Solo'
<1>1. SoloHost(h)'
    BY DEF SoloHost, Accounted, InHand
<1>2. SoloWorld'
    BY DEF Solo, SoloWorld, Issued, Landed
<1> QED
    BY <1>1, <1>2, SoloStep

LEMMA SoloOpen == ASSUME OneHost, Inv, Solo, NEW p \in Process, Open(p) PROVE Done
<1>1. PICK run : run = [NoRun EXCEPT !.phase = "running"]
    OBVIOUS
<1>2. run.phase = "running" /\ run.captured = {}
    BY <1>1 DEF NoRun
<1>3. store.phase = "absent" /\ store.captured = {}
    BY DEF Open, Solo, SoloWorld, NoRun
<1>4. PICK h : h = [host[p] EXCEPT !.run = run, !.at = "driving"]
    OBVIOUS
<1>5. /\ h.at = "driving" /\ h.run = run
      /\ h.pending = host[p].pending /\ h.recon = host[p].recon
    BY <1>4 DEF Inv, Host
<1>6. /\ Become(p, h) /\ store' = run /\ UNCHANGED <<biller, journal, landed>>
    BY <1>1, <1>4 DEF Open, Checkpoint
<1>7. h.pending = {} /\ h.recon = {}
    BY <1>5 DEF Open, At, Solo, SoloHost, Standing
<1>8. Standing(h)'
    BY <1>2, <1>5, <1>6, <1>7 DEF Standing, Billing
<1>9. \A id \in Id : ~ landed[id]
    BY <1>3 DEF Open, Solo, SoloWorld, Landed
<1>10. "running" \notin Terminal /\ "absent" \notin Terminal
    BY DEF Terminal
<1>11. Solo'
    BY <1>2, <1>3, <1>5, <1>6, <1>8, <1>9, <1>10, SoloWrites
<1>12. Promised
    BY <1>2, <1>3, <1>6, <1>10, Unseen DEF Charged, Issued
<1> QED
    BY <1>11, <1>12 DEF Done

LEMMA SoloIterate == ASSUME OneHost, Inv, Solo, NEW p \in Process, Iterate(p) PROVE Done
<1>1. host[p].at = "iterating" /\ host[p].run = store /\ store.phase = "running"
      /\ host[p].pending = {} /\ host[p].recon = {} /\ host[p] \in Host /\ store \in Run
    BY AtWork DEF Iterate, At, Solo, SoloHost, Standing
<1>2. PICK run : run = [Run_(p) EXCEPT !.iteration = @ + 1]
    OBVIOUS
<1>3. run.phase = "running" /\ run.captured = store.captured
    BY <1>1, <1>2 DEF Run_, Run
<1>4. PICK h : h = [host[p] EXCEPT !.run = run, !.at = "driving"]
    OBVIOUS
<1>5. h.at = "driving" /\ h.run = run /\ h.pending = {} /\ h.recon = {}
    BY <1>1, <1>4 DEF Host
<1>6. /\ Become(p, h) /\ store' = run /\ UNCHANGED <<biller, journal, landed>>
    BY <1>2, <1>4 DEF Iterate, Checkpoint
<1>7. Standing(h)'
    BY <1>3, <1>5, <1>6 DEF Standing, Billing
<1>8. \A id \in Id : landed[id] => id \in store.captured
    BY <1>1 DEF Solo, SoloHost, Accounted, InHand
<1>9. "running" \notin Terminal
    BY DEF Terminal
<1>10. Solo'
    BY <1>3, <1>5, <1>6, <1>7, <1>8, <1>9, SoloWrites
<1>11. Promised
    BY <1>1, <1>3, <1>6, <1>9, Unseen DEF Charged, Issued
<1> QED
    BY <1>10, <1>11 DEF Done

\* What the promise sees of each call.
LEMMA FateIs ==
    ASSUME NEW id \in Id
    PROVE  /\ [i \in Id |-> Fate(i)][id] = Fate(id)
           /\ Fate(id) = "open" <=> journal[id] \notin Outcome
           /\ Fate(id) = "landed" <=> journal[id] \in Outcome /\ landed[id]
    BY DEF Fate

LEMMA SoloClose ==
    ASSUME OneHost, Inv, Solo, NEW p \in Process, NEW phase \in Phase, Close(p, phase)
    PROVE  Done
<1>1. host[p].at = "driving" /\ host[p].run = store /\ store.phase = "running"
      /\ host[p].pending = {} /\ host[p].recon = {} /\ host[p] \in Host /\ store \in Run
      /\ store.phase \notin Terminal
    BY AtWork DEF Close, At, Solo, SoloHost, Standing
<1>2. \A id \in Id : landed[id] => id \in store.captured
    BY <1>1 DEF Solo, SoloHost, Accounted, InHand
<1>3. store'.phase = phase /\ store'.captured = store.captured /\ phase \in Terminal
      /\ phase # "absent"
    BY <1>1 DEF Close, Run_, Run, Terminal
<1>4. PICK h : h = Down
    OBVIOUS
<1>5. h.at = "down" /\ h.pending = {} /\ h.recon = {}
    BY <1>4 DEF Down
<1>6. Become(p, h) /\ UNCHANGED <<biller, journal, landed>>
    BY <1>4 DEF Close
<1>7. Standing(h)'
    BY <1>5 DEF Standing, Billing
<1>8. Landed \subseteq store'.captured
    BY <1>2, <1>3 DEF Landed
<1>9. \A id \in Id : landed[id] /\ id \notin store'.captured => InHand(h, id)
    BY <1>2, <1>3
<1>10. Solo'
    BY <1>3, <1>5, <1>6, <1>7, <1>8, <1>9, SoloWrites
<1>11. {id \in Id : [i \in Id |-> Fate(i)][id] = "landed"} = store.captured
  <2>1. store.captured \subseteq Id
      BY <1>1 DEF Run
  <2>2. \A id \in store.captured : landed[id]
      BY DEF Inv, WorldInv, IsBacked, MoneyFollowsTruth
  <2>3. \A id \in Id : landed[id] => journal[id] \in Outcome
      BY DEF Solo, SoloWorld
  <2>4. \A id \in Id : [i \in Id |-> Fate(i)][id] = "landed" <=> id \in store.captured
      BY <1>2, <2>2, <2>3, FateIs
  <2> QED
      BY <2>1, <2>4
<1>12. /\ [i \in Id |-> Fate(i)]' = [i \in Id |-> Fate(i)]
       /\ Charged' = Charged
    BY <1>6 DEF Fate, Charged, Issued
<1>13. (store.phase \in Terminal) = FALSE /\ (store.phase \in Terminal)' = TRUE
    BY <1>1, <1>3
<1>14. Promise!Close
    BY <1>3, <1>11, <1>12, <1>13 DEF Promise!Close
<1>15. Promised
    BY <1>14 DEF Promised, Promise!Next
<1> QED
    BY <1>10, <1>15 DEF Done

LEMMA SoloRecordCapture ==
    ASSUME OneHost, Inv, Solo, NEW p \in Process, RecordCapture(p) PROVE Done
<1>1. host[p].at = "recording" /\ host[p].run = store /\ store.phase = "running"
      /\ host[p] \in Host /\ store \in Run /\ store.phase \notin Terminal
    BY AtWork DEF RecordCapture, At, Solo, SoloHost, Standing
<1>2. PICK id : id = Now(p)
    OBVIOUS
<1>3. /\ id \in Issued /\ id \in Id /\ biller[id].state = "captured"
    BY <1>2, IssuedIds DEF Inv, IsTrue, HandIsTrue, HasReservation, RecordCapture, At, Now
<1>4. PICK run : run = WithCapture(store, id, biller[id].amount)
    OBVIOUS
<1>5. run.phase = "running" /\ run.captured = store.captured \cup {id}
    BY <1>1, <1>4 DEF WithCapture, Run
<1>6. PICK h : h = [host[p] EXCEPT !.run = run, !.at = host[p].next]
    OBVIOUS
<1>7. /\ h.at = host[p].next /\ h.run = run
      /\ h.pending = host[p].pending /\ h.recon = host[p].recon
    BY <1>1, <1>6 DEF Host
<1>8. /\ Become(p, h) /\ store' = run /\ UNCHANGED <<biller, journal, landed>>
    BY <1>1, <1>2, <1>4, <1>6 DEF RecordCapture, Checkpoint, Run_
<1>9. Standing(host[p])
    BY DEF Solo, SoloHost
<1>10. Standing(h)'
    BY <1>1, <1>5, <1>7, <1>8, <1>9 DEF Standing, Billing
<1>11. \A i \in Id : landed[i] /\ i \notin run.captured => InHand(h, i)
    BY <1>1, <1>2, <1>5, <1>7 DEF Solo, SoloHost, Accounted, InHand, Now
<1>12. "running" \notin Terminal
    BY DEF Terminal
<1>13. Solo'
    BY <1>5, <1>7, <1>8, <1>10, <1>11, <1>12, SoloWrites
<1>14. /\ [i \in Id |-> Fate(i)]' = [i \in Id |-> Fate(i)]
       /\ Charged' = Charged
       /\ id \in Charged
    BY <1>3, <1>8 DEF Fate, Charged, Issued, IsCharged
<1>15. (store.phase \in Terminal) = FALSE /\ (store.phase \in Terminal)' = FALSE
    BY <1>1, <1>5, <1>8, <1>12
<1>16. CASE id \in store.captured
  <2>1. store'.captured = store.captured
      BY <1>5, <1>8, <1>16
  <2> QED
      BY <1>8, <1>13, <1>14, <1>15, <2>1, Unseen DEF Done
<1>17. CASE id \notin store.captured
  <2>1. store'.captured = store.captured \cup {id}
      BY <1>5, <1>8
  <2>2. Promise!Record(id)
      BY <1>14, <1>15, <1>17, <2>1 DEF Promise!Record
  <2>3. Promised
      BY <1>3, <2>2 DEF Promised, Promise!Next
  <2> QED
      BY <1>13, <2>3 DEF Done
<1> QED
    BY <1>16, <1>17

LEMMA SoloCapture == ASSUME OneHost, Inv, Solo, NEW p \in Process, Capture(p) PROVE Done
<1>1. host[p].at = "capturing" /\ host[p].run = store /\ store.phase = "running"
      /\ host[p] \in Host /\ store \in Run /\ store.phase \notin Terminal
      /\ host[p].outcome = "success" /\ Standing(host[p])
    BY AtWork DEF Capture, At, Solo, SoloHost, Standing
<1>2. PICK id : id = Now(p)
    OBVIOUS
<1>3. id \in Issued /\ id \in Id /\ landed[id] /\ journal[id] \in Outcome
    BY <1>1, <1>2, IssuedIds DEF Inv, IsTrue, HandIsTrue, HasReservation, Now
<1>4. PICK h : h = [host[p] EXCEPT !.at = "recording"]
    OBVIOUS
<1>5. /\ h.at = "recording" /\ h.id = id /\ h.run = store /\ h.next = host[p].next
      /\ h.pending = host[p].pending /\ h.recon = host[p].recon
    BY <1>1, <1>2, <1>4 DEF Host, Now
<1>6. Become(p, h) /\ UNCHANGED <<store, journal, landed>>
    BY <1>1, <1>4 DEF Capture, Goto
<1>7. SoloHost(h)
  <2>1. Standing(h)
      BY <1>1, <1>5 DEF Standing, Billing
  <2>2. Accounted(h)
      BY <1>1, <1>2, <1>5 DEF Solo, SoloHost, Accounted, InHand, Now
  <2> QED
      BY <2>1, <2>2 DEF SoloHost
<1>8. SoloHost(h)'
    BY <1>6, <1>7 DEF SoloHost, Standing, Accounted, InHand
<1>9. CASE ~ CaptureCharges(biller[id])
  <2>1. biller' = biller
      BY <1>2, <1>9 DEF Capture
  <2> QED
      BY <1>6, <1>7, <2>1, SoloQuiet
<1>10. CASE CaptureCharges(biller[id])
  <2>1. PICK row : row = AfterCapture(biller[id], "success")
      OBVIOUS
  <2>2. row.state = "captured" /\ biller' = [biller EXCEPT ![id] = row]
      BY <1>1, <1>2, <1>10, <2>1 DEF Capture, Bill, AfterCapture, CaptureTarget
  <2>3. Issued' = Issued /\ biller'[id] = row /\ \A i \in Issued \ {id} : biller'[i] = biller[i]
      BY <1>3, <2>2 DEF Issued
  <2>4. SoloWorld'
      BY <1>6, <2>2, <2>3 DEF Solo, SoloWorld, Landed
  <2>5. Charged' = Charged \cup {id} /\ id \notin Charged
      BY <1>3, <1>10, <2>2, <2>3 DEF Charged, IsCharged, CaptureCharges
  <2>6. [i \in Id |-> Fate(i)]' = [i \in Id |-> Fate(i)]
      BY <1>6 DEF Fate
  <2>7. [i \in Id |-> Fate(i)][id] = "landed"
      BY <1>3, FateIs
  <2>8. (store.phase \in Terminal) = FALSE /\ (store.phase \in Terminal)' = FALSE
      BY <1>1, <1>6
  <2>9. Promise!Charge(id)
      BY <1>6, <2>5, <2>6, <2>7, <2>8 DEF Promise!Charge
  <2>10. Promised
      BY <1>3, <2>9 DEF Promised, Promise!Next
  <2> QED
      BY <1>6, <1>8, <2>4, <2>10, SoloStep DEF Done
<1> QED
    BY <1>9, <1>10

LEMMA SoloRelease == ASSUME OneHost, Inv, Solo, NEW p \in Process, Release(p) PROVE Done
<1>1. host[p].at = "releasing" /\ host[p].run = store /\ store.phase = "running"
      /\ host[p] \in Host /\ store \in Run /\ Standing(host[p])
    BY AtWork DEF Release, At, Solo, SoloHost, Standing
<1>2. PICK id : id = Now(p)
    OBVIOUS
<1>3. id \in Issued
    BY <1>1, <1>2 DEF Inv, IsTrue, HandIsTrue, HasReservation, Now
<1>4. PICK h : h = [host[p] EXCEPT !.at = host[p].next]
    OBVIOUS
<1>5. /\ h.at = host[p].next /\ h.run = store
      /\ h.pending = host[p].pending /\ h.recon = host[p].recon
    BY <1>1, <1>4 DEF Host
<1>6. Become(p, h) /\ UNCHANGED <<store, journal, landed>>
    BY <1>4 DEF Release, Goto
<1>7. SoloHost(h)
  <2>1. Standing(h)
      BY <1>1, <1>5 DEF Standing, Billing
  <2>2. Accounted(h)
      BY <1>1, <1>5 DEF Solo, SoloHost, Accounted, InHand
  <2> QED
      BY <2>1, <2>2 DEF SoloHost
<1>8. SoloHost(h)'
    BY <1>6, <1>7 DEF SoloHost, Standing, Accounted, InHand
<1>9. CASE ~ ReleaseRefunds(biller[id])
  <2>1. biller' = biller
      BY <1>2, <1>9 DEF Release
  <2> QED
      BY <1>6, <1>7, <2>1, SoloQuiet
<1>10. CASE ReleaseRefunds(biller[id])
  <2>1. PICK row : row = AfterRelease(biller[id])
      OBVIOUS
  <2>2. biller[id].state = "reserved"
      BY <1>3, <1>10 DEF ReleaseRefunds, Solo, SoloWorld
  <2>3. row.state = "released" /\ biller' = [biller EXCEPT ![id] = row]
      BY <1>2, <1>10, <2>1 DEF Release, Bill, AfterRelease
  <2>4. Issued' = Issued /\ biller'[id] = row /\ \A i \in Issued \ {id} : biller'[i] = biller[i]
      BY <1>3, <2>3 DEF Issued
  <2>5. SoloWorld'
      BY <1>6, <2>3, <2>4 DEF Solo, SoloWorld, Landed
  <2>6. Charged' = Charged
      BY <1>3, <2>2, <2>3, <2>4 DEF Charged, IsCharged
  <2>7. Promised
      BY <1>6, <2>6, Unseen
  <2> QED
      BY <1>6, <1>8, <2>5, <2>7, SoloStep DEF Done
<1> QED
    BY <1>9, <1>10

LEMMA SoloReserve ==
    ASSUME OneHost, Inv, Solo, NEW p \in Process, NEW amount \in Amount, Reserve(p, amount)
    PROVE  Done
<1>1. host[p].at = "driving" /\ host[p].run = store /\ store.phase = "running"
      /\ host[p].pending = {} /\ host[p].recon = {} /\ host[p] \in Host
    BY AtWork DEF Reserve, At, Solo, SoloHost, Standing
<1>2. PICK id : id = Cardinality(Issued) + 1
    OBVIOUS
<1>3. id \notin Issued
    BY <1>2, IssuedIds
<1>4. PICK row : row = [amount |-> amount, state |-> "reserved", outcome |-> NoOutcome]
    OBVIOUS
<1>5. row.state = "reserved"
    BY <1>4
<1>6. /\ Issued' = Issued \cup {id} /\ biller'[id] = row
      /\ \A i \in Issued : biller'[i] = biller[i]
      /\ UNCHANGED <<store, journal, landed>>
    BY <1>2, <1>3, <1>4 DEF Reserve, Issued
<1>7. PICK h : h = [host[p] EXCEPT !.at = "journaling", !.id = id]
    OBVIOUS
<1>8. h.at = "journaling" /\ h.run = store /\ h.pending = {} /\ h.recon = {}
    BY <1>1, <1>7 DEF Host
<1>9. Become(p, h)
    BY <1>2, <1>7 DEF Reserve
<1>10. \A i \in Id : landed[i] => i \in store.captured
    BY <1>1 DEF Solo, SoloHost, Accounted, InHand
<1>11. SoloHost(h)'
    BY <1>1, <1>6, <1>8, <1>10 DEF SoloHost, Standing, Accounted, Billing
<1>12. SoloWorld'
    BY <1>5, <1>6 DEF Solo, SoloWorld, Landed
<1>13. Charged' = Charged
    BY <1>3, <1>5, <1>6 DEF Charged, IsCharged
<1>14. Promised
    BY <1>6, <1>13, Unseen
<1> QED
    BY <1>9, <1>11, <1>12, <1>14, SoloStep DEF Done

LEMMA SoloJournal == ASSUME OneHost, Inv, Solo, NEW p \in Process, Journal(p) PROVE Done
<1>1. host[p].at = "journaling" /\ host[p].run = store /\ store.phase = "running"
      /\ host[p].pending = {} /\ host[p].recon = {} /\ host[p] \in Host
    BY AtWork DEF Journal, At, Solo, SoloHost, Standing
<1>2. PICK id : id = Now(p)
    OBVIOUS
<1>3. id \in Issued /\ id \in Id /\ journal[id] = "none" /\ journal \in [Id -> JournalEntry]
    BY <1>1, <1>2, IssuedIds DEF Inv, IsTrue, HandIsTrue, HasReservation, Now, WorldInv,
       WorldType
<1>4. ~ landed[id] /\ landed \in [Id -> BOOLEAN]
    BY <1>3 DEF Solo, SoloWorld, Outcome, Inv, WorldInv, WorldType
<1>5. PICK h : h = [host[p] EXCEPT !.at = "calling"]
    OBVIOUS
<1>6. h.at = "calling" /\ h.run = store /\ h.pending = {} /\ h.recon = {}
    BY <1>1, <1>5 DEF Host
<1>7. /\ Become(p, h) /\ journal' = [journal EXCEPT ![id] = "held"]
      /\ UNCHANGED <<biller, store, landed>>
    BY <1>2, <1>5 DEF Journal, Goto
<1>8. \A i \in Id : landed[i] => i \in store.captured
    BY <1>1 DEF Solo, SoloHost, Accounted, InHand
<1>9. SoloHost(h)'
    BY <1>1, <1>6, <1>7, <1>8 DEF SoloHost, Standing, Accounted, Billing
<1>10. journal'[id] = "held" /\ \A i \in Id \ {id} : journal'[i] = journal[i]
    BY <1>3, <1>7
<1>11. SoloWorld'
    BY <1>4, <1>7, <1>10 DEF Solo, SoloWorld, Issued, Landed
<1>12. ASSUME NEW i \in Id PROVE Fate(i)' = Fate(i)
    BY <1>3, <1>7, <1>10 DEF Fate, Outcome
<1>13. /\ [i \in Id |-> Fate(i)]' = [i \in Id |-> Fate(i)]
       /\ Charged' = Charged
    BY <1>7, <1>12 DEF Charged, Issued
<1>14. Promised
    BY <1>7, <1>13 DEF Promised, Promise!vars
<1> QED
    BY <1>7, <1>9, <1>11, <1>14, SoloStep DEF Done

LEMMA SoloCall ==
    ASSUME OneHost, Inv, Solo, NEW p \in Process, NEW happened \in BOOLEAN,
           NEW outcome \in Outcome, Call(p, happened, outcome)
    PROVE  Done
<1>1. host[p].at = "calling" /\ host[p].run = store /\ store.phase = "running"
      /\ host[p].pending = {} /\ host[p].recon = {} /\ host[p] \in Host
      /\ store.phase \notin Terminal
    BY AtWork DEF Call, At, Solo, SoloHost, Standing
<1>2. PICK id : id = Now(p)
    OBVIOUS
<1>3. id \in Issued /\ id \in Id /\ journal[id] = "held" /\ journal \in [Id -> JournalEntry]
      /\ landed \in [Id -> BOOLEAN]
    BY <1>1, <1>2, IssuedIds DEF Inv, IsTrue, HandIsTrue, HasReservation, Now, WorldInv,
       WorldType
<1>4. PICK h : h = [host[p] EXCEPT !.at = "reacting"]
    OBVIOUS
<1>5. h.at = "reacting" /\ h.run = store /\ h.pending = {} /\ h.recon = {} /\ h.id = id
    BY <1>1, <1>2, <1>4 DEF Host, Now
<1>6. /\ Become(p, h) /\ journal' = [journal EXCEPT ![id] = outcome]
      /\ landed' = [landed EXCEPT ![id] = happened]
      /\ UNCHANGED <<biller, store>>
    BY <1>2, <1>4 DEF Call, Goto
<1>7. /\ journal'[id] = outcome /\ landed'[id] = happened
      /\ \A i \in Id \ {id} : journal'[i] = journal[i] /\ landed'[i] = landed[i]
    BY <1>3, <1>6
<1>8. \A i \in Id : landed[i] => i \in store.captured
    BY <1>1 DEF Solo, SoloHost, Accounted, InHand
<1>9. SoloHost(h)'
  <2>1. Standing(h)'
      BY <1>1, <1>5, <1>6 DEF Standing, Billing
  <2>2. \A i \in Id : landed'[i] /\ i \notin store'.captured => i = id
      BY <1>6, <1>7, <1>8
  <2>3. InHand(h, id)'
      BY <1>5 DEF InHand
  <2> QED
      BY <2>1, <2>2, <2>3 DEF SoloHost, Accounted
<1>10. SoloWorld'
  <2>1. \A i \in Id : landed'[i] => journal'[i] \in Outcome
      BY <1>7 DEF Solo, SoloWorld
  <2>2. store'.phase # "absent" /\ store'.phase \notin Terminal
      BY <1>1, <1>6
  <2> QED
      BY <1>6, <2>1, <2>2 DEF Solo, SoloWorld, Issued
<1>11. PICK f : f = [i \in Id |-> Fate(i)]
    OBVIOUS
<1>12. PICK g : g = [i \in Id |-> Fate(i)]'
    OBVIOUS
<1>13. \A i \in Id : f[i] = Fate(i) /\ g[i] = Fate(i)'
    BY <1>11, <1>12
<1>14. ASSUME NEW i \in Id \ {id} PROVE Fate(i)' = Fate(i)
  <2>1. journal'[i] = journal[i]
      BY <1>7
  <2>2. landed'[i] = landed[i]
      BY <1>7
  <2> QED
      BY <2>1, <2>2 DEF Fate
<1>15. Fate(id) = "open"
    BY <1>3 DEF Fate, Outcome
<1>16. Fate(id)' \in {"landed", "lost"}
    BY <1>7 DEF Fate
<1>17. f[id] = "open" /\ g = [f EXCEPT ![id] = Fate(id)']
  <2>1. \A i \in Id : g[i] = IF i = id THEN Fate(id)' ELSE f[i]
      BY <1>13, <1>14
  <2> QED
      BY <1>3, <1>11, <1>12, <1>13, <1>15, <2>1
<1>18. \E end \in {"landed", "lost"} : g = [f EXCEPT ![id] = end]
    BY <1>16, <1>17
<1>19. Charged' = Charged
    BY <1>6 DEF Charged, Issued
<1>20. (store.phase \in Terminal) = FALSE /\ (store.phase \in Terminal)' = FALSE
    BY <1>1, <1>6
<1>21. Promise!Decide(id)
    BY <1>6, <1>11, <1>12, <1>17, <1>18, <1>19, <1>20 DEF Promise!Decide
<1>22. Promised
    BY <1>3, <1>21 DEF Promised, Promise!Next
<1> QED
    BY <1>6, <1>9, <1>10, <1>22, SoloStep DEF Done

LEMMA InitSolo == Init => Solo /\ Promise!Init
<1> SUFFICES ASSUME Init PROVE Solo /\ Promise!Init
    OBVIOUS
<1>1. /\ Issued = {} /\ Charged = {} /\ Landed = {}
      /\ \A id \in Id : journal[id] \notin Outcome /\ ~ landed[id]
    BY DEF Init, Issued, Charged, Landed, Outcome
<1>2. store = NoRun /\ store.phase = "absent" /\ store.captured = {}
      /\ store.phase \notin Terminal
    BY DEF Init, NoRun, Terminal
<1>3. SoloWorld
    BY <1>1, <1>2 DEF SoloWorld
<1>4. ASSUME NEW p \in Process PROVE SoloHost(host[p])
  <2>1. PICK h : h = host[p]
      OBVIOUS
  <2>2. h.at = "down" /\ h.pending = {} /\ h.recon = {}
      BY <2>1 DEF Init, Down
  <2>3. SoloHost(h)
      BY <2>2 DEF SoloHost, Standing, Accounted, InHand, Billing
  <2> QED
      BY <2>1, <2>3
<1>5. [id \in Id |-> Fate(id)] = [id \in Id |-> "open"]
    BY <1>1 DEF Fate
<1>6. (store.phase \in Terminal) = FALSE
    BY <1>2
<1>7. Promise!Init
    BY <1>1, <1>2, <1>5, <1>6 DEF Promise!Init
<1> QED
    BY <1>3, <1>4, <1>7 DEF Solo

LEMMA NextSolo == OneHost /\ Inv /\ Solo /\ [Next]_vars => Done
<1> SUFFICES ASSUME OneHost, Inv, Solo, [Next]_vars PROVE Done
    OBVIOUS
<1>1. ASSUME NEW p \in Process, Work(p) PROVE Done
    BY <1>1, SoloResume, SoloResumeReservation, SoloResumed, SoloSettle, SoloSettled,
       SoloDown, SoloCapture, SoloRecordCapture, SoloRelease, SoloJournal, SoloAdopt,
       SoloCall, SoloReact, SoloIterate DEF Work
<1>2. CASE UNCHANGED vars
  <2>1. UNCHANGED <<biller, store, journal, landed, host>>
      BY <1>2 DEF vars
  <2>2. Solo'
      BY <2>1 DEF Solo, SoloWorld, SoloHost, Standing, Accounted, InHand, Issued, Landed
  <2>3. Promised
      BY <2>1, Unseen DEF Charged, Issued
  <2> QED
      BY <2>2, <2>3 DEF Done
<1> QED
    BY <1>1, <1>2, SoloOpen, SoloReserve, SoloClose, SoloDown DEF Next

\* Once closed, a run has charged for what landed, by the record and the biller.
LEMMA ClosedSpend == Inv /\ RecordBalances /\ Solo => SpendIsTruth
<1> SUFFICES ASSUME Inv, RecordBalances, Solo, store.phase \in Terminal
             PROVE  store.charged = Cost(Landed) /\ Charged = Landed
    BY DEF SpendIsTruth
<1>1. Landed \subseteq store.captured
    BY DEF Solo, SoloWorld
<1>2. store.captured \subseteq Charged
    BY DEF Inv, WorldInv, IsBacked, Charged, IsCharged
<1>3. Charged \subseteq Landed
    BY IssuedIds DEF Inv, WorldInv, MoneyFollowsTruth, Charged, IsCharged, Solo, SoloWorld,
       Landed
<1>4. store.captured = Landed /\ Charged = Landed
    BY <1>1, <1>2, <1>3
<1>5. store.charged = Cost(store.captured)
    BY DEF RecordBalances, Records
<1> QED
    BY <1>4, <1>5

LEMMA PromiseForgetsNothing == Promised => [store.captured \subseteq store'.captured]_store
    BY DEF Promised, Promise!Next, Promise!Decide, Promise!Charge, Promise!Record,
       Promise!Close, Promise!vars

-----------------------------------------------------------------------------
(* The theorems on one host at a time. *)

LEMMA SoloAlways == ASSUME OneHost PROVE SafetySpec => [](Inv /\ RecordBalances /\ Solo)
<1>1. Inv /\ Solo /\ [Next]_vars => Solo'
    BY OneHost, NextSolo DEF Done
<1>2. Init => Inv /\ RecordBalances /\ Solo
    BY InitInv, InitBalances, InitSolo
<1>3. Inv /\ RecordBalances /\ Solo /\ [Next]_vars => (Inv /\ RecordBalances /\ Solo)'
    BY <1>1, NextInv, NextBalances
<1> QED
    BY <1>2, <1>3, PTL DEF SafetySpec

\* "Resuming produces the same total spend as an uninterrupted run", for any
\* number of calls and crashes: whatever one host at a time went through before
\* it closed the run, the user has been charged for exactly the calls that
\* landed, by the record and by the biller alike.
THEOREM ResumingSpendsTheSame == ASSUME OneHost PROVE SafetySpec => []SpendIsTruth
    BY SoloAlways, ClosedSpend, PTL

\* The safety half of ImplementsExactlyOnce: every step of one host, its crashes
\* and its resumes included, is a step the ExactlyOnce promise allows or leaves
\* what the promise sees alone.
THEOREM ChargesExactlyOnce ==
    ASSUME OneHost
    PROVE  SafetySpec => Promise!Init /\ [][Promise!Next]_(Promise!vars)
<1>1. Inv /\ RecordBalances /\ Solo /\ [Next]_vars => [Promise!Next]_(Promise!vars)
    BY OneHost, NextSolo DEF Done, Promised
<1>2. Init => Promise!Init
    BY InitSolo
<1> QED
    BY <1>1, <1>2, SoloAlways, PTL DEF SafetySpec

\* "A checkpoint must be unable to forget a reservation was captured": so it is
\* while one host at a time holds the run, though not when two do.
THEOREM OneHostForgetsNothing == ASSUME OneHost PROVE SafetySpec => NeverForgets
<1>1. Inv /\ RecordBalances /\ Solo /\ [Next]_vars
          => [store.captured \subseteq store'.captured]_store
    BY OneHost, NextSolo, PromiseForgetsNothing DEF Done
<1> QED
    BY <1>1, SoloAlways, PTL DEF SafetySpec, NeverForgets
=============================================================================
