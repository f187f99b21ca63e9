-------------------------- MODULE TurnStreamProofs --------------------------
(***************************************************************************)
(* Theorems about the streams of Turn, for any tools, allowlist,           *)
(* declarations and bounds: that they show no success that was not, that   *)
(* records and events together keep no execution from the caller, that     *)
(* they tell the result they end with, and keep the contract of            *)
(* TurnStream.                                                             *)
(***************************************************************************)
EXTENDS TurnProofs

USE DEF Run, Live, MaxUpstreamAttempts

-----------------------------------------------------------------------------
(* Events, and what is counted among them. *)

Bare == {TurnStarted(TRUE), TurnStarted(FALSE), TextDelta, ArtifactProduced, TurnFinished}
Starts == {ToolCallStarted(id, t) : id \in Nat, t \in Tool}
Finishes == {ToolCallFinished(id, t, outcome) : id \in Nat, t \in Tool, outcome \in Outcome}
Event == Bare \cup Starts \cup Finishes

Of(s, kind) == {k \in DOMAIN s : s[k].kind = kind}
Ids(s, kind) == {s[k].call_id : k \in Of(s, kind)}
Succeeded(s, t) ==
    {k \in DOMAIN s : s[k].kind = "tool_call_finished" /\ s[k].tool = t /\ s[k].outcome = "success"}

LEMMA EventsAre ==
    /\ TurnStarted(TRUE) \in Event /\ TurnStarted(FALSE) \in Event
    /\ TextDelta \in Event /\ ArtifactProduced \in Event /\ TurnFinished \in Event
    /\ \A id \in Nat, t \in Tool : ToolCallStarted(id, t) \in Event
    /\ \A id \in Nat, t \in Tool, outcome \in Outcome : ToolCallFinished(id, t, outcome) \in Event
<1>1. \A id \in Nat, t \in Tool : ToolCallStarted(id, t) \in Starts
  BY DEF Starts
<1>2. \A id \in Nat, t \in Tool, outcome \in Outcome :
            ToolCallFinished(id, t, outcome) \in Finishes
  BY DEF Finishes
<1>3. /\ TurnStarted(TRUE) \in Bare /\ TurnStarted(FALSE) \in Bare
      /\ TextDelta \in Bare /\ ArtifactProduced \in Bare /\ TurnFinished \in Bare
  BY DEF Bare, TurnStarted
<1> QED
  BY <1>1, <1>2, <1>3, Zenon DEF Event

LEMMA KindsAre ==
    /\ TurnStarted(TRUE).kind = "turn_started" /\ TurnStarted(FALSE).kind = "turn_started"
    /\ TextDelta.kind = "text_delta" /\ ArtifactProduced.kind = "artifact_produced"
    /\ TurnFinished.kind = "turn_finished"
    /\ \A id, t : /\ ToolCallStarted(id, t).kind = "tool_call_started"
                  /\ ToolCallStarted(id, t).call_id = id
    /\ \A id, t, outcome :
            /\ ToolCallFinished(id, t, outcome).kind = "tool_call_finished"
            /\ ToolCallFinished(id, t, outcome).call_id = id
            /\ ToolCallFinished(id, t, outcome).tool = t
            /\ ToolCallFinished(id, t, outcome).outcome = outcome
    /\ \A e \in Event : e.kind = "turn_finished" <=> e = TurnFinished
BY DEF Event, Bare, Starts, Finishes, TurnStarted, TextDelta, ArtifactProduced, TurnFinished, ToolCallStarted,
       ToolCallFinished

\* One event more, and what it adds to the counts.
LEMMA OneMore ==
    ASSUME NEW s \in Seq(Event), NEW e \in Event
    PROVE  /\ Append(s, e) \in Seq(Event) /\ Append(s, e) # <<>>
           /\ Len(Append(s, e)) = Len(s) + 1
           /\ Append(s, e)[Len(Append(s, e))] = e
           /\ \A kind :
                /\ Of(Append(s, e), kind) =
                        IF e.kind = kind THEN Of(s, kind) \cup {Len(s) + 1} ELSE Of(s, kind)
                /\ Ids(Append(s, e), kind) =
                        IF e.kind = kind THEN Ids(s, kind) \cup {e.call_id} ELSE Ids(s, kind)
           /\ \A t :
                Succeeded(Append(s, e), t) =
                    IF e.kind = "tool_call_finished" /\ e.tool = t /\ e.outcome = "success"
                    THEN Succeeded(s, t) \cup {Len(s) + 1} ELSE Succeeded(s, t)
<1> DEFINE r == Append(s, e)
<1>1. /\ r \in Seq(Event) /\ r # <<>> /\ Len(r) = Len(s) + 1
      /\ \A k \in 1 .. Len(s) : r[k] = s[k]
      /\ r[Len(s) + 1] = e
  BY AppendProperties
<1>2. DOMAIN s = 1 .. Len(s) /\ DOMAIN r = 1 .. Len(r) /\ Len(s) \in Nat
  BY <1>1, LenProperties
<1> HIDE DEF r
<1>3. /\ DOMAIN r = DOMAIN s \cup {Len(s) + 1}
      /\ Len(s) + 1 \notin DOMAIN s
  BY <1>1, <1>2
<1>4. \A kind : Of(r, kind) =
                    IF e.kind = kind THEN Of(s, kind) \cup {Len(s) + 1} ELSE Of(s, kind)
  BY <1>1, <1>2, <1>3 DEF Of
<1>5. \A kind : Ids(r, kind) =
                    IF e.kind = kind THEN Ids(s, kind) \cup {e.call_id} ELSE Ids(s, kind)
  <2> SUFFICES ASSUME NEW kind
               PROVE  Ids(r, kind) = IF e.kind = kind THEN Ids(s, kind) \cup {e.call_id}
                                                      ELSE Ids(s, kind)
    OBVIOUS
  <2>1. \A k \in Of(s, kind) : r[k] = s[k]
    BY <1>1, <1>2 DEF Of
  <2>2. CASE e.kind = kind
    <3>1. Of(r, kind) = Of(s, kind) \cup {Len(s) + 1}
      BY <1>4, <2>2
    <3> QED
      BY <1>1, <2>1, <2>2, <3>1 DEF Ids
  <2>3. CASE e.kind # kind
    <3>1. Of(r, kind) = Of(s, kind)
      BY <1>4, <2>3
    <3> QED
      BY <2>1, <2>3, <3>1 DEF Ids
  <2> QED
    BY <2>2, <2>3
<1>6. \A t : Succeeded(r, t) =
                IF e.kind = "tool_call_finished" /\ e.tool = t /\ e.outcome = "success"
                THEN Succeeded(s, t) \cup {Len(s) + 1} ELSE Succeeded(s, t)
  BY <1>1, <1>2, <1>3 DEF Succeeded
<1> QED
  BY <1>1, <1>4, <1>5, <1>6 DEF r

\* What was yielded is no more than it is with what is planned.
LEMMA YieldedIsLess ==
    ASSUME NEW s \in Seq(Event), NEW p \in Seq(Event), NEW t
    PROVE  /\ s \o p \in Seq(Event)
           /\ IsFiniteSet(Succeeded(s \o p, t)) /\ Cardinality(Succeeded(s \o p, t)) \in Nat
           /\ IsFiniteSet(Succeeded(s, t)) /\ Cardinality(Succeeded(s, t)) \in Nat
           /\ Cardinality(Succeeded(s, t)) <= Cardinality(Succeeded(s \o p, t))
           /\ s \o <<>> = s
<1>1. /\ s \o p \in Seq(Event) /\ Len(s \o p) = Len(s) + Len(p)
      /\ \A k \in 1 .. Len(s) + Len(p) :
            (s \o p)[k] = IF k <= Len(s) THEN s[k] ELSE p[k - Len(s)]
  BY ConcatProperties
<1>2. /\ DOMAIN s = 1 .. Len(s) /\ DOMAIN (s \o p) = 1 .. Len(s \o p)
      /\ Len(s) \in Nat /\ Len(p) \in Nat
  BY <1>1, LenProperties
<1>3. Succeeded(s, t) \in SUBSET Succeeded(s \o p, t)
  <2> DEFINE w == s \o p
  <2>1. \A k \in DOMAIN s : k \in DOMAIN w /\ w[k] = s[k]
    BY <1>1, <1>2
  <2> HIDE DEF w
  <2>2. Succeeded(s, t) \in SUBSET Succeeded(w, t)
    BY <2>1 DEF Succeeded
  <2> QED
    BY <2>2 DEF w
<1>4. Succeeded(s, t) \in SUBSET DOMAIN s /\ Succeeded(s \o p, t) \in SUBSET DOMAIN (s \o p)
  BY DEF Succeeded
<1>5. IsFiniteSet(Succeeded(s \o p, t)) /\ IsFiniteSet(Succeeded(s, t))
  BY <1>1, <1>4, PositionsAreFinite
<1> QED
  BY <1>1, <1>3, <1>5, FS_Subset, FS_CardinalityType, ConcatEmptySeq

\* A plan that is told after a run: it returns no calls.
LEMMA NothingReturns ==
    ASSUME NEW s \in Seq(Event), NEW p \in Seq(Event), NEW t,
           \A k \in DOMAIN p : p[k].kind # "tool_call_finished"
    PROVE  Succeeded(s \o p, t) = Succeeded(s, t)
<1>1. /\ s \o p \in Seq(Event) /\ Len(s \o p) = Len(s) + Len(p)
      /\ \A k \in 1 .. Len(s) + Len(p) :
            (s \o p)[k] = IF k <= Len(s) THEN s[k] ELSE p[k - Len(s)]
  BY ConcatProperties
<1>2. /\ DOMAIN s = 1 .. Len(s) /\ DOMAIN (s \o p) = 1 .. Len(s \o p)
      /\ DOMAIN p = 1 .. Len(p) /\ Len(s) \in Nat /\ Len(p) \in Nat
  BY <1>1, LenProperties
<1> DEFINE w == s \o p
<1>3. \A k \in DOMAIN s : k \in DOMAIN w /\ w[k] = s[k]
  BY <1>1, <1>2
<1>4. \A k \in DOMAIN w : k \notin DOMAIN s => w[k].kind # "tool_call_finished"
  BY <1>1, <1>2
<1> HIDE DEF w
<1>5. Succeeded(w, t) = Succeeded(s, t)
  BY <1>3, <1>4 DEF Succeeded
<1> QED
  BY <1>5 DEF w

-----------------------------------------------------------------------------
(* A reconstructed stream. *)

\* Where the elements of a concatenation come from.
Joins(w, s, t) ==
    /\ Len(w) = Len(s) + Len(t)
    /\ Len(s) \in Nat /\ Len(t) \in Nat
    /\ \A k \in 1 .. Len(s) : w[k] = s[k]
    /\ \A k \in 1 .. Len(t) : w[Len(s) + k] = t[k]

LEMMA Joined ==
    ASSUME NEW S, NEW s \in Seq(S), NEW t \in Seq(S)
    PROVE  s \o t \in Seq(S) /\ Joins(s \o t, s, t)
<1>0. PICK w : w = s \o t
  OBVIOUS
<1>1. /\ w \in Seq(S) /\ Len(w) = Len(s) + Len(t)
      /\ \A k \in 1 .. Len(s) + Len(t) : w[k] = IF k <= Len(s) THEN s[k] ELSE t[k - Len(s)]
  BY <1>0, ConcatProperties
<1>2. Len(s) \in Nat /\ Len(t) \in Nat
  BY LenProperties
<1>3. ASSUME NEW k \in 1 .. Len(t)
      PROVE  w[Len(s) + k] = t[k]
  <2>1. Len(s) + k \in 1 .. Len(s) + Len(t) /\ ~ (Len(s) + k <= Len(s)) /\ Len(s) + k - Len(s) = k
    BY <1>2
  <2> QED
    BY <1>1, <2>1
<1>4. Joins(w, s, t)
  BY <1>1, <1>2, <1>3 DEF Joins
<1> QED
  BY <1>0, <1>1, <1>4

\* A sequence, two that hold at most one element each, and an end.
Assembles(W, a, b, c, end) ==
    /\ Len(W) = Len(a) + Len(b) + Len(c) + 1
    /\ \A k \in 1 .. Len(a) : W[k] = a[k]
    /\ Len(b) = 1 => W[Len(a) + 1] = b[1]
    /\ Len(c) = 1 => W[Len(a) + Len(b) + 1] = c[1]
    /\ W[Len(W)] = end[1]

LEMMA Assembled ==
    ASSUME NEW S, NEW a \in Seq(S), NEW b \in Seq(S), NEW c \in Seq(S), NEW end \in Seq(S),
           Len(end) = 1
    PROVE  /\ ((a \o b) \o c) \o end \in Seq(S)
           /\ Assembles(((a \o b) \o c) \o end, a, b, c, end)
<1>1. PICK ab \in Seq(S) : ab = a \o b /\ Joins(ab, a, b)
  BY Joined, Zenon
<1>2. PICK abc \in Seq(S) : abc = ab \o c /\ Joins(abc, ab, c)
  BY Joined, Zenon
<1>3. PICK W \in Seq(S) : W = abc \o end /\ Joins(W, abc, end)
  BY Joined, Zenon
<1>4. \A k \in 1 .. Len(a) : W[k] = a[k]
  BY <1>1, <1>2, <1>3 DEF Joins
<1>5. Len(b) = 1 => W[Len(a) + 1] = b[1]
  BY <1>1, <1>2, <1>3 DEF Joins
<1>6. Len(c) = 1 => W[Len(a) + Len(b) + 1] = c[1]
  <2>1. Len(c) = 1 => Len(ab) + 1 \in 1 .. Len(abc) /\ abc[Len(ab) + 1] = c[1]
    BY <1>1, <1>2 DEF Joins
  <2>2. Len(c) = 1 => W[Len(ab) + 1] = c[1]
    BY <1>3, <2>1 DEF Joins
  <2> QED
    BY <1>1, <2>2 DEF Joins
<1>7. W[Len(W)] = end[1]
  BY <1>3 DEF Joins
<1>8. Len(W) = Len(a) + Len(b) + Len(c) + 1
  BY <1>1, <1>2, <1>3 DEF Joins
<1>9. Assembles(W, a, b, c, end)
  BY <1>4, <1>5, <1>6, <1>7, <1>8 DEF Assembles
<1> QED
  BY <1>1, <1>2, <1>3, <1>9, Zenon

PairAt(calls, k) ==
    IF k % 2 = 1 THEN ToolCallStarted((k - 1) \div 2, calls[(k - 1) \div 2 + 1].tool)
    ELSE ToolCallFinished((k - 1) \div 2, calls[(k - 1) \div 2 + 1].tool,
                          calls[(k - 1) \div 2 + 1].outcome)

Pairs(calls) == [k \in 1 .. 2 * Len(calls) |-> PairAt(calls, k)]

\* The calls of a reconstructed stream, each with its return behind it.
LEMMA PairsAre ==
    ASSUME NEW calls \in Seq(FakeRecord)
    PROVE  /\ Len(calls) \in Nat
           /\ Pairs(calls) \in Seq(Event) /\ Len(Pairs(calls)) = 2 * Len(calls)
           /\ \A i \in 1 .. Len(calls) :
                /\ Pairs(calls)[2 * i - 1] = ToolCallStarted(i - 1, calls[i].tool)
                /\ Pairs(calls)[2 * i] = ToolCallFinished(i - 1, calls[i].tool, calls[i].outcome)
<1>2. Len(calls) \in Nat /\ \A i \in 1 .. Len(calls) : calls[i] \in FakeRecord
  BY LenProperties
<1>3. \A i \in 1 .. Len(calls) : calls[i].tool \in Tool /\ calls[i].outcome \in Outcome
  BY <1>2 DEF FakeRecord
<1>4. ASSUME NEW k \in 1 .. 2 * Len(calls)
      PROVE  PairAt(calls, k) \in Event
  <2>1. PICK i \in Nat : i = (k - 1) \div 2
    BY <1>2
  <2>0. i + 1 \in 1 .. Len(calls)
    BY <1>2, <2>1
  <2>2. calls[i + 1].tool \in Tool /\ calls[i + 1].outcome \in Outcome
    BY <1>3, <2>0
  <2>3. ToolCallStarted(i, calls[i + 1].tool) \in Event
        /\ ToolCallFinished(i, calls[i + 1].tool, calls[i + 1].outcome) \in Event
    BY <2>2, EventsAre
  <2> QED
    BY <2>1, <2>3 DEF PairAt
<1>5. Pairs(calls) \in [1 .. 2 * Len(calls) -> Event] /\ 2 * Len(calls) \in Nat
  BY <1>2, <1>4 DEF Pairs
<1>6. Pairs(calls) \in Seq(Event) /\ Len(Pairs(calls)) = 2 * Len(calls)
  BY <1>5
<1>7. ASSUME NEW i \in 1 .. Len(calls)
      PROVE  /\ Pairs(calls)[2 * i - 1] = ToolCallStarted(i - 1, calls[i].tool)
             /\ Pairs(calls)[2 * i] = ToolCallFinished(i - 1, calls[i].tool, calls[i].outcome)
  <2>1. 2 * i - 1 \in 1 .. 2 * Len(calls) /\ 2 * i \in 1 .. 2 * Len(calls)
    BY <1>2
  <2>2. (2 * i - 1) % 2 = 1 /\ (2 * i - 1 - 1) \div 2 = i - 1
    BY <1>2
  <2>3. (2 * i) % 2 = 0 /\ (2 * i - 1) \div 2 = i - 1
    BY <1>2
  <2>4. (i - 1) + 1 = i
    BY <1>2
  <2>5. Pairs(calls)[2 * i - 1] = PairAt(calls, 2 * i - 1)
        /\ Pairs(calls)[2 * i] = PairAt(calls, 2 * i)
    BY <2>1 DEF Pairs
  <2> QED
    BY <2>2, <2>3, <2>4, <2>5 DEF PairAt
<1> QED
  BY <1>2, <1>6, <1>7

\* A position in a reconstructed stream of n calls.
LEMMA PositionIs ==
    ASSUME NEW n \in Nat, NEW last \in Nat, last >= 2 * n + 2, NEW k \in 1 .. last
    PROVE  \/ k = 1
           \/ \E i \in 1 .. n : k = 2 * i \/ k = 2 * i + 1
           \/ k \in 2 * n + 2 .. last - 1
           \/ k = last
<1>1. CASE k \in 2 .. 2 * n + 1
  <2>1. PICK i \in Nat : i = k \div 2
    BY <1>1
  <2>2. k = 2 * i \/ k = 2 * i + 1
    BY <1>1, <2>1
  <2>3. i \in 1 .. n
    BY <1>1, <2>2
  <2> QED
    BY <2>2, <2>3
<1> QED
  BY <1>1

\* Where each event of a reconstructed stream is.
Laid(W, res) ==
    LET calls == res.tool_calls
        n == Len(calls)
    IN  /\ n \in Nat /\ W \in Seq(Event)
        /\ Len(W) \in Nat /\ Len(W) >= 2 * n + 2
        /\ W[1] = TurnStarted(FALSE)
        /\ \A i \in 1 .. n :
            /\ W[2 * i] = ToolCallStarted(i - 1, calls[i].tool)
            /\ W[2 * i + 1] = ToolCallFinished(i - 1, calls[i].tool, calls[i].outcome)
        /\ \A k \in 2 * n + 2 .. Len(W) - 1 :
            \/ W[k] = ArtifactProduced /\ "artifact" \in res.said
            \/ W[k] = TextDelta /\ "text" \in res.said
        /\ W[Len(W)] = TurnFinished
        /\ "artifact" \in res.said => \E k \in 1 .. Len(W) : W[k] = ArtifactProduced
        /\ "text" \in res.said => \E k \in 1 .. Len(W) : W[k] = TextDelta

LEMMA ReconstructedIs ==
    ASSUME NEW res, res.tool_calls \in Seq(FakeRecord)
    PROVE  Laid(Reconstructed(res), res)
<1>1. PICK calls \in Seq(FakeRecord) : calls = res.tool_calls
  OBVIOUS
<1>2. PICK n \in Nat : n = Len(calls)
  BY LenProperties
<1>0. PICK start \in Event : start = TurnStarted(FALSE)
  BY EventsAre, Zenon
<1>3. PICK a : a = <<start>> \o Pairs(calls)
  OBVIOUS
<1>4. PICK b : b = Carried(res, "artifact", ArtifactProduced)
  OBVIOUS
<1>5. PICK c : c = Carried(res, "text", TextDelta)
  OBVIOUS
<1>6. PICK W : W = Reconstructed(res)
  OBVIOUS
<1>8. <<start>> \in Seq(Event) /\ Len(<<start>>) = 1 /\ <<start>>[1] = start
  OBVIOUS
<1>9. /\ a \in Seq(Event) /\ Len(a) = 1 + 2 * n
      /\ \A k \in 1 .. 1 + 2 * n :
            a[k] = IF k <= 1 THEN <<start>>[k] ELSE Pairs(calls)[k - 1]
  BY <1>2, <1>3, <1>8, PairsAre, ConcatProperties
<1>10. a[1] = start
  BY <1>8, <1>9
<1>11. ASSUME NEW i \in 1 .. n
       PROVE  /\ a[2 * i] = ToolCallStarted(i - 1, calls[i].tool)
              /\ a[2 * i + 1] = ToolCallFinished(i - 1, calls[i].tool, calls[i].outcome)
              /\ 2 * i \in 1 .. Len(a) /\ 2 * i + 1 \in 1 .. Len(a)
  <2>1. 2 * i \in 1 .. 1 + 2 * n /\ 2 * i + 1 \in 1 .. 1 + 2 * n /\ 2 * i > 1 /\ 2 * i + 1 > 1
    OBVIOUS
  <2>2. 2 * i + 1 - 1 = 2 * i
    OBVIOUS
  <2>3. a[2 * i] = Pairs(calls)[2 * i - 1] /\ a[2 * i + 1] = Pairs(calls)[2 * i]
    BY <1>9, <2>1, <2>2
  <2> QED
    BY <1>2, <1>9, <2>1, <2>3, PairsAre
<1>12. /\ b \in Seq(Event) /\ Len(b) <= 1
       /\ Len(b) = IF "artifact" \in res.said THEN 1 ELSE 0
       /\ "artifact" \in res.said => b[1] = ArtifactProduced
  BY <1>4, EventsAre DEF Carried
<1>13. /\ c \in Seq(Event) /\ Len(c) <= 1
       /\ Len(c) = IF "text" \in res.said THEN 1 ELSE 0
       /\ "text" \in res.said => c[1] = TextDelta
  BY <1>5, EventsAre DEF Carried
<1>14. /\ W \in Seq(Event)
       /\ Len(W) = Len(a) + Len(b) + Len(c) + 1
       /\ \A k \in 1 .. Len(a) : W[k] = a[k]
       /\ Len(b) = 1 => W[Len(a) + 1] = b[1]
       /\ Len(c) = 1 => W[Len(a) + Len(b) + 1] = c[1]
       /\ W[Len(W)] = TurnFinished
  <2>1. PICK z \in Event : z = TurnFinished
    BY EventsAre, Zenon
  <2>0. <<z>> \in Seq(Event)
    BY <2>1
  <2>2. PICK end \in Seq(Event) : end = <<z>>
    BY <2>0
  <2>3. Len(end) = 1 /\ end[1] = TurnFinished
    BY <2>1, <2>2
  <2>4. W = ((a \o b) \o c) \o end
    BY <1>0, <1>1, <1>2, <1>3, <1>4, <1>5, <1>6, <2>1, <2>2
       DEF Reconstructed, Pairs, PairAt
  <2>5. a \in Seq(Event) /\ b \in Seq(Event) /\ c \in Seq(Event)
    BY <1>9, <1>12, <1>13
  <2>6. W \in Seq(Event) /\ Assembles(W, a, b, c, end)
    BY <2>3, <2>4, <2>5, Assembled, Zenon
  <2> QED
    BY <2>3, <2>6 DEF Assembles
<1>15. \A i \in 1 .. n :
            /\ W[2 * i] = ToolCallStarted(i - 1, calls[i].tool)
            /\ W[2 * i + 1] = ToolCallFinished(i - 1, calls[i].tool, calls[i].outcome)
  BY <1>11, <1>14
<1>16. W[1] = start
  BY <1>9, <1>10, <1>14
<1>17. Len(W) \in Nat /\ Len(W) >= 2 * n + 2
  BY <1>9, <1>12, <1>13, <1>14
<1>18. ASSUME "artifact" \in res.said
       PROVE  2 * n + 2 \in 1 .. Len(W) /\ W[2 * n + 2] = ArtifactProduced
  <2>1. Len(a) + 1 = 2 * n + 2
    BY <1>9
  <2> QED
    BY <1>12, <1>14, <1>17, <1>18, <2>1
<1>19. ASSUME "text" \in res.said
       PROVE  2 * n + 2 + Len(b) \in 1 .. Len(W) /\ W[2 * n + 2 + Len(b)] = TextDelta
  <2>1. Len(a) + Len(b) + 1 = 2 * n + 2 + Len(b) /\ Len(b) \in Nat
    BY <1>9, <1>12
  <2> QED
    BY <1>9, <1>13, <1>14, <1>17, <1>19, <2>1
<1>20. ASSUME NEW k \in 2 * n + 2 .. Len(W) - 1
       PROVE  \/ W[k] = ArtifactProduced /\ "artifact" \in res.said
              \/ W[k] = TextDelta /\ "text" \in res.said
  <2>1. \/ k = 2 * n + 2 /\ "artifact" \in res.said
        \/ k = 2 * n + 2 + Len(b) /\ "text" \in res.said
    BY <1>9, <1>12, <1>13, <1>14, <1>17
  <2> QED
    BY <1>18, <1>19, <2>1
<1>21. /\ "artifact" \in res.said => \E k \in 1 .. Len(W) : W[k] = ArtifactProduced
       /\ "text" \in res.said => \E k \in 1 .. Len(W) : W[k] = TextDelta
  BY <1>18, <1>19
<1>22. Laid(W, res)
  BY <1>0, <1>1, <1>2, <1>14, <1>15, <1>16, <1>17, <1>20, <1>21 DEF Laid
<1> QED
  BY <1>6, <1>22

-----------------------------------------------------------------------------
(* What is read off a laid-out stream, and off a plan. *)

LEMMA LaidPosition ==
    ASSUME NEW W, NEW res, Laid(W, res), NEW k \in DOMAIN W
    PROVE  \/ k = 1 /\ W[k].kind = "turn_started"
           \/ \E i \in 1 .. Len(res.tool_calls) :
                \/ k = 2 * i /\ W[k] = ToolCallStarted(i - 1, res.tool_calls[i].tool)
                \/ k = 2 * i + 1 /\ W[k] = ToolCallFinished(i - 1, res.tool_calls[i].tool,
                                                            res.tool_calls[i].outcome)
           \/ W[k] = ArtifactProduced /\ "artifact" \in res.said /\ k # Len(W)
           \/ W[k] = TextDelta /\ "text" \in res.said /\ k # Len(W)
           \/ k = Len(W) /\ W[k] = TurnFinished
<1>1. PICK n \in Nat : n = Len(res.tool_calls)
  BY DEF Laid
<1>2. W \in Seq(Event) /\ Len(W) \in Nat /\ Len(W) >= 2 * n + 2
  BY <1>1 DEF Laid
<1>3. k \in 1 .. Len(W)
  BY <1>2, LenProperties
<1>4. \/ k = 1
      \/ \E i \in 1 .. n : k = 2 * i \/ k = 2 * i + 1
      \/ k \in 2 * n + 2 .. Len(W) - 1
      \/ k = Len(W)
  BY <1>2, <1>3, PositionIs
<1>7. W[1].kind = "turn_started"
  <2>1. W[1] = TurnStarted(FALSE)
    BY Zenon DEF Laid
  <2> QED
    BY <2>1, KindsAre, Zenon
<1>5. CASE \E i \in 1 .. n : k = 2 * i \/ k = 2 * i + 1
  BY <1>1, <1>5 DEF Laid
<1>6. CASE k \in 2 * n + 2 .. Len(W) - 1
  BY <1>1, <1>2, <1>6 DEF Laid
<1> QED
  BY <1>1, <1>4, <1>5, <1>6, <1>7 DEF Laid

LEMMA LaidKinds ==
    ASSUME NEW W, NEW res, Laid(W, res)
    PROVE  /\ W \in Seq(Event) /\ W # <<>>
           /\ Of(W, "turn_finished") = {Len(W)}
           /\ Of(W, "text_delta") # {} <=> "text" \in res.said
           /\ Of(W, "artifact_produced") # {} <=> "artifact" \in res.said
<1>1. W \in Seq(Event) /\ Len(W) \in Nat /\ Len(W) >= 2 /\ W[Len(W)] = TurnFinished
  BY DEF Laid
<1>2. DOMAIN W = 1 .. Len(W) /\ W # <<>>
  BY <1>1, LenProperties
<1>3. ASSUME NEW k \in DOMAIN W
      PROVE  /\ W[k].kind = "turn_finished" <=> k = Len(W)
             /\ W[k].kind = "text_delta" => "text" \in res.said
             /\ W[k].kind = "artifact_produced" => "artifact" \in res.said
  <2>1. \/ W[k].kind = "turn_started"
        \/ W[k].kind = "tool_call_started"
        \/ W[k].kind = "tool_call_finished"
        \/ W[k].kind = "artifact_produced" /\ "artifact" \in res.said /\ k # Len(W)
        \/ W[k].kind = "text_delta" /\ "text" \in res.said /\ k # Len(W)
        \/ k = Len(W) /\ W[k].kind = "turn_finished"
    BY LaidPosition, KindsAre
  <2>2. k = Len(W) => W[k].kind = "turn_finished"
    BY <1>1, KindsAre
  <2> QED
    BY <2>1, <2>2
<1>4. Of(W, "turn_finished") = {Len(W)}
  BY <1>1, <1>2, <1>3 DEF Of
<1>5. Of(W, "text_delta") # {} <=> "text" \in res.said
  <2>1. "text" \in res.said => \E k \in DOMAIN W : W[k].kind = "text_delta"
    BY <1>2, KindsAre DEF Laid
  <2> QED
    BY <1>3, <2>1 DEF Of
<1>6. Of(W, "artifact_produced") # {} <=> "artifact" \in res.said
  <2>1. "artifact" \in res.said => \E k \in DOMAIN W : W[k].kind = "artifact_produced"
    BY <1>2, KindsAre DEF Laid
  <2> QED
    BY <1>3, <2>1 DEF Of
<1> QED
  BY <1>1, <1>2, <1>4, <1>5, <1>6

\* Each call of a result has one start in its stream.
LEMMA LaidStarts ==
    ASSUME NEW W, NEW res, Laid(W, res)
    PROVE  Cardinality(Of(W, "tool_call_started")) = Len(res.tool_calls)
<1>1. PICK n \in Nat : n = Len(res.tool_calls)
  BY DEF Laid
<1>2. W \in Seq(Event) /\ Len(W) \in Nat /\ Len(W) >= 2 * n + 2
  BY <1>1 DEF Laid
<1>3. DOMAIN W = 1 .. Len(W)
  BY <1>2, LenProperties
<1> DEFINE T == Of(W, "tool_call_started")
           f == [i \in 1 .. n |-> 2 * i]
<1>4. ASSUME NEW i \in 1 .. n
      PROVE  2 * i \in T
  <2>1. W[2 * i].kind = "tool_call_started"
    BY <1>1, KindsAre DEF Laid
  <2>2. 2 * i \in DOMAIN W
    BY <1>2, <1>3
  <2> QED
    BY <2>1, <2>2 DEF Of
<1>5. ASSUME NEW k \in T
      PROVE  \E i \in 1 .. n : k = 2 * i
  <2>1. k \in DOMAIN W /\ W[k].kind = "tool_call_started"
    BY DEF Of
  <2>2. \/ W[k].kind \in {"turn_started", "tool_call_finished", "artifact_produced", "text_delta",
                          "turn_finished"}
        \/ \E i \in 1 .. n : k = 2 * i
    BY <1>1, <2>1, LaidPosition, KindsAre
  <2> QED
    BY <2>1, <2>2
<1> HIDE DEF T
<1>6. f \in Bijection(1 .. n, T)
  <2>1. f \in [1 .. n -> T]
    BY <1>4
  <2>2. \A i, j \in 1 .. n : f[i] = f[j] => i = j
    OBVIOUS
  <2>3. \A k \in T : \E i \in 1 .. n : f[i] = k
    BY <1>5
  <2> QED
    BY <2>1, <2>2, <2>3 DEF Bijection, Injection, IsInjective, Surjection
<1>7. ExistsBijection(1 .. n, T)
  BY <1>6 DEF ExistsBijection
<1>8. Cardinality(T) = n
  BY <1>7, FS_CountingElements
<1> QED
  BY <1>1, <1>8 DEF T

\* A success in the stream of a result is a record of it that says executed.
LEMMA LaidSuccesses ==
    ASSUME NEW W, NEW res, Laid(W, res), res.tool_calls \in Seq(FakeRecord),
           \A i \in DOMAIN res.tool_calls :
                res.tool_calls[i].executed <=> res.tool_calls[i].outcome # "denied",
           NEW t
    PROVE  LET S == {i \in DOMAIN res.tool_calls :
                        res.tool_calls[i].tool = t /\ res.tool_calls[i].executed}
           IN  /\ Cardinality(S) \in Nat
               /\ Cardinality(Succeeded(W, t)) \in Nat
               /\ Cardinality(Succeeded(W, t)) <= Cardinality(S)
<1>1. PICK n \in Nat : n = Len(res.tool_calls)
  BY DEF Laid
<1>2. W \in Seq(Event) /\ Len(W) \in Nat /\ Len(W) >= 2 * n + 2
  BY <1>1 DEF Laid
<1>3. DOMAIN res.tool_calls = 1 .. n
  BY <1>1, LenProperties
<1> DEFINE S == {i \in DOMAIN res.tool_calls :
                        res.tool_calls[i].tool = t /\ res.tool_calls[i].executed}
           D == {i \in DOMAIN res.tool_calls :
                        res.tool_calls[i].tool = t /\ res.tool_calls[i].outcome = "success"}
           T == Succeeded(W, t)
           f == [i \in D |-> 2 * i + 1]
<1>4. D \in SUBSET S /\ S \in SUBSET (1 .. n) /\ D \in SUBSET (1 .. n)
  BY <1>3
<1>5. IsFiniteSet(1 .. n)
  BY FS_Interval
<1>6. IsFiniteSet(S) /\ IsFiniteSet(D)
  BY <1>4, <1>5, FS_Subset
<1>7. Cardinality(D) <= Cardinality(S)
  BY <1>4, <1>6, FS_Subset
<1>8. ASSUME NEW i \in D
      PROVE  2 * i + 1 \in T
  <2>0. i \in 1 .. n
    BY <1>4
  <2>1. W[2 * i + 1] = ToolCallFinished(i - 1, t, "success")
    BY <1>1, <2>0 DEF Laid
  <2>2. 2 * i + 1 \in DOMAIN W
    BY <1>2, <2>0, LenProperties
  <2> QED
    BY <2>1, <2>2, KindsAre DEF Succeeded
<1>9. ASSUME NEW k \in T
      PROVE  \E i \in D : k = 2 * i + 1
  <2>1. /\ k \in DOMAIN W /\ W[k].kind = "tool_call_finished"
        /\ W[k].tool = t /\ W[k].outcome = "success"
    BY DEF Succeeded
  <2>2. PICK i \in 1 .. n :
            k = 2 * i + 1 /\ W[k] = ToolCallFinished(i - 1, res.tool_calls[i].tool,
                                                     res.tool_calls[i].outcome)
    BY <1>1, <2>1, LaidPosition, KindsAre
  <2>3. res.tool_calls[i].tool = t /\ res.tool_calls[i].outcome = "success"
    BY <2>1, <2>2, KindsAre
  <2> QED
    BY <1>3, <2>2, <2>3
<1> HIDE DEF D, T, S
<1>10. f \in Surjection(D, T)
  <2>1. f \in [D -> T]
    BY <1>8
  <2>2. \A k \in T : \E i \in D : f[i] = k
    BY <1>9
  <2> QED
    BY <2>1, <2>2 DEF Surjection
<1>11. IsFiniteSet(T) /\ Cardinality(T) <= Cardinality(D)
  BY <1>6, <1>10, FS_Surjection
<1>12. Cardinality(T) \in Nat /\ Cardinality(D) \in Nat /\ Cardinality(S) \in Nat
  BY <1>6, <1>11, FS_CardinalityType
<1>13. Cardinality(T) <= Cardinality(S)
  BY <1>7, <1>11, <1>12
<1> QED
  BY <1>12, <1>13 DEF S, T

\* What is of a kind in a concatenation.
LEMMA OfBoth ==
    ASSUME NEW s \in Seq(Event), NEW p \in Seq(Event)
    PROVE  /\ s \o p \in Seq(Event)
           /\ Len(s \o p) = Len(s) + Len(p) /\ Len(s) \in Nat /\ Len(p) \in Nat
           /\ \A kind : Of(s \o p, kind) = Of(s, kind) \cup {Len(s) + k : k \in Of(p, kind)}
<1>1. PICK w \in Seq(Event) : w = s \o p /\ Joins(w, s, p)
  BY Joined, Zenon
<1>2. /\ DOMAIN w = 1 .. Len(w) /\ DOMAIN s = 1 .. Len(s) /\ DOMAIN p = 1 .. Len(p)
      /\ Len(s) \in Nat /\ Len(p) \in Nat /\ Len(w) = Len(s) + Len(p)
  BY <1>1, LenProperties DEF Joins
<1>3. ASSUME NEW kind
      PROVE  Of(w, kind) = Of(s, kind) \cup {Len(s) + k : k \in Of(p, kind)}
  <2>1. ASSUME NEW k \in Of(w, kind)
        PROVE  k \in Of(s, kind) \cup {Len(s) + j : j \in Of(p, kind)}
    <3>1. k \in 1 .. Len(w) /\ w[k].kind = kind
      BY <1>2 DEF Of
    <3>2. CASE k <= Len(s)
      BY <1>1, <1>2, <3>1, <3>2 DEF Of, Joins
    <3>3. CASE k > Len(s)
      <4>1. PICK j \in 1 .. Len(p) : k = Len(s) + j
        <5>1. k - Len(s) \in 1 .. Len(p) /\ k = Len(s) + (k - Len(s))
          BY <1>2, <3>1, <3>3
        <5> QED
          BY <5>1
      <4>2. j \in Of(p, kind)
        BY <1>1, <1>2, <3>1, <4>1 DEF Of, Joins
      <4> QED
        BY <4>1, <4>2
    <3> QED
      BY <1>2, <3>1, <3>2, <3>3
  <2>2. ASSUME NEW k \in Of(s, kind)
        PROVE  k \in Of(w, kind)
    BY <1>1, <1>2 DEF Of, Joins
  <2>3. ASSUME NEW j \in Of(p, kind)
        PROVE  Len(s) + j \in Of(w, kind)
    BY <1>1, <1>2 DEF Of, Joins
  <2> QED
    BY <2>1, <2>2, <2>3
<1> QED
  BY <1>1, <1>2, <1>3

LEMMA OneAndOne ==
    ASSUME NEW S, NEW x \in S, NEW z \in S
    PROVE  <<x>> \o <<z>> = <<x, z>> /\ <<>> \o <<z>> = <<z>>
<1>1. <<x>> \in Seq(S) /\ <<z>> \in Seq(S) /\ <<x, z>> \in Seq(S)
  OBVIOUS
<1>2. PICK w \in Seq(S) : w = <<x>> \o <<z>> /\ Joins(w, <<x>>, <<z>>)
  BY <1>1, Joined, Zenon
<1>3. Len(w) = 2 /\ w[1] = x /\ w[2] = z
  <2>1. PICK a \in Seq(S) : a = <<x>> /\ Len(a) = 1 /\ a[1] = x
    BY <1>1
  <2>2. PICK b \in Seq(S) : b = <<z>> /\ Len(b) = 1 /\ b[1] = z
    BY <1>1
  <2>3. Joins(w, a, b)
    BY <1>2, <2>1, <2>2
  <2>4. Len(w) = 2
    BY <2>1, <2>2, <2>3 DEF Joins
  <2>5. w[1] = a[1]
    BY <2>1, <2>3 DEF Joins
  <2>6. w[1 + 1] = b[1]
    <3>1. 1 \in 1 .. Len(b) /\ Len(a) = 1
      BY <2>1, <2>2
    <3> QED
      BY <2>3, <3>1 DEF Joins
  <2> QED
    BY <2>1, <2>2, <2>4, <2>5, <2>6
<1>4. w = <<x, z>>
  BY <1>1, <1>3, SeqEqual
<1> QED
  BY <1>1, <1>2, <1>4, ConcatEmptySeq

\* What is told after a run: its text if it has one, and the end.
LEMMA EndIs ==
    ASSUME NEW p, NEW res,
           \/ p = Carried(res, "text", TextDelta) \o <<TurnFinished>>
           \/ p = <<TurnFinished>>
    PROVE  /\ p \in Seq(Event) /\ p # <<>>
           /\ \A k \in DOMAIN p : p[k].kind \in {"text_delta", "turn_finished"}
           /\ Of(p, "turn_finished") = {Len(p)}
           /\ p = <<TurnFinished>> => Of(p, "text_delta") = {}
           /\ p = Carried(res, "text", TextDelta) \o <<TurnFinished>> =>
                (Of(p, "text_delta") # {} <=> "text" \in res.said)
<1>1. PICK z \in Event : z = TurnFinished /\ z.kind = "turn_finished"
  BY EventsAre, KindsAre, Zenon
<1>2. PICK x \in Event : x = TextDelta /\ x.kind = "text_delta"
  BY EventsAre, KindsAre, Zenon
<1>3. /\ "text" \in res.said => Carried(res, "text", TextDelta) \o <<TurnFinished>> = <<x, z>>
      /\ "text" \notin res.said => Carried(res, "text", TextDelta) \o <<TurnFinished>> = <<z>>
  <2>1. /\ "text" \in res.said => Carried(res, "text", TextDelta) = <<x>>
        /\ "text" \notin res.said => Carried(res, "text", TextDelta) = <<>>
    BY <1>2 DEF Carried
  <2>2. <<x>> \o <<z>> = <<x, z>> /\ <<>> \o <<z>> = <<z>>
    BY OneAndOne, Zenon
  <2> QED
    BY <1>1, <2>1, <2>2
<1>4. <<z>> = <<TurnFinished>>
  BY <1>1
<1>5. CASE p = <<z>>
  <2>1. DOMAIN p = {1} /\ Len(p) = 1 /\ p[1] = z /\ p \in Seq(Event) /\ p # <<>>
    BY <1>5
  <2>2. Of(p, "turn_finished") = {1} /\ Of(p, "text_delta") = {}
    BY <1>1, <2>1 DEF Of
  <2>3. <<z>> # <<x, z>>
    OBVIOUS
  <2>4. p = Carried(res, "text", TextDelta) \o <<TurnFinished>> => "text" \notin res.said
    BY <1>3, <1>5, <2>3
  <2> QED
    BY <1>1, <2>1, <2>2, <2>4
<1>6. CASE p = <<x, z>> /\ "text" \in res.said
  <2>1. DOMAIN p = {1, 2} /\ Len(p) = 2 /\ p[1] = x /\ p[2] = z /\ p \in Seq(Event) /\ p # <<>>
    BY <1>6
  <2>2. Of(p, "turn_finished") = {2} /\ Of(p, "text_delta") = {1}
    BY <1>1, <1>2, <2>1 DEF Of
  <2>3. p # <<TurnFinished>>
    BY <1>4, <2>1
  <2> QED
    BY <1>1, <1>2, <1>6, <2>1, <2>2, <2>3
<1> QED
  BY <1>3, <1>4, <1>5, <1>6

-----------------------------------------------------------------------------
(* What the consumer is sent. *)

\* What was yielded and what is planned are events, and no more of them say of
\* a tool that it succeeded than it was executed.
Sound ==
    /\ events \in Seq(Event) /\ plan \in Seq(Event)
    /\ \A t \in Tool : Cardinality(Succeeded(events \o plan, t)) <= executions[t]

\* Who has a stream, when it starts, and that it has not ended while it runs.
Streamed ==
    /\ request.mode \in {"blocking", "fake"} => events = <<>>
    /\ path = "script" => events = <<>>
    /\ request.mode = "native" /\ path # "idle" => events # <<>>
    /\ path \notin {"idle", "telling"} => Of(events, "turn_finished") = {}
    /\ path \in {"measured", "plain"} /\ request.mode = "native" => fell_back
    /\ path = "build" /\ request.mode = "native" /\ ~ fell_back =>
        /\ Of(events, "text_delta") = {}
        /\ Ids(events, "tool_call_started") = {} /\ Ids(events, "tool_call_finished") = {}

\* A live run is followed: its text, its calls, and what came back of them.
Followed ==
    path = "live" =>
        /\ Of(events, "text_delta") # {} <=> "text" \in said
        /\ Ids(events, "tool_call_started") = {i - 1 : i \in DOMAIN log}
        /\ Ids(events, "tool_call_finished") =
                {i - 1 : i \in {j \in DOMAIN log : log[j].back # "running"}}

\* What is being told ends with its end; after a run it is no more than that
\* and a text, and the calls of a live run that held have all come back.
Ending ==
    path = "telling" =>
        /\ Of(events \o plan, "turn_finished") = {Len(events \o plan)}
        /\ request.mode = "native" =>
            /\ \A k \in DOMAIN plan : plan[k].kind \in {"text_delta", "turn_finished"}
            /\ fell_back \/ Ids(events, "tool_call_started") = Ids(events, "tool_call_finished")

\* A result that is told, or was, is what the events say.
Truthful ==
    path = "telling" \/ (ended = "result" /\ events # <<>>) =>
        /\ "text" \in result.said => Of(events \o plan, "text_delta") # {}
        /\ Of(events \o plan, "text_delta") # {} /\ ~ fell_back => "text" \in result.said
        /\ request.mode = "reconstructed" => Laid(events \o plan, result)

Told == Sound /\ Streamed /\ Followed /\ Ending /\ Truthful

\* A stream with nothing in it yet, and one with only its start.
LEMMA NothingSent ==
    /\ <<>> \in Seq(Event)
    /\ \A kind : Of(<<>>, kind) = {} /\ Ids(<<>>, kind) = {}
    /\ \A t : Succeeded(<<>>, t) = {} /\ Cardinality(Succeeded(<<>>, t)) = 0
<1>1. <<>> \in Seq(Event) /\ DOMAIN <<>> = {}
  OBVIOUS
<1>2. \A kind : Of(<<>>, kind) = {}
  BY <1>1 DEF Of
<1>3. \A t : Succeeded(<<>>, t) = {}
  BY <1>1 DEF Succeeded
<1> QED
  BY <1>1, <1>2, <1>3, FS_EmptySet DEF Ids

LEMMA OnlyStarted ==
    ASSUME NEW e \in Event, e.kind = "turn_started", NEW s, s = <<e>>
    PROVE  /\ s \in Seq(Event) /\ s # <<>>
           /\ \A kind : kind # "turn_started" => Of(s, kind) = {} /\ Ids(s, kind) = {}
           /\ \A t : Succeeded(s, t) = {} /\ Cardinality(Succeeded(s, t)) = 0
<1>3. s \in Seq(Event) /\ s # <<>> /\ DOMAIN s = {1} /\ s[1] = e
  OBVIOUS
<1>4. \A kind : kind # "turn_started" => Of(s, kind) = {}
  BY <1>3 DEF Of
<1>5. \A t : Succeeded(s, t) = {}
  BY <1>3 DEF Succeeded
<1> QED
  BY <1>3, <1>4, <1>5, FS_EmptySet DEF Ids

\* Nothing is said, and nothing that was executed is taken back.
LEMMA SoundKept ==
    ASSUME Inv, Sound, UNCHANGED <<events, plan>>,
           \A t \in Tool : executions'[t] >= executions[t] /\ executions'[t] \in Nat
    PROVE  Sound'
<1>1. \A t \in Tool : executions[t] \in Nat
  BY DEF Inv, Noted
<1>2. ASSUME NEW t \in Tool
      PROVE  Cardinality(Succeeded(events \o plan, t)) <= executions'[t]
  <2>1. Cardinality(Succeeded(events \o plan, t)) \in Nat
    BY YieldedIsLess DEF Sound
  <2>2. Cardinality(Succeeded(events \o plan, t)) <= executions[t]
    BY DEF Sound
  <2> QED
    BY <1>1, <2>1, <2>2
<1> QED
  BY <1>2 DEF Sound

LEMMA ExecutionsKept ==
    ASSUME Inv, UNCHANGED executions
    PROVE  \A t \in Tool : executions'[t] >= executions[t] /\ executions'[t] \in Nat
BY DEF Inv, Noted

LEMMA BeginTold ==
    ASSUME Inv, Told, NEW mode \in Mode, NEW declared \in Declared, Begin(mode, declared)
    PROVE  Told'
<1>0. PICK e \in Event : e = TurnStarted(TRUE) /\ e.kind = "turn_started"
  BY EventsAre, KindsAre, Zenon
<1>1. /\ plan' = <<>> /\ events' = IF mode = "native" THEN <<e>> ELSE <<>>
      /\ path' \in {"build", "script"} /\ request'.mode = mode /\ ended' = "not"
      /\ executions' = [t \in Tool |-> 0]
      /\ path' = "script" => mode \in {"fake", "reconstructed"}
  BY <1>0 DEF Inv, Where, Begin, Mode
<1>2. /\ events' \in Seq(Event)
      /\ \A kind : kind # "turn_started" => Of(events', kind) = {} /\ Ids(events', kind) = {}
      /\ \A t : Cardinality(Succeeded(events', t)) = 0
      /\ mode = "native" => events' # <<>>
      /\ mode # "native" => events' = <<>>
  BY <1>0, <1>1, OnlyStarted, NothingSent
<1>3. Sound'
  <2>1. events' \o plan' = events' /\ plan' \in Seq(Event)
    BY <1>1, <1>2, NothingSent, ConcatEmptySeq
  <2> QED
    BY <1>1, <1>2, <2>1 DEF Sound
<1>4. Streamed'
  BY <1>1, <1>2 DEF Streamed
<1>5. Followed' /\ Ending' /\ Truthful'
  BY <1>1 DEF Followed, Ending, Truthful
<1> QED
  BY <1>3, <1>4, <1>5 DEF Told

LEMMA BuildTold ==
    ASSUME Inv, Books, Told, BuildAgent
    PROVE  Told'
<1>1. /\ UNCHANGED <<events, plan, executions, fell_back, request, ended>>
      /\ path = "build" /\ ended = "not"
      /\ path' \in Run /\ log' = <<>> /\ said' = {}
      /\ path' = "live" <=> (request.mode = "native" /\ ~ fell_back)
  BY DEF BuildAgent, Runs, FirstPath, asked, history, Books, Routed
<1>2. Sound'
  BY <1>1, SoundKept, ExecutionsKept DEF Told
<1>3. Streamed'
  BY <1>1 DEF Told, Streamed
<1>4. Followed'
  <2>1. DOMAIN log' = {}
    BY <1>1
  <2> QED
    BY <1>1, <2>1 DEF Told, Streamed, Followed
<1>5. Ending' /\ Truthful'
  BY <1>1 DEF Ending, Truthful
<1> QED
  BY <1>2, <1>3, <1>4, <1>5 DEF Told

\* What ends a turn without a result takes no event back.
LEMMA EndsTold ==
    ASSUME Inv, Told, Leaves("idle"), ended' \in {"error", "abandoned"},
           UNCHANGED <<request, events>>, plan' = <<>>,
           \A t \in Tool : executions'[t] >= executions[t] /\ executions'[t] \in Nat
    PROVE  Told'
<1>1. path' = "idle"
  BY DEF Leaves
<1>2. Sound'
  <2>1. /\ events \o <<>> = events /\ <<>> \in Seq(Event)
        /\ events \in Seq(Event) /\ plan \in Seq(Event)
    BY NothingSent, ConcatEmptySeq DEF Told, Sound
  <2>2. \A t \in Tool : executions[t] \in Nat
    BY DEF Inv, Noted
  <2>3. ASSUME NEW t \in Tool
        PROVE  Cardinality(Succeeded(events, t)) <= executions'[t]
    <3>1. /\ Cardinality(Succeeded(events \o plan, t)) \in Nat
          /\ Cardinality(Succeeded(events, t)) \in Nat
          /\ Cardinality(Succeeded(events, t)) <= Cardinality(Succeeded(events \o plan, t))
      BY <2>1, YieldedIsLess
    <3>2. Cardinality(Succeeded(events \o plan, t)) <= executions[t]
      BY DEF Told, Sound
    <3> QED
      BY <2>2, <3>1, <3>2
  <2> QED
    BY <2>1, <2>3 DEF Sound
<1>3. Streamed' /\ Followed' /\ Ending' /\ Truthful'
  BY <1>1 DEF Told, Streamed, Followed, Ending, Truthful
<1> QED
  BY <1>2, <1>3 DEF Told

\* A run that says one thing more, which is no end of a turn, and nothing of a
\* tool that was not executed.
LEMMA SaysMore ==
    ASSUME Inv, Books, Told, path \in Run, NEW e \in Event, Shows(e),
           UNCHANGED <<path, request, plan, ended, fell_back>>,
           e.kind # "turn_finished",
           \A t \in Tool : executions'[t] \in Nat,
           \A t \in Tool :
                executions'[t] >= executions[t] +
                    (IF e.kind = "tool_call_finished" /\ e.tool = t /\ e.outcome = "success"
                     THEN 1 ELSE 0)
    PROVE  /\ Sound' /\ Streamed' /\ Ending' /\ Truthful'
           /\ path = "live" =>
                \A kind :
                    /\ Of(events', kind) # {} <=> (Of(events, kind) # {} \/ e.kind = kind)
                    /\ Ids(events', kind) = IF e.kind = kind THEN Ids(events, kind) \cup {e.call_id}
                                            ELSE Ids(events, kind)
<1>1. plan = <<>> /\ plan' = <<>> /\ events \in Seq(Event)
  BY DEF Inv, Where, Told, Sound
<1>2. events \o <<>> = events /\ <<>> \in Seq(Event)
  BY <1>1, NothingSent, ConcatEmptySeq
<1>3. \A t \in Tool : executions[t] \in Nat
  BY DEF Inv, Noted
<1>4. ASSUME NEW t \in Tool
      PROVE  /\ Cardinality(Succeeded(events, t)) <= executions[t]
             /\ Cardinality(Succeeded(events, t)) \in Nat
             /\ IsFiniteSet(Succeeded(events, t))
  BY <1>1, <1>2, YieldedIsLess DEF Told, Sound
<1>5. ended = "not" /\ ended' = "not"
  BY DEF Books, Routed
<1>6. CASE path # "live"
  <2>1. events' = events
    BY <1>6 DEF Shows
  <2>2. Sound'
    <3>1. \A t \in Tool : executions'[t] >= executions[t]
      BY <1>3
    <3> QED
      BY <2>1, <3>1, SoundKept DEF Told
  <2> QED
    BY <1>5, <1>6, <2>1, <2>2 DEF Told, Streamed, Ending, Truthful
<1>7. CASE path = "live"
  <2>1. events' = Append(events, e)
    BY <1>7 DEF Shows
  <2>2. /\ events' \in Seq(Event) /\ events' # <<>>
        /\ \A kind :
            /\ Of(events', kind) = IF e.kind = kind THEN Of(events, kind) \cup {Len(events) + 1}
                                   ELSE Of(events, kind)
            /\ Ids(events', kind) = IF e.kind = kind THEN Ids(events, kind) \cup {e.call_id}
                                    ELSE Ids(events, kind)
        /\ \A t :
            Succeeded(events', t) =
                IF e.kind = "tool_call_finished" /\ e.tool = t /\ e.outcome = "success"
                THEN Succeeded(events, t) \cup {Len(events) + 1} ELSE Succeeded(events, t)
    BY <1>1, <2>1, OneMore
  <2>3. events' \o <<>> = events'
    BY <2>2, ConcatEmptySeq
  <2>4. ASSUME NEW t \in Tool
        PROVE  Cardinality(Succeeded(events', t)) <= executions'[t]
    <3>1. CASE e.kind = "tool_call_finished" /\ e.tool = t /\ e.outcome = "success"
      <4>1. Succeeded(events', t) = Succeeded(events, t) \cup {Len(events) + 1}
        BY <2>2, <3>1
      <4>2. \/ Cardinality(Succeeded(events', t)) = Cardinality(Succeeded(events, t)) + 1
            \/ Cardinality(Succeeded(events', t)) = Cardinality(Succeeded(events, t))
        BY <1>4, <4>1, FS_AddElement
      <4>3. executions'[t] >= executions[t] + 1
        BY <3>1
      <4> QED
        BY <1>3, <1>4, <4>2, <4>3
    <3>2. CASE ~ (e.kind = "tool_call_finished" /\ e.tool = t /\ e.outcome = "success")
      <4>1. Succeeded(events', t) = Succeeded(events, t)
        BY <2>2, <3>2
      <4>2. executions'[t] >= executions[t]
        BY <1>3, <3>2
      <4> QED
        BY <1>3, <1>4, <4>1, <4>2
    <3> QED
      BY <3>1, <3>2
  <2>5. Sound'
    BY <1>1, <1>2, <2>2, <2>3, <2>4 DEF Sound
  <2>6. request.mode = "native"
    BY <1>7 DEF Books, Routed
  <2>7. Streamed'
    BY <1>7, <2>2, <2>6 DEF Told, Streamed
  <2>8. Ending' /\ Truthful'
    BY <1>5, <1>7 DEF Ending, Truthful
  <2> QED
    BY <2>2, <2>5, <2>7, <2>8
<1> QED
  BY <1>6, <1>7

LEMMA CallsTold ==
    ASSUME Inv, Books, Told, NEW tool \in Tool, ModelCalls(tool)
    PROVE  Told'
<1>1. log \in Seq(Call) /\ log' = Append(log, [tool |-> tool, back |-> "running"])
  BY DEF Inv, Where, ModelCalls
<1>2. Len(log) \in Nat /\ [tool |-> tool, back |-> "running"] \in Call
  BY <1>1, LenProperties DEF Call
<1>3. PICK e \in Event : /\ e = ToolCallStarted(Len(log), tool)
                         /\ e.kind = "tool_call_started" /\ e.call_id = Len(log)
  BY <1>2, EventsAre, KindsAre
<1>4. /\ Shows(e) /\ path \in Run
      /\ UNCHANGED <<path, request, plan, ended, fell_back, executions, said>>
  BY <1>3 DEF ModelCalls, asked, history
<1>5. \A t \in Tool : executions'[t] >= executions[t] /\ executions'[t] \in Nat
  BY <1>4, ExecutionsKept
<1>6. /\ Sound' /\ Streamed' /\ Ending' /\ Truthful'
      /\ path = "live" =>
            \A kind :
                /\ Of(events', kind) # {} <=> (Of(events, kind) # {} \/ e.kind = kind)
                /\ Ids(events', kind) = IF e.kind = kind THEN Ids(events, kind) \cup {e.call_id}
                                        ELSE Ids(events, kind)
  <2>1. \A t \in Tool :
            executions'[t] >= executions[t] +
                (IF e.kind = "tool_call_finished" /\ e.tool = t /\ e.outcome = "success"
                 THEN 1 ELSE 0)
    BY <1>3, <1>4 DEF Inv, Noted
  <2> QED
    BY <1>3, <1>4, <1>5, <2>1, SaysMore
<1>7. Followed'
  <2>1. SUFFICES ASSUME path = "live" PROVE Followed'
    BY <1>4 DEF Followed
  <2>2. /\ DOMAIN log' = DOMAIN log \cup {Len(log) + 1}
        /\ \A j \in DOMAIN log : log'[j] = log[j]
        /\ log'[Len(log) + 1].back = "running"
        /\ Len(log) + 1 \notin DOMAIN log /\ Len(log) + 1 - 1 = Len(log)
    BY <1>1, <1>2
  <2>3. {i - 1 : i \in DOMAIN log'} = {i - 1 : i \in DOMAIN log} \cup {Len(log)}
    BY <2>2
  <2>4. {j \in DOMAIN log' : log'[j].back # "running"} = {j \in DOMAIN log : log[j].back # "running"}
    BY <2>2
  <2>5. /\ Ids(events', "tool_call_started") = Ids(events, "tool_call_started") \cup {Len(log)}
        /\ Ids(events', "tool_call_finished") = Ids(events, "tool_call_finished")
        /\ Of(events', "text_delta") # {} <=> Of(events, "text_delta") # {}
    BY <1>3, <1>6, <2>1
  <2> QED
    BY <1>4, <2>1, <2>3, <2>4, <2>5 DEF Told, Followed
<1> QED
  BY <1>6, <1>7 DEF Told

LEMMA ReturnTold ==
    ASSUME Inv, Books, Told, NEW i \in DOMAIN log, NEW back \in {"returned", "retry", "refused"},
           ToolReturns(i, back)
    PROVE  Told'
<1>1. log \in Seq(Call) /\ log' = [log EXCEPT ![i].back = back] /\ log[i].back = "running"
  BY DEF Inv, Where, ToolReturns
<1>2. log[i] \in Call /\ DOMAIN log = 1 .. Len(log) /\ Len(log) \in Nat
  BY <1>1, LenProperties
<1>3. /\ DOMAIN log' = DOMAIN log
      /\ \A j \in DOMAIN log : log'[j].back = IF j = i THEN back ELSE log[j].back
  BY <1>1, <1>2 DEF Call
<1>4. log[i].tool \in Tool /\ i - 1 \in Nat
  BY <1>2 DEF Call
<1>5. PICK outcome \in {"failed", "success"} :
            outcome = OutcomeOfResultPart(back) /\ (outcome = "success" <=> back = "returned")
  BY DEF OutcomeOfResultPart
<1>6. PICK e \in Event : /\ e = ToolCallFinished(i - 1, log[i].tool, outcome)
                         /\ e.kind = "tool_call_finished" /\ e.call_id = i - 1
                         /\ e.tool = log[i].tool /\ e.outcome = outcome
  <2>1. outcome \in Outcome
    BY DEF Outcome
  <2> QED
    BY <1>4, <2>1, EventsAre, KindsAre
<1>7. /\ Shows(e) /\ path \in Run
      /\ UNCHANGED <<path, request, plan, ended, fell_back, said>>
  BY <1>5, <1>6 DEF ToolReturns, asked
<1>8. executions \in [Tool -> Nat]
  BY DEF Inv, Noted
<1>9. ASSUME NEW t \in Tool
      PROVE  /\ executions'[t] \in Nat
             /\ executions'[t] = executions[t] + (IF back # "refused" /\ log[i].tool = t THEN 1 ELSE 0)
  BY <1>4, <1>8 DEF ToolReturns
<1>10. /\ Sound' /\ Streamed' /\ Ending' /\ Truthful'
       /\ path = "live" =>
            \A kind :
                /\ Of(events', kind) # {} <=> (Of(events, kind) # {} \/ e.kind = kind)
                /\ Ids(events', kind) = IF e.kind = kind THEN Ids(events, kind) \cup {e.call_id}
                                        ELSE Ids(events, kind)
  <2>1. ASSUME NEW t \in Tool
        PROVE  executions'[t] >= executions[t] +
                    (IF e.kind = "tool_call_finished" /\ e.tool = t /\ e.outcome = "success"
                     THEN 1 ELSE 0)
    BY <1>5, <1>6, <1>8, <1>9
  <2> QED
    BY <1>6, <1>7, <1>9, <2>1, SaysMore
<1>11. Followed'
  <2>1. SUFFICES ASSUME path = "live" PROVE Followed'
    BY <1>7 DEF Followed
  <2>2. {j \in DOMAIN log' : log'[j].back # "running"} =
            {j \in DOMAIN log : log[j].back # "running"} \cup {i}
    BY <1>3
  <2>3. {j - 1 : j \in {k \in DOMAIN log' : log'[k].back # "running"}} =
            {j - 1 : j \in {k \in DOMAIN log : log[k].back # "running"}} \cup {i - 1}
    BY <2>2
  <2>4. /\ Ids(events', "tool_call_started") = Ids(events, "tool_call_started")
        /\ Ids(events', "tool_call_finished") = Ids(events, "tool_call_finished") \cup {i - 1}
        /\ Of(events', "text_delta") # {} <=> Of(events, "text_delta") # {}
    BY <1>6, <1>10, <2>1
  <2> QED
    BY <1>3, <1>7, <2>1, <2>3, <2>4 DEF Told, Followed
<1> QED
  BY <1>10, <1>11 DEF Told

LEMMA SpeaksTold ==
    ASSUME Inv, Books, Told, ModelSpeaks
    PROVE  Told'
<1>1. PICK e \in Event : e = TextDelta /\ e.kind = "text_delta"
  BY EventsAre, KindsAre
<1>2. /\ Shows(e) /\ path \in Run /\ said' = said \cup {"text"}
      /\ UNCHANGED <<path, request, plan, ended, fell_back, executions, log>>
  BY <1>1 DEF ModelSpeaks, asked, history
<1>3. \A t \in Tool : executions'[t] \in Nat
  BY <1>2, ExecutionsKept
<1>4. /\ Sound' /\ Streamed' /\ Ending' /\ Truthful'
      /\ path = "live" =>
            \A kind :
                /\ Of(events', kind) # {} <=> (Of(events, kind) # {} \/ e.kind = kind)
                /\ Ids(events', kind) = IF e.kind = kind THEN Ids(events, kind) \cup {e.call_id}
                                        ELSE Ids(events, kind)
  <2>1. \A t \in Tool :
            executions'[t] >= executions[t] +
                (IF e.kind = "tool_call_finished" /\ e.tool = t /\ e.outcome = "success"
                 THEN 1 ELSE 0)
    BY <1>1, <1>2 DEF Inv, Noted
  <2> QED
    BY <1>1, <1>2, <1>3, <2>1, SaysMore
<1>5. Followed'
  BY <1>1, <1>2, <1>4 DEF Told, Followed
<1> QED
  BY <1>4, <1>5 DEF Told

\* A run that is given up, and run again or from the start.
LEMMA RunsAgainTold ==
    ASSUME Inv, Books, Told, path \in Run, NEW kind, Dies(kind),
           NEW to \in {"build", "measured", "plain"}, Runs(to),
           UNCHANGED <<request, events, plan, ended>>,
           \/ path = "live" /\ to = "build" /\ fell_back'
           \/ path # "live" /\ to # "build" /\ fell_back' = fell_back
    PROVE  Told'
<1>1. path' = to /\ ended = "not"
  BY DEF Runs, Books, Routed
<1>2. Sound'
  BY DiesMore, SoundKept DEF Told
<1>3. Streamed'
  BY <1>1 DEF Told, Streamed
<1>4. Followed' /\ Ending' /\ Truthful'
  BY <1>1 DEF Followed, Ending, Truthful
<1> QED
  BY <1>2, <1>3, <1>4 DEF Told

LEMMA FailsTold ==
    ASSUME Inv, Books, Told,
           \/ \E kind \in {"empty", "other"} : LiveFails(kind)
           \/ MeasuredFails \/ CallMeetsEmpty \/ PlainFails
    PROVE  Told'
<1>0. plan = <<>>
  BY DEF Inv, Where, LiveFails, MeasuredFails, CallMeetsEmpty, PlainFails
<1>1. CASE \E kind \in {"empty", "other"} : LiveFails(kind)
  <2>1. PICK kind \in {"empty", "other"} : LiveFails(kind)
    BY <1>1
  <2>2. /\ path = "live" /\ Dies(kind) /\ Runs("build") /\ fell_back'
        /\ UNCHANGED <<request, events, plan, ended>>
    BY <2>1 DEF LiveFails, asked
  <2> QED
    BY <2>2, RunsAgainTold
<1>2. CASE MeasuredFails
  BY <1>2, RunsAgainTold DEF MeasuredFails, asked
<1>3. CASE CallMeetsEmpty
  <2>1. CASE MayRetry
    BY <1>3, <2>1, RunsAgainTold DEF CallMeetsEmpty, asked, FirstPath
  <2>2. CASE ~ MayRetry
    BY <1>0, <1>3, <2>2, DiesMore, EndsTold DEF CallMeetsEmpty, Raises, asked
  <2> QED
    BY <2>1, <2>2
<1>4. CASE PlainFails
  BY <1>0, <1>4, DiesMore, EndsTold DEF PlainFails, Raises, asked
<1> QED
  BY <1>1, <1>2, <1>3, <1>4

\* A run answers: what is told from now on is an end, and the text there is
\* when the live run broke.
LEMMA RunEndsTold ==
    ASSUME Inv, Books, Told, path \in Run, NEW res, NEW telling, Answer(res, telling),
           UNCHANGED <<request, events, fell_back, executions>>,
           \/ telling = <<>> /\ request.mode = "blocking"
           \/ /\ request.mode = "native" /\ fell_back
              /\ telling = Carried(res, "text", TextDelta) \o <<TurnFinished>>
           \/ /\ request.mode = "native" /\ path = "live" /\ Settled /\ res.said = said
              /\ telling = <<TurnFinished>>
    PROVE  Told'
<1>0. /\ plan = <<>> /\ events \in Seq(Event) /\ ended = "not" /\ result' = res /\ plan' = telling
      /\ Of(events, "turn_finished") = {}
  BY DEF Inv, Where, Told, Sound, Books, Routed, Answer, Streamed
<1>1. events \o <<>> = events
  BY <1>0, ConcatEmptySeq
<1>2. CASE telling = <<>> /\ request.mode = "blocking"
  <2>1. path' = "idle"
    BY <1>2 DEF Answer, Leaves
  <2>2. events = <<>>
    BY <1>2 DEF Told, Streamed
  <2>3. Sound'
    <3>1. plan' = plan
      BY <1>0, <1>2
    <3> QED
      BY <3>1, ExecutionsKept, SoundKept DEF Told
  <2> QED
    BY <1>2, <2>1, <2>2, <2>3 DEF Told, Streamed, Followed, Ending, Truthful
<1>3. CASE telling # <<>> /\ request.mode = "native"
  <2>1. path' = "telling" /\ ended' = ended
    BY <1>3 DEF Answer, Leaves
  <2>2. \/ /\ fell_back /\ telling = Carried(res, "text", TextDelta) \o <<TurnFinished>>
        \/ /\ path = "live" /\ Settled /\ res.said = said /\ telling = <<TurnFinished>>
    BY <1>3
  <2>3. /\ telling \in Seq(Event)
        /\ \A k \in DOMAIN telling : telling[k].kind \in {"text_delta", "turn_finished"}
        /\ Of(telling, "turn_finished") = {Len(telling)}
    BY <2>2, EndIs
  <2>4. /\ Len(events \o telling) = Len(events) + Len(telling)
        /\ \A kind : Of(events \o telling, kind) =
                        Of(events, kind) \cup {Len(events) + k : k \in Of(telling, kind)}
    BY <1>0, <2>3, OfBoth
  <2>5. Sound'
    <3>1. ASSUME NEW t \in Tool
          PROVE  Cardinality(Succeeded(events \o telling, t)) <= executions[t]
      <4>1. Succeeded(events \o telling, t) = Succeeded(events, t)
        BY <1>0, <2>3, NothingReturns
      <4>2. Cardinality(Succeeded(events \o <<>>, t)) <= executions[t]
        BY <1>0 DEF Told, Sound
      <4> QED
        BY <1>1, <4>1, <4>2
    <3> QED
      BY <1>0, <2>3, <3>1 DEF Sound
  <2>6. Streamed'
    BY <1>3, <2>1 DEF Told, Streamed
  <2>7. Followed'
    BY <2>1 DEF Followed
  <2>8. Ending'
    <3>1. Of(events \o telling, "turn_finished") = {Len(events \o telling)}
      BY <1>0, <2>3, <2>4
    <3>2. fell_back \/ Ids(events, "tool_call_started") = Ids(events, "tool_call_finished")
      <4>1. CASE path = "live" /\ Settled
        <5>1. {j \in DOMAIN log : log[j].back # "running"} = DOMAIN log
          BY <4>1 DEF Settled
        <5> QED
          BY <4>1, <5>1 DEF Told, Followed
      <4> QED
        BY <2>2, <4>1
    <3> QED
      BY <1>0, <2>3, <3>1, <3>2 DEF Ending
  <2>9. Truthful'
    <3>1. /\ "text" \in res.said => Of(events \o telling, "text_delta") # {}
          /\ Of(events \o telling, "text_delta") # {} /\ ~ fell_back => "text" \in res.said
      <4>1. CASE fell_back /\ telling = Carried(res, "text", TextDelta) \o <<TurnFinished>>
        <5>1. Of(telling, "text_delta") # {} <=> "text" \in res.said
          BY <4>1, EndIs
        <5>2. Of(events \o telling, "text_delta") =
                  Of(events, "text_delta") \cup {Len(events) + k : k \in Of(telling, "text_delta")}
          BY <2>4
        <5>3. fell_back
          BY <4>1
        <5>4. ASSUME Of(telling, "text_delta") # {}
              PROVE  Of(events \o telling, "text_delta") # {}
          BY <5>2, <5>4, Zenon
        <5> QED
          BY <5>1, <5>3, <5>4, Zenon
      <4>2. CASE path = "live" /\ res.said = said /\ telling = <<TurnFinished>>
        <5>1. Of(telling, "text_delta") = {}
          BY <4>2, EndIs
        <5>2. Of(events, "text_delta") # {} <=> "text" \in said
          BY <4>2 DEF Told, Followed
        <5> QED
          BY <2>4, <4>2, <5>1, <5>2
      <4>3. \/ fell_back /\ telling = Carried(res, "text", TextDelta) \o <<TurnFinished>>
            \/ path = "live" /\ res.said = said /\ telling = <<TurnFinished>>
        BY <2>2
      <4> QED
        BY <4>1, <4>2, <4>3
    <3> QED
      BY <1>0, <1>3, <2>1, <3>1 DEF Truthful
  <2> QED
    BY <2>5, <2>6, <2>7, <2>8, <2>9 DEF Told
<1>4. <<TurnFinished>> # <<>> /\ Carried(res, "text", TextDelta) \o <<TurnFinished>> # <<>>
  BY EndIs
<1> QED
  BY <1>2, <1>3, <1>4

LEMMA RunAnswersTold ==
    ASSUME Inv, Books, Told, RunAnswers \/ LiveAnswers
    PROVE  Told'
<1>1. CASE RunAnswers
  <2>1. PICK res : res = TurnResult(said, ToolCallsOf)
    OBVIOUS
  <2>2. PICK telling : telling = IF request.mode = "native"
                                 THEN Carried(res, "text", TextDelta) \o <<TurnFinished>> ELSE <<>>
    OBVIOUS
  <2>3. Answer(res, telling) /\ path \in {"measured", "plain"}
        /\ UNCHANGED <<request, events, fell_back, executions>>
    BY <1>1, <2>1, <2>2 DEF RunAnswers, asked, history
  <2>4. request.mode \in {"blocking", "native"} /\ (request.mode = "native" => fell_back)
    BY <2>3 DEF Books, Routed, Told, Streamed
  <2> QED
    BY <2>2, <2>3, <2>4, RunEndsTold
<1>2. CASE LiveAnswers
  <2>1. PICK res : res = TurnResult(said, <<>>)
    OBVIOUS
  <2>5. res.said = said
    BY <2>1 DEF TurnResult
  <2>2. PICK telling : telling = <<TurnFinished>>
    OBVIOUS
  <2>3. Answer(res, telling) /\ path = "live" /\ Settled
        /\ UNCHANGED <<request, events, fell_back, executions>>
    BY <1>2, <2>1, <2>2 DEF LiveAnswers, asked, history
  <2>4. request.mode = "native"
    BY <2>3 DEF Books, Routed
  <2> QED
    BY <2>2, <2>3, <2>4, <2>5, RunEndsTold
<1> QED
  BY <1>1, <1>2

LEMMA FakeAnswersTold ==
    ASSUME Inv, Books, Told, Books', FakeAnswers
    PROVE  Told'
<1>0. PICK res : res = TurnResult(said, log)
  OBVIOUS
<1>1. res = TurnResult(said, log) /\ res.tool_calls = log /\ res.said = said
  BY <1>0 DEF TurnResult
<1>2. PICK telling : telling = IF request.mode = "reconstructed" THEN Reconstructed(res) ELSE <<>>
  OBVIOUS
<1>3. Answer(res, telling) /\ path = "script"
      /\ UNCHANGED <<request, events, fell_back, executions, untold>>
  BY <1>1, <1>2 DEF FakeAnswers, asked, history
<1>4. /\ events = <<>> /\ plan = <<>> /\ plan' = telling /\ result' = res
      /\ request.mode \in {"fake", "reconstructed"} /\ log \in Seq(FakeRecord)
  BY <1>3 DEF Answer, Told, Streamed, Books, Routed, Inv, Where
<1>5. CASE request.mode = "fake"
  <2>1. path' = "idle" /\ plan' = plan
    BY <1>2, <1>3, <1>4, <1>5 DEF Answer, Leaves
  <2>2. Sound'
    BY <1>3, <2>1, ExecutionsKept, SoundKept DEF Told
  <2> QED
    BY <1>3, <1>4, <1>5, <2>1, <2>2 DEF Told, Streamed, Followed, Ending, Truthful
<1>6. CASE request.mode = "reconstructed"
  <2>1. telling = Reconstructed(res) /\ Laid(telling, res)
    BY <1>1, <1>2, <1>4, <1>6, ReconstructedIs
  <2>2. /\ telling \in Seq(Event) /\ telling # <<>>
        /\ Of(telling, "turn_finished") = {Len(telling)}
        /\ Of(telling, "text_delta") # {} <=> "text" \in res.said
    BY <2>1, LaidKinds
  <2>3. path' = "telling" /\ ended' = ended
    BY <1>3, <2>2 DEF Answer, Leaves
  <2>4. events' \o plan' = telling /\ events' \in Seq(Event)
    BY <1>3, <1>4, <2>2, NothingSent, ConcatEmptySeq
  <2>5. Sound'
    <3>1. \A i \in DOMAIN res.tool_calls :
                res.tool_calls[i].executed <=> res.tool_calls[i].outcome # "denied"
      BY <1>1, <1>3 DEF Books, Accounted
    <3>2. ASSUME NEW t \in Tool
          PROVE  Cardinality(Succeeded(telling, t)) <= executions'[t]
      <4>1. /\ Cardinality(Succeeded(telling, t)) \in Nat /\ Executed(t)' \in Nat
            /\ Cardinality(Succeeded(telling, t)) <= Executed(t)'
        BY <1>1, <1>4, <2>1, <3>1, LaidSuccesses DEF Executed
      <4>2. res.is = "result"
        BY <1>1 DEF TurnResult
      <4>3. Executed(t)' <= executions'[t]
        BY <1>4, <4>2 DEF Books, Reported, RecordsAreTrue
      <4>4. executions'[t] \in Nat
        BY <1>3 DEF Inv, Noted
      <4> QED
        BY <4>1, <4>3, <4>4
    <3> QED
      BY <1>4, <2>2, <2>4, <3>2 DEF Sound
  <2>6. Streamed' /\ Followed'
    BY <1>3, <1>4, <1>6, <2>3 DEF Streamed, Followed
  <2>7. Ending'
    BY <1>3, <1>6, <2>2, <2>4 DEF Ending
  <2>8. Truthful'
    BY <1>4, <2>1, <2>2, <2>4 DEF Truthful
  <2> QED
    BY <2>5, <2>6, <2>7, <2>8 DEF Told
<1> QED
  BY <1>4, <1>5, <1>6

LEMMA FakeTold ==
    ASSUME Inv, Books, Told,
           \/ FakeIterates
           \/ \E t \in Tool, outcome \in Outcome : FakeCalls(t, outcome)
           \/ \E what \in {"text", "artifact"} : FakeGives(what)
    PROVE  Told'
<1>1. /\ path = "script" /\ plan = <<>> /\ ended = "not"
      /\ UNCHANGED <<request, events, plan, fell_back>>
  BY DEF FakeIterates, FakeCalls, FakeGives, asked, Inv, Where, Books, Routed
<1>2. executions \in [Tool -> Nat]
  BY DEF Inv, Noted
<1>3. \A t \in Tool : executions'[t] >= executions[t] /\ executions'[t] \in Nat
  <2>1. CASE UNCHANGED executions
    BY <2>1, ExecutionsKept
  <2>2. ASSUME NEW t \in Tool, NEW outcome \in Outcome, FakeCalls(t, outcome)
        PROVE  \A u \in Tool : executions'[u] >= executions[u] /\ executions'[u] \in Nat
    BY <1>2, <2>2 DEF FakeCalls
  <2> QED
    BY <2>1, <2>2 DEF FakeIterates, FakeGives, history
<1>4. CASE Raises
  BY <1>1, <1>3, <1>4, EndsTold DEF Raises
<1>5. CASE UNCHANGED <<path, ended>>
  <2>1. Sound'
    BY <1>1, <1>3, SoundKept DEF Told
  <2> QED
    BY <1>1, <1>5, <2>1 DEF Told, Streamed, Followed, Ending, Truthful
<1> QED
  BY <1>4, <1>5 DEF FakeIterates, FakeCalls, FakeGives

LEMMA YieldTold ==
    ASSUME Inv, Books, Told, Yield
    PROVE  Told'
<1>1. /\ path = "telling" /\ plan # <<>> /\ events \in Seq(Event) /\ plan \in Seq(Event)
      /\ events' = Append(events, Head(plan)) /\ plan' = Tail(plan)
      /\ UNCHANGED <<request, result, fell_back, executions>>
      /\ path' \in {"idle", "telling"}
  BY DEF Yield, Inv, Where, Told, Sound, asked, history
<1>2. events' \in Seq(Event) /\ plan' \in Seq(Event) /\ events' \o plan' = events \o plan
  BY <1>1, YieldedOrPlanned
<1>3. Head(plan) \in Event
  BY <1>1, HeadTailProperties
<1>4. /\ events' # <<>>
      /\ \A kind : Ids(events', kind) = IF Head(plan).kind = kind
                                        THEN Ids(events, kind) \cup {Head(plan).call_id}
                                        ELSE Ids(events, kind)
  BY <1>1, <1>3, OneMore
<1>5. Sound'
  BY <1>1, <1>2 DEF Told, Sound
<1>6. Streamed' /\ Followed'
  <2>1. request.mode \in {"native", "reconstructed"}
    BY <1>1 DEF Books, Routed
  <2> QED
    BY <1>1, <1>4, <2>1 DEF Streamed, Followed
<1>7. Ending'
  <2>1. Of(events \o plan, "turn_finished") = {Len(events \o plan)}
    BY <1>1 DEF Told, Ending
  <2>2. ASSUME request.mode = "native"
        PROVE  /\ \A k \in DOMAIN plan' : plan'[k].kind \in {"text_delta", "turn_finished"}
               /\ \/ fell_back
                  \/ Ids(events', "tool_call_started") = Ids(events', "tool_call_finished")
    <3>1. /\ \A k \in DOMAIN plan : plan[k].kind \in {"text_delta", "turn_finished"}
          /\ fell_back \/ Ids(events, "tool_call_started") = Ids(events, "tool_call_finished")
      BY <1>1, <2>2 DEF Told, Ending
    <3>2. /\ Head(plan) = plan[1] /\ 1 \in DOMAIN plan
          /\ \A k \in DOMAIN plan' : k + 1 \in DOMAIN plan /\ plan'[k] = plan[k + 1]
      BY <1>1
    <3>3. Head(plan).kind \in {"text_delta", "turn_finished"}
      BY <3>1, <3>2
    <3> QED
      BY <1>4, <3>1, <3>2, <3>3
  <2> QED
    BY <1>1, <1>2, <2>1, <2>2 DEF Ending
<1>8. Truthful'
  BY <1>1, <1>2 DEF Told, Truthful
<1> QED
  BY <1>5, <1>6, <1>7, <1>8 DEF Told

LEMMA InitTold == Init => Told
<1> SUFFICES ASSUME Init PROVE Told
  OBVIOUS
<1>1. <<>> \o <<>> = <<>>
  BY NothingSent, ConcatEmptySeq
<1>2. Sound
  BY <1>1, NothingSent DEF Init, Sound
<1> QED
  BY <1>2 DEF Init, Told, Streamed, Followed, Ending, Truthful

LEMMA StepTold == Inv /\ Books /\ Books' /\ Told /\ [Next]_vars => Told'
<1> SUFFICES ASSUME Inv, Books, Books', Told, [Next]_vars PROVE Told'
  OBVIOUS
<1>1. CASE UNCHANGED vars
  BY <1>1 DEF Told, Sound, Streamed, Followed, Ending, Truthful, vars, asked, locals, history
<1>2. CASE \E mode \in Mode, declared \in Declared : Begin(mode, declared)
  BY <1>2, BeginTold
<1>3. CASE Abandon
  BY <1>3, ExecutionsKept, EndsTold DEF Abandon, asked, history
<1>4. CASE Proceed
  <2>1. CASE BuildAgent
    BY <2>1, BuildTold
  <2>2. CASE BuildRefused
    <3>1. plan' = <<>>
      BY <2>2 DEF BuildRefused, Inv, Where
    <3> QED
      BY <2>2, <3>1, ExecutionsKept, EndsTold DEF BuildRefused, Raises, asked, history
  <2>3. CASE \/ \E t \in Tool : ModelCalls(t)
             \/ \E i \in DOMAIN log, back \in {"returned", "retry", "refused"} :
                    ToolReturns(i, back)
    BY <2>3, CallsTold, ReturnTold
  <2>4. CASE ModelSpeaks
    BY <2>4, SpeaksTold
  <2>5. CASE RunAnswers \/ LiveAnswers \/ FakeAnswers
    BY <2>5, RunAnswersTold, FakeAnswersTold
  <2>6. CASE \/ \E kind \in {"empty", "other"} : LiveFails(kind)
             \/ MeasuredFails \/ CallMeetsEmpty \/ PlainFails
    BY <2>6, FailsTold
  <2>7. CASE \/ FakeIterates
             \/ \E t \in Tool, outcome \in Outcome : FakeCalls(t, outcome)
             \/ \E what \in {"text", "artifact"} : FakeGives(what)
    BY <2>7, FakeTold
  <2>8. CASE Yield
    BY <2>8, YieldTold
  <2> QED
    BY <1>4, <2>1, <2>2, <2>3, <2>4, <2>5, <2>6, <2>7, <2>8 DEF Proceed
<1> QED
  BY <1>1, <1>2, <1>3, <1>4 DEF Next

LEMMA Reporting == Spec => [](Inv /\ Books /\ Told)
<1>1. Init => Inv /\ Books /\ Told
  BY InitInv, InitBooks, InitTold
<1>2. Inv /\ Books /\ Told /\ [Next]_vars => (Inv /\ Books /\ Told)'
  BY StepInv, StepBooks, StepTold
<1> QED
  BY <1>1, <1>2, PTL DEF Spec

\* No stream, followed or reconstructed, whole or cut off, shows more
\* successes of a tool than it had executions.
THEOREM SuccessesWereExecutions == Spec => []ShownAsDone
<1>1. ASSUME Inv, Told PROVE ShownAsDone
  <2>1. events \in Seq(Event) /\ plan \in Seq(Event)
    BY <1>1 DEF Told, Sound
  <2>2. ASSUME NEW t \in Tool
        PROVE  Cardinality(Succeeded(events, t)) <= executions[t]
    <3>1. /\ Cardinality(Succeeded(events \o plan, t)) \in Nat
          /\ Cardinality(Succeeded(events, t)) \in Nat
          /\ Cardinality(Succeeded(events, t)) <= Cardinality(Succeeded(events \o plan, t))
      BY <2>1, YieldedIsLess
    <3>2. Cardinality(Succeeded(events \o plan, t)) <= executions[t] /\ executions[t] \in Nat
      BY <1>1 DEF Told, Sound, Inv, Noted
    <3> QED
      BY <3>1, <3>2
  <2>3. ASSUME NEW t
        PROVE  ShownSuccesses(t) = Succeeded(events, t)
    BY DEF ShownSuccesses, Sent, Succeeded
  <2> QED
    BY <2>2, <2>3 DEF ShownAsDone
<1> QED
  BY <1>1, Reporting, PTL

\* The text, the calls and the artifact of a result that came with a stream
\* are in the stream, and the text of an unbroken stream is in the result.
THEOREM StreamsTellTheirResult == Spec => []StreamTellsResult
<1>1. ASSUME Inv, Books, Told PROVE StreamTellsResult
  <2> SUFFICES ASSUME ended = "result", events # <<>> PROVE
            /\ "text" \in result.said => Sent("text_delta") # {}
            /\ Sent("text_delta") # {} /\ ~ fell_back => "text" \in result.said
            /\ request.mode = "reconstructed" =>
                /\ Cardinality(Sent("tool_call_started")) = Len(result.tool_calls)
                /\ Sent("artifact_produced") # {} <=> "artifact" \in result.said
    BY DEF StreamTellsResult
  <2>1. path = "idle" /\ plan = <<>>
    BY <1>1 DEF Books, Routed, Inv, Where
  <2>2. events \o plan = events
    BY <1>1, <2>1, ConcatEmptySeq DEF Told, Sound
  <2>3. \A kind : Sent(kind) = Of(events, kind)
    BY DEF Sent, Of
  <2>4. request.mode = "reconstructed" => Laid(events, result)
    BY <1>1, <2>2 DEF Told, Truthful
  <2> QED
    BY <1>1, <2>2, <2>3, <2>4, LaidKinds, LaidStarts DEF Told, Truthful
<1> QED
  BY <1>1, Reporting, PTL

-----------------------------------------------------------------------------
(* What a turn reports: the records of its result, or its events. *)

\* A turn that fell back lost its live run; a native one that lost nothing has
\* shown a success for each execution.
Matched ==
    /\ fell_back => untold
    /\ request.mode = "native" /\ ~ untold =>
        \A t \in Tool : Cardinality(Succeeded(events, t)) = executions[t]

LEMMA InitMatched == Init => Matched
BY DEF Init, Matched

LEMMA MatchedKept ==
    ASSUME Matched, UNCHANGED <<request, events, executions, untold, fell_back>>
    PROVE  Matched'
BY DEF Matched

LEMMA BeginMatched ==
    ASSUME Inv, NEW mode \in Mode, NEW declared \in Declared, Begin(mode, declared)
    PROVE  Matched'
<1>1. PICK e \in Event : e = TurnStarted(TRUE) /\ e.kind = "turn_started"
  BY EventsAre, KindsAre, Zenon
<1>2. /\ events' = IF mode = "native" THEN <<e>> ELSE <<>>
      /\ executions' = [t \in Tool |-> 0] /\ fell_back' = FALSE
  BY <1>1 DEF Begin
<1>3. \A t : Cardinality(Succeeded(events', t)) = 0
  BY <1>1, <1>2, OnlyStarted, NothingSent
<1> QED
  BY <1>2, <1>3 DEF Matched

\* A run that is native, whole and unread cannot be any but a live one.
LEMMA OnlyLive ==
    ASSUME Books, Told, Matched, path \in Run, request.mode = "native", ~ untold
    PROVE  path = "live"
BY DEF Books, Routed, Told, Streamed, Matched

LEMMA SaysMatched ==
    ASSUME Inv, Books, Told, Matched,
           (\E t \in Tool : ModelCalls(t)) \/ ModelSpeaks
    PROVE  Matched'
<1>1. /\ UNCHANGED <<request, executions, untold, fell_back>>
      /\ path \in Run /\ log \in Seq(Call) /\ events \in Seq(Event)
  BY DEF ModelCalls, ModelSpeaks, asked, history, Inv, Where, Told, Sound
<1>2. PICK e \in Event : e.kind # "tool_call_finished" /\ Shows(e)
  <2>1. ASSUME NEW tool \in Tool, ModelCalls(tool)
        PROVE  \E e \in Event : e.kind # "tool_call_finished" /\ Shows(e)
    <3>1. Len(log) \in Nat
      BY <1>1, LenProperties
    <3>2. PICK e \in Event : e = ToolCallStarted(Len(log), tool) /\ e.kind = "tool_call_started"
      BY <3>1, EventsAre, KindsAre
    <3> QED
      BY <2>1, <3>2 DEF ModelCalls
  <2>2. CASE ModelSpeaks
    <3>1. PICK e \in Event : e = TextDelta /\ e.kind = "text_delta"
      BY EventsAre, KindsAre, Zenon
    <3> QED
      BY <2>2, <3>1 DEF ModelSpeaks
  <2> QED
    BY <2>1, <2>2
<1>3. \A t : Succeeded(events', t) = Succeeded(events, t)
  <2>1. CASE path = "live"
    BY <1>1, <1>2, <2>1, OneMore DEF Shows
  <2>2. CASE path # "live"
    BY <1>2, <2>2 DEF Shows
  <2> QED
    BY <2>1, <2>2
<1> QED
  BY <1>1, <1>3 DEF Matched

LEMMA ReturnMatched ==
    ASSUME Inv, Books, Told, Matched,
           NEW i \in DOMAIN log, NEW back \in {"returned", "retry", "refused"}, ToolReturns(i, back)
    PROVE  Matched'
<1>1. /\ UNCHANGED <<request, fell_back>> /\ path \in Run
      /\ log \in Seq(Call) /\ events \in Seq(Event) /\ executions \in [Tool -> Nat]
  BY DEF ToolReturns, asked, Inv, Where, Noted, Told, Sound
<1>2. fell_back' => untold'
  BY DEF ToolReturns, Matched
<1>3. SUFFICES ASSUME request.mode = "native", ~ untold', NEW t \in Tool
               PROVE  Cardinality(Succeeded(events', t)) = executions'[t]
  BY <1>1, <1>2 DEF Matched
<1>4. ~ untold /\ back # "retry"
  BY <1>3, Zenon DEF ToolReturns
<1>5. path = "live" /\ Cardinality(Succeeded(events, t)) = executions[t]
  BY <1>1, <1>3, <1>4, OnlyLive DEF Matched
<1>6. log[i] \in Call /\ DOMAIN log = 1 .. Len(log) /\ Len(log) \in Nat
  BY <1>1, LenProperties
<1>7. log[i].tool \in Tool /\ i - 1 \in Nat
  BY <1>6 DEF Call
<1>8. PICK outcome \in Outcome :
            outcome = OutcomeOfResultPart(back) /\ (outcome = "success" <=> back = "returned")
  BY DEF OutcomeOfResultPart, Outcome
<1>9. PICK e \in Event : /\ e = ToolCallFinished(i - 1, log[i].tool, outcome)
                         /\ e.kind = "tool_call_finished"
                         /\ e.tool = log[i].tool /\ e.outcome = outcome
  BY <1>7, EventsAre, KindsAre
<1>10. events' = Append(events, e)
  BY <1>5, <1>8, <1>9 DEF ToolReturns, Shows
<1>11. Succeeded(events', t) = IF back = "returned" /\ log[i].tool = t
                               THEN Succeeded(events, t) \cup {Len(events) + 1}
                               ELSE Succeeded(events, t)
  <2>1. Succeeded(Append(events, e), t) =
            IF e.kind = "tool_call_finished" /\ e.tool = t /\ e.outcome = "success"
            THEN Succeeded(events, t) \cup {Len(events) + 1} ELSE Succeeded(events, t)
    BY <1>1, OneMore
  <2> HIDE DEF Succeeded
  <2> QED
    BY <1>8, <1>9, <1>10, <2>1
<1>12. /\ IsFiniteSet(Succeeded(events, t)) /\ Cardinality(Succeeded(events, t)) \in Nat
       /\ Len(events) + 1 \notin Succeeded(events, t)
  <2>1. Succeeded(events, t) \in SUBSET DOMAIN events
    BY DEF Succeeded
  <2>2. Len(events) + 1 \notin DOMAIN events
    BY <1>1
  <2> QED
    BY <1>1, <2>1, <2>2, PositionsAreFinite
<1>13. Cardinality(Succeeded(events, t) \cup {Len(events) + 1}) = Cardinality(Succeeded(events, t)) + 1
  BY <1>12, FS_AddElement
<1>14. executions'[t] = executions[t] + (IF back = "returned" /\ log[i].tool = t THEN 1 ELSE 0)
  BY <1>1, <1>4, <1>7 DEF ToolReturns
<1> HIDE DEF Succeeded
<1> QED
  BY <1>5, <1>11, <1>12, <1>13, <1>14

\* A run that is given up is untold.
LEMMA FailsMatched ==
    ASSUME Inv,
           \/ \E kind \in {"empty", "other"} : LiveFails(kind)
           \/ MeasuredFails \/ CallMeetsEmpty \/ PlainFails
    PROVE  Matched'
<1>1. untold'
  BY DEF LiveFails, MeasuredFails, CallMeetsEmpty, PlainFails, Dies
<1> QED
  BY <1>1 DEF Matched

\* What is told after a native run is nothing of calls.
LEMMA YieldMatched ==
    ASSUME Inv, Books, Told, Matched, Yield
    PROVE  Matched'
<1>1. /\ path = "telling" /\ plan # <<>> /\ events \in Seq(Event) /\ plan \in Seq(Event)
      /\ events' = Append(events, Head(plan))
      /\ UNCHANGED <<request, executions, untold, fell_back>>
  BY DEF Yield, Inv, Where, Told, Sound, asked, history
<1>2. ASSUME request.mode = "native", NEW t
      PROVE  Succeeded(events', t) = Succeeded(events, t)
  <2>1. \A k \in DOMAIN plan : plan[k].kind \in {"text_delta", "turn_finished"}
    BY <1>1, <1>2 DEF Told, Ending
  <2>2. Head(plan) \in Event /\ Head(plan) = plan[1] /\ 1 \in DOMAIN plan
    BY <1>1
  <2>3. Head(plan).kind # "tool_call_finished"
    BY <2>1, <2>2
  <2> QED
    BY <1>1, <2>2, <2>3, OneMore
<1> QED
  BY <1>1, <1>2 DEF Matched

LEMMA StepMatched == Inv /\ Books /\ Told /\ Matched /\ [Next]_vars => Matched'
<1> SUFFICES ASSUME Inv, Books, Told, Matched, [Next]_vars PROVE Matched'
  OBVIOUS
<1>1. CASE UNCHANGED vars \/ Abandon \/ BuildAgent \/ BuildRefused
  BY <1>1, MatchedKept DEF vars, Abandon, BuildAgent, BuildRefused, asked, history
<1>2. CASE \E mode \in Mode, declared \in Declared : Begin(mode, declared)
  BY <1>2, BeginMatched
<1>3. CASE (\E t \in Tool : ModelCalls(t)) \/ ModelSpeaks
  BY <1>3, SaysMatched
<1>4. CASE \E i \in DOMAIN log, back \in {"returned", "retry", "refused"} : ToolReturns(i, back)
  BY <1>4, ReturnMatched
<1>5. CASE RunAnswers \/ LiveAnswers \/ FakeAnswers \/ FakeIterates
           \/ \E what \in {"text", "artifact"} : FakeGives(what)
  BY <1>5, MatchedKept DEF RunAnswers, LiveAnswers, FakeAnswers, FakeIterates, FakeGives, asked,
                           history
<1>6. CASE \/ \E kind \in {"empty", "other"} : LiveFails(kind)
           \/ MeasuredFails \/ CallMeetsEmpty \/ PlainFails
  BY <1>6, FailsMatched
<1>7. ASSUME NEW t \in Tool, NEW outcome \in Outcome, FakeCalls(t, outcome)
      PROVE  Matched'
  <2>1. request.mode # "native" /\ UNCHANGED <<request, fell_back, untold>>
    BY <1>7 DEF FakeCalls, Books, Routed, asked
  <2> QED
    BY <2>1 DEF Matched
<1>8. CASE Yield
  BY <1>8, YieldMatched
<1> QED
  BY <1>1, <1>2, <1>3, <1>4, <1>5, <1>6, <1>7, <1>8 DEF Next, Proceed

\* A record says executed only of a call that ran, on every path there is to a
\* result; the records of fake turns, and of blocking ones that lost nothing,
\* have every execution, and the events of a native turn that lost nothing
\* show every one, though its result has no records.
THEOREM ReportsAreTrue == Spec => []ReportIsTrue
<1>1. ASSUME Books, Matched PROVE ReportIsTrue
  <2>1. \A t : ShownSuccesses(t) = Succeeded(events, t)
    BY DEF ShownSuccesses, Sent, Succeeded
  <2>2. RecordsAreTrue
    BY <1>1 DEF Books, Reported
  <2> QED
    BY <1>1, <2>1, <2>2 DEF RecordsAreTrue, ReportIsTrue, Matched
<1>2. Init => Matched
  BY InitMatched
<1>3. Inv /\ Books /\ Told /\ Matched /\ [Next]_vars => Matched'
  BY StepMatched
<1> QED
  BY <1>1, <1>2, <1>3, Reporting, PTL DEF Spec

-----------------------------------------------------------------------------
(* The stream keeps the contract of its consumer. *)

Open == Opened \ Closed

LEMMA IdsShown ==
    /\ Opened = Ids(events, "tool_call_started") /\ Closed = Ids(events, "tool_call_finished")
    /\ Opened' = Ids(events', "tool_call_started") /\ Closed' = Ids(events', "tool_call_finished")
BY DEF Opened, Closed, Sent, Of, Ids

\* A stream that was not told its end is not at its end.
LEMMA NotFinished ==
    ASSUME events \in Seq(Event), Of(events, "turn_finished") = {}
    PROVE  Stage = IF events = <<>> THEN "quiet" ELSE "started"
<1>1. CASE events # <<>>
  <2>1. Len(events) \in DOMAIN events
    BY <1>1
  <2>2. events[Len(events)] # TurnFinished
    BY <2>1, KindsAre DEF Of
  <2> QED
    BY <1>1, <2>2 DEF Stage
<1> QED
  BY <1>1 DEF Stage

\* What one more event does to what the consumer sees.
LEMMA ShownMore ==
    ASSUME events \in Seq(Event), NEW e \in Event, events' = Append(events, e)
    PROVE  /\ Stage' = IF e.kind = "turn_finished" THEN "finished" ELSE "started"
           /\ Opened' = IF e.kind = "tool_call_started" THEN Opened \cup {e.call_id} ELSE Opened
           /\ Closed' = IF e.kind = "tool_call_finished" THEN Closed \cup {e.call_id} ELSE Closed
<1>1. /\ events' # <<>> /\ events'[Len(events')] = e
      /\ Ids(events', "tool_call_started") =
            IF e.kind = "tool_call_started"
            THEN Ids(events, "tool_call_started") \cup {e.call_id}
            ELSE Ids(events, "tool_call_started")
      /\ Ids(events', "tool_call_finished") =
            IF e.kind = "tool_call_finished"
            THEN Ids(events, "tool_call_finished") \cup {e.call_id}
            ELSE Ids(events, "tool_call_finished")
  BY OneMore
<1>2. e = TurnFinished <=> e.kind = "turn_finished"
  BY KindsAre
<1>3. Stage' = IF e.kind = "turn_finished" THEN "finished" ELSE "started"
  BY <1>1, <1>2 DEF Stage
<1> QED
  BY <1>1, <1>3, IdsShown

LEMMA Unseen ==
    ASSUME UNCHANGED <<events, fell_back>>
    PROVE  UNCHANGED Stream!vars
BY DEF Stream!vars, Stage, Opened, Closed, Sent

\* Each event that may come in a stream that has started, as its step.
LEMMA NextIsStep ==
    ASSUME events \in Seq(Event), Stage = "started", UNCHANGED fell_back,
           NEW e \in Event, events' = Append(events, e),
           \/ e.kind \in {"text_delta", "artifact_produced"}
           \/ e.kind = "tool_call_started" /\ ~ fell_back
                /\ e.call_id \notin Opened \cup Closed
           \/ e.kind = "tool_call_finished" /\ ~ fell_back /\ e.call_id \in Opened \ Closed
           \/ e.kind = "turn_finished" /\ (Opened \ Closed = {} \/ fell_back)
    PROVE  [Stream!Next]_Stream!vars
<1>1. CASE e.kind \in {"text_delta", "artifact_produced"}
  <2>1. Stage' = Stage /\ Opened' = Opened /\ Closed' = Closed
    BY <1>1, ShownMore
  <2> QED
    BY <2>1 DEF Stream!vars
<1>2. CASE e.kind = "tool_call_started" /\ ~ fell_back /\ e.call_id \notin Opened \cup Closed
  <2>1. Stage' = Stage /\ Opened' = Opened \cup {e.call_id} /\ Closed' = Closed
    BY <1>2, ShownMore
  <2>2. Stream!Call
    BY <1>2, <2>1 DEF Stream!Call
  <2> QED
    BY <2>2 DEF Stream!Next
<1>3. CASE e.kind = "tool_call_finished" /\ ~ fell_back /\ e.call_id \in Opened \ Closed
  <2>1. Stage' = Stage /\ Opened' = Opened /\ Closed' = Closed \cup {e.call_id}
    BY <1>3, ShownMore
  <2>2. Stream!Return
    BY <1>3, <2>1 DEF Stream!Return
  <2> QED
    BY <2>2 DEF Stream!Next
<1>4. CASE e.kind = "turn_finished" /\ (Opened \ Closed = {} \/ fell_back)
  <2>1. Stage' = "finished" /\ Opened' = Opened /\ Closed' = Closed
    BY <1>4, ShownMore
  <2>2. Stream!Finish
    BY <1>4, <2>1 DEF Stream!Finish
  <2> QED
    BY <2>2 DEF Stream!Next
<1> QED
  BY <1>1, <1>2, <1>3, <1>4

\* The calls in a stream, by number and by position.
CallsAt(W, n) ==
    \A i \in 1 .. n :
        /\ W[2 * i].kind = "tool_call_started" /\ W[2 * i].call_id = i - 1
        /\ W[2 * i + 1].kind = "tool_call_finished" /\ W[2 * i + 1].call_id = i - 1
KindsAt(W, n) ==
    \A k \in DOMAIN W :
        \/ k = 1 /\ W[k].kind = "turn_started"
        \/ \E i \in 1 .. n : k = 2 * i \/ k = 2 * i + 1
        \/ W[k].kind \in {"artifact_produced", "text_delta"}
        \/ k = Len(W) /\ W[k].kind = "turn_finished"

LEMMA LaidCall ==
    ASSUME NEW W, NEW res, Laid(W, res), NEW n \in Nat, n = Len(res.tool_calls)
    PROVE  CallsAt(W, n) /\ KindsAt(W, n)
<1>1. ASSUME NEW i \in 1 .. n
      PROVE  /\ W[2 * i].kind = "tool_call_started" /\ W[2 * i].call_id = i - 1
             /\ W[2 * i + 1].kind = "tool_call_finished" /\ W[2 * i + 1].call_id = i - 1
  <2>1. /\ W[2 * i] = ToolCallStarted(i - 1, res.tool_calls[i].tool)
        /\ W[2 * i + 1] = ToolCallFinished(i - 1, res.tool_calls[i].tool,
                                          res.tool_calls[i].outcome)
    BY <1>1 DEF Laid
  <2> QED
    BY <2>1, KindsAre
<1>2. ASSUME NEW k \in DOMAIN W
      PROVE  \/ k = 1 /\ W[k].kind = "turn_started"
             \/ \E i \in 1 .. n : k = 2 * i \/ k = 2 * i + 1
             \/ W[k].kind \in {"artifact_produced", "text_delta"}
             \/ k = Len(W) /\ W[k].kind = "turn_finished"
  BY <1>2, LaidPosition, KindsAre
<1>3. CallsAt(W, n)
  BY <1>1, Zenon DEF CallsAt
<1>4. KindsAt(W, n)
  BY <1>2 DEF KindsAt
<1> QED
  BY <1>3, <1>4

\* The calls a reconstructed stream has opened and closed when it has sent the
\* first part of what was laid out.
LEMMA LaidPrefix ==
    ASSUME NEW W, NEW n \in Nat, W \in Seq(Event), Len(W) \in Nat, CallsAt(W, n), KindsAt(W, n),
           NEW s \in Seq(Event), NEW p \in Seq(Event), Joins(W, s, p)
    PROVE  /\ Ids(s, "tool_call_started") = {i - 1 : i \in {j \in 1 .. n : 2 * j <= Len(s)}}
           /\ Ids(s, "tool_call_finished") = {i - 1 : i \in {j \in 1 .. n : 2 * j + 1 <= Len(s)}}
<1>1. DOMAIN W = 1 .. Len(W) /\ DOMAIN s = 1 .. Len(s) /\ Len(s) \in Nat
  BY LenProperties
<1>2. Len(s) <= Len(W) /\ \A k \in 1 .. Len(s) : W[k] = s[k]
  BY DEF Joins
<1>3. /\ DOMAIN W = 1 .. Len(W) /\ DOMAIN s = 1 .. Len(s) /\ Len(s) \in Nat
      /\ Len(s) <= Len(W)
      /\ \A k \in DOMAIN s : k \in DOMAIN W /\ W[k] = s[k]
  BY <1>1, <1>2
<1>4. ASSUME NEW i \in 1 .. n
      PROVE  /\ 2 * i <= Len(s) => /\ 2 * i \in DOMAIN s
                                   /\ s[2 * i].kind = "tool_call_started" /\ s[2 * i].call_id = i - 1
             /\ 2 * i + 1 <= Len(s) => /\ 2 * i + 1 \in DOMAIN s
                                       /\ s[2 * i + 1].kind = "tool_call_finished"
                                       /\ s[2 * i + 1].call_id = i - 1
  <2>1. /\ W[2 * i].kind = "tool_call_started" /\ W[2 * i].call_id = i - 1
        /\ W[2 * i + 1].kind = "tool_call_finished" /\ W[2 * i + 1].call_id = i - 1
    BY <1>4 DEF CallsAt
  <2>2. /\ 2 * i <= Len(s) => 2 * i \in DOMAIN s
        /\ 2 * i + 1 <= Len(s) => 2 * i + 1 \in DOMAIN s
    BY <1>3
  <2> QED
    BY <1>3, <2>1, <2>2
<1>5. ASSUME NEW k \in DOMAIN s
      PROVE  /\ s[k].kind = "tool_call_started" =>
                    \E i \in 1 .. n : k = 2 * i /\ s[k].call_id = i - 1
             /\ s[k].kind = "tool_call_finished" =>
                    \E i \in 1 .. n : k = 2 * i + 1 /\ s[k].call_id = i - 1
  <2>1. k \in DOMAIN W /\ W[k] = s[k]
    BY <1>3
  <2>2. CASE \E i \in 1 .. n : k = 2 * i \/ k = 2 * i + 1
    BY <2>1, <2>2 DEF CallsAt
  <2>3. CASE \/ W[k].kind = "turn_started"
             \/ W[k].kind \in {"artifact_produced", "text_delta"}
             \/ W[k].kind = "turn_finished"
    BY <2>1, <2>3
  <2> QED
    BY <2>1, <2>2, <2>3 DEF KindsAt
<1>6. Ids(s, "tool_call_started") = {i - 1 : i \in {j \in 1 .. n : 2 * j <= Len(s)}}
  <2>1. ASSUME NEW x \in Ids(s, "tool_call_started")
        PROVE  \E i \in {j \in 1 .. n : 2 * j <= Len(s)} : x = i - 1
    BY <1>3, <1>5 DEF Ids, Of
  <2>2. ASSUME NEW i \in {j \in 1 .. n : 2 * j <= Len(s)}
        PROVE  i - 1 \in Ids(s, "tool_call_started")
    <3>1. 2 * i \in Of(s, "tool_call_started") /\ s[2 * i].call_id = i - 1
      BY <1>4 DEF Of
    <3> QED
      BY <3>1, Zenon DEF Ids
  <2> QED
    BY <2>1, <2>2
<1>7. Ids(s, "tool_call_finished") = {i - 1 : i \in {j \in 1 .. n : 2 * j + 1 <= Len(s)}}
  <2>1. ASSUME NEW x \in Ids(s, "tool_call_finished")
        PROVE  \E i \in {j \in 1 .. n : 2 * j + 1 <= Len(s)} : x = i - 1
    BY <1>3, <1>5 DEF Ids, Of
  <2>2. ASSUME NEW i \in {j \in 1 .. n : 2 * j + 1 <= Len(s)}
        PROVE  i - 1 \in Ids(s, "tool_call_finished")
    <3>1. 2 * i + 1 \in Of(s, "tool_call_finished") /\ s[2 * i + 1].call_id = i - 1
      BY <1>4 DEF Of
    <3> QED
      BY <3>1, Zenon DEF Ids
  <2> QED
    BY <2>1, <2>2
<1> QED
  BY <1>6, <1>7

\* What the contract allows after s, of a stream that has not broken.
MayCome(s, e) ==
    \/ s = <<>> /\ e.kind = "turn_started"
    \/ /\ s # <<>>
       /\ \/ e.kind \in {"text_delta", "artifact_produced"}
          \/ /\ e.kind = "tool_call_started"
             /\ e.call_id \notin Ids(s, "tool_call_started")
             /\ e.call_id \notin Ids(s, "tool_call_finished")
          \/ /\ e.kind = "tool_call_finished"
             /\ e.call_id \in Ids(s, "tool_call_started")
             /\ e.call_id \notin Ids(s, "tool_call_finished")
          \/ /\ e.kind = "turn_finished"
             /\ Ids(s, "tool_call_started") = Ids(s, "tool_call_finished")

\* The event that is next in a reconstructed stream is one its contract allows.
LEMMA LaidNext ==
    ASSUME NEW W, NEW res, Laid(W, res), NEW s \in Seq(Event), NEW p \in Seq(Event),
           Joins(W, s, p), p # <<>>, NEW e, e = W[Len(s) + 1]
    PROVE  MayCome(s, e)
<1>1. PICK n \in Nat : n = Len(res.tool_calls)
  BY DEF Laid
<1>2. /\ W \in Seq(Event) /\ Len(W) \in Nat /\ Len(W) >= 2 * n + 2
      /\ CallsAt(W, n) /\ KindsAt(W, n)
  BY <1>1, LaidCall DEF Laid
<1>3. /\ Ids(s, "tool_call_started") = {i - 1 : i \in {j \in 1 .. n : 2 * j <= Len(s)}}
      /\ Ids(s, "tool_call_finished") = {i - 1 : i \in {j \in 1 .. n : 2 * j + 1 <= Len(s)}}
  BY <1>2, LaidPrefix
<1>4. Len(s) \in Nat /\ Len(p) \in Nat /\ Len(p) > 0 /\ (s = <<>> <=> Len(s) = 0)
  BY LenProperties
<1>5. Len(s) + 1 \in DOMAIN W
  <2>1. Len(W) = Len(s) + Len(p)
    BY DEF Joins
  <2> QED
    BY <1>2, <1>4, <2>1, LenProperties
<1>6. \/ Len(s) = 0 /\ e.kind = "turn_started"
      \/ \E i \in 1 .. n : Len(s) + 1 = 2 * i \/ Len(s) + 1 = 2 * i + 1
      \/ e.kind \in {"artifact_produced", "text_delta"}
      \/ Len(s) + 1 = Len(W) /\ e.kind = "turn_finished"
  BY <1>2, <1>4, <1>5 DEF KindsAt
<1>7. Len(s) = 0 => e.kind = "turn_started"
  <2>1. W[1].kind = "turn_started"
    <3>1. W[1] = TurnStarted(FALSE)
      BY Zenon DEF Laid
    <3> QED
      BY <3>1, KindsAre, Zenon
  <2> QED
    BY <2>1
<1>8. CASE \E i \in 1 .. n : Len(s) + 1 = 2 * i
  <2>1. PICK i \in 1 .. n : Len(s) + 1 = 2 * i
    BY <1>8
  <2>2. e.kind = "tool_call_started" /\ e.call_id = i - 1
    BY <1>2, <2>1 DEF CallsAt
  <2>3. i - 1 \notin Ids(s, "tool_call_started") /\ i - 1 \notin Ids(s, "tool_call_finished")
    BY <1>3, <1>4, <2>1
  <2> QED
    BY <1>4, <2>1, <2>2, <2>3 DEF MayCome
<1>9. CASE \E i \in 1 .. n : Len(s) + 1 = 2 * i + 1
  <2>1. PICK i \in 1 .. n : Len(s) + 1 = 2 * i + 1
    BY <1>9
  <2>2. e.kind = "tool_call_finished" /\ e.call_id = i - 1
    BY <1>2, <2>1 DEF CallsAt
  <2>3. i - 1 \in Ids(s, "tool_call_started") /\ i - 1 \notin Ids(s, "tool_call_finished")
    BY <1>3, <1>4, <2>1
  <2> QED
    BY <1>4, <2>1, <2>2, <2>3 DEF MayCome
<1>10. CASE Len(s) + 1 = Len(W) /\ e.kind = "turn_finished"
  <2>1. \A j \in 1 .. n : 2 * j + 1 <= Len(s) /\ 2 * j <= Len(s)
    BY <1>2, <1>4, <1>10
  <2>2. Ids(s, "tool_call_started") = Ids(s, "tool_call_finished")
    BY <1>3, <2>1
  <2> QED
    BY <1>4, <1>7, <1>10, <2>2 DEF MayCome
<1>11. CASE e.kind \in {"artifact_produced", "text_delta"}
  BY <1>4, <1>7, <1>11 DEF MayCome
<1> QED
  BY <1>4, <1>6, <1>8, <1>9, <1>10, <1>11 DEF MayCome

LEMMA YieldIsStep ==
    ASSUME Inv, Books, Told, Yield
    PROVE  [Stream!Next]_Stream!vars
<1>1. /\ path = "telling" /\ plan # <<>> /\ events \in Seq(Event) /\ plan \in Seq(Event)
      /\ events' = Append(events, Head(plan)) /\ UNCHANGED fell_back
      /\ request.mode \in {"native", "reconstructed"}
      /\ request.mode = "reconstructed" => fell_back = FALSE
      /\ request.mode = "native" => events # <<>>
  BY DEF Yield, Inv, Where, Noted, Told, Sound, Books, Routed, Streamed, asked, history
<1>2. PICK e \in Event : e = Head(plan) /\ e = plan[1]
  BY <1>1
<1>3. PICK W : W = events \o plan
  OBVIOUS
<1>4. Joins(W, events, plan) /\ W \in Seq(Event)
  BY <1>1, <1>3, Joined, Zenon
<1>5. /\ Len(W) = Len(events) + Len(plan) /\ Len(events) \in Nat /\ Len(plan) \in Nat
      /\ Len(plan) > 0 /\ e = W[Len(events) + 1]
      /\ \A k \in DOMAIN events : W[k] = events[k] /\ k \in DOMAIN W /\ k < Len(W)
  <2>1. /\ Len(W) = Len(events) + Len(plan) /\ Len(events) \in Nat /\ Len(plan) \in Nat
        /\ \A k \in 1 .. Len(events) : W[k] = events[k]
        /\ \A k \in 1 .. Len(plan) : W[Len(events) + k] = plan[k]
    BY <1>4 DEF Joins
  <2>2. /\ DOMAIN events = 1 .. Len(events) /\ DOMAIN W = 1 .. Len(W) /\ Len(plan) > 0
        /\ 1 \in 1 .. Len(plan)
    BY <1>1, <1>4, LenProperties
  <2>3. e = W[Len(events) + 1]
    BY <1>2, <2>1, <2>2
  <2> QED
    BY <2>1, <2>2, <2>3
<1>6. Of(events, "turn_finished") = {}
  <2>1. Of(W, "turn_finished") = {Len(W)}
    BY <1>1, <1>3 DEF Told, Ending
  <2> QED
    BY <1>5, <2>1 DEF Of
<1>7. Stage = IF events = <<>> THEN "quiet" ELSE "started"
  BY <1>1, <1>6, NotFinished
<1>8. events' = Append(events, e)
  BY <1>1, <1>2
<1>9. CASE request.mode = "native"
  <2>1. /\ \A k \in DOMAIN plan : plan[k].kind \in {"text_delta", "turn_finished"}
        /\ fell_back \/ Ids(events, "tool_call_started") = Ids(events, "tool_call_finished")
    BY <1>1, <1>9 DEF Told, Ending
  <2>2. 1 \in DOMAIN plan
    BY <1>1
  <2>3. e.kind \in {"text_delta", "turn_finished"}
    BY <1>2, <2>1, <2>2
  <2>4. Opened \ Closed = {} \/ fell_back
    BY <2>1, IdsShown
  <2>5. Stage = "started"
    BY <1>1, <1>7, <1>9
  <2> QED
    BY <1>1, <1>8, <2>3, <2>4, <2>5, NextIsStep
<1>10. CASE request.mode = "reconstructed"
  <2>1. Laid(W, result)
    BY <1>1, <1>3, <1>10 DEF Told, Truthful
  <2>6. Ids(events, "tool_call_started") = Opened /\ Ids(events, "tool_call_finished") = Closed
    BY IdsShown
  <2>2. \/ events = <<>> /\ e.kind = "turn_started"
        \/ events # <<>> /\ \/ e.kind \in {"text_delta", "artifact_produced"}
                            \/ /\ e.kind = "tool_call_started"
                               /\ e.call_id \notin Opened /\ e.call_id \notin Closed
                            \/ /\ e.kind = "tool_call_finished"
                               /\ e.call_id \in Opened /\ e.call_id \notin Closed
                            \/ e.kind = "turn_finished" /\ Opened = Closed
    <3>1. e = W[Len(events) + 1] /\ plan # <<>> /\ events \in Seq(Event) /\ plan \in Seq(Event)
      BY <1>1, <1>5
    <3>2. MayCome(events, e)
      BY <1>4, <2>1, <3>1, LaidNext, Zenon
    <3> QED
      BY <2>6, <3>2, Zenon DEF MayCome
  <2>3. CASE events = <<>> /\ e.kind = "turn_started"
    <3>1. Stage' = "started" /\ Opened' = Opened /\ Closed' = Closed
      BY <1>1, <1>8, <2>3, ShownMore
    <3>2. Stream!Start
      BY <1>1, <1>7, <2>3, <3>1 DEF Stream!Start
    <3> QED
      BY <3>2 DEF Stream!Next
  <2>4. CASE events # <<>>
    <3>1. Stage = "started"
      BY <1>7, <2>4
    <3> QED
      BY <1>1, <1>8, <1>10, <2>2, <2>4, <3>1, NextIsStep
  <2> QED
    BY <2>3, <2>4, <2>2
<1> QED
  BY <1>1, <1>9, <1>10

LEMMA LiveIsStep ==
    ASSUME Inv, Books, Told,
           \/ \E t \in Tool : ModelCalls(t)
           \/ \E i \in DOMAIN log, back \in {"returned", "retry", "refused"} : ToolReturns(i, back)
           \/ ModelSpeaks
    PROVE  [Stream!Next]_Stream!vars
<1>1. path \in Run /\ UNCHANGED fell_back /\ events \in Seq(Event) /\ log \in Seq(Call)
  BY DEF ModelCalls, ToolReturns, ModelSpeaks, Inv, Where, Told, Sound
<1>2. CASE path # "live"
  <2>1. UNCHANGED events
    BY <1>2 DEF ModelCalls, ToolReturns, ModelSpeaks, Shows
  <2> QED
    BY <1>1, <2>1, Unseen
<1>3. CASE path = "live"
  <2>1. /\ fell_back = FALSE /\ events # <<>> /\ Of(events, "turn_finished") = {}
        /\ Opened = {i - 1 : i \in DOMAIN log}
        /\ Closed = {i - 1 : i \in {j \in DOMAIN log : log[j].back # "running"}}
    BY <1>3, IdsShown DEF Inv, Noted, Books, Routed, Told, Streamed, Followed
  <2>2. Stage = "started"
    BY <1>1, <2>1, NotFinished
  <2>3. ASSUME NEW t \in Tool, ModelCalls(t)
        PROVE  [Stream!Next]_Stream!vars
    <3>1. PICK e \in Event : /\ e = ToolCallStarted(Len(log), t)
                             /\ e.kind = "tool_call_started" /\ e.call_id = Len(log)
      BY <1>1, EventsAre, KindsAre
    <3>2. events' = Append(events, e)
      BY <1>3, <2>3, <3>1 DEF ModelCalls, Shows
    <3>3. Len(log) \notin Opened \cup Closed
      BY <1>1, <2>1
    <3> QED
      BY <1>1, <2>1, <2>2, <3>1, <3>2, <3>3, NextIsStep
  <2>4. ASSUME NEW i \in DOMAIN log, NEW back \in {"returned", "retry", "refused"},
               ToolReturns(i, back)
        PROVE  [Stream!Next]_Stream!vars
    <3>0. log[i] \in Call /\ i \in 1 .. Len(log)
      BY <1>1
    <3>1. log[i].tool \in Tool /\ OutcomeOfResultPart(back) \in Outcome /\ i - 1 \in Nat
      BY <3>0 DEF Call, OutcomeOfResultPart, Outcome
    <3>2. PICK e \in Event : /\ e = ToolCallFinished(i - 1, log[i].tool, OutcomeOfResultPart(back))
                             /\ e.kind = "tool_call_finished" /\ e.call_id = i - 1
      BY <3>1, EventsAre, KindsAre
    <3>3. events' = Append(events, e)
      BY <1>3, <2>4, <3>2 DEF ToolReturns, Shows
    <3>4. i - 1 \in Opened
      BY <2>1
    <3>5. i - 1 \notin Closed
      <4>1. log[i].back = "running"
        BY <2>4 DEF ToolReturns
      <4> QED
        BY <1>1, <2>1, <4>1
    <3> QED
      BY <1>1, <2>1, <2>2, <3>2, <3>3, <3>4, <3>5, NextIsStep
  <2>5. CASE ModelSpeaks
    <3>1. PICK e \in Event : e = TextDelta /\ e.kind = "text_delta"
      BY EventsAre, KindsAre, Zenon
    <3>2. events' = Append(events, e)
      BY <1>3, <2>5, <3>1 DEF ModelSpeaks, Shows
    <3> QED
      BY <1>1, <2>1, <2>2, <3>1, <3>2, NextIsStep
  <2> QED
    BY <2>3, <2>4, <2>5
<1> QED
  BY <1>2, <1>3

LEMMA StepIsStep == Inv /\ Books /\ Told /\ [Next]_vars => [Stream!Next]_Stream!vars
<1> SUFFICES ASSUME Inv, Books, Told, [Next]_vars PROVE [Stream!Next]_Stream!vars
  OBVIOUS
<1>1. CASE UNCHANGED <<events, fell_back>>
  BY <1>1, Unseen
<1>2. ASSUME NEW mode \in Mode, NEW declared \in Declared, Begin(mode, declared)
      PROVE  [Stream!Next]_Stream!vars
  <2>0. PICK e \in Event : e = TurnStarted(TRUE) /\ e.kind = "turn_started"
    BY EventsAre, KindsAre, Zenon
  <2>1. fell_back' = FALSE /\ events' = IF mode = "native" THEN <<e>> ELSE <<>>
    BY <1>2, <2>0 DEF Begin
  <2>2. Stage' \in {"quiet", "started"}
    <3>1. e # TurnFinished
      BY <2>0, KindsAre
    <3>2. <<e>> # <<>> /\ <<e>>[Len(<<e>>)] = e
      OBVIOUS
    <3> QED
      BY <2>1, <3>1, <3>2 DEF Stage
  <2>3. Opened' = {} /\ Closed' = {}
    BY <2>0, <2>1, OnlyStarted, NothingSent, IdsShown
  <2>4. Stream!Ask
    BY <2>1, <2>2, <2>3 DEF Stream!Ask
  <2> QED
    BY <2>4 DEF Stream!Next
<1>3. ASSUME NEW kind, LiveFails(kind)
      PROVE  [Stream!Next]_Stream!vars
  <2>1. /\ path = "live" /\ fell_back' = TRUE /\ UNCHANGED events /\ events \in Seq(Event)
        /\ Of(events, "turn_finished") = {}
    BY <1>3 DEF LiveFails, Told, Sound, Streamed
  <2>2. Stage # "finished"
    BY <2>1, NotFinished
  <2>3. UNCHANGED <<Stage, Opened, Closed>>
    BY <2>1 DEF Stage, Opened, Closed, Sent
  <2>4. Stream!Break
    BY <2>1, <2>2, <2>3 DEF Stream!Break
  <2> QED
    BY <2>4 DEF Stream!Next
<1>4. CASE Yield
  BY <1>4, YieldIsStep
<1>5. CASE \/ \E t \in Tool : ModelCalls(t)
           \/ \E i \in DOMAIN log, back \in {"returned", "retry", "refused"} : ToolReturns(i, back)
           \/ ModelSpeaks
  BY <1>5, LiveIsStep
<1> QED
  <2>1. BuildAgent \/ BuildRefused => UNCHANGED <<events, fell_back>>
    BY DEF BuildAgent, BuildRefused
  <2>2. RunAnswers \/ LiveAnswers \/ FakeAnswers => UNCHANGED <<events, fell_back>>
    BY DEF RunAnswers, LiveAnswers, FakeAnswers
  <2>3. MeasuredFails \/ CallMeetsEmpty \/ PlainFails \/ FakeIterates =>
            UNCHANGED <<events, fell_back>>
    BY DEF MeasuredFails, CallMeetsEmpty, PlainFails, FakeIterates
  <2>4. ASSUME NEW t, NEW outcome, FakeCalls(t, outcome) PROVE UNCHANGED <<events, fell_back>>
    BY <2>4 DEF FakeCalls
  <2>5. ASSUME NEW what, FakeGives(what) PROVE UNCHANGED <<events, fell_back>>
    BY <2>5 DEF FakeGives
  <2>6. Abandon \/ UNCHANGED vars => UNCHANGED <<events, fell_back>>
    BY DEF Abandon, vars
  <2> QED
    BY <1>1, <1>2, <1>3, <1>4, <1>5, <2>1, <2>2, <2>3, <2>4, <2>5, <2>6 DEF Next, Proceed

\* Whatever happens to a run behind it, every event a consumer is sent is one
\* that the contract of core/events.py allows after those before it.
THEOREM StreamKeepsItsContract == Spec => ImplementsStream
<1>1. Init => Stream!Init
  <2> SUFFICES ASSUME Init PROVE Stream!Init
    OBVIOUS
  <2>1. events = <<>> /\ fell_back = FALSE
    BY DEF Init
  <2>2. Opened = {} /\ Stage = "quiet"
    BY <2>1, NothingSent, IdsShown DEF Stage
  <2> QED
    BY <2>1, <2>2 DEF Stream!Init
<1> QED
  BY <1>1, StepIsStep, Reporting, PTL DEF Spec, ImplementsStream, Stream!Spec
=============================================================================
