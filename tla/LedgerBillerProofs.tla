------------------------- MODULE LedgerBillerProofs -------------------------
(***************************************************************************)
(* What LedgerBiller keeps for every set of runs and amounts and every     *)
(* number of reservations: its type invariant, an audit that explains it   *)
(* and balances, at most one charge per reservation, and the Reservations  *)
(* promise.                                                                *)
(***************************************************************************)
EXTENDS LedgerBiller, SumProofs, TLAPS

\* The calls that write: every other step leaves the ledger as it is.
Writes ==
    \/ \E run \in RunId, amount \in Amount : Reserve(run, amount)
    \/ \E id \in Id, outcome \in Outcome : Capture(id, outcome)
    \/ \E id \in Id : Release(id)

Answers == \E result \in Reply : Answer(result)

\* Every step either writes one row or only answers.
LEMMA StepWritesOrAnswers == [Next]_vars => Writes \/ Answers \/ UNCHANGED vars
<1> SUFFICES ASSUME Next PROVE Writes \/ Answers
    OBVIOUS
<1>1. ASSUME NEW amount \in Amount, ReserveRefused(amount) PROVE Answers
    BY <1>1 DEF ReserveRefused, Answers, Reply
<1>2. ASSUME NEW id \in Id, CaptureUnknown(id) PROVE Answers
    BY <1>2 DEF CaptureUnknown, Answers, Reply
<1>3. ASSUME NEW id \in Id, NEW outcome \in Outcome,
             CaptureDouble(id, outcome) \/ CaptureAgain(id, outcome)
      PROVE  Answers
    BY <1>3 DEF CaptureDouble, CaptureAgain, Answers, Reply
<1>4. ASSUME NEW id \in Id, ReleaseNothing(id) PROVE Answers
    BY <1>4 DEF ReleaseNothing, Answers, Reply
<1> QED
    BY <1>1, <1>2, <1>3, <1>4 DEF Next, Writes

\* Answering changes the reply alone.
LEMMA AnswerKeepsLedger ==
    Answers => reply' \in Reply /\ UNCHANGED <<counter, entries, history>>
    BY DEF Answers, Answer

-----------------------------------------------------------------------------
(* The rows a write leaves. *)

LEMMA CapturedRow ==
    ASSUME NEW entry \in Entry, NEW outcome \in Outcome, CaptureCharges(entry)
    PROVE  LET row == AfterCapture(entry, outcome)
           IN  /\ row \in Entry
               /\ Coherent(row)
               /\ row.run = entry.run
               /\ row.amount = entry.amount
               /\ row.state = CaptureTarget(outcome)
               /\ entry.state = "reserved"
               /\ row.state \in {"captured", "needs_reconciliation"}
    BY DEF Entry, AfterCapture, CaptureTarget, CaptureCharges, Coherent,
           State, Outcome, NoOutcome

LEMMA ReleasedRow ==
    ASSUME NEW entry \in Entry, ReleaseRefunds(entry)
    PROVE  LET row == AfterRelease(entry)
           IN  /\ row \in Entry
               /\ Coherent(row)
               /\ row.run = entry.run
               /\ row.amount = entry.amount
               /\ row.state = "released"
               /\ entry.state \in {"reserved", "needs_reconciliation"}
    BY DEF Entry, AfterRelease, ReleaseRefunds, Coherent,
           State, Outcome, NoOutcome

LEMMA ReservedRow ==
    ASSUME NEW run \in RunId, NEW amount \in Amount, amount >= 0
    PROVE  LET row == [run |-> run, amount |-> amount,
                       state |-> "reserved", outcome |-> NoOutcome]
           IN  row \in Entry /\ Coherent(row)
    BY DEF Entry, Coherent, State, Outcome, NoOutcome

\* A write of one row, of an id issued now or before.
LEMMA RecordTypes ==
    ASSUME TypeOK, counter' \in 0 .. MaxReservations, NEW id \in 1 .. counter',
           counter' = counter \/ (counter' = counter + 1 /\ id = counter'),
           NEW entry \in Entry, Coherent(entry), Record(id, entry)
    PROVE  TypeOK'
<1>1. Issued' = Issued \cup {id} /\ id \in Id
    BY MaxReservationsAssumption DEF TypeOK, Issued, Id
<1>2. entries' \in [Issued' -> Entry]
    BY <1>1 DEF TypeOK, Record
<1>3. \A i \in Issued' : Coherent(entries'[i])
    BY <1>1 DEF TypeOK, Record
<1>4. history' \in Seq(Row)
    BY <1>1 DEF TypeOK, Record, Row
<1> QED
    BY <1>2, <1>3, <1>4 DEF TypeOK, Record, Reply, Coherent

-----------------------------------------------------------------------------

\* Each call keeps the ledger typed: an issued id has one row, with a state and
\* an outcome that go together.
THEOREM TypeCorrect == Spec => []TypeOK
<1>1. Init => TypeOK
    BY MaxReservationsAssumption DEF Init, TypeOK, Issued, Reply
<1>2. TypeOK /\ [Next]_vars => TypeOK'
  <2> SUFFICES ASSUME TypeOK, [Next]_vars PROVE TypeOK'
      OBVIOUS
  <2>1. ASSUME NEW run \in RunId, NEW amount \in Amount, Reserve(run, amount)
        PROVE  TypeOK'
    <3> DEFINE row == [run |-> run, amount |-> amount,
                       state |-> "reserved", outcome |-> NoOutcome]
    <3>1. row \in Entry /\ Coherent(row)
        BY <2>1, ReservedRow DEF Reserve
    <3>2. /\ counter' \in 0 .. MaxReservations
          /\ counter' \in 1 .. counter'
          /\ counter' = counter + 1
          /\ Record(counter', row)
        BY <2>1, MaxReservationsAssumption DEF Reserve, TypeOK
    <3> HIDE DEF row
    <3> QED
        BY <3>1, <3>2, RecordTypes
  <2>2. ASSUME NEW id \in Id, NEW outcome \in Outcome, Capture(id, outcome)
        PROVE  TypeOK'
    <3>1. entries[id] \in Entry /\ CaptureCharges(entries[id])
        BY <2>2 DEF Capture, TypeOK
    <3>2. /\ AfterCapture(entries[id], outcome) \in Entry
          /\ Coherent(AfterCapture(entries[id], outcome))
        BY <3>1, CapturedRow
    <3> QED
        BY <2>2, <3>2, RecordTypes DEF Capture, TypeOK, Issued
  <2>3. ASSUME NEW id \in Id, Release(id) PROVE TypeOK'
    <3>1. entries[id] \in Entry /\ ReleaseRefunds(entries[id])
        BY <2>3 DEF Release, TypeOK
    <3>2. /\ AfterRelease(entries[id]) \in Entry
          /\ Coherent(AfterRelease(entries[id]))
        BY <3>1, ReleasedRow
    <3> QED
        BY <2>3, <3>2, RecordTypes DEF Release, TypeOK, Issued
  <2>4. CASE Answers
      BY <2>4, AnswerKeepsLedger DEF TypeOK, Issued, Coherent
  <2>5. CASE UNCHANGED vars
      BY <2>5 DEF TypeOK, Issued, vars, Coherent
  <2> QED
      BY <2>1, <2>2, <2>3, <2>4, <2>5, StepWritesOrAnswers DEF Writes
<1> QED
    BY <1>1, <1>2, PTL DEF Spec

-----------------------------------------------------------------------------
(* The audit. *)

\* A write of one row appends it, so it is the last of its id, and no other id
\* is concerned.
LEMMA RecordIsCurrent ==
    ASSUME TypeOK, HistoryIsCurrent, NEW id \in Nat, NEW entry, Record(id, entry),
           Issued' = Issued \cup {id}
    PROVE  HistoryIsCurrent'
<1> DEFINE top == Len(history) + 1
<1>1. /\ Len(history) \in Nat
      /\ DOMAIN history = 1 .. Len(history)
      /\ DOMAIN history' = 1 .. top
      /\ history'[top] = [id |-> id, entry |-> entry]
      /\ \A k \in DOMAIN history : history'[k] = history[k]
    BY DEF TypeOK, Record
<1>2. /\ entries'[id] = entry
      /\ \A i \in Issued \ {id} : entries'[i] = entries[i]
    BY DEF TypeOK, Record
<1> SUFFICES ASSUME NEW i \in Issued'
             PROVE  \E k \in DOMAIN history' :
                        /\ history'[k] = [id |-> i, entry |-> entries'[i]]
                        /\ \A j \in DOMAIN history' : j > k => history'[j].id # i
    BY DEF HistoryIsCurrent
<1>3. CASE i = id
  <2>1. /\ top \in DOMAIN history'
        /\ history'[top] = [id |-> i, entry |-> entries'[i]]
      BY <1>1, <1>2, <1>3
  <2>2. \A j \in DOMAIN history' : ~ (j > top)
      BY <1>1
  <2> QED
      BY <2>1, <2>2
<1>4. CASE i # id
  <2>1. i \in Issued
      BY <1>4
  <2>2. PICK k \in DOMAIN history :
            /\ history[k] = [id |-> i, entry |-> entries[i]]
            /\ \A j \in DOMAIN history : j > k => history[j].id # i
      BY <2>1 DEF HistoryIsCurrent
  <2>3. /\ k \in DOMAIN history'
        /\ history'[k] = [id |-> i, entry |-> entries'[i]]
      BY <1>1, <1>2, <1>4, <2>1, <2>2
  <2>4. ASSUME NEW j \in DOMAIN history', j > k PROVE history'[j].id # i
      <3>1. CASE j = top
          BY <1>1, <1>4, <3>1
      <3>2. CASE j # top
          BY <1>1, <2>2, <2>4, <3>2
      <3> QED BY <3>1, <3>2
  <2> QED
      BY <2>3, <2>4
<1> QED
    BY <1>3, <1>4

\* The row of an id that is already issued may be written if its state follows
\* the current one and the run and amount stay: then it follows every earlier
\* one too.
LEMMA MoveIsLegal ==
    ASSUME TypeOK, HistoryIsCurrent, HistoryIsLegal,
           NEW id \in Issued, NEW entry, Record(id, entry),
           <<entries[id].state, entry.state>> \in Later,
           entry.run = entries[id].run,
           entry.amount = entries[id].amount
    PROVE  HistoryIsLegal'
<1> DEFINE top == Len(history) + 1
<1>1. /\ Len(history) \in Nat
      /\ DOMAIN history = 1 .. Len(history)
      /\ DOMAIN history' = 1 .. top
      /\ history'[top] = [id |-> id, entry |-> entry]
      /\ \A k \in DOMAIN history : history'[k] = history[k]
    BY DEF TypeOK, Record
<1>2. PICK last \in DOMAIN history :
          /\ history[last] = [id |-> id, entry |-> entries[id]]
          /\ \A j \in DOMAIN history : j > last => history[j].id # id
    BY DEF HistoryIsCurrent
<1> SUFFICES ASSUME NEW j \in DOMAIN history', NEW k \in DOMAIN history',
                    j < k, history'[j].id = history'[k].id
             PROVE  /\ <<history'[j].entry.state, history'[k].entry.state>> \in Later
                    /\ history'[j].entry.run = history'[k].entry.run
                    /\ history'[j].entry.amount = history'[k].entry.amount
    BY DEF HistoryIsLegal
<1>3. CASE k # top
    BY <1>1, <1>3 DEF HistoryIsLegal
<1>4. CASE k = top
  <2>1. /\ j \in DOMAIN history
        /\ history[j].id = id
        /\ history'[j] = history[j]
        /\ history'[k].entry = entry
      BY <1>1, <1>4
  <2>2. CASE j = last
      BY <1>2, <2>1, <2>2
  <2>3. CASE j # last
    <3>1. j < last
        BY <1>1, <1>2, <2>1, <2>3
    <3>2. /\ <<history[j].entry.state, entries[id].state>> \in Later
          /\ history[j].entry.run = entries[id].run
          /\ history[j].entry.amount = entries[id].amount
        BY <1>2, <2>1, <3>1 DEF HistoryIsLegal
    <3>3. <<history[j].entry.state, entry.state>> \in Later
        BY <3>2 DEF Later
    <3> QED
        BY <2>1, <3>2, <3>3
  <2> QED
      BY <2>2, <2>3
<1> QED
    BY <1>3, <1>4

\* The row of a fresh id follows nothing: no row of the history has that id,
\* because every row's id has been issued.
IssuedRows == \A k \in DOMAIN history : history[k].id \in Issued

LEMMA FreshIsLegal ==
    ASSUME TypeOK, IssuedRows, HistoryIsLegal,
           NEW id, id \notin Issued, NEW entry, Record(id, entry)
    PROVE  HistoryIsLegal'
<1> DEFINE top == Len(history) + 1
<1>1. /\ Len(history) \in Nat
      /\ DOMAIN history = 1 .. Len(history)
      /\ DOMAIN history' = 1 .. top
      /\ history'[top] = [id |-> id, entry |-> entry]
      /\ \A k \in DOMAIN history : history'[k] = history[k]
    BY DEF TypeOK, Record
<1> SUFFICES ASSUME NEW j \in DOMAIN history', NEW k \in DOMAIN history',
                    j < k, history'[j].id = history'[k].id
             PROVE  /\ <<history'[j].entry.state, history'[k].entry.state>> \in Later
                    /\ history'[j].entry.run = history'[k].entry.run
                    /\ history'[j].entry.amount = history'[k].entry.amount
    BY DEF HistoryIsLegal
<1>2. k # top
    BY <1>1 DEF IssuedRows
<1> QED
    BY <1>1, <1>2 DEF HistoryIsLegal

LEMMA RecordKeepsIssuedRows ==
    ASSUME TypeOK, IssuedRows, NEW id, NEW entry, Record(id, entry),
           Issued' = Issued \cup {id}
    PROVE  IssuedRows'
    BY DEF TypeOK, IssuedRows, Record

\* The inductive invariant: the audit explains the ledger, and mentions issued
\* reservations only, without which a fresh id might have a past.
AuditInv == TypeOK /\ IssuedRows /\ HistoryIsCurrent /\ HistoryIsLegal

LEMMA AuditInductive == AuditInv /\ [Next]_vars /\ TypeOK' => AuditInv'
<1> SUFFICES ASSUME AuditInv, [Next]_vars, TypeOK' PROVE AuditInv'
    OBVIOUS
<1> USE DEF AuditInv
<1>1. ASSUME NEW run \in RunId, NEW amount \in Amount, Reserve(run, amount)
      PROVE  AuditInv'
  <2> DEFINE row == [run |-> run, amount |-> amount,
                     state |-> "reserved", outcome |-> NoOutcome]
  <2>1. /\ counter' \in Nat
        /\ counter' \notin Issued
        /\ Issued' = Issued \cup {counter'}
        /\ Record(counter', row)
      BY <1>1, MaxReservationsAssumption DEF Reserve, TypeOK, Issued
  <2> HIDE DEF row
  <2> QED
      BY <2>1, RecordKeepsIssuedRows, RecordIsCurrent, FreshIsLegal
<1>2. ASSUME NEW id \in Id, NEW outcome \in Outcome, Capture(id, outcome)
      PROVE  AuditInv'
  <2> DEFINE row == AfterCapture(entries[id], outcome)
  <2>1. /\ id \in Nat
        /\ id \in Issued
        /\ Issued' = Issued \cup {id}
        /\ Record(id, row)
        /\ entries[id] \in Entry
        /\ CaptureCharges(entries[id])
      BY <1>2 DEF Capture, TypeOK, Issued, Id
  <2>2. /\ row.run = entries[id].run
        /\ row.amount = entries[id].amount
        /\ <<entries[id].state, row.state>> \in Later
      BY <2>1, CapturedRow DEF Later
  <2> HIDE DEF row
  <2> QED
      BY <2>1, <2>2, RecordKeepsIssuedRows, RecordIsCurrent, MoveIsLegal
<1>3. ASSUME NEW id \in Id, Release(id) PROVE AuditInv'
  <2> DEFINE row == AfterRelease(entries[id])
  <2>1. /\ id \in Nat
        /\ id \in Issued
        /\ Issued' = Issued \cup {id}
        /\ Record(id, row)
        /\ entries[id] \in Entry
        /\ ReleaseRefunds(entries[id])
      BY <1>3 DEF Release, TypeOK, Issued, Id
  <2>2. /\ row.run = entries[id].run
        /\ row.amount = entries[id].amount
        /\ <<entries[id].state, row.state>> \in Later
      BY <2>1, ReleasedRow DEF Later
  <2> HIDE DEF row
  <2> QED
      BY <2>1, <2>2, RecordKeepsIssuedRows, RecordIsCurrent, MoveIsLegal
<1>4. CASE Answers
    BY <1>4, AnswerKeepsLedger DEF IssuedRows, Issued, HistoryIsCurrent, HistoryIsLegal
<1>5. CASE UNCHANGED vars
    BY <1>5 DEF vars, IssuedRows, Issued, HistoryIsCurrent, HistoryIsLegal
<1> QED
    BY <1>1, <1>2, <1>3, <1>4, <1>5, StepWritesOrAnswers DEF Writes

\* AuditInv holds of every reachable state.
LEMMA AuditAlways == Spec => []AuditInv
<1>1. Init => IssuedRows /\ HistoryIsCurrent /\ HistoryIsLegal
    BY DEF Init, IssuedRows, HistoryIsCurrent, HistoryIsLegal, Issued
<1>2. TypeOK /\ Init => AuditInv
    BY <1>1 DEF AuditInv
<1> QED
    BY <1>2, TypeCorrect, AuditInductive, PTL DEF Spec

\* However calls are repeated and reordered, the history of each reservation is
\* a legal life that ends in its current row.
THEOREM AuditExplains == Spec => []HistoryExplains
<1>1. AuditInv => HistoryExplains
    BY DEF AuditInv, HistoryExplains
<1> QED
    BY <1>1, AuditAlways, PTL

\* P5: two charging rows of one reservation are one row, because no charged
\* state may follow another.
THEOREM OneCharge == Spec => []ChargedAtMostOnce
<1>1. AuditInv => ChargedAtMostOnce
  <2> SUFFICES ASSUME AuditInv, NEW j \in DOMAIN history, NEW k \in DOMAIN history,
                      history[j].id = history[k].id,
                      IsCharged(history[j].entry), IsCharged(history[k].entry)
               PROVE  j = k
      BY DEF ChargedAtMostOnce
  <2>1. j \in Int /\ k \in Int
      BY DEF AuditInv, TypeOK
  <2>2. ~ (j < k) /\ ~ (k < j)
      BY DEF AuditInv, HistoryIsLegal, Later, IsCharged
  <2> QED
      BY <2>1, <2>2
<1> QED
    BY <1>1, AuditAlways, PTL

-----------------------------------------------------------------------------
(* The money. *)

Amounts == [id \in Issued |-> entries[id].amount]
Rows == [k \in DOMAIN history |-> history[k].entry.amount]

Balanced(run) == total_charged(run) = Credits(ChargeRows(run)) - Credits(RefundRows(run))

\* The sets that are summed are finite, and amounts are natural numbers.
LEMMA AmountsAdd ==
    ASSUME TypeOK
    PROVE  /\ \A run : \A S \in {OfRun(run), captured_reservations(run)} :
                S \subseteq Issued /\ IsFiniteSet(S)
           /\ \A run : \A S \in {ChargeRows(run), RefundRows(run)} :
                S \subseteq DOMAIN history /\ IsFiniteSet(S)
           /\ \A id \in Issued : Amounts[id] \in Nat /\ Amounts[id] = entries[id].amount
           /\ \A k \in DOMAIN history :
                Rows[k] \in Nat /\ Rows[k] = history[k].entry.amount
<1>1. IsFiniteSet(Issued)
    BY FS_Interval, MaxReservationsAssumption DEF TypeOK, Issued
<1>2. DOMAIN history = 1 .. Len(history) /\ Len(history) \in Nat
    BY DEF TypeOK
<1>3. IsFiniteSet(DOMAIN history)
    BY <1>2, FS_Interval
<1>4. \A a \in {b \in Amount : b >= 0} : a \in Nat
    BY AmountAssumption
<1>5. \A run : OfRun(run) \subseteq Issued /\ captured_reservations(run) \subseteq Issued
    BY DEF OfRun, captured_reservations
<1>6. \A run : ChargeRows(run) \subseteq DOMAIN history /\ RefundRows(run) \subseteq DOMAIN history
    BY DEF ChargeRows, RefundRows
<1>7. \A id \in Issued : Amounts[id] \in Nat /\ Amounts[id] = entries[id].amount
    BY <1>4 DEF TypeOK, Amounts, Entry
<1>8. ASSUME NEW k \in DOMAIN history
      PROVE  Rows[k] \in Nat /\ Rows[k] = history[k].entry.amount
  <2>1. history[k] \in Row
      BY <1>2 DEF TypeOK
  <2> QED
      BY <1>4, <2>1 DEF Rows, Row, Entry
<1> QED
    BY <1>1, <1>3, <1>5, <1>6, <1>7, <1>8, FS_Subset

\* What a write does to the four sets, and to the amounts at their elements.
Charges(run, entry) == entry.run = run /\ IsCharged(entry)
Refunds(run, id, entry) ==
    entry.run = run /\ entry.state = "released" /\ \E j \in ChargeRows(run) : history[j].id = id

LEMMA RecordSums ==
    ASSUME AuditInv, NEW id \in Nat, NEW entry, Record(id, entry), Issued' = Issued \cup {id},
           id \in Issued => entry.amount = entries[id].amount, NEW run,
           ~ (IsCharged(entry) /\ entry.state = "released"), NEW top, top = Len(history) + 1
    PROVE  /\ top \notin DOMAIN history
           /\ Amounts'[id] = entry.amount /\ Rows'[top] = entry.amount
           /\ \A i \in Issued : Amounts'[i] = Amounts[i]
           /\ \A k \in DOMAIN history : Rows'[k] = Rows[k]
           /\ captured_reservations(run)' =
                IF Charges(run, entry) THEN captured_reservations(run) \cup {id}
                                       ELSE captured_reservations(run) \ {id}
           /\ ChargeRows(run)' =
                IF Charges(run, entry) THEN ChargeRows(run) \cup {top} ELSE ChargeRows(run)
           /\ RefundRows(run)' =
                IF Refunds(run, id, entry) THEN RefundRows(run) \cup {top} ELSE RefundRows(run)
<1>1. /\ Len(history) \in Nat
      /\ DOMAIN history = 1 .. Len(history)
      /\ DOMAIN history' = 1 .. top
      /\ history'[top] = [id |-> id, entry |-> entry]
      /\ \A k \in DOMAIN history : history'[k] = history[k]
    BY DEF AuditInv, TypeOK, Record
<1>2. /\ entries'[id] = entry
      /\ \A i \in Issued \ {id} : entries'[i] = entries[i]
    BY DEF AuditInv, TypeOK, Record
<1>3. DOMAIN history' = DOMAIN history \cup {top} /\ top \notin DOMAIN history
    BY <1>1
<1>4. Amounts'[id] = entry.amount /\ \A i \in Issued : Amounts'[i] = Amounts[i]
    BY <1>2 DEF Amounts
<1>5. Rows'[top] = entry.amount /\ \A k \in DOMAIN history : Rows'[k] = Rows[k]
    BY <1>1, <1>3 DEF Rows
<1>6. captured_reservations(run)' =
            IF Charges(run, entry) THEN captured_reservations(run) \cup {id}
                                   ELSE captured_reservations(run) \ {id}
    BY <1>2 DEF captured_reservations, OfRun, IsCharged, Charges
<1>7. ChargeRows(run)' =
            IF Charges(run, entry) THEN ChargeRows(run) \cup {top} ELSE ChargeRows(run)
    BY <1>1, <1>3 DEF ChargeRows, IsCharged, Charges
<1>8. ASSUME NEW k \in DOMAIN history
      PROVE  k \in RefundRows(run)' <=> k \in RefundRows(run)
  <2>1. \A j \in 1 .. k : j \in DOMAIN history /\ j # top
      BY <1>1
  <2>2. \A j \in 1 .. k : j \in ChargeRows(run)' <=> j \in ChargeRows(run)
      BY <1>7, <2>1
  <2> QED
      BY <1>1, <1>3, <2>1, <2>2 DEF RefundRows
<1>9. top \in RefundRows(run)' <=> Refunds(run, id, entry)
  <2>1. top \notin ChargeRows(run)' \/ entry.state # "released"
      BY <1>3, <1>7 DEF ChargeRows, Charges
  <2>2. \A j \in ChargeRows(run) : j \in 1 .. top /\ j \in DOMAIN history
      BY <1>1 DEF ChargeRows
  <2>3. \A j \in 1 .. top : j # top => j \in DOMAIN history
      BY <1>1
  <2>4. entry.state = "released" =>
            ((\E j \in 1 .. top : history'[j].id = id /\ j \in ChargeRows(run)')
                <=> \E j \in ChargeRows(run) : history[j].id = id)
      BY <1>1, <1>7, <2>1, <2>2, <2>3
  <2> QED
      BY <1>1, <1>3, <2>4 DEF RefundRows, Refunds
<1>10. RefundRows(run)' =
            IF Refunds(run, id, entry) THEN RefundRows(run) \cup {top} ELSE RefundRows(run)
  <2>1. RefundRows(run) \subseteq DOMAIN history /\ RefundRows(run)' \subseteq DOMAIN history'
      BY DEF RefundRows
  <2>2. PICK R : R = RefundRows(run)'
      OBVIOUS
  <2>3. /\ R \subseteq DOMAIN history \cup {top}
        /\ \A k \in DOMAIN history : k \in R <=> k \in RefundRows(run)
        /\ top \in R <=> Refunds(run, id, entry)
      BY <1>3, <1>8, <1>9, <2>1, <2>2
  <2>5. PICK Q : Q = RefundRows(run)
      OBVIOUS
  <2>6. Q \subseteq DOMAIN history /\ \A k \in DOMAIN history : k \in R <=> k \in Q
      BY <2>1, <2>3, <2>5
  <2>7. CASE Refunds(run, id, entry)
    <3>1. \A k : k \in R <=> k \in Q \cup {top}
        BY <2>3, <2>6, <2>7
    <3> QED
        BY <2>2, <2>5, <2>7, <3>1
  <2>8. CASE ~ Refunds(run, id, entry)
    <3>1. \A k : k \in R <=> k \in Q
        BY <2>3, <2>6, <2>8
    <3> QED
        BY <2>2, <2>5, <2>8, <3>1
  <2> QED
      BY <2>7, <2>8
<1> QED
    BY <1>3, <1>4, <1>5, <1>6, <1>7, <1>10

\* A write of a row that was not and is not charged moves no money.
LEMMA NothingMoves ==
    ASSUME AuditInv, AuditInv', NEW id \in Nat, NEW entry, Record(id, entry),
           Issued' = Issued \cup {id}, id \in Issued => entry.amount = entries[id].amount,
           ~ (IsCharged(entry) /\ entry.state = "released"),
           NEW run, Balanced(run), ~ Charges(run, entry), ~ Refunds(run, id, entry),
           id \notin captured_reservations(run)
    PROVE  Balanced(run)'
<1>1. PICK top : top = Len(history) + 1
    OBVIOUS
<1>2. /\ captured_reservations(run)' = captured_reservations(run)
      /\ ChargeRows(run)' = ChargeRows(run) /\ RefundRows(run)' = RefundRows(run)
      /\ \A i \in Issued : Amounts'[i] = Amounts[i]
      /\ \A k \in DOMAIN history : Rows'[k] = Rows[k]
    BY <1>1, RecordSums
<1>3. \A S \in {captured_reservations(run)} :
            SumFunctionOnSet(Amounts', S) = SumFunctionOnSet(Amounts, S)
    BY <1>2, AmountsAdd, SumSame DEF AuditInv
<1>4. \A S \in {ChargeRows(run), RefundRows(run)} :
            SumFunctionOnSet(Rows', S) = SumFunctionOnSet(Rows, S)
    BY <1>2, AmountsAdd, SumSame DEF AuditInv
<1> QED
    BY <1>2, <1>3, <1>4 DEF Balanced, total_charged, Credits, Amounts, Rows

\* A charge is a row that charges more, and a reservation that costs more.
LEMMA ChargeMoves ==
    ASSUME AuditInv, NEW id \in Nat, NEW entry, Record(id, entry),
           Issued' = Issued \cup {id}, id \in Issued => entry.amount = entries[id].amount,
           entry.amount \in Nat, entry.state # "released",
           NEW run, Balanced(run), Charges(run, entry), id \notin captured_reservations(run)
    PROVE  Balanced(run)'
<1>1. PICK top : top = Len(history) + 1
    OBVIOUS
<1>2. PICK S : S = captured_reservations(run)
    OBVIOUS
<1>3. PICK C : C = ChargeRows(run)
    OBVIOUS
<1>4. PICK R : R = RefundRows(run)
    OBVIOUS
<1>5. /\ captured_reservations(run)' = S \cup {id}
      /\ ChargeRows(run)' = C \cup {top} /\ RefundRows(run)' = R
      /\ Amounts'[id] = entry.amount /\ Rows'[top] = entry.amount
      /\ \A i \in Issued : Amounts'[i] = Amounts[i]
      /\ \A k \in DOMAIN history : Rows'[k] = Rows[k]
      /\ top \notin DOMAIN history
    BY <1>1, <1>2, <1>3, <1>4, RecordSums DEF Refunds
<1>6. /\ IsFiniteSet(S) /\ IsFiniteSet(C) /\ IsFiniteSet(R)
      /\ S \subseteq Issued /\ C \subseteq DOMAIN history /\ R \subseteq DOMAIN history
      /\ \A i \in Issued : Amounts[i] \in Int
      /\ \A k \in DOMAIN history : Rows[k] \in Int
    BY <1>2, <1>3, <1>4, AmountsAdd DEF AuditInv
<1>7. PICK amounts : amounts = Amounts'
    OBVIOUS
<1>8. PICK rows : rows = Rows'
    OBVIOUS
<1>9. SumFunctionOnSet(amounts, S \cup {id}) = entry.amount + SumFunctionOnSet(Amounts, S)
  <2>1. \A i \in S \cup {id} : amounts[i] \in Int
      BY <1>5, <1>6, <1>7
  <2>2. SumFunctionOnSet(amounts, S \cup {id}) = amounts[id] + SumFunctionOnSet(amounts, S)
      BY <1>2, <1>6, <2>1, SumMore
  <2>3. SumFunctionOnSet(amounts, S) = SumFunctionOnSet(Amounts, S)
      BY <1>5, <1>6, <1>7, SumSame
  <2> QED
      BY <1>5, <1>7, <2>2, <2>3
<1>10. SumFunctionOnSet(rows, C \cup {top}) = entry.amount + SumFunctionOnSet(Rows, C)
  <2>1. \A k \in C \cup {top} : rows[k] \in Int
    <3>1. rows[top] \in Int
        BY <1>5, <1>8
    <3>2. \A k \in C : rows[k] \in Int
        BY <1>5, <1>6, <1>8
    <3> QED
        BY <3>1, <3>2
  <2>2. SumFunctionOnSet(rows, C \cup {top}) = rows[top] + SumFunctionOnSet(rows, C)
      BY <1>5, <1>6, <2>1, SumMore
  <2>3. SumFunctionOnSet(rows, C) = SumFunctionOnSet(Rows, C)
      BY <1>5, <1>6, <1>8, SumSame
  <2> QED
      BY <1>5, <1>8, <2>2, <2>3
<1>11. SumFunctionOnSet(rows, R) = SumFunctionOnSet(Rows, R)
    BY <1>5, <1>6, <1>8, SumSame
<1>12. SumFunctionOnSet(Amounts, S) = SumFunctionOnSet(Rows, C) - SumFunctionOnSet(Rows, R)
    BY <1>2, <1>3, <1>4 DEF Balanced, total_charged, Credits, Amounts, Rows
<1>13. SumFunctionOnSet(Rows, C) \in Int /\ SumFunctionOnSet(Rows, R) \in Int
  <2>1. (\A k \in C : Rows[k] \in Int) /\ (\A k \in R : Rows[k] \in Int)
      BY <1>6
  <2> QED
      BY <1>6, <2>1, SumIsInt, Zenon
<1>14. SumFunctionOnSet(amounts, S \cup {id}) =
            SumFunctionOnSet(rows, C \cup {top}) - SumFunctionOnSet(rows, R)
    BY <1>9, <1>10, <1>11, <1>12, <1>13
<1> QED
    BY <1>5, <1>7, <1>8, <1>14 DEF Balanced, total_charged, Credits, Amounts, Rows

\* A refund is a row that refunds more, and a reservation that costs no more.
LEMMA RefundMoves ==
    ASSUME AuditInv, NEW id \in Nat, NEW entry, Record(id, entry),
           Issued' = Issued \cup {id}, id \in Issued => entry.amount = entries[id].amount,
           NEW run, Balanced(run), Refunds(run, id, entry), id \in captured_reservations(run)
    PROVE  Balanced(run)'
<1>1. PICK top : top = Len(history) + 1
    OBVIOUS
<1>2. PICK S : S = captured_reservations(run)
    OBVIOUS
<1>3. PICK C : C = ChargeRows(run)
    OBVIOUS
<1>4. PICK R : R = RefundRows(run)
    OBVIOUS
<1>5. /\ captured_reservations(run)' = S \ {id}
      /\ ChargeRows(run)' = C /\ RefundRows(run)' = R \cup {top}
      /\ Amounts'[id] = entry.amount /\ Rows'[top] = entry.amount
      /\ \A i \in Issued : Amounts'[i] = Amounts[i]
      /\ \A k \in DOMAIN history : Rows'[k] = Rows[k]
      /\ top \notin DOMAIN history
  <2>1. ~ IsCharged(entry)
      BY DEF Refunds, IsCharged
  <2> QED
      BY <1>1, <1>2, <1>3, <1>4, <2>1, RecordSums DEF Charges
<1>6. /\ IsFiniteSet(S) /\ IsFiniteSet(C) /\ IsFiniteSet(R)
      /\ S \subseteq Issued /\ C \subseteq DOMAIN history /\ R \subseteq DOMAIN history
      /\ \A i \in Issued : Amounts[i] \in Int
      /\ \A k \in DOMAIN history : Rows[k] \in Int
    BY <1>2, <1>3, <1>4, AmountsAdd DEF AuditInv
<1>7. PICK amounts : amounts = Amounts'
    OBVIOUS
<1>8. PICK rows : rows = Rows'
    OBVIOUS
<1>9. SumFunctionOnSet(Amounts, S) = entry.amount + SumFunctionOnSet(amounts, S \ {id})
  <2>1. IsFiniteSet(S \ {id})
      BY <1>6, FS_Subset
  <2>2. SumFunctionOnSet(Amounts, S) = Amounts[id] + SumFunctionOnSet(Amounts, S \ {id})
      BY <1>2, <1>6, SumApart
  <2>3. SumFunctionOnSet(amounts, S \ {id}) = SumFunctionOnSet(Amounts, S \ {id})
      BY <1>5, <1>6, <1>7, <2>1, SumSame
  <2> QED
      BY <1>2, <1>5, <1>6, <2>2, <2>3
<1>10. SumFunctionOnSet(rows, R \cup {top}) = entry.amount + SumFunctionOnSet(Rows, R)
  <2>0. id \in Issued
      BY <1>2, <1>6
  <2>1. \A k \in R \cup {top} : rows[k] \in Int
      BY <1>5, <1>6, <1>8, <2>0
  <2>2. SumFunctionOnSet(rows, R \cup {top}) = rows[top] + SumFunctionOnSet(rows, R)
      BY <1>5, <1>6, <2>1, SumMore
  <2>3. SumFunctionOnSet(rows, R) = SumFunctionOnSet(Rows, R)
      BY <1>5, <1>6, <1>8, SumSame
  <2> QED
      BY <1>5, <1>8, <2>2, <2>3
<1>11. SumFunctionOnSet(rows, C) = SumFunctionOnSet(Rows, C)
    BY <1>5, <1>6, <1>8, SumSame
<1>12. SumFunctionOnSet(Amounts, S) = SumFunctionOnSet(Rows, C) - SumFunctionOnSet(Rows, R)
    BY <1>2, <1>3, <1>4 DEF Balanced, total_charged, Credits, Amounts, Rows
<1>13. /\ SumFunctionOnSet(Rows, C) \in Int /\ SumFunctionOnSet(Rows, R) \in Int
       /\ SumFunctionOnSet(amounts, S \ {id}) \in Int /\ entry.amount \in Int
  <2>1. IsFiniteSet(S \ {id}) /\ id \in Issued
      BY <1>2, <1>6, FS_Subset
  <2>2. \A i \in S \ {id} : amounts[i] \in Int
      BY <1>5, <1>6, <1>7
  <2> QED
      BY <1>5, <1>6, <2>1, <2>2, SumIsInt
<1>14. SumFunctionOnSet(amounts, S \ {id}) =
            SumFunctionOnSet(rows, C) - SumFunctionOnSet(rows, R \cup {top})
    BY <1>9, <1>10, <1>11, <1>12, <1>13
<1> QED
    BY <1>5, <1>7, <1>8, <1>14 DEF Balanced, total_charged, Credits, Amounts, Rows

\* A reservation is released out of a charge only if its last row was one: the
\* life cycle has no way from a charge back to a held reservation.
LEMMA ChargedBefore ==
    ASSUME AuditInv, NEW id \in Issued, NEW run
    PROVE  /\ Charges(run, entries[id]) => \E j \in ChargeRows(run) : history[j].id = id
           /\ entries[id].state = "reserved" => ~ \E j \in ChargeRows(run) : history[j].id = id
<1>1. PICK last \in DOMAIN history :
          /\ history[last] = [id |-> id, entry |-> entries[id]]
          /\ \A j \in DOMAIN history : j > last => history[j].id # id
    BY DEF AuditInv, HistoryIsCurrent
<1>2. Charges(run, entries[id]) => last \in ChargeRows(run)
    BY <1>1 DEF ChargeRows, Charges
<1>3. ASSUME entries[id].state = "reserved", NEW j \in ChargeRows(run), history[j].id = id
      PROVE  FALSE
  <2>1. j \in DOMAIN history /\ history[j].entry.state \in {"captured", "needs_reconciliation"}
      BY <1>3 DEF ChargeRows, IsCharged
  <2>2. j # last
      BY <1>1, <1>3, <2>1
  <2>3. j < last
      BY <1>1, <1>3, <2>1, <2>2 DEF AuditInv, TypeOK
  <2>4. <<history[j].entry.state, "reserved">> \in Later
      BY <1>1, <1>3, <2>1, <2>3 DEF AuditInv, HistoryIsLegal
  <2> QED
      BY <2>1, <2>4 DEF Later
<1> QED
    BY <1>1, <1>2, <1>3

LEMMA BalanceKept ==
    ASSUME AuditInv, AuditInv', [Next]_vars, NEW run, Balanced(run)
    PROVE  Balanced(run)'
<1>1. ASSUME NEW to \in RunId, NEW amount \in Amount, Reserve(to, amount)
      PROVE  Balanced(run)'
  <2>1. PICK row : row = [run |-> to, amount |-> amount,
                          state |-> "reserved", outcome |-> NoOutcome]
      OBVIOUS
  <2>2. /\ counter' \in Nat
        /\ counter' \notin Issued
        /\ Issued' = Issued \cup {counter'}
        /\ Record(counter', row)
      BY <1>1, <2>1, MaxReservationsAssumption DEF Reserve, AuditInv, TypeOK, Issued
  <2>3. row.state = "reserved"
      BY <2>1
  <2>4. ~ Charges(run, row) /\ ~ Refunds(run, counter', row) /\ ~ IsCharged(row)
      BY <2>3 DEF Charges, Refunds, IsCharged
  <2>5. counter' \notin captured_reservations(run)
      BY <2>2 DEF captured_reservations, OfRun
  <2> QED
      BY <2>2, <2>4, <2>5, NothingMoves
<1>2. ASSUME NEW id \in Id, NEW outcome \in Outcome, Capture(id, outcome)
      PROVE  Balanced(run)'
  <2>1. PICK row : row = AfterCapture(entries[id], outcome)
      OBVIOUS
  <2>2. /\ id \in Nat /\ id \in Issued /\ Issued' = Issued \cup {id}
        /\ Record(id, row)
        /\ entries[id] \in Entry /\ CaptureCharges(entries[id])
      BY <1>2, <2>1 DEF Capture, AuditInv, TypeOK, Issued, Id
  <2>3. /\ row \in Entry /\ row.amount = entries[id].amount
        /\ row.state \in {"captured", "needs_reconciliation"}
        /\ entries[id].state = "reserved"
      BY <2>1, <2>2, CapturedRow
  <2>4. row.amount \in Nat
    <3>1. row.amount \in {a \in Amount : a >= 0}
        BY <2>3 DEF Entry
    <3>2. \A a \in {b \in Amount : b >= 0} : a \in Nat
        BY AmountAssumption
    <3> QED
        BY <3>1, <3>2
  <2>5. /\ ~ Refunds(run, id, row) /\ row.state # "released"
        /\ id \notin captured_reservations(run)
      BY <2>3 DEF Refunds, captured_reservations, IsCharged
  <2>6. CASE Charges(run, row)
      BY <2>2, <2>3, <2>4, <2>5, <2>6, ChargeMoves
  <2>7. CASE ~ Charges(run, row)
      BY <2>2, <2>3, <2>5, <2>7, NothingMoves
  <2> QED
      BY <2>6, <2>7
<1>3. ASSUME NEW id \in Id, Release(id) PROVE Balanced(run)'
  <2>1. PICK row : row = AfterRelease(entries[id])
      OBVIOUS
  <2>2. /\ id \in Nat /\ id \in Issued /\ Issued' = Issued \cup {id}
        /\ Record(id, row)
        /\ entries[id] \in Entry /\ ReleaseRefunds(entries[id])
      BY <1>3, <2>1 DEF Release, AuditInv, TypeOK, Issued, Id
  <2>3. /\ row.amount = entries[id].amount /\ row.run = entries[id].run
        /\ row.state = "released"
        /\ entries[id].state \in {"reserved", "needs_reconciliation"}
      BY <2>1, <2>2, ReleasedRow
  <2>4. ~ IsCharged(row) /\ ~ Charges(run, row)
      BY <2>3 DEF Charges, IsCharged
  <2>5. CASE entries[id].state = "needs_reconciliation" /\ row.run = run
    <3>1. Refunds(run, id, row) /\ id \in captured_reservations(run)
        BY <2>2, <2>3, <2>5, ChargedBefore
        DEF Refunds, Charges, IsCharged, captured_reservations, OfRun
    <3> QED
        BY <2>2, <2>3, <3>1, RefundMoves
  <2>6. CASE entries[id].state = "reserved" \/ row.run # run
    <3>1. ~ Refunds(run, id, row) /\ id \notin captured_reservations(run)
        BY <2>2, <2>3, <2>6, ChargedBefore
        DEF Refunds, IsCharged, captured_reservations, OfRun
    <3> QED
        BY <2>2, <2>3, <2>4, <3>1, NothingMoves
  <2> QED
      BY <2>3, <2>5, <2>6
<1>4. CASE Answers \/ UNCHANGED vars
  <2>1. UNCHANGED <<counter, entries, history>>
      BY <1>4, AnswerKeepsLedger DEF vars
  <2> QED
      BY <2>1 DEF Balanced, total_charged, captured_reservations, OfRun, Issued, Credits, ChargeRows,
                  RefundRows
<1> QED
    BY <1>1, <1>2, <1>3, <1>4, StepWritesOrAnswers DEF Writes

\* What a run is reported to have been charged is what its history charges less
\* what it refunds, and at most what was reserved: no order of calls, repeated
\* or refused, makes the ledger and its audit disagree about money.
THEOREM AuditAddsUp == Spec => []AuditBalances
<1> DEFINE Balance == \A run \in RunId : Balanced(run)
<1>1. Init => Balance
  <2> SUFFICES ASSUME Init, NEW run \in RunId PROVE Balanced(run)
      OBVIOUS
  <2>1. captured_reservations(run) = {} /\ ChargeRows(run) = {} /\ RefundRows(run) = {}
      BY DEF Init, captured_reservations, OfRun, Issued, ChargeRows, RefundRows
  <2> QED
      BY <2>1, SumOfNone DEF Balanced, total_charged, Credits
<1>2. AuditInv /\ AuditInv' /\ [Next]_vars /\ Balance => Balance'
    BY BalanceKept
<1>3. ASSUME AuditInv, Balance PROVE AuditBalances
  <2> SUFFICES ASSUME NEW run \in RunId PROVE total_charged(run) <= total_reserved(run)
      BY <1>3 DEF AuditBalances, Balanced
  <2>1. /\ IsFiniteSet(OfRun(run)) /\ OfRun(run) \subseteq Issued
        /\ captured_reservations(run) \subseteq OfRun(run)
        /\ \A id \in Issued : Amounts[id] \in Nat
      BY <1>3, AmountsAdd DEF AuditInv, captured_reservations
  <2>2. SumFunctionOnSet(Amounts, captured_reservations(run)) <=
            SumFunctionOnSet(Amounts, OfRun(run))
      BY <2>1, SumGrows
  <2> QED
      BY <2>2 DEF total_charged, total_reserved, Amounts
<1> HIDE DEF Balance
<1> QED
    BY <1>1, <1>2, <1>3, AuditAlways, PTL DEF Spec

-----------------------------------------------------------------------------
(* The promise. *)

\* A write moves the status of its id to that of the row, and no other.
LEMMA RecordMoves ==
    ASSUME TypeOK, NEW id \in Id, NEW entry, Record(id, entry),
           Issued' = Issued \cup {id}
    PROVE  /\ Status(id)' = StatusOf(entry.state)
           /\ \A i \in Id \ {id} : Status(i)' = Status(i)
<1>1. entries'[id] = entry /\ id \in Issued'
    BY DEF TypeOK, Record
<1>2. ASSUME NEW i \in Id \ {id} PROVE Status(i)' = Status(i)
  <2>1. (i \in Issued') <=> (i \in Issued)
      OBVIOUS
  <2>2. i \in Issued => entries'[i] = entries[i]
      BY DEF TypeOK, Record
  <2> QED
      BY <2>1, <2>2 DEF Status
<1> QED
    BY <1>1, <1>2 DEF Status

\* A single status changes: the step is one move of the promise.
LEMMA MovePromise ==
    ASSUME NEW id \in Id, \A i \in Id \ {id} : Status(i)' = Status(i),
           NEW from, Status(id) \in from
    PROVE  Promise!Move(id, from, Status(id)')
    BY DEF Promise!Move

\* Every reachable step moves at most one reservation, by one legal move, and
\* every call that answers without writing is a stutter.
THEOREM KeepsPromise == Spec => ImplementsReservations
<1>1. Init => Promise!Init
    BY DEF Init, Promise!Init, Status, Issued
<1>2. TypeOK /\ [Next]_vars => [Promise!Next]_([id \in Id |-> Status(id)])
  <2> SUFFICES ASSUME TypeOK, [Next]_vars
               PROVE  [Promise!Next]_([id \in Id |-> Status(id)])
      OBVIOUS
  <2>1. ASSUME NEW run \in RunId, NEW amount \in Amount, Reserve(run, amount)
        PROVE  Promise!Next
    <3> DEFINE row == [run |-> run, amount |-> amount,
                       state |-> "reserved", outcome |-> NoOutcome]
    <3>1. PICK id \in Id : /\ id \notin Issued
                           /\ Issued' = Issued \cup {id}
                           /\ Record(id, row)
        BY <2>1, MaxReservationsAssumption DEF Reserve, TypeOK, Issued, Id
    <3>2. row.state = "reserved"
        OBVIOUS
    <3> HIDE DEF row
    <3>3. Status(id)' = "held"
        BY <3>1, <3>2, RecordMoves DEF StatusOf
    <3>4. Status(id) = "free"
        BY <3>1 DEF Status
    <3> QED
        BY <3>1, <3>3, <3>4, RecordMoves, MovePromise DEF Promise!Hold, Promise!Next
  <2>2. ASSUME NEW id \in Id, NEW outcome \in Outcome, Capture(id, outcome)
        PROVE  Promise!Next
    <3> DEFINE row == AfterCapture(entries[id], outcome)
    <3>1. /\ id \in Issued /\ Issued' = Issued \cup {id}
          /\ entries[id] \in Entry /\ CaptureCharges(entries[id])
          /\ Record(id, row)
        BY <2>2 DEF Capture, TypeOK, Issued
    <3>2. entries[id].state = "reserved" /\ row.state \in {"captured", "needs_reconciliation"}
        BY <3>1, CapturedRow
    <3> HIDE DEF row
    <3>3. Status(id)' \in {"charged", "disputed"} /\ Status(id) = "held"
        BY <3>1, <3>2, RecordMoves DEF Status, StatusOf
    <3> QED
        BY <3>1, <3>3, RecordMoves, MovePromise
        DEF Promise!Charge, Promise!Dispute, Promise!Next
  <2>3. ASSUME NEW id \in Id, Release(id) PROVE Promise!Next
    <3> DEFINE row == AfterRelease(entries[id])
    <3>1. /\ id \in Issued /\ Issued' = Issued \cup {id}
          /\ entries[id] \in Entry /\ ReleaseRefunds(entries[id])
          /\ Record(id, row)
        BY <2>3 DEF Release, TypeOK, Issued
    <3>2. /\ entries[id].state \in {"reserved", "needs_reconciliation"}
          /\ row.state = "released"
        BY <3>1, ReleasedRow
    <3> HIDE DEF row
    <3>3. Status(id)' = "refunded" /\ Status(id) \in {"held", "disputed"}
        BY <3>1, <3>2, RecordMoves DEF Status, StatusOf
    <3> QED
        BY <3>1, <3>3, RecordMoves, MovePromise DEF Promise!Refund, Promise!Next
  <2>4. CASE Answers
    <3>1. \A id \in Id : Status(id)' = Status(id)
        BY <2>4, AnswerKeepsLedger DEF Status, Issued
    <3> QED
        BY <3>1
  <2>5. CASE UNCHANGED vars
      BY <2>5 DEF vars, Status, Issued
  <2> QED
      BY <2>1, <2>2, <2>3, <2>4, <2>5, StepWritesOrAnswers DEF Writes
<1> QED
    BY <1>1, <1>2, TypeCorrect, PTL DEF Spec, ImplementsReservations, Promise!Spec
=============================================================================
