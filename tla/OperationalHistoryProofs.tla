---------------------- MODULE OperationalHistoryProofs ----------------------
(***************************************************************************)
(* Proofs about OperationalHistory, for every number of clients, attempts, *)
(* days and records, every delay and every clock.                          *)
(***************************************************************************)
EXTENDS OperationalHistory, SequenceTheorems, TLAPS

Publishers == {"reconciled", "linking"}

\* The first n records of a journal.
First(j, n) == [i \in 1 .. n |-> j[i]]

\* An aggregate was made from an initial part of the journal.
Partial(a, j) == \E n \in 0 .. Len(j) : a.records = DayRecords(First(j, n), a.date)

\* Its day may be published, and it lacks only what was written late.
Timely(a, j, l, t) ==
  /\ t >= Opens(a.date)
  /\ \A r \in DayRecords(j, a.date) : r.attempt \in l \/ r \in a.records

Fresh(c) ==
  /\ ~ HasReceipt(journal, record[c].attempt)
  /\ record[c].prior = ChainTail(journal)
  /\ Len(journal) < Ceiling

\* What a client knows at each step: a writer's view of the journal is exact
\* because it holds the lock; a publisher's may be behind, but only by what
\* was written late.
CallOK(c) ==
  /\ phase[c] \in Writers => record[c] # None
  /\ phase[c] = "writing" => previous[c] = journal /\ Fresh(c)
  /\ phase[c] = "written" => journal # <<>> /\ journal[Len(journal)] = record[c]
  /\ phase[c] \in Publishers => day[c] # None /\ Timely(day[c], journal, late, now)
  /\ day[c] # None => Partial(day[c], journal)

CallsOK == \A c \in Clients : CallOK(c)

DaysTimely == \A d \in Days : days[d] # None => Timely(days[d], journal, late, now)

IInv == TypeOK /\ JournalVerifies /\ CallsOK /\ DaysTimely /\ ReceiptsHold

-----------------------------------------------------------------------------
(* Lemmas about the operators.                                             *)

\* The clock comparisons are about numbers.
LEMMA OpensIsNumber == ASSUME NEW d \in Days PROVE Opens(d) \in Nat
<1>1. DayLength \in Nat
  BY HistoryAssumption DEF DayLength
<1>2. d \in Nat /\ Delay \in Nat
  BY HistoryAssumption
<1>3. (d + 1) * DayLength \in Nat
  BY <1>1, <1>2
<1> QED BY <1>2, <1>3 DEF Opens

\* Every attempt belongs to a day that can be published.
LEMMA AttemptHasDay == ASSUME NEW a \in Attempts PROVE DayOf[a] \in Days
BY HistoryAssumption DEF DayOf, DayLength

\* One more record changes the records of its own day, by itself.
LEMMA DayGrows ==
  ASSUME NEW j \in Seq(Records), NEW r \in Records, NEW d
  PROVE DayRecords(Append(j, r), d)
          = DayRecords(j, d) \union (IF DayOf[r.attempt] = d THEN {r} ELSE {})
BY DEF DayRecords

\* A longer journal has the same first records.
LEMMA FirstStays ==
  ASSUME NEW j \in Seq(Records), NEW r \in Records, NEW n \in 0 .. Len(j)
  PROVE First(Append(j, r), n) = First(j, n)
BY DEF First

\* All of a journal is an initial part of it.
LEMMA FirstIsAll == ASSUME NEW j \in Seq(Records) PROVE First(j, Len(j)) = j
BY DEF First

\* The chain may be continued by its next link only, with a new receipt.
LEMMA ChainContinues ==
  ASSUME NEW j \in Seq(Records), NEW r \in Records, Verified(j),
         r.prior = ChainTail(j), ~ HasReceipt(j, r.attempt)
  PROVE Verified(Append(j, r))
<1> DEFINE k == Append(j, r)
<1>1. Len(k) = Len(j) + 1 /\ \A i \in DOMAIN j : k[i] = j[i]
  OBVIOUS
<1>2. k[Len(k)] = r /\ DOMAIN k = DOMAIN j \union {Len(k)} /\ Len(k) \notin DOMAIN j
  OBVIOUS
<1>3. \A i \in DOMAIN k : k[i].prior = IF i = 1 THEN <<>> ELSE Fingerprint(k[i - 1])
  <2> SUFFICES ASSUME NEW i \in DOMAIN k
               PROVE k[i].prior = IF i = 1 THEN <<>> ELSE Fingerprint(k[i - 1])
    OBVIOUS
  <2>1. CASE i \in DOMAIN j
    BY <2>1, <1>1 DEF Verified
  <2>2. CASE i = Len(k)
    <3>1. CASE j = <<>>
      BY <3>1, <2>2, <1>1, <1>2 DEF ChainTail
    <3>2. CASE j # <<>>
      <4>1. i # 1 /\ i - 1 = Len(j) /\ Len(j) \in DOMAIN j
        BY <3>2, <2>2, <1>1
      <4> QED BY <4>1, <3>2, <2>2, <1>1, <1>2 DEF ChainTail
    <3> QED BY <3>1, <3>2
  <2> QED BY <2>1, <2>2, <1>2
<1>4. \A i, m \in DOMAIN k : k[m].attempt = k[i].attempt => m = i
  BY <1>1, <1>2 DEF Verified, HasReceipt
<1> QED BY <1>3, <1>4 DEF Verified

-----------------------------------------------------------------------------
(* What stays true when nothing is written.                                *)

\* An aggregate keeps what is known of it while the clock goes on.
LEMMA ClockGoesOn ==
  ASSUME NEW a, a.date \in Days, NEW j, NEW l, NEW t \in Nat, NEW u \in Nat, u >= t, Timely(a, j, l, t)
  PROVE Timely(a, j, l, u)
BY OpensIsNumber DEF Timely

\* One more record leaves an aggregate timely if it is of another day or late.
LEMMA JournalGoesOn ==
  ASSUME NEW a, a.date \in Days, NEW j \in Seq(Records), NEW r \in Records, NEW l, NEW m, NEW t \in Nat,
         Timely(a, j, l, t), l \subseteq m,
         DayOf[r.attempt] = a.date /\ t >= Opens(a.date) => r.attempt \in m
  PROVE Timely(a, Append(j, r), m, t)
<1>1. DayRecords(Append(j, r), a.date)
        = DayRecords(j, a.date) \union (IF DayOf[r.attempt] = a.date THEN {r} ELSE {})
  BY DayGrows
<1> QED BY <1>1 DEF Timely

\* What was an initial part stays one.
LEMMA PartStays ==
  ASSUME NEW a, NEW j \in Seq(Records), NEW r \in Records, Partial(a, j)
  PROVE Partial(a, Append(j, r))
<1>1. PICK n \in 0 .. Len(j) : a.records = DayRecords(First(j, n), a.date)
  BY DEF Partial
<1>2. First(Append(j, r), n) = First(j, n) /\ n \in 0 .. Len(Append(j, r))
  BY FirstStays
<1> QED BY <1>1, <1>2 DEF Partial

\* What the other clients hold is not touched.
OthersKeep(c) ==
  \A e \in Clients \ {c} :
    /\ phase'[e] = phase[e] /\ record'[e] = record[e]
    /\ previous'[e] = previous[e] /\ day'[e] = day[e]

\* A step that writes no file leaves only the client that takes it to look at.
LEMMA QuietStep ==
  ASSUME IInv, NEW c \in Clients, OthersKeep(c),
         UNCHANGED <<journal, days, now, late>>,
         TypeOK', CallOK(c)', ReceiptsHold'
  PROVE IInv'
<1> USE DEF IInv
<1>1. JournalVerifies'
  BY DEF JournalVerifies
<1>2. now \in Nat /\ now' \in Nat /\ now' >= now
  BY DEF TypeOK
<1>3. ASSUME NEW e \in Clients, e # c PROVE CallOK(e)'
  <2>1. CallOK(e) /\ phase'[e] = phase[e] /\ record'[e] = record[e]
        /\ previous'[e] = previous[e] /\ day'[e] = day[e]
    BY <1>3 DEF CallsOK, OthersKeep
  <2>2. Fresh(e) => Fresh(e)'
    BY <2>1 DEF Fresh
  <2> QED BY <2>1, <2>2 DEF CallOK
<1>4. CallsOK'
  BY <1>3 DEF CallsOK
<1>5. DaysTimely'
  BY DEF DaysTimely
<1> QED BY <1>1, <1>4, <1>5

\* A client that leaves its call, with what it has in hand or without.
LEMMA LeaveStep ==
  ASSUME IInv, NEW c \in Clients, Leave(c),
         record' = record \/ record' = [record EXCEPT ![c] = None],
         day' = day \/ day' = [day EXCEPT ![c] = None],
         UNCHANGED <<journal, days, now, late>>, ReceiptsHold'
  PROVE IInv'
<1> USE DEF IInv
<1>1. TypeOK'
  <2>1. phase' \in [Clients -> {"rest", "reconciled", "linking"} \union Writers]
    BY DEF TypeOK, Leave
  <2>2. previous' \in [Clients -> Seq(Records)]
    BY EmptySeq DEF TypeOK, Leave
  <2>3. record' \in [Clients -> Records \union {None}]
    BY DEF TypeOK
  <2>4. DOMAIN day' = Clients /\ \A e \in Clients : day'[e] # None => day'[e].date \in Days
    BY DEF TypeOK
  <2>5. lock' \in Clients \union {None} /\ \A e \in Clients : lock' = e <=> phase'[e] \in Writers
    BY HistoryAssumption DEF TypeOK, Leave, Writers
  <2> QED BY <2>1, <2>2, <2>3, <2>4, <2>5 DEF TypeOK
<1>2. OthersKeep(c)
  BY DEF TypeOK, Leave, OthersKeep
<1>3. CallOK(c)'
  <2>1. phase'[c] = "rest"
    BY DEF TypeOK, Leave
  <2>2. day'[c] # None => Partial(day'[c], journal')
    BY DEF TypeOK, CallsOK, CallOK
  <2> QED BY <2>1, <2>2 DEF CallOK, Writers, Publishers
<1> QED BY <1>1, <1>2, <1>3, QuietStep

\* What was receipted stays true as long as files only grow.
LEMMA ReceiptsStay ==
  ASSUME TypeOK, ReceiptsHold, UNCHANGED <<days, receipts>>,
         journal' = journal \/ \E r \in Records : journal' = Append(journal, r)
  PROVE ReceiptsHold'
<1>1. ASSUME NEW r, InJournal(journal, r) PROVE InJournal(journal', r)
  <2>1. CASE journal' = journal
    BY <2>1, <1>1
  <2>2. CASE \E s \in Records : journal' = Append(journal, s)
    <3>1. PICK s \in Records : journal' = Append(journal, s)
      BY <2>2
    <3>2. PICK i \in DOMAIN journal : journal[i] = r
      BY <1>1 DEF InJournal
    <3>3. i \in DOMAIN journal' /\ journal'[i] = r
      BY <3>1, <3>2 DEF TypeOK
    <3> QED BY <3>3 DEF InJournal
  <2> QED BY <2>1, <2>2
<1> QED BY <1>1 DEF ReceiptsHold

-----------------------------------------------------------------------------
(* One lemma for each step that is not just a return.                      *)

LEMMA BuildPreserves ==
  ASSUME IInv, NEW c \in Clients, NEW a \in Attempts, Build(c, a) PROVE IInv'
<1> USE DEF IInv, Build
<1>1. ChainTail(journal) \in Seq(Attempts)
  <2>1. CASE journal = <<>>
    BY <2>1, EmptySeq DEF ChainTail
  <2>2. CASE journal # <<>>
    <3>1. journal[Len(journal)] \in Records
      BY <2>2 DEF TypeOK
    <3> QED BY <3>1, <2>2 DEF ChainTail, Fingerprint, Records
  <2> QED BY <2>1, <2>2
<1>2. TypeOK'
  BY <1>1 DEF TypeOK, Records, files
<1>3. OthersKeep(c)
  BY DEF TypeOK, OthersKeep, files
<1>4. CallOK(c)'
  BY DEF TypeOK, CallOK, Writers, Publishers, files
<1>5. ReceiptsHold'
  BY DEF ReceiptsHold, files
<1> QED BY <1>2, <1>3, <1>4, <1>5, QuietStep DEF files

LEMMA PreviewPreserves ==
  ASSUME IInv, NEW c \in Clients, NEW d \in Days, NEW x \in Expectations, Preview(c, d, x)
  PROVE IInv'
<1> USE DEF IInv, Preview
<1> DEFINE a == Compact(journal, d, x)
<1>1. a.date = d /\ a.records = DayRecords(journal, d)
  BY DEF Compact
<1>2. TypeOK'
  BY <1>1 DEF TypeOK, files
<1>3. OthersKeep(c)
  BY DEF TypeOK, OthersKeep, files
<1>4. Partial(a, journal)
  <2>1. Len(journal) \in 0 .. Len(journal) /\ First(journal, Len(journal)) = journal
    BY FirstIsAll DEF TypeOK
  <2> QED BY <2>1, <1>1 DEF Partial
<1>5. CallOK(c)'
  <2>1. phase'[c] = "rest" /\ day'[c] = a
    BY DEF TypeOK
  <2> QED BY <2>1, <1>4 DEF CallOK, Writers, Publishers, files
<1>6. ReceiptsHold'
  BY DEF ReceiptsHold, files
<1> QED BY <1>2, <1>3, <1>5, <1>6, QuietStep DEF files

LEMMA BeginAppendPreserves == ASSUME IInv, NEW c \in Clients, BeginAppend(c) PROVE IInv'
<1> USE DEF IInv, BeginAppend
<1>1. TypeOK'
  BY HistoryAssumption DEF TypeOK, Writers, files
<1>2. OthersKeep(c)
  BY DEF TypeOK, OthersKeep, files
<1>3. CallOK(c)'
  BY DEF TypeOK, CallsOK, CallOK, Writers, Publishers, files
<1>4. ReceiptsHold'
  BY DEF ReceiptsHold, files
<1> QED BY <1>1, <1>2, <1>3, <1>4, QuietStep DEF files

LEMMA CheckAppendPreserves == ASSUME IInv, NEW c \in Clients, CheckAppend(c) PROVE IInv'
<1> USE DEF IInv, CheckAppend
<1>1. TypeOK'
  BY DEF TypeOK, Writers, files
<1>2. OthersKeep(c)
  BY DEF TypeOK, OthersKeep, files
<1>3. CallOK(c)'
  <2>1. phase[c] = "locked" /\ phase'[c] = "writing" /\ previous'[c] = journal'
    BY DEF TypeOK, files
  <2>2. Fresh(c)'
    BY DEF Admissible, Fresh, files
  <2>3. record'[c] # None /\ (day'[c] # None => Partial(day'[c], journal'))
    BY <2>1 DEF CallsOK, CallOK, Writers, files
  <2> QED BY <2>1, <2>2, <2>3 DEF CallOK, Publishers
<1>4. ReceiptsHold'
  BY DEF ReceiptsHold, files
<1> QED BY <1>1, <1>2, <1>3, <1>4, QuietStep DEF files

LEMMA ReconcilePreserves == ASSUME IInv, NEW c \in Clients, Reconcile(c) PROVE IInv'
<1> USE DEF IInv, Reconcile
<1>1. TypeOK'
  BY DEF TypeOK, Writers, files
<1>2. OthersKeep(c)
  BY DEF TypeOK, OthersKeep, files
<1>3. CallOK(c)'
  <2>1. phase[c] = "rest" /\ phase'[c] = "reconciled" /\ day'[c] # None
    BY DEF TypeOK
  <2>2. day[c].records = DayRecords(journal, day[c].date)
    BY DEF Compact
  <2>3. Timely(day'[c], journal', late', now')
    BY <2>2 DEF Timely, files
  <2>4. Partial(day'[c], journal')
    BY DEF CallsOK, CallOK, files
  <2> QED BY <2>1, <2>3, <2>4 DEF CallOK, Writers
<1>4. ReceiptsHold'
  BY DEF ReceiptsHold, files
<1> QED BY <1>1, <1>2, <1>3, <1>4, QuietStep DEF files

LEMMA StageDayPreserves == ASSUME IInv, NEW c \in Clients, StageDay(c) PROVE IInv'
<1> USE DEF IInv, StageDay
<1>1. TypeOK'
  BY DEF TypeOK, Writers, files
<1>2. OthersKeep(c)
  BY DEF TypeOK, OthersKeep, files
<1>3. CallOK(c)'
  <2>1. phase[c] \in Publishers /\ phase'[c] = "linking"
    BY DEF TypeOK, Publishers
  <2>2. day'[c] # None /\ Timely(day'[c], journal', late', now') /\ Partial(day'[c], journal')
    BY <2>1 DEF CallsOK, CallOK, files
  <2> QED BY <2>1, <2>2 DEF CallOK, Writers
<1>4. ReceiptsHold'
  BY DEF ReceiptsHold, files
<1> QED BY <1>1, <1>2, <1>3, <1>4, QuietStep DEF files

\* The steps that end a call without a file.
Returns(c) ==
  \/ RetryAppend(c) \/ RefuseAppend(c) \/ ReplaceFails(c) \/ ConfirmAppend(c)
  \/ ConfirmFails(c) \/ AnswerFromFile(c) \/ PublishFails(c) \/ Crash(c)

LEMMA ReturnsPreserve == ASSUME IInv, NEW c \in Clients, Returns(c) PROVE IInv'
<1> USE DEF IInv
<1>1. Leave(c) /\ UNCHANGED <<journal, days, now, late>>
  BY DEF Returns, RetryAppend, RefuseAppend, ReplaceFails, ConfirmAppend, ConfirmFails,
         AnswerFromFile, PublishFails, Crash, files
<1>2. /\ record' = record \/ record' = [record EXCEPT ![c] = None]
      /\ day' = day \/ day' = [day EXCEPT ![c] = None]
  BY DEF Returns, RetryAppend, RefuseAppend, ReplaceFails, ConfirmAppend, ConfirmFails,
         AnswerFromFile, PublishFails, Crash
<1>3. ReceiptsHold'
  <2>1. CASE receipts' = receipts
    BY <2>1, <1>1 DEF ReceiptsHold
  <2>2. CASE RetryAppend(c)
    <3>1. receipts' = receipts \union {AppendReceipt(record[c])} /\ InJournal(journal, record[c])
      BY <2>2 DEF RetryAppend, Known
    <3> QED BY <3>1, <1>1 DEF ReceiptsHold, AppendReceipt
  <2>3. CASE ConfirmAppend(c)
    <3>1. receipts' = receipts \union {AppendReceipt(record[c])} /\ phase[c] = "written"
      BY <2>3 DEF ConfirmAppend
    <3>2. journal # <<>> /\ journal[Len(journal)] = record[c]
      BY <3>1 DEF CallsOK, CallOK
    <3>3. InJournal(journal, record[c])
      <4>1. Len(journal) \in DOMAIN journal
        BY <3>2 DEF TypeOK
      <4> QED BY <4>1, <3>2 DEF InJournal
    <3> QED BY <3>1, <3>3, <1>1 DEF ReceiptsHold, AppendReceipt
  <2>4. CASE AnswerFromFile(c)
    <3>1. CASE days[day[c].date] = day[c]
      <4>0. day[c] # None
        BY <2>4, <3>1 DEF AnswerFromFile
      <4>1. receipts' = receipts \union {PublicationReceipt(day[c])}
        BY <2>4, <3>1 DEF AnswerFromFile, Published
      <4> QED BY <4>0, <4>1, <3>1, <1>1 DEF ReceiptsHold, PublicationReceipt
    <3>2. CASE days[day[c].date] # day[c]
      BY <2>4, <3>2, <2>1 DEF AnswerFromFile, Published
    <3> QED BY <3>1, <3>2
  <2> QED BY <2>1, <2>2, <2>3, <2>4 DEF Returns, RefuseAppend, ReplaceFails, ConfirmFails,
             PublishFails, Crash
<1> QED BY <1>1, <1>2, <1>3, LeaveStep

\* The one step that writes the journal.  The lock makes the writer's view
\* exact; other writers are not at a step that depends on the journal, and
\* what a publisher lacks afterwards is late.
LEMMA ReplacePreserves == ASSUME IInv, NEW c \in Clients, ReplaceJournal(c) PROVE IInv'
<1> USE DEF IInv, ReplaceJournal
<1> DEFINE r == record[c]
<1>1. phase[c] = "writing" /\ r # None /\ r \in Records
  BY DEF TypeOK, CallsOK, CallOK, Writers
<1>2. journal' = Append(journal, r) /\ Fresh(c)
  BY <1>1 DEF CallsOK, CallOK
<1>3. journal \in Seq(Records) /\ Len(journal) < Ceiling /\ journal' \in Seq(Records)
      /\ Len(journal') = Len(journal) + 1 /\ journal'[Len(journal')] = r
  BY <1>1, <1>2 DEF TypeOK, Fresh
<1>4. JournalVerifies'
  <2>1. Verified(Append(journal, r))
    BY <1>1, <1>2, <1>3, ChainContinues DEF JournalVerifies, Fresh
  <2> QED BY <2>1, <1>2 DEF JournalVerifies
<1>5. TypeOK'
  <2>1. Len(journal') <= Ceiling /\ r.attempt \in Attempts /\ late' \subseteq Attempts
    BY <1>1, <1>3, HistoryAssumption DEF TypeOK, Records
  <2>2. \A e \in Clients : lock' = e <=> phase'[e] \in Writers
    BY <1>1 DEF TypeOK, Writers
  <2> QED BY <2>1, <2>2, <1>3 DEF TypeOK, Writers
<1>6. ASSUME NEW a, a.date \in Days, Timely(a, journal, late, now)
      PROVE Timely(a, journal', late', now')
  <2>1. Opens(a.date) \in Nat /\ now \in Nat
    BY <1>6, OpensIsNumber DEF TypeOK
  <2>2. DayOf[r.attempt] = a.date /\ now >= Opens(a.date) => r.attempt \in late'
    BY <2>1
  <2>3. late \subseteq late'
    OBVIOUS
  <2>4. Timely(a, Append(journal, r), late', now)
    BY <1>6, <1>1, <1>3, <2>1, <2>2, <2>3, JournalGoesOn
  <2> QED BY <2>4, <1>2
<1>7. ASSUME NEW a, Partial(a, journal) PROVE Partial(a, journal')
  BY <1>7, <1>1, <1>2, <1>3, PartStays
<1>8. ASSUME NEW e \in Clients PROVE CallOK(e)'
  <2>1. CASE e = c
    <3>1. phase'[c] = "written"
      BY DEF TypeOK
    <3>2. journal' # <<>>
      BY <1>3
    <3>3. day[c] # None => Partial(day'[c], journal')
      BY <1>7 DEF CallsOK, CallOK
    <3> QED BY <2>1, <3>1, <3>2, <3>3, <1>1, <1>3 DEF CallOK, Publishers
  <2>2. CASE e # c
    <3>1. phase'[e] = phase[e] /\ phase[e] \notin Writers
      BY <2>2, <1>1, HistoryAssumption DEF TypeOK, Writers
    <3>2. day[e] # None => day[e].date \in Days
      BY DEF TypeOK
    <3>3. day[e] # None => Partial(day[e], journal')
      BY <1>7 DEF CallsOK, CallOK
    <3>4. phase[e] \in Publishers => day[e] # None /\ Timely(day[e], journal', late', now')
      BY <3>2, <1>6 DEF CallsOK, CallOK
    <3> QED BY <3>1, <3>3, <3>4 DEF CallOK, Writers
  <2> QED BY <2>1, <2>2
<1>9. DaysTimely'
  <2> SUFFICES ASSUME NEW d \in Days, days[d] # None PROVE Timely(days[d], journal', late', now')
    BY DEF DaysTimely
  <2>1. days[d].date \in Days /\ Timely(days[d], journal, late, now)
    BY DEF TypeOK, DaysTimely
  <2> QED BY <2>1, <1>6
<1>10. ReceiptsHold'
  BY <1>1, <1>2, ReceiptsStay
<1> QED BY <1>4, <1>5, <1>8, <1>9, <1>10 DEF CallsOK

\* The one step that writes a day, which has no file yet.
LEMMA LinkPreserves == ASSUME IInv, NEW c \in Clients, LinkDay(c) PROVE IInv'
<1> USE DEF IInv, LinkDay
<1> DEFINE d == day[c].date
<1>1. /\ phase[c] = "linking" /\ day[c] # None /\ d \in Days
      /\ Timely(day[c], journal, late, now) /\ Partial(day[c], journal)
  BY DEF TypeOK, CallsOK, CallOK, Publishers
<1>2. TypeOK'
  BY <1>1, EmptySeq DEF TypeOK, Leave, Writers
<1>3. JournalVerifies'
  BY DEF JournalVerifies
<1>4. ASSUME NEW e \in Clients PROVE CallOK(e)'
  <2>1. CASE e = c
    <3>1. phase'[c] = "rest" /\ Partial(day'[c], journal')
      BY <1>1 DEF TypeOK, Leave
    <3> QED BY <2>1, <3>1 DEF CallOK, Writers, Publishers
  <2>2. CASE e # c
    <3>1. phase'[e] = phase[e] /\ previous'[e] = previous[e]
      BY <2>2 DEF TypeOK, Leave
    <3>2. CallOK(e)
      BY DEF CallsOK
    <3> QED BY <3>1, <3>2 DEF CallOK, Fresh
  <2> QED BY <2>1, <2>2
<1>5. DaysTimely'
  <2> SUFFICES ASSUME NEW f \in Days, days'[f] # None PROVE Timely(days'[f], journal, late, now)
    BY DEF DaysTimely
  <2>1. days'[f] = (IF f = d THEN day[c] ELSE days[f])
    BY DEF TypeOK
  <2> QED BY <2>1, <1>1 DEF DaysTimely
<1>6. ReceiptsHold'
  <2>1. days'[d] = day[c] /\ days[d] = None
    BY <1>1 DEF TypeOK
  <2>2. ASSUME NEW x \in receipts, x.what # None, days[x.what.date] = x.what
        PROVE days'[x.what.date] = x.what
    <3>1. x.what.date # d
      BY <2>1, <2>2
    <3> QED BY <3>1, <2>2
  <2> QED BY <2>1, <2>2, <1>1 DEF ReceiptsHold, PublicationReceipt
<1> QED BY <1>2, <1>3, <1>4, <1>5, <1>6 DEF CallsOK

LEMMA TickPreserves == ASSUME IInv, Tick PROVE IInv'
<1> USE DEF IInv, Tick
<1>1. now \in Nat /\ now' \in Nat /\ now' >= now
  BY DEF TypeOK
<1>2. TypeOK' /\ JournalVerifies' /\ ReceiptsHold'
  BY <1>1 DEF TypeOK, JournalVerifies, ReceiptsHold, Writers, files
<1>3. ASSUME NEW a, a.date \in Days, Timely(a, journal, late, now)
      PROVE Timely(a, journal', late', now')
  BY <1>3, <1>1, ClockGoesOn DEF files
<1>4. CallsOK'
  <2> SUFFICES ASSUME NEW c \in Clients PROVE CallOK(c)'
    BY DEF CallsOK
  <2>1. CallOK(c) /\ (day[c] # None => day[c].date \in Days)
    BY DEF CallsOK, TypeOK
  <2>2. phase[c] \in Publishers => Timely(day[c], journal', late', now')
    BY <2>1, <1>3 DEF CallOK
  <2> QED BY <2>1, <2>2 DEF CallOK, Fresh, files
<1>5. DaysTimely'
  <2> SUFFICES ASSUME NEW d \in Days, days[d] # None PROVE Timely(days[d], journal', late', now')
    BY DEF DaysTimely, files
  <2>1. days[d].date \in Days /\ Timely(days[d], journal, late, now)
    BY DEF TypeOK, DaysTimely
  <2> QED BY <2>1, <1>3
<1> QED BY <1>2, <1>4, <1>5

-----------------------------------------------------------------------------
(* The invariant.                                                          *)

LEMMA InitEstablishes == Init => IInv
<1> SUFFICES ASSUME Init PROVE IInv
  OBVIOUS
<1> USE DEF Init
<1>1. TypeOK
  BY HistoryAssumption, EmptySeq DEF TypeOK, Writers
<1>2. JournalVerifies /\ ReceiptsHold
  BY DEF JournalVerifies, Verified, ReceiptsHold
<1>3. CallsOK /\ DaysTimely
  BY DEF CallsOK, CallOK, DaysTimely, Writers, Publishers
<1> QED BY <1>1, <1>2, <1>3 DEF IInv

LEMMA NextPreserves == IInv /\ [Next]_vars => IInv'
<1> SUFFICES ASSUME IInv, [Next]_vars PROVE IInv'
  OBVIOUS
<1>1. CASE UNCHANGED vars
  BY <1>1 DEF vars, IInv, TypeOK, JournalVerifies, CallsOK, CallOK, Fresh, DaysTimely, ReceiptsHold
<1>2. CASE \E c \in Clients, a \in Attempts : Build(c, a)
  BY <1>2, BuildPreserves
<1>3. CASE \E c \in Clients : Appending(c) \/ Publishing(c) \/ Crash(c)
  <2> PICK c \in Clients : Appending(c) \/ Publishing(c) \/ Crash(c)
    BY <1>3
  <2>1. CASE Returns(c)
    BY <2>1, ReturnsPreserve
  <2>2. CASE BeginAppend(c) \/ CheckAppend(c) \/ ReplaceJournal(c)
    BY <2>2, BeginAppendPreserves, CheckAppendPreserves, ReplacePreserves
  <2>3. CASE Reconcile(c) \/ StageDay(c) \/ LinkDay(c)
    BY <2>3, ReconcilePreserves, StageDayPreserves, LinkPreserves
  <2> QED BY <2>1, <2>2, <2>3 DEF Appending, Publishing, Returns
<1>4. CASE \E c \in Clients, d \in Days, x \in Expectations : Preview(c, d, x)
  BY <1>4, PreviewPreserves
<1>5. CASE Tick
  BY <1>5, TickPreserves
<1> QED BY <1>1, <1>2, <1>3, <1>4, <1>5 DEF Next

\* The invariant holds of every behaviour.
THEOREM Inductive == Spec => []IInv
<1> QED BY InitEstablishes, NextPreserves, PTL DEF Spec

\* The types hold, and exactly the client that appends holds the lock.
THEOREM TypeCorrect == Spec => []TypeOK
<1>1. IInv => TypeOK
  BY DEF IInv
<1> QED BY <1>1, Inductive, PTL

\* The journal always loads, whatever writers interleave, fail or die.
THEOREM ChainIntact == Spec => []JournalVerifies
<1>1. IInv => JournalVerifies
  BY DEF IInv
<1> QED BY <1>1, Inductive, PTL

\* No receipt, of an append or of a publication, is ever taken back.
THEOREM ReceiptsTrue == Spec => []ReceiptsHold
<1>1. IInv => ReceiptsHold
  BY DEF IInv
<1> QED BY <1>1, Inductive, PTL

\* A published day lacks at most records that were written late.
THEOREM OnlyLateMissing == Spec => []TimelyCounted
<1>1. IInv => TimelyCounted
  BY DEF IInv, TypeOK, DaysTimely, Timely, TimelyCounted
<1> QED BY <1>1, Inductive, PTL

-----------------------------------------------------------------------------
(* The journal and the day files implement the abstract log.               *)

Entered == [i \in DOMAIN journal |-> journal[i].attempt]
SealedDays == [d \in Days |-> IF days[d] = None THEN None ELSE SealedEntries(days[d])]

\* Writing the journal records the attempt.
LEMMA ReplaceRecords ==
  ASSUME IInv, NEW c \in Clients, ReplaceJournal(c) PROVE \E a \in Attempts : Log!Record(a)
<1> DEFINE r == record[c]
<1>1. r \in Records /\ journal \in Seq(Records) /\ journal' = Append(journal, r) /\ days' = days
      /\ ~ HasReceipt(journal, r.attempt)
  BY DEF IInv, TypeOK, CallsOK, CallOK, Fresh, Writers, ReplaceJournal
<1>2. r.attempt \in Attempts
  BY <1>1 DEF Records
<1>3. \A i \in DOMAIN Entered : Entered[i] # r.attempt
  BY <1>1 DEF Entered, HasReceipt
<1>4. Entered' = Append(Entered, r.attempt)
  <2>1. DOMAIN journal = 1 .. Len(journal) /\ DOMAIN journal' = 1 .. Len(journal) + 1
        /\ Len(journal) \in Nat
    BY <1>1
  <2>2. Entered \in Seq(Attempts) /\ Len(Entered) = Len(journal)
    <3>1. \A i \in 1 .. Len(journal) : journal[i].attempt \in Attempts
      <4> SUFFICES ASSUME NEW i \in 1 .. Len(journal) PROVE journal[i].attempt \in Attempts
        OBVIOUS
      <4>1. journal[i] \in Records
        BY <1>1
      <4> QED BY <4>1 DEF Records
    <3>2. Entered \in [1 .. Len(journal) -> Attempts]
      BY <2>1, <3>1 DEF Entered
    <3> QED BY <2>1, <3>2
  <2>3. Append(Entered, r.attempt) \in Seq(Attempts)
    BY <1>2, <2>2
  <2>4. \A i \in 1 .. Len(journal) + 1 : journal'[i].attempt = Append(Entered, r.attempt)[i]
    BY <1>1, <2>1, <2>2 DEF Entered
  <2>5. Entered' = [i \in 1 .. Len(journal) + 1 |-> journal'[i].attempt]
    BY <2>1 DEF Entered
  <2>6. Append(Entered, r.attempt) = [i \in 1 .. Len(journal) + 1 |-> Append(Entered, r.attempt)[i]]
    BY <2>2, <2>3
  <2> QED BY <2>4, <2>5, <2>6
<1>5. UNCHANGED SealedDays
  BY <1>1 DEF SealedDays, SealedEntries
<1> QED BY <1>2, <1>3, <1>4, <1>5 DEF Log!Record, Entered, SealedDays

\* Linking the file of a day seals it.
LEMMA LinkSeals ==
  ASSUME IInv, NEW c \in Clients, LinkDay(c) PROVE \E e \in Days : Log!Seal(e)
<1>0. PICK d \in Days : d = day[c].date
  BY DEF IInv, TypeOK, CallsOK, CallOK, Publishers, LinkDay
<1>1. d \in Days /\ day[c] # None /\ days[d] = None /\ days' = [days EXCEPT ![d] = day[c]]
      /\ DOMAIN days = Days /\ journal' = journal /\ Partial(day[c], journal) /\ journal \in Seq(Records)
  BY <1>0 DEF IInv, TypeOK, CallsOK, CallOK, Publishers, LinkDay
<1>2. PICK n \in 0 .. Len(journal) : day[c].records = DayRecords(First(journal, n), d)
  BY <1>0, <1>1 DEF Partial
<1>3. n \in 0 .. Len(Entered) /\ \A i \in 1 .. n : Entered[i] = journal[i].attempt
  BY <1>1, <1>2 DEF Entered
<1>4. SealedEntries(day[c]) = Log!EntriesOf([i \in 1 .. n |-> Entered[i]], d)
  <2>1. SealedEntries(day[c]) = {journal[i].attempt : i \in {k \in 1 .. n : DayOf[journal[k].attempt] = d}}
    <3>1. day[c].records = {journal[i] : i \in {k \in 1 .. n : DayOf[journal[k].attempt] = d}}
      BY <1>2 DEF DayRecords, First
    <3> QED BY <3>1 DEF SealedEntries
  <2> QED BY <2>1, <1>3 DEF Log!EntriesOf
<1>5. SealedDays' = [SealedDays EXCEPT ![d] = SealedEntries(day[c])]
  BY <1>1 DEF SealedDays, SealedEntries
<1>6. SealedDays[d] = None
  BY <1>1 DEF SealedDays
<1>7. Entered' = Entered
  BY <1>1 DEF Entered
<1>8. \E m \in 0 .. Len(Entered) :
        SealedDays' = [SealedDays EXCEPT ![d] = Log!EntriesOf([i \in 1 .. m |-> Entered[i]], d)]
  BY <1>3, <1>4, <1>5
<1>9. Log!Seal(d)
  BY <1>6, <1>7, <1>8 DEF Log!Seal, Entered, SealedDays
<1> QED BY <1>9

\* Every other step is invisible in the abstract log.
LEMMA OthersStutter ==
  ASSUME UNCHANGED <<journal, days>> PROVE UNCHANGED Log!logVars
BY DEF Log!logVars, SealedEntries

LEMMA StepsRefine == IInv /\ [Next]_vars => [Log!LogNext]_(Log!logVars)
<1> SUFFICES ASSUME IInv, [Next]_vars PROVE [Log!LogNext]_(Log!logVars)
  OBVIOUS
<1>1. CASE UNCHANGED <<journal, days>>
  BY <1>1, OthersStutter
<1>2. CASE \E c \in Clients : ReplaceJournal(c)
  BY <1>2, ReplaceRecords DEF Log!LogNext
<1>3. CASE \E c \in Clients : LinkDay(c)
  BY <1>3, LinkSeals DEF Log!LogNext
<1>4. \/ UNCHANGED <<journal, days>>
      \/ \E c \in Clients : ReplaceJournal(c)
      \/ \E c \in Clients : LinkDay(c)
  BY DEF Next, Appending, Publishing, Build, Preview, Tick, Crash, BeginAppend, RetryAppend, RefuseAppend,
         CheckAppend, ReplaceFails, ConfirmAppend, ConfirmFails, Reconcile, AnswerFromFile, StageDay,
         PublishFails, files, vars
<1> QED BY <1>1, <1>2, <1>3, <1>4

LEMMA InitRefines == Init => Log!LogInit
BY DEF Init, Log!LogInit

\* Nothing recorded is lost, reordered or recorded twice, and a day is sealed
\* once, from an initial part of its records.
THEOREM ImplementsSealedLog == Spec => LogSpec
<1> QED BY InitRefines, StepsRefine, Inductive, PTL DEF Spec, LogSpec, Log!LogSpec
=============================================================================
