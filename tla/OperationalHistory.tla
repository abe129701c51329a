------------------------- MODULE OperationalHistory -------------------------
(***************************************************************************)
(* The operational history of the Manchester sources                       *)
(* (integration/manchester/operational_history.py): a hash-chained journal *)
(* of terminal attempts that writers append to under an advisory file      *)
(* lock, and one immutable file for each UTC day, published from the       *)
(* journal without that lock.                                              *)
(*                                                                         *)
(* The digest of a record covers its content and the digest before it, so  *)
(* it is represented by what it stands for: the attempts up to and         *)
(* including it.  The journal file is replaced as a whole, so it is the    *)
(* sequence of its records and never holds a part of one.  Clients         *)
(* are processes; each runs one call at a time, may fail in it, and may    *)
(* die at any step, which releases the lock and forgets what it held.      *)
(* Policies are taken as approved: the test of the owner's decision        *)
(* precedes every call and changes nothing.                                *)
(***************************************************************************)
EXTENDS Naturals, Sequences, FiniteSets

CONSTANTS
  Clients,         \* processes that append, preview and publish
  Attempts,        \* terminal source attempts, each with its own receipt
  Terminal,        \* terminal_at_utc of each attempt
  Source, Trigger, \* of each attempt
  Sources,
  Expectations,    \* cadence denominators a caller may declare: a number for each source
  Days,            \* UTC days that may be published
  HoursPerDay,     \* 24 in the code
  HourLength,      \* clock ticks in an hour
  Delay,           \* compaction_delay_hours, in ticks
  Ceiling,         \* how many records the disk ceiling admits
  MaxTime,         \* bound on the clock
  None

DayLength == HoursPerDay * HourLength
DayOf == [a \in Attempts |-> Terminal[a] \div DayLength]

ASSUME HistoryAssumption ==
  /\ HoursPerDay \in Nat \ {0} /\ HourLength \in Nat \ {0}
  /\ Delay \in Nat /\ Ceiling \in Nat /\ MaxTime \in Nat
  /\ Days \subseteq Nat
  /\ Terminal \in [Attempts -> Nat]
  /\ \A a \in Attempts : Terminal[a] \div (HoursPerDay * HourLength) \in Days
  /\ Expectations \subseteq [Sources -> Nat]
  /\ None \notin Clients

VARIABLES
  journal,      \* the records of journal-v1.jsonl
  days,         \* for each day the aggregate in its file, or None
  lock,         \* the client that holds .journal-v1.lock, or None
  now,          \* the clock
  phase,        \* for each client the step it is at
  record,       \* the record a client built and may append, or None
  previous,     \* the journal a writer read under the lock
  day,          \* the aggregate a client previewed and may publish, or None
  receipts,     \* ghost: receipts of appends and of publications
  late          \* ghost: attempts written when their day could be published

vars == <<journal, days, lock, now, phase, record, previous, day, receipts, late>>
files == <<journal, days>>

-----------------------------------------------------------------------------
(* The chain.                                                              *)

Records == [attempt : Attempts, prior : Seq(Attempts)]

Fingerprint(r) == Append(r.prior, r.attempt)

\* tail_chain_sha256; the genesis digest stands for no attempt at all.
ChainTail(j) == IF j = <<>> THEN <<>> ELSE Fingerprint(j[Len(j)])

\* _load_operational_journal accepts the file: every link continues the chain
\* and no receipt occurs twice.
Verified(j) ==
  \A i \in DOMAIN j :
    /\ j[i].prior = IF i = 1 THEN <<>> ELSE Fingerprint(j[i - 1])
    /\ \A k \in DOMAIN j : j[k].attempt = j[i].attempt => k = i

InJournal(j, r) == \E i \in DOMAIN j : j[i] = r

HasReceipt(j, a) == \E i \in DOMAIN j : j[i].attempt = a

-----------------------------------------------------------------------------
(* Compaction of one day.                                                  *)

DayRecords(j, d) == {j[i] : i \in {k \in DOMAIN j : DayOf[j[k].attempt] = d}}

InHour(a, d, h) ==
  LET start == d * DayLength + h * HourLength IN start <= Terminal[a] /\ Terminal[a] < start + HourLength

HourAttempts(rs, d, s, h) ==
  Cardinality({r \in rs : Source[r.attempt] = s /\ InHour(r.attempt, d, h)})

SourceAttempts(rs, s) == Cardinality({r \in rs : Source[r.attempt] = s})

Automatic(rs, s) == Cardinality({r \in rs : Source[r.attempt] = s /\ Trigger[r.attempt] = "automatic"})

Missing(rs, s, expected) ==
  IF Automatic(rs, s) < expected[s] THEN expected[s] - Automatic(rs, s) ELSE 0

\* The order of the records needs no field: each digest covers those before.
Compact(j, d, expected) ==
  LET rs == DayRecords(j, d) IN
  [date |-> d, expectations |-> expected, records |-> rs,
   missing |-> [s \in Sources |-> Missing(rs, s, expected)],
   hours |-> [s \in Sources |-> [h \in 0 .. HoursPerDay - 1 |-> HourAttempts(rs, d, s, h)]]]

\* When a day may be published.
Opens(d) == (d + 1) * DayLength + Delay

-----------------------------------------------------------------------------
(* Appending.                                                              *)

Init ==
  /\ journal = <<>> /\ days = [d \in Days |-> None]
  /\ lock = None /\ now = 0
  /\ phase = [c \in Clients |-> "rest"]
  /\ record = [c \in Clients |-> None]
  /\ previous = [c \in Clients |-> <<>>]
  /\ day = [c \in Clients |-> None]
  /\ receipts = {} /\ late = {}

\* The caller reads the journal and builds a record of an attempt that is
\* over.  It may keep the record and offer it again after any answer.  A
\* caller has one thing in hand, a record or a day; another is another client.
Build(c, a) ==
  /\ phase[c] = "rest"
  /\ Terminal[a] <= now /\ Verified(journal)
  /\ record' = [record EXCEPT ![c] = [attempt |-> a, prior |-> ChainTail(journal)]]
  /\ day' = [day EXCEPT ![c] = None]
  /\ UNCHANGED <<files, lock, now, phase, previous, receipts, late>>

\* A lock that is taken is not waited for: the call is refused as busy.
BeginAppend(c) ==
  /\ phase[c] = "rest" /\ record[c] # None
  /\ lock = None
  /\ lock' = c
  /\ phase' = [phase EXCEPT ![c] = "locked"]
  /\ UNCHANGED <<files, now, record, previous, day, receipts, late>>

\* The call returns or raises; the lock is given back in every case.
Leave(c) ==
  /\ phase' = [phase EXCEPT ![c] = "rest"]
  /\ lock' = IF lock = c THEN None ELSE lock
  /\ previous' = [previous EXCEPT ![c] = <<>>]

AppendReceipt(r) == [kind |-> "append", what |-> r]

\* The receipt is in the journal already: bound to this record, or to another.
Known(c) == InJournal(journal, record[c])

\* Mutant: any record is taken as the next link.
AdmissibleAnywhere(c) ==
  /\ ~ HasReceipt(journal, record[c].attempt)
  /\ days[DayOf[record[c].attempt]] = None
  /\ Len(journal) < Ceiling

\* A new receipt, the next link, a day without a file, and room for it.
Admissible(c) ==
  /\ ~ HasReceipt(journal, record[c].attempt)
  /\ record[c].prior = ChainTail(journal)
  /\ days[DayOf[record[c].attempt]] = None
  /\ Len(journal) < Ceiling

RetryAppend(c) ==
  /\ phase[c] = "locked"
  /\ Verified(journal) /\ Known(c)
  /\ receipts' = receipts \union {AppendReceipt(record[c])}
  /\ Leave(c)
  /\ UNCHANGED <<files, now, record, day, late>>

RefuseAppend(c) ==
  /\ phase[c] = "locked"
  /\ ~ Verified(journal) \/ ~ (Known(c) \/ Admissible(c))
  /\ Leave(c)
  /\ UNCHANGED <<files, now, record, day, receipts, late>>

CheckAppend(c) ==
  /\ phase[c] = "locked"
  /\ Verified(journal) /\ ~ Known(c) /\ Admissible(c)
  /\ previous' = [previous EXCEPT ![c] = journal]
  /\ phase' = [phase EXCEPT ![c] = "writing"]
  /\ UNCHANGED <<files, lock, now, record, day, receipts, late>>

\* _atomic_replace_private: the whole file at once.
ReplaceJournal(c) ==
  /\ phase[c] = "writing"
  /\ journal' = Append(previous[c], record[c])
  /\ phase' = [phase EXCEPT ![c] = "written"]
  /\ late' = IF now < Opens(DayOf[record[c].attempt]) THEN late ELSE late \union {record[c].attempt}
  /\ UNCHANGED <<days, lock, now, record, previous, day, receipts>>

\* The temporary file cannot be written or renamed.
ReplaceFails(c) ==
  /\ phase[c] = "writing"
  /\ Leave(c)
  /\ UNCHANGED <<files, now, record, day, receipts, late>>

\* The journal is loaded again before the receipt.
ConfirmAppend(c) ==
  /\ phase[c] = "written"
  /\ Verified(journal) /\ ChainTail(journal) = Fingerprint(record[c])
  /\ receipts' = receipts \union {AppendReceipt(record[c])}
  /\ Leave(c)
  /\ UNCHANGED <<files, now, record, day, late>>

\* The directory cannot be synchronised or the journal not read: the record
\* stays although the call raises.
ConfirmFails(c) ==
  /\ phase[c] = "written"
  /\ Leave(c)
  /\ UNCHANGED <<files, now, record, day, receipts, late>>

-----------------------------------------------------------------------------
(* Publishing a day.                                                       *)

Preview(c, d, expected) ==
  /\ phase[c] = "rest" /\ Verified(journal)
  /\ day' = [day EXCEPT ![c] = Compact(journal, d, expected)]
  /\ record' = [record EXCEPT ![c] = None]
  /\ UNCHANGED <<files, lock, now, phase, previous, receipts, late>>

\* Mutant: the previewed day is published without rebuilding it.
ReconcileNothing(c) ==
  /\ phase[c] = "rest" /\ day[c] # None
  /\ now >= Opens(day[c].date) /\ Verified(journal)
  /\ phase' = [phase EXCEPT ![c] = "reconciled"]
  /\ UNCHANGED <<files, lock, now, record, previous, day, receipts, late>>

\* The delay is over and the day is what the journal gives now; any other
\* call is refused and changes nothing.
Reconcile(c) ==
  /\ phase[c] = "rest" /\ day[c] # None
  /\ now >= Opens(day[c].date) /\ Verified(journal)
  /\ Compact(journal, day[c].date, day[c].expectations) = day[c]
  /\ phase' = [phase EXCEPT ![c] = "reconciled"]
  /\ UNCHANGED <<files, lock, now, record, previous, day, receipts, late>>

PublicationReceipt(a) == [kind |-> "publication", what |-> a]

Published(c) == days[day[c].date] = day[c]

\* The file exists, on the first look or when the link is made: the same
\* bytes are a retry, others a conflict.
AnswerFromFile(c) ==
  /\ phase[c] \in {"reconciled", "linking"}
  /\ days[day[c].date] # None
  /\ receipts' = IF Published(c) THEN receipts \union {PublicationReceipt(day[c])} ELSE receipts
  /\ Leave(c)
  /\ UNCHANGED <<files, now, record, day, late>>

StageDay(c) ==
  /\ phase[c] = "reconciled"
  /\ days[day[c].date] = None
  /\ phase' = [phase EXCEPT ![c] = "linking"]
  /\ UNCHANGED <<files, lock, now, record, previous, day, receipts, late>>

\* Mutant: the file is put in place by a rename, which replaces.
LinkDayReplacing(c) ==
  /\ phase[c] = "linking"
  /\ days' = [days EXCEPT ![day[c].date] = day[c]]
  /\ receipts' \in {receipts, receipts \union {PublicationReceipt(day[c])}}
  /\ Leave(c)
  /\ UNCHANGED <<journal, now, record, day, late>>

\* os.link is new-only; the call may still raise before its receipt.
LinkDay(c) ==
  /\ phase[c] = "linking"
  /\ days[day[c].date] = None
  /\ days' = [days EXCEPT ![day[c].date] = day[c]]
  /\ receipts' \in {receipts, receipts \union {PublicationReceipt(day[c])}}
  /\ Leave(c)
  /\ UNCHANGED <<journal, now, record, day, late>>

PublishFails(c) ==
  /\ phase[c] \in {"reconciled", "linking"}
  /\ Leave(c)
  /\ UNCHANGED <<files, now, record, day, receipts, late>>

-----------------------------------------------------------------------------

Crash(c) ==
  /\ Leave(c)
  /\ record' = [record EXCEPT ![c] = None]
  /\ day' = [day EXCEPT ![c] = None]
  /\ UNCHANGED <<files, now, receipts, late>>

Tick ==
  /\ now < MaxTime
  /\ now' = now + 1
  /\ UNCHANGED <<files, lock, phase, record, previous, day, receipts, late>>

Appending(c) ==
  \/ BeginAppend(c) \/ RetryAppend(c) \/ RefuseAppend(c) \/ CheckAppend(c)
  \/ ReplaceJournal(c) \/ ReplaceFails(c) \/ ConfirmAppend(c) \/ ConfirmFails(c)

Publishing(c) ==
  Reconcile(c) \/ AnswerFromFile(c) \/ StageDay(c) \/ LinkDay(c) \/ PublishFails(c)

Next ==
  \/ \E c \in Clients, a \in Attempts : Build(c, a)
  \/ \E c \in Clients : Appending(c) \/ Publishing(c) \/ Crash(c)
  \/ \E c \in Clients, d \in Days, expected \in Expectations : Preview(c, d, expected)
  \/ Tick

Spec == Init /\ [][Next]_vars

-----------------------------------------------------------------------------
(* What must hold.                                                         *)

Writers == {"locked", "writing", "written"}

\* The types, and the lock belongs to exactly the client that appends.
TypeOK ==
  /\ journal \in Seq(Records) /\ Len(journal) <= Ceiling
  /\ \A d \in Days : days[d] # None => days[d].date = d
  /\ DOMAIN days = Days
  /\ now \in Nat
  /\ phase \in [Clients -> {"rest", "reconciled", "linking"} \union Writers]
  /\ record \in [Clients -> Records \union {None}]
  /\ previous \in [Clients -> Seq(Records)]
  /\ DOMAIN day = Clients
  /\ \A c \in Clients : day[c] # None => day[c].date \in Days
  /\ lock \in Clients \union {None}
  /\ \A c \in Clients : lock = c <=> phase[c] \in Writers
  /\ late \subseteq Attempts

\* "Records form a canonical JSONL hash chain": whatever writers interleave,
\* fail or die, the file loads, each link continues the one before and no
\* attempt is recorded twice.
JournalVerifies == Verified(journal)

\* "Exact-retry safe" and "immutable": a receipt once given stays true, the
\* record stays in the journal and the published day is the file.
ReceiptsHold ==
  \A x \in receipts :
    \/ x.kind = "append" /\ InJournal(journal, x.what)
    \/ x.kind = "publication" /\ x.what # None /\ days[x.what.date] = x.what

\* A published day holds every record of that day that was written before
\* the day could be published, even when appends run during a publication.
TimelyCounted ==
  \A d \in Days : days[d] # None =>
    \A r \in DayRecords(journal, d) : r.attempt \in late \/ r \in days[d].records

\* The journal and the day files implement an append-only log with sealed
\* days: nothing recorded is lost, reordered or recorded twice, and a day
\* file is written once, from an initial part of the day's records.
SealedEntries(a) == {r.attempt : r \in a.records}

Log == INSTANCE SealedLog WITH
  Entries <- Attempts, Unsealed <- None,
  log <- [i \in DOMAIN journal |-> journal[i].attempt],
  sealed <- [d \in Days |-> IF days[d] = None THEN None ELSE SealedEntries(days[d])]

LogSpec == Log!LogSpec
=============================================================================
