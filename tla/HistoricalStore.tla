--------------------------- MODULE HistoricalStore ---------------------------
(***************************************************************************)
(* The aggregate historical store (platform/historical_store_sqlite.py     *)
(* over the core in platform/historical_store.py): a SQLite catalogue and  *)
(* a directory of content-addressed payload files, used by several store   *)
(* handles, each in a process of its own.                                  *)
(*                                                                         *)
(* An item is one candidate with its exact content: a dataset record, a    *)
(* feature definition or a snapshot request.  The catalogue is the         *)
(* sequence of committed items; one transaction writes the row, its        *)
(* receipt and its row in payloads, so the payload rows follow from it.    *)
(* Validation that looks at one candidate alone is taken as passed.  A     *)
(* write holds SQLite's write lock from BEGIN IMMEDIATE to COMMIT or       *)
(* ROLLBACK; payload files are under no lock.  A process may fail in a     *)
(* call, and die at any step.  Files are changed by nobody else, and their *)
(* bytes are those their name says.  A call that is refused at once, as    *)
(* busy or because the store does not replay, changes nothing and is not   *)
(* a step.                                                                 *)
(***************************************************************************)
EXTENDS Naturals, Sequences, FiniteSets

CONSTANTS
  Handles,
  Items,
  Kind,          \* "dataset", "feature" or "snapshot"
  Subject,       \* dataset_id, name@version or snapshot_id: what may be bound once
  Needs,         \* the items whose digests a dataset or a snapshot is bound to
  PriorVersion,  \* the subject of the version before a feature's, or None
  Digest,        \* the payload digest of an item; None for a feature
  Contracts,     \* schemas, sources and licence policy a workspace is bound to
  MaxBackups,    \* bound on the bundles
  None

Subjects == {Subject[i] : i \in Items}
Digests == {Digest[i] : i \in Items} \ {None}

\* A dataset may name earlier datasets as sources; a snapshot names its
\* feature and its datasets; a feature names no item.
ASSUME StoreAssumption ==
  /\ None \notin Handles \union Contracts
  /\ MaxBackups \in Nat
  /\ Kind \in [Items -> {"dataset", "feature", "snapshot"}]
  /\ DOMAIN Subject = Items /\ DOMAIN Digest = Items
  /\ Needs \in [Items -> SUBSET Items]
  /\ PriorVersion \in [Items -> Subjects \union {None}]
  /\ \A i \in Items : PriorVersion[i] # None => Kind[i] = "feature"
  /\ \A i, k \in Items : PriorVersion[i] = Subject[k] => Kind[k] = "feature"
  /\ \A i \in Items : \A n \in Needs[i] :
       \/ Kind[i] = "snapshot" /\ Kind[n] # "snapshot"
       \/ Kind[i] = "dataset" /\ Kind[n] = "dataset"
  /\ \A i, k \in Items : Subject[i] = Subject[k] => Kind[i] = Kind[k]

VARIABLES
  catalogue,   \* the committed items, in order
  contract,    \* what metadata binds the workspace to, or None
  files,       \* the digests with a payload file
  writer,      \* the handle whose transaction holds the write lock, or None
  phase,       \* for each handle the step it is at
  opened,      \* for each handle whether open() has returned it
  bound,       \* the contract a handle was opened with, or None
  item,        \* what a handle is writing, or None
  created,     \* whether this call made the payload file
  seen,        \* how much of the catalogue there was when a call looked
  loaded,      \* the core a handle rebuilds from the three tables
  backups,     \* the published bundles
  receipts,    \* ghost: items a caller holds a receipt of
  raced        \* ghost: digests removed after another handle took up the file

store == <<catalogue, contract, files>>
call == <<item, created, seen, loaded>>
ghosts == <<receipts, raced>>
vars == <<store, writer, phase, opened, bound, call, backups, ghosts>>

-----------------------------------------------------------------------------
(* The rules of the core.                                                  *)

ItemsOf(rows) == {rows[n] : n \in DOMAIN rows}

Taken(core, s) == \E i \in core : Subject[i] = s

PayloadRows(rows) == {Digest[i] : i \in ItemsOf(rows)} \ {None}

\* Mutant: feature versions need not be registered in order.
FitsAnyVersion(core, i) == ~ Taken(core, Subject[i]) /\ Needs[i] \subseteq core

\* The core takes the item as new: its subject is free, what it is bound to
\* is registered, and a feature continues its versions without a gap.
Fits(core, i) ==
  /\ ~ Taken(core, Subject[i])
  /\ Needs[i] \subseteq core
  /\ PriorVersion[i] = None \/ Taken(core, PriorVersion[i])

\* The rows of one table, each registered after those before it.
Rows(rows, kind) == {n \in DOMAIN rows : Kind[rows[n]] = kind}

Earlier(rows, n) == {rows[m] : m \in {k \in Rows(rows, Kind[rows[n]]) : k < n}}

TableReplays(core, rows, kind) ==
  \A n \in Rows(rows, kind) : Fits(core \union Earlier(rows, n), rows[n])

TableItems(rows, kind) == {rows[n] : n \in Rows(rows, kind)}

\* _load_core in one transaction: datasets, features, snapshots.
Replays(rows) ==
  LET datasets == TableItems(rows, "dataset")
      features == TableItems(rows, "feature") IN
  /\ TableReplays({}, rows, "dataset")
  /\ TableReplays(datasets, rows, "feature")
  /\ TableReplays(datasets \union features, rows, "snapshot")

-----------------------------------------------------------------------------
Init ==
  /\ catalogue = <<>> /\ contract = None /\ files = {}
  /\ writer = None
  /\ phase = [h \in Handles |-> "rest"]
  /\ opened = [h \in Handles |-> FALSE]
  /\ bound = [h \in Handles |-> None]
  /\ item = [h \in Handles |-> None]
  /\ created = [h \in Handles |-> FALSE]
  /\ seen = [h \in Handles |-> 0]
  /\ loaded = [h \in Handles |-> {}]
  /\ backups = {} /\ receipts = {} /\ raced = {}

Step(h, from, to) == phase[h] = from /\ phase' = [phase EXCEPT ![h] = to]

\* The call returns or raises: what it held is forgotten, and a handle that
\* was not open yet is given up.
Leave(h) ==
  /\ phase' = [phase EXCEPT ![h] = "rest"]
  /\ bound' = IF opened[h] THEN bound ELSE [bound EXCEPT ![h] = None]
  /\ item' = [item EXCEPT ![h] = None]
  /\ created' = [created EXCEPT ![h] = FALSE]
  /\ seen' = [seen EXCEPT ![h] = 0]
  /\ loaded' = [loaded EXCEPT ![h] = {}]
  /\ writer' = IF writer = h THEN None ELSE writer
  /\ UNCHANGED opened

Crash(h) ==
  /\ phase' = [phase EXCEPT ![h] = "rest"]
  /\ opened' = [opened EXCEPT ![h] = FALSE]
  /\ bound' = [bound EXCEPT ![h] = None]
  /\ item' = [item EXCEPT ![h] = None]
  /\ created' = [created EXCEPT ![h] = FALSE]
  /\ seen' = [seen EXCEPT ![h] = 0]
  /\ loaded' = [loaded EXCEPT ![h] = {}]
  /\ writer' = IF writer = h THEN None ELSE writer
  /\ UNCHANGED <<store, backups, ghosts>>

-----------------------------------------------------------------------------
(* Opening.                                                                *)

\* The metadata is read; an empty table means that the workspace is new.
ReadContract(h, k) ==
  /\ ~ opened[h]
  /\ contract \in {None, k}
  /\ Step(h, "rest", IF contract = None THEN "binding" ELSE "bound")
  /\ bound' = [bound EXCEPT ![h] = k]
  /\ UNCHANGED <<store, writer, opened, call, backups, ghosts>>

BindContract(h) ==
  /\ writer = None /\ contract = None
  /\ Step(h, "binding", "bound")
  /\ contract' = bound[h]
  /\ UNCHANGED <<catalogue, files, writer, opened, bound, call, backups, ghosts>>

\* Another handle bound the workspace meanwhile, even to the same contract:
\* the keys are there, and the open is refused.
BindFails(h) ==
  /\ phase[h] = "binding" /\ contract # None
  /\ Leave(h)
  /\ UNCHANGED <<store, backups, ghosts>>

\* Recovery reads the payload rows and then the directory.
InspectRows(h) ==
  /\ Step(h, "bound", "inspecting")
  /\ seen' = [seen EXCEPT ![h] = Len(catalogue)]
  /\ UNCHANGED <<store, writer, opened, bound, item, created, loaded, backups, ghosts>>

SeenRows(h) == SubSeq(catalogue, 1, seen[h])

InspectFiles(h) ==
  /\ Step(h, "inspecting", "dataset")
  /\ PayloadRows(SeenRows(h)) \subseteq files
  /\ UNCHANGED <<store, writer, opened, bound, call, backups, ghosts>>

OpenFails(h) ==
  /\ phase[h] \in {"bound", "inspecting"}
  /\ Leave(h)
  /\ UNCHANGED <<store, backups, ghosts>>

-----------------------------------------------------------------------------
(* Reading.  The core is rebuilt from three SELECTs, and a transaction may *)
(* commit between two of them.                                             *)

BeginRead(h) ==
  /\ opened[h]
  /\ Step(h, "rest", "dataset")
  /\ seen' = [seen EXCEPT ![h] = Len(catalogue)]
  /\ UNCHANGED <<store, writer, opened, bound, item, created, loaded, backups, ghosts>>

After(kind) ==
  IF kind = "dataset" THEN "feature" ELSE IF kind = "feature" THEN "snapshot" ELSE "answered"

Present(kind) == {Digest[i] : i \in TableItems(catalogue, kind)} \ {None} \subseteq files

\* Mutant: an item that the core refuses is left out of account.
LoadTableLenient(h, kind) ==
  /\ Step(h, kind, After(kind))
  /\ Present(kind)
  /\ loaded' = [loaded EXCEPT ![h] = @ \union TableItems(catalogue, kind)]
  /\ UNCHANGED <<store, writer, opened, bound, item, created, seen, backups, ghosts>>

LoadTable(h, kind) ==
  /\ Step(h, kind, After(kind))
  /\ Present(kind) /\ TableReplays(loaded[h], catalogue, kind)
  /\ loaded' = [loaded EXCEPT ![h] = @ \union TableItems(catalogue, kind)]
  /\ UNCHANGED <<store, writer, opened, bound, item, created, seen, backups, ghosts>>

\* A payload is missing, or an item is read whose needs were committed after
\* the table they are in had been read.
LoadFails(h, kind) ==
  /\ phase[h] = kind
  /\ ~ (Present(kind) /\ TableReplays(loaded[h], catalogue, kind))
  /\ Leave(h)
  /\ UNCHANGED <<store, backups, ghosts>>

\* The answer is given; after open() the handle may be used.
Answer(h) ==
  /\ Step(h, "answered", "rest")
  /\ opened' = [opened EXCEPT ![h] = TRUE]
  /\ seen' = [seen EXCEPT ![h] = 0]
  /\ loaded' = [loaded EXCEPT ![h] = {}]
  /\ UNCHANGED <<store, writer, bound, item, created, backups, ghosts>>

-----------------------------------------------------------------------------
(* Writing.                                                                *)

\* BEGIN IMMEDIATE, then the core is rebuilt; nobody can commit meanwhile.
BeginWrite(h, i) ==
  /\ opened[h] /\ writer = None
  /\ Step(h, "rest", "validating")
  /\ Replays(catalogue) /\ PayloadRows(catalogue) \subseteq files
  /\ writer' = h
  /\ item' = [item EXCEPT ![h] = i]
  /\ UNCHANGED <<store, opened, bound, created, seen, loaded, backups, ghosts>>

Known(h) == item[h] \in ItemsOf(catalogue)

RetryWrite(h) ==
  /\ phase[h] = "validating" /\ Known(h)
  /\ receipts' = receipts \union {item[h]}
  /\ Leave(h)
  /\ UNCHANGED <<store, backups, raced>>

RefuseWrite(h) ==
  /\ phase[h] = "validating"
  /\ ~ Known(h) /\ ~ Fits(ItemsOf(catalogue), item[h])
  /\ Leave(h)
  /\ UNCHANGED <<store, backups, ghosts>>

\* A file with the digest is used as it is, whoever made it.
EnsurePayload(h) ==
  LET d == Digest[item[h]] IN
  /\ Step(h, "validating", "inserted")
  /\ Fits(ItemsOf(catalogue), item[h])
  /\ created' = [created EXCEPT ![h] = d # None /\ d \notin files]
  /\ files' = files \union ({d} \ {None})
  /\ UNCHANGED <<catalogue, contract, writer, opened, bound, item, seen, loaded, backups, ghosts>>

\* An error while the payload is staged or after it was renamed into place:
\* the call does not know yet that it made the file.
EnsureFails(h) ==
  /\ phase[h] = "validating" /\ Fits(ItemsOf(catalogue), item[h])
  /\ files' \in {files, files \union ({Digest[item[h]]} \ {None})}
  /\ Leave(h)
  /\ UNCHANGED <<catalogue, contract, backups, ghosts>>

Commit(h) ==
  /\ phase[h] = "inserted"
  /\ catalogue' = Append(catalogue, item[h])
  /\ receipts' = receipts \union {item[h]}
  /\ Leave(h)
  /\ UNCHANGED <<contract, files, backups, raced>>

\* An insert, the hook or COMMIT fails: ROLLBACK gives the write lock back.
Rollback(h) ==
  /\ Step(h, "inserted", "undoing")
  /\ writer' = None
  /\ seen' = [seen EXCEPT ![h] = Len(catalogue)]
  /\ UNCHANGED <<store, opened, bound, item, created, loaded, backups, ghosts>>

\* Some other handle relies on the digest since the rollback.
TakenUp(h, d) ==
  \/ \E n \in seen[h] + 1 .. Len(catalogue) : Digest[catalogue[n]] = d
  \/ \E k \in Handles \ {h} : phase[k] = "inserted" /\ Digest[item[k]] = d

\* Mutant: the file is removed whether or not this call made it.
CleanUpAlways(h) ==
  LET d == Digest[item[h]] IN
  /\ phase[h] = "undoing"
  /\ files' = files \ {d}
  /\ raced' = IF TakenUp(h, d) THEN raced \union {d} ELSE raced
  /\ Leave(h)
  /\ UNCHANGED <<catalogue, contract, backups, receipts>>

\* The payload file is removed after the write lock was given back.
CleanUp(h) ==
  LET d == Digest[item[h]] IN
  /\ phase[h] = "undoing"
  /\ files' = IF created[h] THEN files \ {d} ELSE files
  /\ raced' = IF created[h] /\ TakenUp(h, d) THEN raced \union {d} ELSE raced
  /\ Leave(h)
  /\ UNCHANGED <<catalogue, contract, backups, receipts>>

-----------------------------------------------------------------------------
(* Backups.                                                                *)

\* The catalogue is copied in one read transaction.
CopyCatalogue(h) ==
  /\ opened[h] /\ Cardinality(backups) < MaxBackups
  /\ Step(h, "rest", "copied")
  /\ seen' = [seen EXCEPT ![h] = Len(catalogue)]
  /\ UNCHANGED <<store, writer, opened, bound, item, created, loaded, backups, ghosts>>

\* Mutant: the payloads are listed before the catalogue is copied.
PublishBackupListedFirst(h) ==
  /\ phase[h] = "copied"
  /\ PayloadRows(SeenRows(h)) \subseteq files
  /\ backups' = backups \union {[rows |-> catalogue, payloads |-> PayloadRows(SeenRows(h))]}
  /\ Leave(h)
  /\ UNCHANGED <<store, ghosts>>

\* The payloads are those of the catalogue as it is by now; the bundle is
\* verified against its manifest and put in place, or found there already.
PublishBackup(h) ==
  /\ phase[h] = "copied"
  /\ PayloadRows(catalogue) \subseteq files
  /\ backups' = backups \union {[rows |-> SeenRows(h), payloads |-> PayloadRows(catalogue)]}
  /\ Leave(h)
  /\ UNCHANGED <<store, ghosts>>

BackupFails(h) ==
  /\ phase[h] = "copied"
  /\ Leave(h)
  /\ UNCHANGED <<store, backups, ghosts>>

-----------------------------------------------------------------------------
Opening(h) ==
  \/ \E k \in Contracts : ReadContract(h, k)
  \/ BindContract(h) \/ BindFails(h) \/ InspectRows(h) \/ InspectFiles(h) \/ OpenFails(h)

Reading(h) ==
  \/ BeginRead(h) \/ Answer(h)
  \/ \E kind \in {"dataset", "feature", "snapshot"} : LoadTable(h, kind) \/ LoadFails(h, kind)

Writing(h) ==
  \/ \E i \in Items : BeginWrite(h, i)
  \/ RetryWrite(h) \/ RefuseWrite(h) \/ EnsurePayload(h) \/ EnsureFails(h)
  \/ Commit(h) \/ Rollback(h) \/ CleanUp(h)

BackingUp(h) == CopyCatalogue(h) \/ PublishBackup(h) \/ BackupFails(h)

Next == \E h \in Handles : Opening(h) \/ Reading(h) \/ Writing(h) \/ BackingUp(h) \/ Crash(h)

Spec == Init /\ [][Next]_vars

-----------------------------------------------------------------------------
(* What must hold.                                                         *)

Phases == {"rest", "binding", "bound", "inspecting", "dataset", "feature", "snapshot",
           "answered", "validating", "inserted", "undoing", "copied"}

InTransaction == {"validating", "inserted"}

\* The types, and the write lock belongs to exactly the handle in a transaction.
TypeOK ==
  /\ catalogue \in Seq(Items) /\ contract \in Contracts \union {None} /\ files \subseteq Digests
  /\ writer \in Handles \union {None}
  /\ phase \in [Handles -> Phases]
  /\ opened \in [Handles -> BOOLEAN]
  /\ bound \in [Handles -> Contracts \union {None}]
  /\ item \in [Handles -> Items \union {None}]
  /\ created \in [Handles -> BOOLEAN]
  /\ seen \in [Handles -> Nat] /\ \A h \in Handles : seen[h] <= Len(catalogue)
  /\ loaded \in [Handles -> SUBSET Items]
  /\ \A h \in Handles : writer = h <=> phase[h] \in InTransaction
  /\ receipts \subseteq Items /\ raced \subseteq Digests

\* "Fail-closed transaction": whatever writers interleave, fail or die, no
\* subject is bound twice, each item comes after all it is made from, and the
\* versions of a feature have no gap, so that the catalogue can be replayed.
CatalogueSound ==
  \A n \in DOMAIN catalogue :
    LET before == {catalogue[m] : m \in 1 .. n - 1} IN
    /\ \A i \in before : Subject[i] # Subject[catalogue[n]]
    /\ Needs[catalogue[n]] \subseteq before
    /\ PriorVersion[catalogue[n]] \in {Subject[i] : i \in before} \union {None}

\* "Exact-retry": a receipt, of a first registration or of a retry, is of an
\* item that stays registered with the content the caller offered.
ReceiptsHold == receipts \subseteq ItemsOf(catalogue)

\* A failed write removes the payload of a committed row only if the row, or
\* the transaction it comes from, took up the file after the rollback.
OlderPayloadsStay == PayloadRows(catalogue) \ files \subseteq raced

\* A read that is answered, although its three tables were read at different
\* times, shows what had been committed when it began, and each snapshot with
\* all it was made from.
AnswersConsistent ==
  \A h \in Handles : phase[h] = "answered" =>
    /\ \A n \in 1 .. seen[h] : catalogue[n] \in loaded[h]
    /\ \A i \in loaded[h] : Needs[i] \subseteq loaded[h]

\* "Complete verified backup bundles": a bundle can be restored, its catalogue
\* replays and has all its payloads, though others commit while it is made.
BackupsRestore ==
  \A b \in backups : Replays(b.rows) /\ PayloadRows(b.rows) \subseteq b.payloads

\* "Binds the exact schema bundle": no two handles are open with different
\* contracts, also when they open a new workspace at the same time.
ContractAgreed == \A h \in Handles : opened[h] => contract = bound[h]

\* "A failed transaction removes only its own uncommitted staged payload": the
\* payload of a committed row is on disk.
CommittedPayloadsPresent == PayloadRows(catalogue) \subseteq files
=============================================================================
