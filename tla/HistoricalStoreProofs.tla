------------------------ MODULE HistoricalStoreProofs ------------------------
(***************************************************************************)
(* Proofs about HistoricalStore, for every number of handles and items and *)
(* every way in which items may need each other.                           *)
(***************************************************************************)
EXTENDS HistoricalStore, SequenceTheorems, TLAPS

Before(rows, n) == {rows[m] : m \in 1 .. n - 1}

\* CatalogueSound, of any sequence of rows.
Sound(rows) ==
  \A n \in DOMAIN rows :
    /\ \A i \in Before(rows, n) : Subject[i] # Subject[rows[n]]
    /\ Needs[rows[n]] \subseteq Before(rows, n)
    /\ PriorVersion[rows[n]] \in {Subject[i] : i \in Before(rows, n)} \union {None}

Closed(core) == \A i \in core : Needs[i] \subseteq core

\* The tables a read has behind it.
TablesRead(at) ==
  CASE at = "feature" -> {"dataset"}
    [] at = "snapshot" -> {"dataset", "feature"}
    [] at = "answered" -> {"dataset", "feature", "snapshot"}
    [] OTHER -> {}

\* A handle that has looked at the metadata works under the contract.
BoundOK(h) ==
  /\ opened[h] \/ phase[h] \notin {"rest", "binding"} => contract = bound[h] /\ contract # None
  /\ phase[h] = "binding" => bound[h] # None

\* What a read holds is closed, and holds what it is answerable for.
ReadOK(h) ==
  /\ Closed(loaded[h])
  /\ \A n \in 1 .. seen[h] : Kind[catalogue[n]] \in TablesRead(phase[h]) => catalogue[n] \in loaded[h]

\* The item fits, and its payload is there or was taken away in a race; a file
\* this call made is of no row there was when it made it.
WriteOK(h) ==
  LET d == Digest[item[h]] IN
  /\ phase[h] \in {"validating", "inserted", "undoing"} => item[h] \in Items
  /\ phase[h] \in {"inserted", "undoing"} /\ created[h] => d # None
  /\ phase[h] = "inserted" =>
       /\ Fits(ItemsOf(catalogue), item[h])
       /\ d \in files \union raced \union {None}
       /\ created[h] => d \notin PayloadRows(catalogue) \/ d \in raced
  /\ phase[h] = "undoing" /\ created[h] =>
       d \in raced \/ \A n \in 1 .. seen[h] : Digest[catalogue[n]] # d

HandleOK(h) == BoundOK(h) /\ ReadOK(h) /\ WriteOK(h)

HandlesOK == \A h \in Handles : HandleOK(h)

IInv ==
  /\ TypeOK /\ HandlesOK
  /\ CatalogueSound /\ ReceiptsHold /\ OlderPayloadsStay /\ BackupsRestore

-----------------------------------------------------------------------------
(* Lemmas about the operators.                                             *)

\* One more row is one more item.
LEMMA ItemsGrow ==
  ASSUME NEW rows \in Seq(Items), NEW i \in Items
  PROVE /\ ItemsOf(Append(rows, i)) = ItemsOf(rows) \union {i}
        /\ PayloadRows(Append(rows, i)) = PayloadRows(rows) \union ({Digest[i]} \ {None})
<1> DEFINE more == Append(rows, i)
<1>1. DOMAIN more = DOMAIN rows \union {Len(rows) + 1} /\ more[Len(rows) + 1] = i
  OBVIOUS
<1>2. \A n \in DOMAIN rows : more[n] = rows[n]
  OBVIOUS
<1>3. ItemsOf(more) = ItemsOf(rows) \union {i}
  BY <1>1, <1>2 DEF ItemsOf
<1> QED BY <1>3 DEF PayloadRows

\* What comes before a row stays when a row is added.
LEMMA BeforeStays ==
  ASSUME NEW rows \in Seq(Items), NEW i \in Items
  PROVE /\ \A n \in DOMAIN rows : Before(Append(rows, i), n) = Before(rows, n)
        /\ Before(Append(rows, i), Len(rows) + 1) = ItemsOf(rows)
BY DEF Before, ItemsOf

\* A sound catalogue stays sound with one more item that fits.
LEMMA SoundGrows ==
  ASSUME NEW rows \in Seq(Items), NEW i \in Items, Sound(rows), Fits(ItemsOf(rows), i)
  PROVE Sound(Append(rows, i))
<1> DEFINE more == Append(rows, i)
<1> SUFFICES ASSUME NEW n \in DOMAIN more
             PROVE /\ \A k \in Before(more, n) : Subject[k] # Subject[more[n]]
                   /\ Needs[more[n]] \subseteq Before(more, n)
                   /\ PriorVersion[more[n]] \in {Subject[k] : k \in Before(more, n)} \union {None}
  BY DEF Sound
<1>1. CASE n \in DOMAIN rows
  <2>1. more[n] = rows[n] /\ Before(more, n) = Before(rows, n)
    BY <1>1, BeforeStays
  <2> QED BY <1>1, <2>1 DEF Sound
<1>2. CASE n = Len(rows) + 1
  <2>1. more[n] = i /\ Before(more, n) = ItemsOf(rows)
    BY <1>2, BeforeStays
  <2> QED BY <2>1 DEF Fits, Taken
<1>3. n \in DOMAIN rows \/ n = Len(rows) + 1
  OBVIOUS
<1> QED BY <1>1, <1>2, <1>3

\* A sound catalogue replays table by table: what an item needs is in its own
\* table before it, or in a table that is read before its own.
LEMMA SoundReplays ==
  ASSUME NEW rows \in Seq(Items), Sound(rows) PROVE Replays(rows)
<1> DEFINE datasets == TableItems(rows, "dataset")
           features == TableItems(rows, "feature")
           core(kind) == IF kind = "dataset" THEN {} ELSE IF kind = "feature" THEN datasets ELSE datasets \union features
<1> SUFFICES ASSUME NEW kind \in {"dataset", "feature", "snapshot"}, NEW n \in Rows(rows, kind)
             PROVE Fits(core(kind) \union Earlier(rows, n), rows[n])
  BY DEF Replays, TableReplays
<1>1. n \in DOMAIN rows /\ Kind[rows[n]] = kind /\ rows[n] \in Items
  BY DEF Rows
<1>2. \A m \in 1 .. n - 1 : m \in DOMAIN rows /\ rows[m] \in Items /\ rows[m] \in Before(rows, n)
  BY <1>1 DEF Before
<1>3. \A m \in 1 .. n - 1 : Kind[rows[m]] = kind => rows[m] \in Earlier(rows, n)
  BY <1>1, <1>2 DEF Earlier, Rows
<1>4. \A i \in Earlier(rows, n) : i \in Before(rows, n) /\ Kind[i] = kind
  BY <1>1 DEF Earlier, Rows, Before
<1>5. \A m \in DOMAIN rows : rows[m] \in TableItems(rows, Kind[rows[m]])
  BY DEF TableItems, Rows
<1>6. \A other : \A i \in TableItems(rows, other) : i \in Items /\ Kind[i] = other
  BY DEF TableItems, Rows
<1>7. ~ Taken(core(kind) \union Earlier(rows, n), Subject[rows[n]])
  <2> SUFFICES ASSUME NEW i \in core(kind) \union Earlier(rows, n), Subject[i] = Subject[rows[n]]
               PROVE FALSE
    BY DEF Taken
  <2>1. CASE i \in Earlier(rows, n)
    BY <2>1, <1>4, <1>1 DEF Sound
  <2>2. CASE i \in core(kind)
    <3>1. i \in Items /\ Kind[i] # kind
      BY <2>2, <1>6
    <3> QED BY <3>1, <1>1, StoreAssumption
  <2> QED BY <2>1, <2>2
<1>8. Needs[rows[n]] \subseteq core(kind) \union Earlier(rows, n)
  <2> SUFFICES ASSUME NEW i \in Needs[rows[n]] PROVE i \in core(kind) \union Earlier(rows, n)
    OBVIOUS
  <2>1. PICK m \in 1 .. n - 1 : rows[m] = i
    BY <1>1 DEF Sound, Before
  <2>2. \/ kind = "snapshot" /\ Kind[i] # "snapshot"
        \/ kind = "dataset" /\ Kind[i] = "dataset"
    BY <1>1, StoreAssumption
  <2>3. CASE Kind[i] = kind
    BY <2>1, <2>3, <1>3
  <2>4. CASE kind = "snapshot" /\ Kind[i] # "snapshot"
    <3>1. i \in Items /\ i \in TableItems(rows, Kind[i])
      BY <2>1, <1>2, <1>5
    <3>2. Kind[i] \in {"dataset", "feature"}
      BY <3>1, <2>4, StoreAssumption
    <3> QED BY <3>1, <3>2, <2>4
  <2> QED BY <2>2, <2>3, <2>4
<1>9. PriorVersion[rows[n]] = None \/ Taken(core(kind) \union Earlier(rows, n), PriorVersion[rows[n]])
  <2> SUFFICES ASSUME PriorVersion[rows[n]] # None
               PROVE \E i \in Earlier(rows, n) : Subject[i] = PriorVersion[rows[n]]
    BY DEF Taken
  <2>1. kind = "feature"
    BY <1>1, StoreAssumption
  <2>2. PICK m \in 1 .. n - 1 : Subject[rows[m]] = PriorVersion[rows[n]]
    BY <1>1 DEF Sound, Before
  <2>3. Kind[rows[m]] = "feature"
    BY <1>1, <1>2, <2>2, StoreAssumption
  <2>4. rows[m] \in Earlier(rows, n)
    BY <2>1, <2>3, <1>3
  <2> QED BY <2>2, <2>4
<1> QED BY <1>7, <1>8, <1>9 DEF Fits

\* An initial part of a sound catalogue is sound, and has fewer payloads.
LEMMA PartIsSound ==
  ASSUME NEW rows \in Seq(Items), Sound(rows), NEW m \in 0 .. Len(rows)
  PROVE /\ SubSeq(rows, 1, m) \in Seq(Items) /\ Sound(SubSeq(rows, 1, m))
        /\ PayloadRows(SubSeq(rows, 1, m)) \subseteq PayloadRows(rows)
<1> DEFINE part == SubSeq(rows, 1, m)
<1>1. part \in Seq(Items) /\ Len(part) = m /\ \A n \in 1 .. m : part[n] = rows[n] /\ n \in DOMAIN rows
  OBVIOUS
<1>2. \A n \in 1 .. m : Before(part, n) = Before(rows, n)
  BY <1>1 DEF Before
<1>3. Sound(part)
  BY <1>1, <1>2 DEF Sound
<1>4. ItemsOf(part) \subseteq ItemsOf(rows)
  BY <1>1 DEF ItemsOf
<1> QED BY <1>1, <1>3, <1>4 DEF PayloadRows

\* The named property is the one the lemmas are about.
LEMMA SoundIsSound == CatalogueSound <=> Sound(catalogue)
BY DEF CatalogueSound, Sound, Before

-----------------------------------------------------------------------------
(* What the other handles know when one takes a step.                      *)

\* A step of h leaves what the others hold.
OthersKeep(h) ==
  \A k \in Handles \ {h} :
    /\ phase'[k] = phase[k] /\ opened'[k] = opened[k] /\ bound'[k] = bound[k]
    /\ item'[k] = item[k] /\ created'[k] = created[k]
    /\ seen'[k] = seen[k] /\ loaded'[k] = loaded[k]

\* It adds to the catalogue only inside its transaction, binds the workspace
\* only once, and takes no file from a transaction without leaving a trace.
StoreMoves(h) ==
  /\ \/ catalogue' = catalogue
     \/ phase[h] = "inserted" /\ catalogue' = Append(catalogue, item[h])
  /\ contract # None => contract' = contract
  /\ raced \subseteq raced'
  /\ \A k \in Handles \ {h} :
       phase[k] = "inserted" /\ Digest[item[k]] \in files => Digest[item[k]] \in files' \union raced'

\* What another handle knows stays true.
LEMMA OthersStay ==
  ASSUME TypeOK, HandlesOK, NEW h \in Handles, NEW k \in Handles \ {h}, OthersKeep(h), StoreMoves(h)
  PROVE HandleOK(k)'
<1>1. /\ phase'[k] = phase[k] /\ opened'[k] = opened[k] /\ bound'[k] = bound[k]
      /\ item'[k] = item[k] /\ created'[k] = created[k] /\ seen'[k] = seen[k] /\ loaded'[k] = loaded[k]
  BY DEF OthersKeep
<1>2. HandleOK(k) /\ WriteOK(h)
  BY DEF HandlesOK, HandleOK
<1>3. catalogue \in Seq(Items) /\ seen[k] \in Nat /\ seen[k] <= Len(catalogue)
  BY DEF TypeOK
<1>4. \A n \in 1 .. Len(catalogue) : catalogue'[n] = catalogue[n]
  BY <1>2, <1>3 DEF StoreMoves, WriteOK
<1>5. \A n \in 1 .. seen[k] : catalogue'[n] = catalogue[n]
  BY <1>3, <1>4
<1>6. BoundOK(k)'
  BY <1>1, <1>2 DEF HandleOK, BoundOK, StoreMoves
<1>7. ReadOK(k)'
  BY <1>1, <1>2, <1>5 DEF HandleOK, ReadOK, TablesRead, Closed
<1>8. phase[k] = "inserted" => catalogue' = catalogue
  BY DEF StoreMoves, TypeOK, InTransaction
<1>9. WriteOK(k)'
  <2>1. phase[k] \in {"validating", "inserted", "undoing"} => item'[k] \in Items
    BY <1>1, <1>2 DEF HandleOK, WriteOK
  <2>2. ASSUME phase[k] = "inserted"
        PROVE /\ Fits(ItemsOf(catalogue'), item'[k])
              /\ Digest[item'[k]] \in files' \union raced' \union {None}
              /\ created'[k] => Digest[item'[k]] \notin PayloadRows(catalogue') \/ Digest[item'[k]] \in raced'
    BY <2>2, <1>1, <1>2, <1>8 DEF HandleOK, WriteOK, StoreMoves
  <2>3. ASSUME phase[k] = "undoing", created[k]
        PROVE Digest[item[k]] \in raced' \/ \A n \in 1 .. seen[k] : Digest[catalogue'[n]] # Digest[item[k]]
    BY <2>3, <1>2, <1>5 DEF HandleOK, WriteOK, StoreMoves
  <2>4. phase[k] \in {"inserted", "undoing"} /\ created[k] => Digest[item[k]] # None
    BY <1>2 DEF HandleOK, WriteOK
  <2> QED BY <2>1, <2>2, <2>3, <2>4, <1>1 DEF WriteOK
<1> QED BY <1>6, <1>7, <1>9 DEF HandleOK

-----------------------------------------------------------------------------
(* The types.                                                              *)

Kinds == {"dataset", "feature", "snapshot"}

\* A call that is left has typed nothing away.
LEMMA LeaveTyped ==
  ASSUME TypeOK, NEW h \in Handles, Leave(h)
  PROVE /\ writer' \in Handles \union {None}
        /\ phase' \in [Handles -> Phases] /\ opened' \in [Handles -> BOOLEAN]
        /\ bound' \in [Handles -> Contracts \union {None}] /\ item' \in [Handles -> Items \union {None}]
        /\ created' \in [Handles -> BOOLEAN]
        /\ seen' \in [Handles -> Nat] /\ \A k \in Handles : seen'[k] <= Len(catalogue)
        /\ loaded' \in [Handles -> SUBSET Items]
        /\ \A k \in Handles : writer' = k <=> phase'[k] \in InTransaction
BY StoreAssumption DEF Leave, TypeOK, Phases, InTransaction

LEMMA Typing == ASSUME IInv, Next PROVE TypeOK'
<1> SUFFICES ASSUME NEW h \in Handles, Opening(h) \/ Reading(h) \/ Writing(h) \/ BackingUp(h) \/ Crash(h)
             PROVE TypeOK'
  BY DEF Next
<1> USE StoreAssumption
<1>0. TypeOK /\ HandleOK(h)
  BY DEF IInv, HandlesOK
<1>1. ASSUME NEW k \in Contracts, ReadContract(h, k) PROVE TypeOK'
  BY <1>0, <1>1 DEF ReadContract, Step, TypeOK, store, call, ghosts, Phases, InTransaction
<1>2. ASSUME BindContract(h) PROVE TypeOK'
  BY <1>0, <1>2 DEF BindContract, Step, TypeOK, store, call, ghosts, Phases, InTransaction
<1>3. ASSUME BindFails(h) PROVE TypeOK'
  BY <1>0, <1>3, LeaveTyped DEF BindFails, TypeOK, store, ghosts, HandleOK, WriteOK, Digests
<1>4. ASSUME InspectRows(h) PROVE TypeOK'
  BY <1>0, <1>4 DEF InspectRows, Step, TypeOK, store, call, ghosts, Phases, InTransaction
<1>5. ASSUME InspectFiles(h) PROVE TypeOK'
  BY <1>0, <1>5 DEF InspectFiles, Step, TypeOK, store, call, ghosts, Phases, InTransaction
<1>6. ASSUME OpenFails(h) PROVE TypeOK'
  BY <1>0, <1>6, LeaveTyped DEF OpenFails, TypeOK, store, ghosts, HandleOK, WriteOK, Digests
<1>7. ASSUME BeginRead(h) PROVE TypeOK'
  BY <1>0, <1>7 DEF BeginRead, Step, TypeOK, store, call, ghosts, Phases, InTransaction
<1>8. ASSUME NEW kind \in Kinds, LoadTable(h, kind) PROVE TypeOK'
  BY <1>0, <1>8 DEF LoadTable, Step, TypeOK, store, call, ghosts, Phases, InTransaction, TableItems, Rows, After, Kinds
<1>9. ASSUME NEW kind \in Kinds, LoadFails(h, kind) PROVE TypeOK'
  BY <1>0, <1>9, LeaveTyped DEF LoadFails, TypeOK, store, ghosts, HandleOK, WriteOK, Digests
<1>10. ASSUME Answer(h) PROVE TypeOK'
  BY <1>0, <1>10 DEF Answer, Step, TypeOK, store, call, ghosts, Phases, InTransaction
<1>11. ASSUME NEW i \in Items, BeginWrite(h, i) PROVE TypeOK'
  BY <1>0, <1>11 DEF BeginWrite, Step, TypeOK, store, call, ghosts, Phases, InTransaction
<1>12. ASSUME RetryWrite(h) PROVE TypeOK'
  BY <1>0, <1>12, LeaveTyped DEF RetryWrite, TypeOK, HandleOK, WriteOK, store
<1>13. ASSUME RefuseWrite(h) PROVE TypeOK'
  BY <1>0, <1>13, LeaveTyped DEF RefuseWrite, TypeOK, store, ghosts, HandleOK, WriteOK, Digests
<1>14. ASSUME EnsurePayload(h) PROVE TypeOK'
  BY <1>0, <1>14 DEF EnsurePayload, Step, TypeOK, store, call, ghosts, Phases, InTransaction, Digests, HandleOK, WriteOK
<1>15. ASSUME EnsureFails(h) PROVE TypeOK'
  BY <1>0, <1>15, LeaveTyped DEF EnsureFails, TypeOK, store, ghosts, HandleOK, WriteOK, Digests
<1>16. ASSUME Commit(h) PROVE TypeOK'
  BY <1>0, <1>16, LeaveTyped DEF Commit, TypeOK, HandleOK, WriteOK, ghosts
<1>17. ASSUME Rollback(h) PROVE TypeOK'
  BY <1>0, <1>17 DEF Rollback, Step, TypeOK, store, call, ghosts, Phases, InTransaction
<1>18. ASSUME CleanUp(h) PROVE TypeOK'
  BY <1>0, <1>18, LeaveTyped DEF CleanUp, TypeOK, store, ghosts, HandleOK, WriteOK, Digests
<1>19. ASSUME CopyCatalogue(h) PROVE TypeOK'
  BY <1>0, <1>19 DEF CopyCatalogue, Step, TypeOK, store, call, ghosts, Phases, InTransaction
<1>20. ASSUME PublishBackup(h) PROVE TypeOK'
  BY <1>0, <1>20, LeaveTyped DEF PublishBackup, TypeOK, store, ghosts, HandleOK, WriteOK, Digests
<1>21. ASSUME BackupFails(h) PROVE TypeOK'
  BY <1>0, <1>21, LeaveTyped DEF BackupFails, TypeOK, store, ghosts, HandleOK, WriteOK, Digests
<1>22. ASSUME Crash(h) PROVE TypeOK'
  BY <1>0, <1>22 DEF Crash, TypeOK, store, call, ghosts, Phases, InTransaction
<1> QED
  BY <1>1, <1>2, <1>3, <1>4, <1>5, <1>6, <1>7, <1>8, <1>9, <1>10, <1>11, <1>12, <1>13, <1>14, <1>15, <1>16, <1>17, <1>18, <1>19, <1>20, <1>21, <1>22
  DEF Opening, Reading, Writing, BackingUp, Kinds

-----------------------------------------------------------------------------
(* What the handles know.                                                  *)

\* A handle that left its call knows only what it has read of the contract,
\* and a crash not even that.
LEMMA LeaveKnows ==
  ASSUME TypeOK, HandlesOK, NEW h \in Handles, Leave(h) \/ Crash(h), StoreMoves(h)
  PROVE HandleOK(h)' /\ OthersKeep(h)
<1> USE DEF TypeOK
<1>1. HandleOK(h)
  BY DEF HandlesOK
<1>2. OthersKeep(h)
  BY DEF OthersKeep, Leave, Crash
<1>3. phase'[h] = "rest" /\ loaded'[h] = {} /\ seen'[h] = 0
  BY DEF Leave, Crash
<1>4. opened'[h] => contract' = bound'[h] /\ contract' # None
  BY <1>1 DEF HandleOK, BoundOK, Leave, Crash, StoreMoves
<1> QED BY <1>2, <1>3, <1>4 DEF HandleOK, BoundOK, ReadOK, WriteOK, Closed

\* Tables read in a row make a core that is closed, and complete for what had
\* been committed when the read began.
LEMMA TableRead ==
  ASSUME TypeOK, NEW h \in Handles, ReadOK(h), NEW kind \in Kinds, LoadTable(h, kind)
  PROVE ReadOK(h)'
<1>1. catalogue' = catalogue /\ seen'[h] = seen[h] /\ phase[h] = kind /\ phase'[h] = After(kind)
  BY DEF LoadTable, Step, store, TypeOK
<1>2. loaded'[h] = loaded[h] \union TableItems(catalogue, kind)
  BY DEF LoadTable, TypeOK
<1>3. TableReplays(loaded[h], catalogue, kind)
  BY DEF LoadTable
<1>4. \A n \in Rows(catalogue, kind) : Earlier(catalogue, n) \subseteq TableItems(catalogue, kind)
  BY DEF Earlier, TableItems, Rows
<1>5. Closed(loaded'[h])
  <2> SUFFICES ASSUME NEW i \in loaded'[h] PROVE Needs[i] \subseteq loaded'[h]
    BY DEF Closed
  <2>1. CASE i \in loaded[h]
    BY <2>1, <1>2 DEF ReadOK, Closed
  <2>2. CASE i \in TableItems(catalogue, kind)
    <3>1. PICK n \in Rows(catalogue, kind) : catalogue[n] = i
      BY <2>2 DEF TableItems
    <3>2. Needs[i] \subseteq loaded[h] \union Earlier(catalogue, n)
      BY <3>1, <1>3 DEF TableReplays, Fits
    <3> QED BY <3>1, <3>2, <1>2, <1>4
  <2> QED BY <2>1, <2>2, <1>2
<1>6. TablesRead(After(kind)) = TablesRead(kind) \union {kind}
  BY DEF TablesRead, After, Kinds
<1>7. ASSUME NEW n \in 1 .. seen[h], Kind[catalogue[n]] \in TablesRead(After(kind))
      PROVE catalogue[n] \in loaded'[h]
  <2>1. n \in DOMAIN catalogue
    BY DEF TypeOK
  <2>2. CASE Kind[catalogue[n]] = kind
    BY <2>1, <2>2, <1>2 DEF TableItems, Rows
  <2>3. CASE Kind[catalogue[n]] \in TablesRead(kind)
    BY <2>3, <1>1, <1>2 DEF ReadOK
  <2> QED BY <1>6, <1>7, <2>2, <2>3
<1> QED BY <1>1, <1>5, <1>7 DEF ReadOK

LEMMA Knowing == ASSUME IInv, Next PROVE HandlesOK'
<1> SUFFICES ASSUME NEW h \in Handles, Opening(h) \/ Reading(h) \/ Writing(h) \/ BackingUp(h) \/ Crash(h)
             PROVE HandlesOK'
  BY DEF Next
<1> USE StoreAssumption
<1>0. TypeOK /\ HandlesOK /\ HandleOK(h) /\ OlderPayloadsStay
  BY DEF IInv, HandlesOK
<1>a. SUFFICES StoreMoves(h) /\ OthersKeep(h) /\ HandleOK(h)'
  BY <1>0, OthersStay DEF HandlesOK
<1>1. ASSUME NEW k \in Contracts, ReadContract(h, k) PROVE StoreMoves(h) /\ OthersKeep(h) /\ HandleOK(h)'
  <2>1. StoreMoves(h)
    BY <1>0, <1>1 DEF StoreMoves, ReadContract, store, ghosts, TypeOK
  <2>2. OthersKeep(h)
    BY <1>0, <1>1 DEF OthersKeep, ReadContract, Step, store, call, ghosts, TypeOK
  <2>3. BoundOK(h)'
    BY <1>0, <1>1 DEF BoundOK, HandleOK, ReadContract, Step, store, call, ghosts, TypeOK
  <2>4. ReadOK(h)'
    BY <1>0, <1>1 DEF ReadOK, Closed, TablesRead, HandleOK, ReadContract, Step, store, call, ghosts, TypeOK
  <2>5. WriteOK(h)'
    BY <1>0, <1>1 DEF WriteOK, HandleOK, ReadContract, Step, store, call, ghosts, TypeOK
  <2> QED BY <2>1, <2>2, <2>3, <2>4, <2>5 DEF HandleOK
<1>2. ASSUME BindContract(h) PROVE StoreMoves(h) /\ OthersKeep(h) /\ HandleOK(h)'
  <2>1. StoreMoves(h)
    BY <1>0, <1>2 DEF StoreMoves, BindContract, store, ghosts, TypeOK
  <2>2. OthersKeep(h)
    BY <1>0, <1>2 DEF OthersKeep, BindContract, Step, store, call, ghosts, TypeOK
  <2>3. BoundOK(h)'
    BY <1>0, <1>2 DEF BoundOK, HandleOK, BindContract, Step, store, call, ghosts, TypeOK
  <2>4. ReadOK(h)'
    BY <1>0, <1>2 DEF ReadOK, Closed, TablesRead, HandleOK, BindContract, Step, store, call, ghosts, TypeOK
  <2>5. WriteOK(h)'
    BY <1>0, <1>2 DEF WriteOK, HandleOK, BindContract, Step, store, call, ghosts, TypeOK
  <2> QED BY <2>1, <2>2, <2>3, <2>4, <2>5 DEF HandleOK
<1>3. ASSUME BindFails(h) PROVE StoreMoves(h) /\ OthersKeep(h) /\ HandleOK(h)'
  <2>1. StoreMoves(h)
    BY <1>0, <1>3 DEF StoreMoves, BindFails, store, ghosts
  <2> QED BY <1>0, <1>3, <2>1, LeaveKnows DEF BindFails
<1>4. ASSUME InspectRows(h) PROVE StoreMoves(h) /\ OthersKeep(h) /\ HandleOK(h)'
  <2>1. StoreMoves(h)
    BY <1>0, <1>4 DEF StoreMoves, InspectRows, store, ghosts, TypeOK
  <2>2. OthersKeep(h)
    BY <1>0, <1>4 DEF OthersKeep, InspectRows, Step, store, call, ghosts, TypeOK
  <2>3. BoundOK(h)'
    BY <1>0, <1>4 DEF BoundOK, HandleOK, InspectRows, Step, store, call, ghosts, TypeOK
  <2>4. ReadOK(h)'
    BY <1>0, <1>4 DEF ReadOK, Closed, TablesRead, HandleOK, InspectRows, Step, store, call, ghosts, TypeOK
  <2>5. WriteOK(h)'
    BY <1>0, <1>4 DEF WriteOK, HandleOK, InspectRows, Step, store, call, ghosts, TypeOK
  <2> QED BY <2>1, <2>2, <2>3, <2>4, <2>5 DEF HandleOK
<1>5. ASSUME InspectFiles(h) PROVE StoreMoves(h) /\ OthersKeep(h) /\ HandleOK(h)'
  <2>1. StoreMoves(h)
    BY <1>0, <1>5 DEF StoreMoves, InspectFiles, store, ghosts, TypeOK
  <2>2. OthersKeep(h)
    BY <1>0, <1>5 DEF OthersKeep, InspectFiles, Step, store, call, ghosts, TypeOK
  <2>3. BoundOK(h)'
    BY <1>0, <1>5 DEF BoundOK, HandleOK, InspectFiles, Step, store, call, ghosts, TypeOK
  <2>4. ReadOK(h)'
    BY <1>0, <1>5 DEF ReadOK, Closed, TablesRead, HandleOK, InspectFiles, Step, store, call, ghosts, TypeOK
  <2>5. WriteOK(h)'
    BY <1>0, <1>5 DEF WriteOK, HandleOK, InspectFiles, Step, store, call, ghosts, TypeOK
  <2> QED BY <2>1, <2>2, <2>3, <2>4, <2>5 DEF HandleOK
<1>6. ASSUME OpenFails(h) PROVE StoreMoves(h) /\ OthersKeep(h) /\ HandleOK(h)'
  <2>1. StoreMoves(h)
    BY <1>0, <1>6 DEF StoreMoves, OpenFails, store, ghosts
  <2> QED BY <1>0, <1>6, <2>1, LeaveKnows DEF OpenFails
<1>7. ASSUME BeginRead(h) PROVE StoreMoves(h) /\ OthersKeep(h) /\ HandleOK(h)'
  <2>1. StoreMoves(h)
    BY <1>0, <1>7 DEF StoreMoves, BeginRead, store, ghosts, TypeOK
  <2>2. OthersKeep(h)
    BY <1>0, <1>7 DEF OthersKeep, BeginRead, Step, store, call, ghosts, TypeOK
  <2>3. BoundOK(h)'
    BY <1>0, <1>7 DEF BoundOK, HandleOK, BeginRead, Step, store, call, ghosts, TypeOK
  <2>4. ReadOK(h)'
    BY <1>0, <1>7 DEF ReadOK, Closed, TablesRead, HandleOK, BeginRead, Step, store, call, ghosts, TypeOK
  <2>5. WriteOK(h)'
    BY <1>0, <1>7 DEF WriteOK, HandleOK, BeginRead, Step, store, call, ghosts, TypeOK
  <2> QED BY <2>1, <2>2, <2>3, <2>4, <2>5 DEF HandleOK
<1>8. ASSUME NEW kind \in Kinds, LoadTable(h, kind) PROVE StoreMoves(h) /\ OthersKeep(h) /\ HandleOK(h)'
  <2>1. StoreMoves(h)
    BY <1>0, <1>8 DEF StoreMoves, LoadTable, store, ghosts, TypeOK
  <2>2. OthersKeep(h)
    BY <1>0, <1>8 DEF OthersKeep, LoadTable, Step, store, call, ghosts, TypeOK
  <2>3. BoundOK(h)'
    BY <1>0, <1>8 DEF BoundOK, HandleOK, LoadTable, Step, store, call, ghosts, TypeOK, After, Kinds
  <2>4. ReadOK(h)'
    BY <1>0, <1>8, TableRead DEF HandleOK
  <2>5. WriteOK(h)'
    BY <1>0, <1>8 DEF WriteOK, HandleOK, LoadTable, Step, store, call, ghosts, TypeOK, After, Kinds
  <2> QED BY <2>1, <2>2, <2>3, <2>4, <2>5 DEF HandleOK
<1>9. ASSUME NEW kind \in Kinds, LoadFails(h, kind) PROVE StoreMoves(h) /\ OthersKeep(h) /\ HandleOK(h)'
  <2>1. StoreMoves(h)
    BY <1>0, <1>9 DEF StoreMoves, LoadFails, store, ghosts
  <2> QED BY <1>0, <1>9, <2>1, LeaveKnows DEF LoadFails
<1>10. ASSUME Answer(h) PROVE StoreMoves(h) /\ OthersKeep(h) /\ HandleOK(h)'
  <2>1. StoreMoves(h)
    BY <1>0, <1>10 DEF StoreMoves, Answer, store, ghosts, TypeOK
  <2>2. OthersKeep(h)
    BY <1>0, <1>10 DEF OthersKeep, Answer, Step, store, call, ghosts, TypeOK
  <2>3. BoundOK(h)'
    BY <1>0, <1>10 DEF BoundOK, HandleOK, Answer, Step, store, call, ghosts, TypeOK
  <2>4. ReadOK(h)'
    BY <1>0, <1>10 DEF ReadOK, Closed, TablesRead, HandleOK, Answer, Step, store, call, ghosts, TypeOK
  <2>5. WriteOK(h)'
    BY <1>0, <1>10 DEF WriteOK, HandleOK, Answer, Step, store, call, ghosts, TypeOK
  <2> QED BY <2>1, <2>2, <2>3, <2>4, <2>5 DEF HandleOK
<1>11. ASSUME NEW i \in Items, BeginWrite(h, i) PROVE StoreMoves(h) /\ OthersKeep(h) /\ HandleOK(h)'
  <2>1. StoreMoves(h)
    BY <1>0, <1>11 DEF StoreMoves, BeginWrite, store, ghosts, TypeOK
  <2>2. OthersKeep(h)
    BY <1>0, <1>11 DEF OthersKeep, BeginWrite, Step, store, call, ghosts, TypeOK
  <2>3. BoundOK(h)'
    BY <1>0, <1>11 DEF BoundOK, HandleOK, BeginWrite, Step, store, call, ghosts, TypeOK
  <2>4. ReadOK(h)'
    BY <1>0, <1>11 DEF ReadOK, Closed, TablesRead, HandleOK, BeginWrite, Step, store, call, ghosts, TypeOK
  <2>5. WriteOK(h)'
    BY <1>0, <1>11 DEF WriteOK, HandleOK, BeginWrite, Step, store, call, ghosts, TypeOK
  <2> QED BY <2>1, <2>2, <2>3, <2>4, <2>5 DEF HandleOK
<1>12. ASSUME RetryWrite(h) PROVE StoreMoves(h) /\ OthersKeep(h) /\ HandleOK(h)'
  <2>1. StoreMoves(h)
    BY <1>0, <1>12 DEF StoreMoves, RetryWrite, store, ghosts
  <2> QED BY <1>0, <1>12, <2>1, LeaveKnows DEF RetryWrite
<1>13. ASSUME RefuseWrite(h) PROVE StoreMoves(h) /\ OthersKeep(h) /\ HandleOK(h)'
  <2>1. StoreMoves(h)
    BY <1>0, <1>13 DEF StoreMoves, RefuseWrite, store, ghosts
  <2> QED BY <1>0, <1>13, <2>1, LeaveKnows DEF RefuseWrite
<1>14. ASSUME EnsurePayload(h) PROVE StoreMoves(h) /\ OthersKeep(h) /\ HandleOK(h)'
  <2>1. StoreMoves(h)
    BY <1>0, <1>14 DEF StoreMoves, EnsurePayload, store, ghosts, TypeOK
  <2>2. OthersKeep(h)
    BY <1>0, <1>14 DEF OthersKeep, EnsurePayload, Step, store, call, ghosts, TypeOK
  <2>3. BoundOK(h)'
    BY <1>0, <1>14 DEF BoundOK, HandleOK, EnsurePayload, Step, store, call, ghosts, TypeOK
  <2>4. ReadOK(h)'
    BY <1>0, <1>14 DEF ReadOK, Closed, TablesRead, HandleOK, EnsurePayload, Step, store, call, ghosts, TypeOK
  <2>5. WriteOK(h)'
    <3> DEFINE d == Digest[item[h]]
    <3>1. /\ phase'[h] = "inserted" /\ item'[h] = item[h] /\ item[h] \in Items
          /\ catalogue' = catalogue /\ raced' = raced /\ Fits(ItemsOf(catalogue), item[h])
      BY <1>0, <1>14 DEF EnsurePayload, Step, HandleOK, WriteOK, ghosts, TypeOK
    <3>2. created'[h] = (d # None /\ d \notin files) /\ files' = files \union ({d} \ {None})
      BY <1>14, <1>0 DEF EnsurePayload, TypeOK
    <3>3. d \in PayloadRows(catalogue) /\ d \notin files => d \in raced
      BY <1>0 DEF OlderPayloadsStay
    <3> QED BY <3>1, <3>2, <3>3 DEF WriteOK
  <2> QED BY <2>1, <2>2, <2>3, <2>4, <2>5 DEF HandleOK
<1>15. ASSUME EnsureFails(h) PROVE StoreMoves(h) /\ OthersKeep(h) /\ HandleOK(h)'
  <2>1. StoreMoves(h)
    BY <1>0, <1>15 DEF StoreMoves, EnsureFails, store, ghosts, TypeOK
  <2> QED BY <1>0, <1>15, <2>1, LeaveKnows DEF EnsureFails
<1>16. ASSUME Commit(h) PROVE StoreMoves(h) /\ OthersKeep(h) /\ HandleOK(h)'
  <2>1. StoreMoves(h)
    BY <1>0, <1>16 DEF StoreMoves, Commit, store, ghosts
  <2> QED BY <1>0, <1>16, <2>1, LeaveKnows DEF Commit
<1>17. ASSUME Rollback(h) PROVE StoreMoves(h) /\ OthersKeep(h) /\ HandleOK(h)'
  <2>1. StoreMoves(h)
    BY <1>0, <1>17 DEF StoreMoves, Rollback, store, ghosts, TypeOK
  <2>2. OthersKeep(h)
    BY <1>0, <1>17 DEF OthersKeep, Rollback, Step, store, call, ghosts, TypeOK
  <2>3. BoundOK(h)'
    BY <1>0, <1>17 DEF BoundOK, HandleOK, Rollback, Step, store, call, ghosts, TypeOK
  <2>4. ReadOK(h)'
    BY <1>0, <1>17 DEF ReadOK, Closed, TablesRead, HandleOK, Rollback, Step, store, call, ghosts, TypeOK
  <2>5. WriteOK(h)'
    <3> DEFINE d == Digest[item[h]]
    <3>1. /\ phase[h] = "inserted" /\ phase'[h] = "undoing" /\ item'[h] = item[h] /\ created'[h] = created[h]
          /\ catalogue' = catalogue /\ raced' = raced /\ seen'[h] = Len(catalogue)
      BY <1>0, <1>17 DEF Rollback, Step, ghosts, store, TypeOK
    <3>2. item[h] \in Items /\ (created[h] => d # None /\ (d \notin PayloadRows(catalogue) \/ d \in raced))
      BY <1>0, <3>1 DEF HandleOK, WriteOK
    <3>3. \A n \in 1 .. Len(catalogue) : catalogue[n] \in ItemsOf(catalogue)
      BY <1>0 DEF ItemsOf, TypeOK
    <3>4. d # None /\ d \notin PayloadRows(catalogue) => \A n \in 1 .. Len(catalogue) : Digest[catalogue[n]] # d
      BY <3>3 DEF PayloadRows
    <3> QED BY <3>1, <3>2, <3>4 DEF WriteOK
  <2> QED BY <2>1, <2>2, <2>3, <2>4, <2>5 DEF HandleOK
<1>18. ASSUME CleanUp(h) PROVE StoreMoves(h) /\ OthersKeep(h) /\ HandleOK(h)'
  <2>1. StoreMoves(h)
    BY <1>0, <1>18 DEF StoreMoves, CleanUp, store, ghosts, TakenUp, HandleOK, WriteOK, TypeOK
  <2> QED BY <1>0, <1>18, <2>1, LeaveKnows DEF CleanUp
<1>19. ASSUME CopyCatalogue(h) PROVE StoreMoves(h) /\ OthersKeep(h) /\ HandleOK(h)'
  <2>1. StoreMoves(h)
    BY <1>0, <1>19 DEF StoreMoves, CopyCatalogue, store, ghosts, TypeOK
  <2>2. OthersKeep(h)
    BY <1>0, <1>19 DEF OthersKeep, CopyCatalogue, Step, store, call, ghosts, TypeOK
  <2>3. BoundOK(h)'
    BY <1>0, <1>19 DEF BoundOK, HandleOK, CopyCatalogue, Step, store, call, ghosts, TypeOK
  <2>4. ReadOK(h)'
    BY <1>0, <1>19 DEF ReadOK, Closed, TablesRead, HandleOK, CopyCatalogue, Step, store, call, ghosts, TypeOK
  <2>5. WriteOK(h)'
    BY <1>0, <1>19 DEF WriteOK, HandleOK, CopyCatalogue, Step, store, call, ghosts, TypeOK
  <2> QED BY <2>1, <2>2, <2>3, <2>4, <2>5 DEF HandleOK
<1>20. ASSUME PublishBackup(h) PROVE StoreMoves(h) /\ OthersKeep(h) /\ HandleOK(h)'
  <2>1. StoreMoves(h)
    BY <1>0, <1>20 DEF StoreMoves, PublishBackup, store, ghosts
  <2> QED BY <1>0, <1>20, <2>1, LeaveKnows DEF PublishBackup
<1>21. ASSUME BackupFails(h) PROVE StoreMoves(h) /\ OthersKeep(h) /\ HandleOK(h)'
  <2>1. StoreMoves(h)
    BY <1>0, <1>21 DEF StoreMoves, BackupFails, store, ghosts
  <2> QED BY <1>0, <1>21, <2>1, LeaveKnows DEF BackupFails
<1>22. ASSUME Crash(h) PROVE StoreMoves(h) /\ OthersKeep(h) /\ HandleOK(h)'
  <2>1. StoreMoves(h)
    BY <1>0, <1>22 DEF StoreMoves, Crash, store, ghosts
  <2> QED BY <1>0, <1>22, <2>1, LeaveKnows
<1> QED
  BY <1>1, <1>2, <1>3, <1>4, <1>5, <1>6, <1>7, <1>8, <1>9, <1>10, <1>11, <1>12, <1>13, <1>14, <1>15, <1>16, <1>17, <1>18, <1>19, <1>20, <1>21, <1>22
  DEF Opening, Reading, Writing, BackingUp, Kinds

-----------------------------------------------------------------------------
(* The catalogue, the files and the bundles.                               *)

\* Only a commit adds to the catalogue, and what it adds fits.
LEMMA Growing ==
  ASSUME IInv, Next
  PROVE \/ catalogue' = catalogue /\ receipts' \subseteq receipts \union ItemsOf(catalogue)
        \/ \E h \in Handles :
             /\ phase[h] = "inserted" /\ item[h] \in Items /\ Commit(h)
             /\ catalogue' = Append(catalogue, item[h]) /\ receipts' = receipts \union {item[h]}
<1> SUFFICES ASSUME NEW h \in Handles, Opening(h) \/ Reading(h) \/ Writing(h) \/ BackingUp(h) \/ Crash(h), ~ Commit(h)
             PROVE catalogue' = catalogue /\ receipts' \subseteq receipts \union ItemsOf(catalogue)
  BY DEF Next, Commit, IInv, HandlesOK, HandleOK, WriteOK
<1>1. CASE Opening(h)
  BY <1>1 DEF Opening, ReadContract, BindContract, BindFails, InspectRows, InspectFiles, OpenFails, store, ghosts
<1>2. CASE Reading(h)
  BY <1>2 DEF Reading, BeginRead, LoadTable, LoadFails, Answer, store, ghosts
<1>3. CASE Writing(h)
  BY <1>3 DEF Writing, BeginWrite, RetryWrite, Known, RefuseWrite, EnsurePayload, EnsureFails, Rollback, CleanUp, store, ghosts
<1>4. CASE BackingUp(h) \/ Crash(h)
  BY <1>4 DEF BackingUp, CopyCatalogue, PublishBackup, BackupFails, Crash, store, ghosts
<1> QED BY <1>1, <1>2, <1>3, <1>4

LEMMA CatalogueStep == ASSUME IInv, Next PROVE CatalogueSound' /\ ReceiptsHold'
<1>1. CatalogueSound /\ ReceiptsHold /\ catalogue \in Seq(Items)
  BY DEF IInv, TypeOK
<1>2. CASE catalogue' = catalogue /\ receipts' \subseteq receipts \union ItemsOf(catalogue)
  BY <1>1, <1>2 DEF CatalogueSound, ReceiptsHold
<1>3. ASSUME NEW h \in Handles, phase[h] = "inserted", item[h] \in Items,
             catalogue' = Append(catalogue, item[h]), receipts' = receipts \union {item[h]}
      PROVE CatalogueSound' /\ ReceiptsHold'
  <2>1. Fits(ItemsOf(catalogue), item[h])
    BY <1>3 DEF IInv, HandlesOK, HandleOK, WriteOK
  <2>2. Sound(catalogue')
    BY <1>1, <1>3, <2>1, SoundGrows, SoundIsSound
  <2>3. ItemsOf(catalogue') = ItemsOf(catalogue) \union {item[h]}
    BY <1>1, <1>3, ItemsGrow
  <2> QED BY <1>1, <1>3, <2>2, <2>3 DEF ReceiptsHold, CatalogueSound, Sound, Before
<1> QED BY <1>2, <1>3, Growing

\* Files are removed by a clean-up only.
LEMMA Removing ==
  ASSUME Next
  PROVE raced \subseteq raced' /\ (files \subseteq files' \/ \E h \in Handles : CleanUp(h))
<1> SUFFICES ASSUME NEW h \in Handles, Opening(h) \/ Reading(h) \/ Writing(h) \/ BackingUp(h) \/ Crash(h)
             PROVE raced \subseteq raced' /\ (files \subseteq files' \/ CleanUp(h))
  BY DEF Next
<1>1. CASE Opening(h)
  BY <1>1 DEF Opening, ReadContract, BindContract, BindFails, InspectRows, InspectFiles, OpenFails, store, ghosts
<1>2. CASE Reading(h)
  BY <1>2 DEF Reading, BeginRead, LoadTable, LoadFails, Answer, store, ghosts
<1>3. CASE Writing(h)
  BY <1>3 DEF Writing, BeginWrite, RetryWrite, RefuseWrite, EnsurePayload, EnsureFails, Commit, Rollback, CleanUp, store, ghosts
<1>4. CASE BackingUp(h) \/ Crash(h)
  BY <1>4 DEF BackingUp, CopyCatalogue, PublishBackup, BackupFails, Crash, store, ghosts
<1> QED BY <1>1, <1>2, <1>3, <1>4

\* A payload of a committed row goes only in a race.
LEMMA FilesStep == ASSUME IInv, Next PROVE OlderPayloadsStay'
<1>1. TypeOK /\ OlderPayloadsStay /\ HandlesOK
  BY DEF IInv
<1>2. CASE files \subseteq files' /\ catalogue' = catalogue
  BY <1>1, <1>2, Removing DEF OlderPayloadsStay
<1>3. ASSUME NEW h \in Handles, phase[h] = "inserted", item[h] \in Items, Commit(h),
             catalogue' = Append(catalogue, item[h])
      PROVE OlderPayloadsStay'
  <2>1. PayloadRows(catalogue') = PayloadRows(catalogue) \union ({Digest[item[h]]} \ {None})
    BY <1>1, <1>3, ItemsGrow DEF TypeOK
  <2>2. Digest[item[h]] \in files \union raced \union {None}
    BY <1>1, <1>3 DEF HandlesOK, HandleOK, WriteOK
  <2>3. files' = files /\ raced' = raced
    BY <1>3 DEF Commit
  <2> QED BY <1>1, <2>1, <2>2, <2>3 DEF OlderPayloadsStay
<1>4. ASSUME NEW h \in Handles, CleanUp(h) PROVE OlderPayloadsStay'
  <2> DEFINE d == Digest[item[h]]
  <2>1. CASE ~ created[h]
    BY <1>1, <1>4, <2>1 DEF CleanUp, OlderPayloadsStay
  <2>2. CASE created[h] /\ d \notin raced'
    <3>1. \A n \in 1 .. seen[h] : Digest[catalogue[n]] # d
      BY <1>1, <1>4, <2>2 DEF HandlesOK, HandleOK, WriteOK, CleanUp
    <3>2. \A n \in seen[h] + 1 .. Len(catalogue) : Digest[catalogue[n]] # d
      BY <1>4, <2>2 DEF CleanUp, TakenUp
    <3>3. \A n \in DOMAIN catalogue : n \in 1 .. seen[h] \/ n \in seen[h] + 1 .. Len(catalogue)
      BY <1>1 DEF TypeOK
    <3>4. d \notin PayloadRows(catalogue)
      BY <3>1, <3>2, <3>3 DEF PayloadRows, ItemsOf
    <3> QED BY <1>1, <1>4, <3>4, <2>2 DEF CleanUp, OlderPayloadsStay
  <2>3. CASE created[h] /\ d \in raced'
    BY <1>1, <1>4, <2>3, Removing DEF CleanUp, OlderPayloadsStay
  <2> QED BY <2>1, <2>2, <2>3
<1> QED BY <1>2, <1>3, <1>4, Growing, Removing DEF Commit

\* A bundle is made from an initial part of the catalogue.
LEMMA BundlesStep == ASSUME IInv, Next PROVE BackupsRestore'
<1>1. BackupsRestore /\ catalogue \in Seq(Items) /\ Sound(catalogue) /\ TypeOK
  BY SoundIsSound DEF IInv, TypeOK
<1>2. ASSUME NEW h \in Handles, PublishBackup(h) PROVE BackupsRestore'
  <2>1. seen[h] \in 0 .. Len(catalogue)
    BY <1>1 DEF TypeOK
  <2>2. Replays(SeenRows(h)) /\ PayloadRows(SeenRows(h)) \subseteq PayloadRows(catalogue)
    BY <1>1, <2>1, PartIsSound, SoundReplays DEF SeenRows
  <2> QED BY <1>1, <1>2, <2>2 DEF PublishBackup, BackupsRestore
<1>3. ASSUME NEW h \in Handles, Opening(h) \/ Reading(h) \/ Writing(h) \/ BackingUp(h) \/ Crash(h), ~ PublishBackup(h)
      PROVE backups' = backups
  <2>1. CASE Opening(h)
    BY <2>1 DEF Opening, ReadContract, BindContract, BindFails, InspectRows, InspectFiles, OpenFails
  <2>2. CASE Reading(h)
    BY <2>2 DEF Reading, BeginRead, LoadTable, LoadFails, Answer
  <2>3. CASE Writing(h)
    BY <2>3 DEF Writing, BeginWrite, RetryWrite, RefuseWrite, EnsurePayload, EnsureFails, Commit, Rollback, CleanUp
  <2>4. CASE BackingUp(h) \/ Crash(h)
    BY <1>3, <2>4 DEF BackingUp, CopyCatalogue, BackupFails, Crash
  <2> QED BY <1>3, <2>1, <2>2, <2>3, <2>4
<1> QED BY <1>1, <1>2, <1>3 DEF Next, BackupsRestore

-----------------------------------------------------------------------------
(* The theorems.                                                           *)

LEMMA Initially == Init => IInv
<1> SUFFICES ASSUME Init PROVE IInv
  OBVIOUS
<1>1. TypeOK
  BY StoreAssumption DEF Init, TypeOK, Phases, InTransaction
<1>2. HandlesOK
  BY DEF Init, HandlesOK, HandleOK, BoundOK, ReadOK, WriteOK, Closed
<1>3. CatalogueSound /\ ReceiptsHold /\ OlderPayloadsStay /\ BackupsRestore
  BY DEF Init, CatalogueSound, ReceiptsHold, OlderPayloadsStay, BackupsRestore, PayloadRows, ItemsOf
<1> QED BY <1>1, <1>2, <1>3 DEF IInv

LEMMA Stuttering == IInv /\ UNCHANGED vars => IInv'
<1> SUFFICES ASSUME IInv, UNCHANGED vars PROVE IInv'
  OBVIOUS
<1> USE DEF vars, store, call, ghosts
<1>1. TypeOK'
  BY DEF IInv, TypeOK
<1>2. ASSUME NEW h \in Handles PROVE HandleOK(h)'
  <2>1. HandleOK(h)
    BY DEF IInv, HandlesOK
  <2>2. BoundOK(h)'
    BY <2>1 DEF HandleOK, BoundOK
  <2>3. ReadOK(h)'
    BY <2>1 DEF HandleOK, ReadOK
  <2>4. WriteOK(h)'
    BY <2>1 DEF HandleOK, WriteOK
  <2> QED BY <2>2, <2>3, <2>4 DEF HandleOK
<1>3. CatalogueSound' /\ ReceiptsHold' /\ OlderPayloadsStay' /\ BackupsRestore'
  BY DEF IInv, CatalogueSound, ReceiptsHold, OlderPayloadsStay, BackupsRestore
<1> QED BY <1>1, <1>2, <1>3 DEF IInv, HandlesOK

\* The inductive invariant holds in every reachable state.
THEOREM Inductive == Spec => []IInv
<1>1. IInv /\ [Next]_vars => IInv'
  BY Typing, Knowing, CatalogueStep, FilesStep, BundlesStep, Stuttering DEF IInv
<1> QED BY Initially, <1>1, PTL DEF Spec

\* The types, and the write lock belongs to the handle in a transaction.
THEOREM TypeCorrect == Spec => []TypeOK
<1>1. IInv => TypeOK
  BY DEF IInv
<1> QED BY Inductive, <1>1, PTL

\* "Fail-closed transaction": no interleaving of writers commits a row that
\* conflicts with another or comes before what it is made from.
THEOREM CatalogueIsSound == Spec => []CatalogueSound
<1>1. IInv => CatalogueSound
  BY DEF IInv
<1> QED BY Inductive, <1>1, PTL

\* The catalogue can always be replayed by the code that opens the store.
THEOREM CatalogueCanBeOpened == Spec => []Replays(catalogue)
<1>1. IInv => Replays(catalogue)
  BY SoundReplays, SoundIsSound DEF IInv, TypeOK
<1> QED BY Inductive, <1>1, PTL

\* A receipt stays true across failures and deaths of any handle.
THEOREM ReceiptsStay == Spec => []ReceiptsHold
<1>1. IInv => ReceiptsHold
  BY DEF IInv
<1> QED BY Inductive, <1>1, PTL

\* A committed payload is lost only to a clean-up that another handle's
\* transaction overtook.
THEOREM PayloadsStay == Spec => []OlderPayloadsStay
<1>1. IInv => OlderPayloadsStay
  BY DEF IInv
<1> QED BY Inductive, <1>1, PTL

\* An answered read is closed and shows all that was committed before it.
THEOREM AnswersHold == Spec => []AnswersConsistent
<1>1. IInv => AnswersConsistent
  <2> SUFFICES ASSUME IInv, NEW h \in Handles, phase[h] = "answered"
               PROVE /\ \A n \in 1 .. seen[h] : catalogue[n] \in loaded[h]
                     /\ \A i \in loaded[h] : Needs[i] \subseteq loaded[h]
    BY DEF AnswersConsistent
  <2>1. ReadOK(h) /\ TypeOK
    BY DEF IInv, HandlesOK, HandleOK
  <2>2. \A n \in 1 .. seen[h] : catalogue[n] \in Items
    BY <2>1 DEF TypeOK
  <2> QED BY <2>1, <2>2, StoreAssumption DEF ReadOK, Closed, TablesRead
<1> QED BY Inductive, <1>1, PTL

\* Every published bundle restores, whatever was committed while it was made.
THEOREM BundlesRestore == Spec => []BackupsRestore
<1>1. IInv => BackupsRestore
  BY DEF IInv
<1> QED BY Inductive, <1>1, PTL

\* Open handles agree on the contract of the workspace.
THEOREM OneContract == Spec => []ContractAgreed
<1>1. IInv => ContractAgreed
  BY DEF IInv, HandlesOK, HandleOK, BoundOK, ContractAgreed
<1> QED BY Inductive, <1>1, PTL
=============================================================================
