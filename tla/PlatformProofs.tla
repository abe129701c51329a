--------------------------- MODULE PlatformProofs ---------------------------
(***************************************************************************)
(* Proofs about the two stateful parts of the platform package that keep a *)
(* record of what they did, and whose record can be replayed: LiveTwin,    *)
(* for every set of commands, updates and other controllers and for every  *)
(* budget, and ScenarioRegistry, for every set of scenarios, artifacts and *)
(* handles, any number of failed writes and any length of the file.        *)
(***************************************************************************)
EXTENDS LiveTwin, ScenarioRegistry, SequenceTheorems, WellFoundedInduction, TLAPS

-----------------------------------------------------------------------------
(* Induction over the length of a sequence: a set of numbers that holds 0  *)
(* and every successor of its members holds all of them.                   *)

LEMMA Counting ==
  ASSUME NEW S \in SUBSET Nat, 0 \in S, \A n \in S : n + 1 \in S
  PROVE  S = Nat
<1> DEFINE Missing == Nat \ S
<1> SUFFICES ASSUME Missing # {} PROVE FALSE
  BY Zenon
<1>1. PICK m \in Missing : \A n \in Missing : <<n, m>> \notin OpToRel(<, Nat)
  BY NatLessThanWellFounded, WFMin, Zenon
<1>2. \A n \in Missing : ~ (n < m)
  <2>1. \A n \in Missing : <<n, m>> \in OpToRel(<, Nat) <=> n < m
    BY Zenon DEF OpToRel
  <2> QED BY <1>1, <2>1
<1>3. m # 0 /\ m - 1 \in Nat /\ m - 1 < m /\ (m - 1) + 1 = m
  BY DEF Missing
<1>4. m - 1 \in S
  BY <1>2, <1>3
<1> QED BY <1>3, <1>4

LEMMA PrefixOfAppend ==
  ASSUME NEW S, NEW s \in Seq(S), NEW e \in S
  PROVE  \A n \in 0 .. Len(s) : SubSeq(Append(s, e), 1, n) = SubSeq(s, 1, n)
OBVIOUS

-----------------------------------------------------------------------------
(* LiveTwin: types, ownership, the process and the budgets.                *)

Ended == {"completed", "refused"}

\* Where a session stands decides what else there is.
PhasesFit ==
  /\ state = "prepared" => process = "none" /\ receipt = NoReceipt
  /\ state \in Live => owned /\ receipt = NoReceipt
  /\ state \in Ended => owned /\ receipt # NoReceipt

\* The part of TypeOK, and of the invariant, that endings change ...
ControlTypes ==
  /\ active \in BOOLEAN /\ owned \in BOOLEAN
  /\ others \in [Others -> {"prepared", "owning", "ended"}]
  /\ state \in {"prepared", "running", "paused", "completed", "refused"}
  /\ process \in {"none", "alive", "dead"}
  /\ deviations \in SUBSET Deviations
  /\ receipt \in Receipts \union {NoReceipt}

Control == ControlTypes /\ PhasesFit /\ OwnershipTracked

\* ... and the part that only what is applied changes.
LedgerTypes ==
  /\ ledger \in Seq(Commands) /\ Len(ledger) <= MaxCommands
  /\ updates \in Seq(Updates)
  /\ cost \in 0 .. MaxCost /\ external \in BOOLEAN

GhostTypes ==
  /\ spent \in Nat
  /\ performed \in Seq([command : Commands, external : BOOLEAN])
  /\ delivered \in Seq([update : Updates, external : BOOLEAN])

\* What the process did begins with what is on the ledgers, and is just that
\* as long as the session has not ended.
Accounts ==
  /\ Len(ledger) <= Len(performed) /\ Len(updates) <= Len(delivered)
  /\ \A i \in 1 .. Len(ledger) : performed[i].command = ledger[i]
  /\ \A i \in 1 .. Len(updates) : delivered[i].update = updates[i]
  /\ state \notin Ended =>
       Len(performed) = Len(ledger) /\ Len(delivered) = Len(updates) /\ spent = cost

IInv == Control /\ LedgerTypes /\ GhostTypes /\ Accounts /\ AppliedOnce /\ WithinBudgets

LEMMA TypesAreTypeOK == ControlTypes /\ LedgerTypes /\ GhostTypes => TypeOK
BY Zenon DEF ControlTypes, LedgerTypes, GhostTypes, TypeOK

LEMMA InitEstablishes == Init => IInv
<1> SUFFICES ASSUME Init PROVE IInv
  OBVIOUS
<1> USE DEF Init
<1>1. ControlTypes /\ PhasesFit
  BY DEF ControlTypes, PhasesFit, Live, Ended
<1>2. OwnershipTracked
  BY DEF OwnershipTracked, Owning
<1>3. LedgerTypes /\ GhostTypes
  <2>1. external \in BOOLEAN
    OBVIOUS
  <2>2. /\ ledger \in Seq(Commands) /\ Len(ledger) <= MaxCommands
        /\ updates \in Seq(Updates) /\ cost \in 0 .. MaxCost
        /\ spent \in Nat
    BY LiveTwinAssumption
  <2>3. \A S : <<>> \in Seq(S)
    OBVIOUS
  <2> QED BY <2>1, <2>2, <2>3, Zenon DEF LedgerTypes, GhostTypes
<1>4. Accounts
  BY DEF Accounts
<1>5. AppliedOnce /\ WithinBudgets
  BY LiveTwinAssumption DEF AppliedOnce, WithinBudgets
<1> QED BY <1>1, <1>2, <1>3, <1>4, <1>5 DEF IInv, Control

-----------------------------------------------------------------------------
(* Control: ownership, the end of a session, its receipt.                  *)

LEMMA ReceiptIsOne ==
  ASSUME NEW final \in Ended, NEW noted \in SUBSET Deviations, LedgerTypes, EmitReceipt(final, noted)
  PROVE  /\ receipt' \in Receipts /\ receipt' # NoReceipt
         /\ receipt'.final = final /\ receipt'.deviations = noted
         /\ deviations' \in SUBSET Deviations
<1>1. Len(ledger) \in 0 .. MaxCommands /\ Len(updates) \in Nat /\ cost \in 0 .. MaxCost
  BY LiveTwinAssumption DEF LedgerTypes
<1>2. receipt' = [final |-> final, commands |-> Len(ledger), updates |-> Len(updates),
                  cost |-> cost, deviations |-> noted, external |-> external]
  BY DEF EmitReceipt
<1>3. external \in BOOLEAN
  BY DEF LedgerTypes
<1>4. receipt' \in Receipts
  BY <1>1, <1>2, <1>3, Zenon DEF Receipts, Ended
<1>5. receipt' # NoReceipt
  BY <1>4, NoReceiptAssumption, Zenon
<1>6. receipt'.final = final /\ receipt'.deviations = noted
  BY <1>2, Zenon
<1>7. deviations' \in SUBSET Deviations
  BY DEF EmitReceipt, Told, Deviations
<1> QED BY <1>4, <1>5, <1>6, <1>7

\* An owner that ends its session frees the digest, and nobody else held it.
LEMMA OwnerReleases ==
  ASSUME Control, Owning, active' = FALSE, UNCHANGED others, receipt' # NoReceipt
  PROVE  OwnershipTracked'
BY DEF Control, OwnershipTracked, Owning

LEMMA EndingKeepsControl ==
  ASSUME Control, LedgerTypes, state \in Live, NEW noted \in SUBSET Deviations, NEW returned \in BOOLEAN,
         NEW final \in Ended,
         TerminateProcess(returned), state' = final, active' = FALSE,
         EmitReceipt(final, IF returned THEN noted ELSE noted \union {"termination"}),
         UNCHANGED <<others, owned>>
  PROVE  Control'
<1> DEFINE told == IF returned THEN noted ELSE noted \union {"termination"}
<1>1. told \in SUBSET Deviations
  BY DEF Deviations
<1>2. /\ receipt' \in Receipts /\ receipt' # NoReceipt
      /\ receipt'.final = final /\ receipt'.deviations = told
      /\ deviations' \in SUBSET Deviations
  BY <1>1, ReceiptIsOne
<1>3. ControlTypes'
  BY <1>2 DEF Control, ControlTypes, TerminateProcess, Ended
<1>4. PhasesFit'
  BY <1>2 DEF Control, PhasesFit, Live, Ended
<1>5. OwnershipTracked'
  BY <1>2, OwnerReleases DEF Control, PhasesFit, Owning
<1> QED BY <1>3, <1>4, <1>5 DEF Control

LEMMA FailSafeKeepsControl ==
  ASSUME Control, LedgerTypes, state \in Live, NEW noted \in SUBSET Deviations, FailSafeStop(noted)
  PROVE  Control' /\ state' = "refused"
<1>1. PICK returned \in BOOLEAN :
        /\ TerminateProcess(returned) /\ state' = "refused" /\ active' = FALSE
        /\ EmitReceipt("refused", IF returned THEN noted ELSE noted \union {"termination"})
        /\ UNCHANGED <<others, owned>>
  BY DEF FailSafeStop
<1> QED BY <1>1, EndingKeepsControl DEF Ended

\* What a call may note on its way is a deviation.
LEMMA ToldAreDeviations ==
  ASSUME NEW noted \in SUBSET Deviations, NEW heard \in Told(noted)
  PROVE  heard \in SUBSET Deviations /\ heard \union {"protocol"} \in SUBSET Deviations
BY DEF Told, Deviations

LEMMA NotingKeepsControl ==
  ASSUME Control, deviations' \in SUBSET Deviations, UNCHANGED <<active, others, owned, process, receipt>>,
         state' = state \/ (state \in Live /\ state' \in Live)
  PROVE  Control'
<1>1. ControlTypes' /\ PhasesFit'
  BY DEF Control, ControlTypes, PhasesFit, Live, Ended
<1>2. OwnershipTracked'
  BY DEF Control, OwnershipTracked, Owning
<1> QED BY <1>1, <1>2 DEF Control

LEMMA StartKeepsControl ==
  ASSUME IInv, Claim \/ FactoryStarts \/ FactoryFails \/ ProcessDies
  PROVE  Control'
<1> USE DEF IInv, Control
<1>1. CASE Claim
  <2>1. ControlTypes' /\ PhasesFit'
    BY <1>1 DEF Claim, ControlTypes, PhasesFit, Live, Ended
  <2>2. OwnershipTracked'
    BY <1>1 DEF Claim, OwnershipTracked, Owning, PhasesFit
  <2> QED BY <2>1, <2>2
<1>2. CASE FactoryStarts
  <2>1. ControlTypes' /\ PhasesFit'
    BY <1>2 DEF FactoryStarts, Told, Deviations, ControlTypes, PhasesFit, Live, Ended
  <2>2. OwnershipTracked'
    BY <1>2 DEF FactoryStarts, OwnershipTracked, Owning
  <2> QED BY <2>1, <2>2
<1>3. CASE FactoryFails
  <2>1. EmitReceipt("refused", deviations) /\ deviations \in SUBSET Deviations
    BY <1>3 DEF FactoryFails, ControlTypes
  <2>2. receipt' \in Receipts /\ receipt' # NoReceipt /\ deviations' \in SUBSET Deviations
    BY <2>1, ReceiptIsOne DEF Ended
  <2>3. ControlTypes' /\ PhasesFit'
    BY <1>3, <2>2 DEF FactoryFails, ControlTypes, PhasesFit, Live, Ended
  <2>4. OwnershipTracked'
    BY <1>3, <2>2, OwnerReleases DEF FactoryFails, PhasesFit, Owning
  <2> QED BY <2>3, <2>4
<1>4. CASE ProcessDies
  <2>1. ControlTypes' /\ PhasesFit'
    BY <1>4 DEF ProcessDies, ControlTypes, PhasesFit, Live, Ended
  <2>2. OwnershipTracked'
    BY <1>4 DEF ProcessDies, OwnershipTracked, Owning
  <2> QED BY <2>1, <2>2
<1> QED BY <1>1, <1>2, <1>3, <1>4

LEMMA OthersKeepControl ==
  ASSUME IInv, NEW o \in Others, OtherClaims(o) \/ OtherEnds(o)
  PROVE  Control'
<1> USE DEF IInv, Control
<1>1. ControlTypes' /\ PhasesFit'
  BY DEF OtherClaims, OtherEnds, session, ControlTypes, PhasesFit
<1>2. OwnershipTracked'
  BY DEF OtherClaims, OtherEnds, session, ControlTypes, OwnershipTracked, Owning
<1> QED BY <1>1, <1>2

-----------------------------------------------------------------------------
(* The ledgers and what the process did.                                   *)

LEMMA AppendFacts ==
  ASSUME NEW S, NEW s \in Seq(S), NEW e \in S
  PROVE  /\ Append(s, e) \in Seq(S) /\ Len(Append(s, e)) = Len(s) + 1
         /\ \A i \in 1 .. Len(s) : Append(s, e)[i] = s[i]
         /\ Append(s, e)[Len(s) + 1] = e
OBVIOUS

LEMMA LedgerMembers ==
  ASSUME NEW S, NEW s \in Seq(S), NEW i \in 1 .. Len(s)
  PROVE  s[i] \in ToSet(s)
BY DEF ToSet

\* Nothing reaches the process: the ledgers and the ghosts stay.
Quiet == UNCHANGED <<ledger, updates, cost, external, ghosts>>

LEMMA QuietKeepsAccounts ==
  ASSUME LedgerTypes, GhostTypes, Accounts, AppliedOnce, WithinBudgets, Quiet,
         state \in Ended => state' \in Ended
  PROVE  (LedgerTypes /\ GhostTypes /\ Accounts /\ AppliedOnce /\ WithinBudgets)'
<1>1. LedgerTypes' /\ GhostTypes'
  BY DEF Quiet, ghosts, LedgerTypes, GhostTypes
<1>2. Accounts' /\ AppliedOnce' /\ WithinBudgets'
  BY DEF Quiet, ghosts, Accounts, AppliedOnce, WithinBudgets
<1> QED BY <1>1, <1>2

\* A command that may be sent has a fresh key, and fits the budgets.
LEMMA SentIsFresh ==
  ASSUME IInv, NEW c \in Commands, Sent(c)
  PROVE  /\ \A i \in 1 .. Len(performed) : performed[i].command.key # c.key
         /\ Len(ledger) + 1 <= MaxCommands /\ cost + c.cost \in 0 .. MaxCost
         /\ Len(performed) = Len(ledger) /\ Len(delivered) = Len(updates) /\ spent = cost
<1>1. Len(performed) = Len(ledger) /\ Len(delivered) = Len(updates) /\ spent = cost
  BY DEF IInv, Accounts, Sent, Healthy, Live, Ended
<1>2. Bound(c.key) = {} /\ ~ OverBudget(c)
  BY DEF Sent, Acceptable
<1>3. \A i \in 1 .. Len(ledger) : ledger[i].key # c.key
  BY <1>2, LedgerMembers DEF Bound, IInv, LedgerTypes
<1>4. \A i \in 1 .. Len(performed) : performed[i].command.key # c.key
  BY <1>1, <1>3 DEF IInv, Accounts
<1>5. Len(ledger) + 1 <= MaxCommands /\ cost + c.cost \in 0 .. MaxCost
  BY <1>2, LiveTwinAssumption DEF OverBudget, IInv, LedgerTypes
<1> QED BY <1>1, <1>4, <1>5

LEMMA PerformsKeeps ==
  ASSUME IInv, NEW c \in Commands, NEW effect \in BOOLEAN, Sent(c), Performs(c, effect), UNCHANGED delivered
  PROVE  /\ GhostTypes' /\ AppliedOnce' /\ WithinBudgets'
         /\ Len(performed') = Len(performed) + 1 /\ performed'[Len(performed) + 1].command = c
         /\ \A i \in 1 .. Len(performed) : performed'[i] = performed[i]
<1> DEFINE r == [command |-> c, external |-> effect]
           R == [command : Commands, external : BOOLEAN]
<1>1. r \in R /\ r.command = c
  BY Zenon
<1>2. performed \in Seq(R) /\ performed' = Append(performed, r)
  BY DEF IInv, GhostTypes, Performs
<1> HIDE DEF r, R
<1>3. /\ performed' \in Seq(R) /\ Len(performed') = Len(performed) + 1
      /\ \A i \in 1 .. Len(performed) : performed'[i] = performed[i]
      /\ performed'[Len(performed) + 1] = r
  BY <1>1, <1>2, AppendFacts
<1>4. spent' = spent + c.cost /\ spent' \in Nat /\ spent' <= MaxCost /\ Len(performed') <= MaxCommands
  BY <1>3, SentIsFresh, LiveTwinAssumption DEF Performs, IInv, GhostTypes
<1>5. GhostTypes' /\ WithinBudgets'
  BY <1>3, <1>4 DEF R, IInv, GhostTypes, WithinBudgets
<1>6. \A i \in 1 .. Len(performed) : performed[i].command.key # c.key
  BY SentIsFresh
<1>7. AppliedOnce'
  <2>1. DOMAIN performed = 1 .. Len(performed) /\ DOMAIN performed' = 1 .. Len(performed) + 1 /\ Len(performed) \in Nat
    BY <1>2, <1>3
  <2>2. \A i, j \in DOMAIN performed' :
          performed'[i].command.key = performed'[j].command.key => i = j
    BY <2>1, <1>1, <1>3, <1>6 DEF IInv, AppliedOnce
  <2>3. \A i, j \in DOMAIN delivered' :
          delivered'[i].update.id = delivered'[j].update.id => i = j
    BY DEF IInv, AppliedOnce
  <2> QED BY <2>2, <2>3 DEF AppliedOnce
<1> QED BY <1>1, <1>3, <1>5, <1>7

LEMMA NextUpdateIsFresh ==
  ASSUME IInv, NEW u \in Updates, Healthy, NextUpdate(u)
  PROVE  /\ \A i \in 1 .. Len(delivered) : delivered[i].update.id # u.id
         /\ Len(performed) = Len(ledger) /\ Len(delivered) = Len(updates) /\ spent = cost
<1>1. Len(performed) = Len(ledger) /\ Len(delivered) = Len(updates) /\ spent = cost
  BY DEF IInv, Accounts, Healthy, Live, Ended
<1>2. \A i \in 1 .. Len(updates) : updates[i].id # u.id
  BY LedgerMembers DEF NextUpdate, IInv, LedgerTypes
<1> QED BY <1>1, <1>2 DEF IInv, Accounts

LEMMA DeliversKeeps ==
  ASSUME IInv, NEW u \in Updates, NEW effect \in BOOLEAN, Healthy, NextUpdate(u),
         delivered' = Append(delivered, [update |-> u, external |-> effect]), UNCHANGED <<performed, spent>>
  PROVE  /\ GhostTypes' /\ AppliedOnce' /\ WithinBudgets'
         /\ Len(delivered') = Len(delivered) + 1 /\ delivered'[Len(delivered) + 1].update = u
         /\ \A i \in 1 .. Len(delivered) : delivered'[i] = delivered[i]
<1> DEFINE r == [update |-> u, external |-> effect]
           R == [update : Updates, external : BOOLEAN]
<1>1. r \in R /\ r.update = u
  BY Zenon
<1>2. delivered \in Seq(R) /\ delivered' = Append(delivered, r)
  BY DEF IInv, GhostTypes
<1> HIDE DEF r, R
<1>3. /\ delivered' \in Seq(R) /\ Len(delivered') = Len(delivered) + 1
      /\ \A i \in 1 .. Len(delivered) : delivered'[i] = delivered[i]
      /\ delivered'[Len(delivered) + 1] = r
  BY <1>1, <1>2, AppendFacts
<1>4. GhostTypes' /\ WithinBudgets'
  BY <1>3 DEF R, IInv, GhostTypes, WithinBudgets
<1>5. \A i \in 1 .. Len(delivered) : delivered[i].update.id # u.id
  BY NextUpdateIsFresh
<1>6. AppliedOnce'
  <2>1. DOMAIN delivered = 1 .. Len(delivered) /\ DOMAIN delivered' = 1 .. Len(delivered) + 1 /\ Len(delivered) \in Nat
    BY <1>2, <1>3
  <2>2. \A i, j \in DOMAIN delivered' :
          delivered'[i].update.id = delivered'[j].update.id => i = j
    BY <2>1, <1>1, <1>3, <1>5 DEF IInv, AppliedOnce
  <2>3. \A i, j \in DOMAIN performed' :
          performed'[i].command.key = performed'[j].command.key => i = j
    BY DEF IInv, AppliedOnce
  <2> QED BY <2>2, <2>3 DEF AppliedOnce
<1> QED BY <1>1, <1>3, <1>4, <1>6

-----------------------------------------------------------------------------
(* One lemma per kind of step.                                             *)

LEMMA QuietStepKeeps ==
  ASSUME IInv, Control', Quiet, state \in Ended => state' \in Ended
  PROVE  IInv'
BY QuietKeepsAccounts DEF IInv

LEMMA NotingStepKeeps ==
  ASSUME IInv, NEW noted \in SUBSET Deviations, NothingApplied(noted)
  PROVE  IInv'
<1>1. Control'
  BY NotingKeepsControl DEF IInv, NothingApplied
<1>2. Quiet /\ state' = state
  BY DEF Quiet, NothingApplied
<1> QED BY <1>1, <1>2, QuietStepKeeps

LEMMA FailSafeStepKeeps ==
  ASSUME IInv, state \in Live, NEW noted \in SUBSET Deviations, FailSafeStop(noted), UNCHANGED ghosts
  PROVE  IInv'
<1>1. Control' /\ state' = "refused"
  BY FailSafeKeepsControl DEF IInv
<1>2. Quiet
  BY DEF Quiet, FailSafeStop
<1> QED BY <1>1, <1>2, QuietStepKeeps DEF Ended

LEMMA StartStepKeeps ==
  ASSUME IInv, Claim \/ FactoryStarts \/ FactoryFails \/ ProcessDies
  PROVE  IInv'
<1>1. Control'
  BY StartKeepsControl
<1>2. Quiet
  BY DEF Quiet, Claim, FactoryStarts, FactoryFails, ProcessDies
<1>3. state \in Ended => state' \in Ended
  BY DEF Claim, FactoryStarts, FactoryFails, ProcessDies, Ended
<1> QED BY <1>1, <1>2, <1>3, QuietStepKeeps

LEMMA OtherStepKeeps ==
  ASSUME IInv, NEW o \in Others, OtherClaims(o) \/ OtherEnds(o)
  PROVE  IInv'
<1>1. Control'
  BY OthersKeepControl
<1>2. Quiet /\ state' = state
  BY DEF OtherClaims, OtherEnds, session, Quiet
<1> QED BY <1>1, <1>2, QuietStepKeeps

LEMMA HealthFailsKeeps == IInv /\ HealthFails => IInv'
<1> SUFFICES ASSUME IInv, HealthFails PROVE IInv'
  OBVIOUS
<1>1. PICK noted \in {deviations, deviations \union {"protocol"}} : FailSafeStop(noted)
  BY DEF HealthFails
<1>2. noted \in SUBSET Deviations
  BY DEF IInv, Control, ControlTypes, Deviations
<1> QED BY <1>1, <1>2, FailSafeStepKeeps DEF HealthFails

LEMMA ReadSnapshotKeeps == IInv /\ ReadSnapshot => IInv'
<1> SUFFICES ASSUME IInv, ReadSnapshot PROVE IInv'
  OBVIOUS
<1>1. PICK heard \in Told(deviations) :
        \/ \E noted \in Told(heard) : NothingApplied(noted)
        \/ /\ \E noted \in {heard, heard \union {"protocol"}} : FailSafeStop(noted)
           /\ UNCHANGED ghosts
  BY DEF ReadSnapshot
<1>2. deviations \in SUBSET Deviations
  BY DEF IInv, Control, ControlTypes
<1>3. heard \in SUBSET Deviations /\ heard \union {"protocol"} \in SUBSET Deviations
  BY <1>2, ToldAreDeviations
<1>4. CASE \E noted \in Told(heard) : NothingApplied(noted)
  BY <1>3, <1>4, ToldAreDeviations, NotingStepKeeps
<1>5. CASE /\ \E noted \in {heard, heard \union {"protocol"}} : FailSafeStop(noted)
           /\ UNCHANGED ghosts
  BY <1>3, <1>5, FailSafeStepKeeps DEF ReadSnapshot, Healthy
<1> QED BY <1>1, <1>4, <1>5

\* Stopping, and the calls that are refused.
LEMMA StopKeeps == IInv /\ Stop => IInv'
<1> SUFFICES ASSUME IInv, Stop PROVE IInv'
  OBVIOUS
<1>1. PICK noted \in Withheld, returned \in BOOLEAN :
        /\ TerminateProcess(returned)
        /\ state' = IF returned THEN "completed" ELSE "refused"
        /\ active' = FALSE
        /\ EmitReceipt(state', IF returned THEN noted ELSE noted \union {"termination"})
  BY DEF Stop
<1>2. noted \in SUBSET Deviations
  BY DEF Withheld, IInv, Control, ControlTypes, Deviations
<1>3. state \in Live /\ UNCHANGED <<others, owned>> /\ Quiet
  BY DEF Stop, Quiet
<1>4. state' \in Ended
  BY <1>1 DEF Ended
<1>5. Control'
  BY <1>1, <1>2, <1>3, <1>4, EndingKeepsControl DEF IInv
<1> QED BY <1>3, <1>4, <1>5, QuietStepKeeps

LEMMA CommandRefusalKeeps ==
  ASSUME IInv, NEW c \in Commands, RefuseCommand(c) \/ BreachBudget(c)
  PROVE  IInv'
<1>1. deviations \in SUBSET Deviations
  BY DEF IInv, Control, ControlTypes
<1>2. CASE RefuseCommand(c)
  BY <1>1, <1>2, ToldAreDeviations, NotingStepKeeps DEF RefuseCommand
<1>3. CASE BreachBudget(c)
  BY <1>1, <1>3, ToldAreDeviations, FailSafeStepKeeps DEF BreachBudget, Healthy
<1> QED BY <1>2, <1>3

LEMMA IdleCallKeeps ==
  ASSUME IInv, RefuseUpdate \/ StopIdle
  PROVE  IInv'
<1>1. deviations \in SUBSET Deviations
  BY DEF IInv, Control, ControlTypes
<1>2. CASE RefuseUpdate
  BY <1>1, <1>2, ToldAreDeviations, NotingStepKeeps DEF RefuseUpdate
<1>3. CASE StopIdle
  <2>1. \A noted \in Withheld : noted \in SUBSET Deviations
    BY <1>1 DEF Withheld, Deviations
  <2> QED BY <1>3, <2>1, NotingStepKeeps DEF StopIdle
<1> QED BY <1>2, <1>3

\* The steps in which the process is reached.
LEMMA ApplyCommandKeeps ==
  ASSUME IInv, NEW c \in Commands, NEW effect \in BOOLEAN, ApplyCommand(c, effect)
  PROVE  IInv'
<1>1. Sent(c) /\ Performs(c, effect) /\ UNCHANGED delivered
  BY DEF ApplyCommand
<1>2. /\ \A i \in 1 .. Len(performed) : performed[i].command.key # c.key
      /\ Len(ledger) + 1 <= MaxCommands /\ cost + c.cost \in 0 .. MaxCost
      /\ Len(performed) = Len(ledger) /\ Len(delivered) = Len(updates) /\ spent = cost
  BY <1>1, SentIsFresh
<1>3. /\ GhostTypes' /\ AppliedOnce' /\ WithinBudgets'
      /\ Len(performed') = Len(performed) + 1 /\ performed'[Len(performed) + 1].command = c
      /\ \A i \in 1 .. Len(performed) : performed'[i] = performed[i]
  BY <1>1, PerformsKeeps
<1>4. /\ ledger' \in Seq(Commands) /\ Len(ledger') = Len(ledger) + 1
      /\ \A i \in 1 .. Len(ledger) : ledger'[i] = ledger[i]
      /\ ledger'[Len(ledger) + 1] = c
  BY AppendFacts DEF ApplyCommand, IInv, LedgerTypes
<1>5. LedgerTypes'
  <2>1. external' \in BOOLEAN
    <3>1. external' = (external \/ effect)
      BY DEF ApplyCommand
    <3>2. (external \/ effect) \in BOOLEAN
      BY Zenon
    <3> QED BY <3>1, <3>2
  <2> QED BY <1>2, <1>4, <2>1 DEF ApplyCommand, IInv, LedgerTypes
<1>6. Accounts'
  <2>1. spent' = cost' /\ UNCHANGED <<updates, delivered>>
    BY <1>2 DEF ApplyCommand, Performs
  <2>2. Len(ledger) \in Nat
    BY DEF IInv, LedgerTypes
  <2>3. \A i \in 1 .. Len(ledger') : performed'[i].command = ledger'[i]
    BY <1>2, <1>3, <1>4, <2>2 DEF IInv, Accounts
  <2> QED BY <1>2, <1>3, <1>4, <2>1, <2>3 DEF IInv, Accounts
<1>7. Control'
  <2>1. deviations' \in SUBSET Deviations
    BY DEF ApplyCommand, Told, Noting, Deviations, IInv, Control, ControlTypes
  <2>2. state \in Live /\ state' \in Live
    BY <1>1 DEF ApplyCommand, Sent, Healthy, StateAfter, Live
  <2> QED BY <2>1, <2>2, NotingKeepsControl DEF ApplyCommand, IInv
<1> QED BY <1>3, <1>5, <1>6, <1>7 DEF IInv

\* A lost command was carried out or not; either way the ledger stays.
LEMMA CommandLostKeeps ==
  ASSUME IInv, NEW c \in Commands, NEW effect \in BOOLEAN, CommandLost(c, effect)
  PROVE  IInv'
<1>1. Sent(c) /\ state \in Live /\ UNCHANGED delivered
  BY DEF CommandLost, Sent, Healthy
<1>2. PICK noted \in SUBSET Deviations : FailSafeStop(noted)
  BY ToldAreDeviations DEF CommandLost, IInv, Control, ControlTypes
<1>3. UNCHANGED <<ledger, updates, cost, external>>
  BY <1>2 DEF FailSafeStop
<1>4. CASE Performs(c, effect)
  <2>1. Control' /\ state' = "refused"
    BY <1>1, <1>2, FailSafeKeepsControl DEF IInv
  <2>2. LedgerTypes'
    BY <1>3 DEF IInv, LedgerTypes
  <2>3. /\ GhostTypes' /\ AppliedOnce' /\ WithinBudgets'
        /\ Len(performed') = Len(performed) + 1
        /\ \A i \in 1 .. Len(performed) : performed'[i] = performed[i]
    BY <1>1, <1>4, PerformsKeeps
  <2>4. Len(performed) = Len(ledger) /\ Len(ledger) \in Nat
    BY <1>1, SentIsFresh DEF IInv, LedgerTypes
  <2>5. Accounts'
    BY <1>1, <1>3, <2>1, <2>3, <2>4 DEF IInv, Accounts, Ended
  <2> QED BY <2>1, <2>2, <2>3, <2>5 DEF IInv
<1>5. CASE UNCHANGED <<performed, spent>>
  BY <1>1, <1>2, <1>5, FailSafeStepKeeps DEF ghosts
<1> QED BY <1>4, <1>5 DEF CommandLost

LEMMA ApplyUpdateKeeps ==
  ASSUME IInv, NEW u \in Updates, NEW effect \in BOOLEAN, ApplyUpdate(u, effect)
  PROVE  IInv'
<1>1. /\ Healthy /\ NextUpdate(u) /\ UNCHANGED <<performed, spent>>
      /\ delivered' = Append(delivered, [update |-> u, external |-> effect])
  BY DEF ApplyUpdate
<1>2. Len(performed) = Len(ledger) /\ Len(delivered) = Len(updates) /\ spent = cost
  BY <1>1, NextUpdateIsFresh
<1>3. /\ GhostTypes' /\ AppliedOnce' /\ WithinBudgets'
      /\ Len(delivered') = Len(delivered) + 1 /\ delivered'[Len(delivered) + 1].update = u
      /\ \A i \in 1 .. Len(delivered) : delivered'[i] = delivered[i]
  BY <1>1, DeliversKeeps
<1>4. /\ updates' \in Seq(Updates) /\ Len(updates') = Len(updates) + 1
      /\ \A i \in 1 .. Len(updates) : updates'[i] = updates[i]
      /\ updates'[Len(updates) + 1] = u
  BY AppendFacts DEF ApplyUpdate, IInv, LedgerTypes
<1>5. LedgerTypes'
  <2>1. external' \in BOOLEAN
    <3>1. external' = (external \/ effect)
      BY DEF ApplyUpdate
    <3>2. (external \/ effect) \in BOOLEAN
      BY Zenon
    <3> QED BY <3>1, <3>2
  <2> QED BY <1>4, <2>1 DEF ApplyUpdate, IInv, LedgerTypes
<1>6. Accounts'
  <2>1. Len(updates) \in Nat /\ UNCHANGED <<ledger, cost>>
    BY DEF ApplyUpdate, IInv, LedgerTypes
  <2>2. \A i \in 1 .. Len(updates') : delivered'[i].update = updates'[i]
    BY <1>2, <1>3, <1>4, <2>1 DEF IInv, Accounts
  <2> QED BY <1>1, <1>2, <1>3, <1>4, <2>1, <2>2 DEF IInv, Accounts
<1>7. Control'
  <2>1. deviations' \in SUBSET Deviations
    BY DEF ApplyUpdate, Told, Deviations, IInv, Control, ControlTypes
  <2> QED BY <2>1, NotingKeepsControl DEF ApplyUpdate, IInv
<1> QED BY <1>3, <1>5, <1>6, <1>7 DEF IInv

LEMMA UpdateLostKeeps ==
  ASSUME IInv, NEW u \in Updates, NEW effect \in BOOLEAN, UpdateLost(u, effect)
  PROVE  IInv'
<1>1. Healthy /\ NextUpdate(u) /\ state \in Live /\ UNCHANGED <<performed, spent>>
  BY DEF UpdateLost, Healthy
<1>2. PICK noted \in SUBSET Deviations : FailSafeStop(noted)
  BY ToldAreDeviations DEF UpdateLost, IInv, Control, ControlTypes
<1>3. UNCHANGED <<ledger, updates, cost, external>>
  BY <1>2 DEF FailSafeStop
<1>4. CASE delivered' = Append(delivered, [update |-> u, external |-> effect])
  <2>1. Control' /\ state' = "refused"
    BY <1>1, <1>2, FailSafeKeepsControl DEF IInv
  <2>2. LedgerTypes'
    BY <1>3 DEF IInv, LedgerTypes
  <2>3. /\ GhostTypes' /\ AppliedOnce' /\ WithinBudgets'
        /\ Len(delivered') = Len(delivered) + 1
        /\ \A i \in 1 .. Len(delivered) : delivered'[i] = delivered[i]
    BY <1>1, <1>4, DeliversKeeps
  <2>4. Len(delivered) = Len(updates) /\ Len(updates) \in Nat
    BY <1>1, NextUpdateIsFresh DEF IInv, LedgerTypes
  <2>5. Accounts'
    BY <1>1, <1>3, <2>1, <2>3, <2>4 DEF IInv, Accounts, Ended
  <2> QED BY <2>1, <2>2, <2>3, <2>5 DEF IInv
<1>5. CASE UNCHANGED delivered
  BY <1>1, <1>2, <1>5, FailSafeStepKeeps DEF ghosts
<1> QED BY <1>4, <1>5 DEF UpdateLost

-----------------------------------------------------------------------------
(* The theorems.                                                           *)

LEMMA NextPreserves == IInv /\ [Next]_vars => IInv'
<1> SUFFICES ASSUME IInv, [Next]_vars PROVE IInv'
  OBVIOUS
<1>1. CASE Claim \/ FactoryStarts \/ FactoryFails \/ ProcessDies
  BY <1>1, StartStepKeeps
<1>2. CASE HealthFails \/ ReadSnapshot \/ Stop
  BY <1>2, HealthFailsKeeps, ReadSnapshotKeeps, StopKeeps
<1>3. CASE RefuseUpdate \/ StopIdle
  BY <1>3, IdleCallKeeps
<1>4. CASE \E o \in Others : OtherClaims(o) \/ OtherEnds(o)
  BY <1>4, OtherStepKeeps
<1>5. CASE \E c \in Commands : RefuseCommand(c) \/ BreachBudget(c)
  BY <1>5, CommandRefusalKeeps
<1>6. CASE \E c \in Commands, effect \in BOOLEAN : ApplyCommand(c, effect) \/ CommandLost(c, effect)
  BY <1>6, ApplyCommandKeeps, CommandLostKeeps
<1>7. CASE \E u \in Updates, effect \in BOOLEAN : ApplyUpdate(u, effect) \/ UpdateLost(u, effect)
  BY <1>7, ApplyUpdateKeeps, UpdateLostKeeps
<1>8. CASE UNCHANGED vars
  <2>1. Quiet /\ UNCHANGED <<active, others, owned, state, process, deviations, receipt>>
    BY <1>8 DEF vars, session, Quiet
  <2>2. Control'
    BY <2>1, NotingKeepsControl DEF IInv, Control, ControlTypes
  <2> QED BY <2>1, <2>2, QuietStepKeeps
<1> QED BY <1>1, <1>2, <1>3, <1>4, <1>5, <1>6, <1>7, <1>8 DEF Next

\* The invariant all of the following rest on.
THEOREM Inductive == Spec => []IInv
<1> QED BY InitEstablishes, NextPreserves, PTL DEF Spec

\* Every variable keeps its type, the budgets of the ledger included.
THEOREM TypeCorrect == Spec => []TypeOK
<1>1. IInv => TypeOK
  BY TypesAreTypeOK DEF IInv, Control
<1> QED BY <1>1, Inductive, PTL

\* A digest is registered exactly while one of the controllers bound to it is
\* between its start and its receipt, however many of them there are.
THEOREM OneOwner == Spec => []OwnershipTracked
<1>1. IInv => OwnershipTracked
  BY DEF IInv, Control
<1> QED BY <1>1, Inductive, PTL

\* No command key and no update id reaches the process twice.
THEOREM AtMostOnce == Spec => []AppliedOnce
<1>1. IInv => AppliedOnce
  BY DEF IInv
<1> QED BY <1>1, Inductive, PTL

\* What the process did stays within the command and the cost budget, lost
\* replies included.
THEOREM BudgetsBound == Spec => []WithinBudgets
<1>1. IInv => WithinBudgets
  BY DEF IInv
<1> QED BY <1>1, Inductive, PTL

\* After the receipt every call is idle: the session is in a terminal state,
\* and each action that changes it or reaches the process needs a live one.
THEOREM ReceiptIsFinal == Spec => TerminalIsFinal
<1> DEFINE Final == UNCHANGED <<receipt, state, ledger, updates, ghosts>>
<1>1. ASSUME IInv, [Next]_vars, receipt # NoReceipt PROVE Final
  <2>1. state \in Ended /\ state # "prepared" /\ state \notin Live
    BY <1>1 DEF IInv, Control, ControlTypes, PhasesFit, Live, Ended
  <2>2. CASE ProcessDies
    BY <2>2 DEF ProcessDies
  <2>3. CASE StopIdle
    BY <2>3 DEF StopIdle, NothingApplied
  <2>4. CASE \E o \in Others : OtherClaims(o) \/ OtherEnds(o)
    BY <2>4 DEF OtherClaims, OtherEnds, session
  <2>5. CASE Claim \/ FactoryStarts \/ FactoryFails
    BY <2>1, <2>5 DEF Claim, FactoryStarts, FactoryFails
  <2>6. CASE HealthFails \/ ReadSnapshot \/ RefuseUpdate \/ Stop
    BY <2>1, <2>6 DEF HealthFails, ReadSnapshot, RefuseUpdate, Stop, Healthy
  <2>7. CASE \E c \in Commands : RefuseCommand(c) \/ BreachBudget(c)
    BY <2>1, <2>7 DEF RefuseCommand, BreachBudget, Healthy
  <2>8. CASE \E c \in Commands, effect \in BOOLEAN : ApplyCommand(c, effect) \/ CommandLost(c, effect)
    BY <2>1, <2>8 DEF ApplyCommand, CommandLost, Sent, Healthy
  <2>9. CASE \E u \in Updates, effect \in BOOLEAN : ApplyUpdate(u, effect) \/ UpdateLost(u, effect)
    BY <2>1, <2>9 DEF ApplyUpdate, UpdateLost, Healthy
  <2>10. CASE UNCHANGED vars
    BY <2>10 DEF vars, session
  <2> QED BY <1>1, <2>2, <2>3, <2>4, <2>5, <2>6, <2>7, <2>8, <2>9, <2>10 DEF Next
<1>2. IInv /\ [Next]_vars => [receipt # NoReceipt => Final]_vars
  BY <1>1
<1> QED BY <1>2, Inductive, PTL DEF Spec, TerminalIsFinal

\* What Replay computes: the state after each initial part of a ledger.
States(s, n, f) ==
  f = [i \in 0 .. n |-> IF i = 0 THEN "running" ELSE StateAfter(s[i].kind, f[i - 1])]

LEMMA StatesExist == ASSUME NEW s PROVE \A n \in Nat : \E f : States(s, n, f)
<1> DEFINE S == {n \in Nat : \E f : States(s, n, f)}
<1>1. 0 \in S
  <2> DEFINE f == [i \in 0 .. 0 |-> "running"]
  <2>1. States(s, 0, f)
    BY DEF States
  <2> QED BY <2>1
<1>2. ASSUME NEW n \in S PROVE n + 1 \in S
  <2>1. PICK f : States(s, n, f)
    OBVIOUS
  <2> DEFINE g == [i \in 0 .. n + 1 |-> IF i = n + 1 THEN StateAfter(s[i].kind, f[n]) ELSE f[i]]
  <2>2. n \in Nat
    OBVIOUS
  <2>3. \A i \in 0 .. n : f[i] = IF i = 0 THEN "running" ELSE StateAfter(s[i].kind, f[i - 1])
    BY <2>1 DEF States
  <2>4. \A i \in 0 .. n + 1 : g[i] = IF i = 0 THEN "running" ELSE StateAfter(s[i].kind, g[i - 1])
    BY <2>2, <2>3
  <2>5. States(s, n + 1, g)
    BY <2>4 DEF States
  <2> QED BY <2>2, <2>5
<1>3. S = Nat
  BY <1>1, <1>2, Counting
<1> QED BY <1>3

\* Ledgers that begin with the same commands pass through the same states.
LEMMA StatesAgree ==
  ASSUME NEW s, NEW t, NEW n \in Nat, NEW m \in Nat, NEW f, NEW g,
         States(s, n, f), States(t, m, g), n <= m, \A i \in 1 .. n : s[i] = t[i]
  PROVE  \A i \in 0 .. n : f[i] = g[i]
<1> DEFINE S == {k \in Nat : k <= n => f[k] = g[k]}
<1>1. \A i \in 0 .. n : f[i] = IF i = 0 THEN "running" ELSE StateAfter(s[i].kind, f[i - 1])
  BY DEF States
<1>2. \A i \in 0 .. m : g[i] = IF i = 0 THEN "running" ELSE StateAfter(t[i].kind, g[i - 1])
  BY DEF States
<1>3. 0 \in S
  BY <1>1, <1>2
<1>4. ASSUME NEW k \in S PROVE k + 1 \in S
  BY <1>1, <1>2
<1>5. S = Nat
  BY <1>3, <1>4, Counting
<1> QED BY <1>5

LEMMA ReplayIs ==
  ASSUME NEW s \in Seq(Commands), NEW f, States(s, Len(s), f)
  PROVE  Replay(s) = f[Len(s)]
<1> DEFINE g == CHOOSE g : States(s, Len(s), g)
<1>1. States(s, Len(s), g)
  OBVIOUS
<1>2. Replay(s) = g[Len(s)]
  BY DEF Replay, States
<1> HIDE DEF g
<1> QED BY <1>1, <1>2, StatesAgree

LEMMA ReplayOfNothing == Replay(<<>>) = "running"
<1>1. PICK f : States(<<>>, 0, f)
  BY StatesExist
<1>2. f[0] = "running"
  BY <1>1 DEF States
<1>3. <<>> \in Seq(Commands) /\ Len(<<>>) = 0
  OBVIOUS
<1> QED BY <1>1, <1>2, <1>3, ReplayIs

LEMMA ReplayOfAppend ==
  ASSUME NEW s \in Seq(Commands), NEW c \in Commands
  PROVE  Replay(Append(s, c)) = StateAfter(c.kind, Replay(s))
<1> DEFINE t == Append(s, c)
<1>1. /\ t \in Seq(Commands) /\ Len(t) = Len(s) + 1 /\ t[Len(s) + 1] = c
      /\ Len(s) \in Nat /\ Len(t) \in Nat
      /\ \A i \in 1 .. Len(s) : s[i] = t[i]
  OBVIOUS
<1> HIDE DEF t
<1>2. PICK f : States(s, Len(s), f)
  BY <1>1, StatesExist
<1>3. PICK g : States(t, Len(t), g)
  BY <1>1, StatesExist
<1>4. f[Len(s)] = g[Len(s)]
  BY <1>1, <1>2, <1>3, StatesAgree
<1>5. g[Len(t)] = StateAfter(c.kind, g[Len(s)])
  BY <1>1, <1>3 DEF States
<1>6. Replay(s) = f[Len(s)] /\ Replay(t) = g[Len(t)]
  BY <1>1, <1>2, <1>3, ReplayIs
<1> QED BY <1>4, <1>5, <1>6 DEF t

\* The same of Spent.
Sums(s, n, f) == f = [i \in 0 .. n |-> IF i = 0 THEN 0 ELSE f[i - 1] + s[i].cost]

LEMMA SumsExist == ASSUME NEW s PROVE \A n \in Nat : \E f : Sums(s, n, f)
<1> DEFINE S == {n \in Nat : \E f : Sums(s, n, f)}
<1>1. 0 \in S
  <2> DEFINE f == [i \in 0 .. 0 |-> 0]
  <2>1. Sums(s, 0, f)
    BY DEF Sums
  <2> QED BY <2>1
<1>2. ASSUME NEW n \in S PROVE n + 1 \in S
  <2>1. PICK f : Sums(s, n, f)
    OBVIOUS
  <2> DEFINE g == [i \in 0 .. n + 1 |-> IF i = n + 1 THEN f[n] + s[i].cost ELSE f[i]]
  <2>2. n \in Nat
    OBVIOUS
  <2>3. \A i \in 0 .. n : f[i] = IF i = 0 THEN 0 ELSE f[i - 1] + s[i].cost
    BY <2>1 DEF Sums
  <2>4. \A i \in 0 .. n + 1 : g[i] = IF i = 0 THEN 0 ELSE g[i - 1] + s[i].cost
    BY <2>2, <2>3
  <2>5. Sums(s, n + 1, g)
    BY <2>4 DEF Sums
  <2> QED BY <2>2, <2>5
<1>3. S = Nat
  BY <1>1, <1>2, Counting
<1> QED BY <1>3

LEMMA SumsAgree ==
  ASSUME NEW s, NEW t, NEW n \in Nat, NEW m \in Nat, NEW f, NEW g,
         Sums(s, n, f), Sums(t, m, g), n <= m, \A i \in 1 .. n : s[i] = t[i]
  PROVE  \A i \in 0 .. n : f[i] = g[i]
<1> DEFINE S == {k \in Nat : k <= n => f[k] = g[k]}
<1>1. \A i \in 0 .. n : f[i] = IF i = 0 THEN 0 ELSE f[i - 1] + s[i].cost
  BY DEF Sums
<1>2. \A i \in 0 .. m : g[i] = IF i = 0 THEN 0 ELSE g[i - 1] + t[i].cost
  BY DEF Sums
<1>3. 0 \in S
  BY <1>1, <1>2
<1>4. ASSUME NEW k \in S PROVE k + 1 \in S
  BY <1>1, <1>2
<1>5. S = Nat
  BY <1>3, <1>4, Counting
<1> QED BY <1>5

LEMMA SpentIs ==
  ASSUME NEW s \in Seq(Commands), NEW f, Sums(s, Len(s), f)
  PROVE  Spent(s) = f[Len(s)]
<1> DEFINE g == CHOOSE g : Sums(s, Len(s), g)
<1>1. Sums(s, Len(s), g)
  OBVIOUS
<1>2. Spent(s) = g[Len(s)]
  BY DEF Spent, Sums
<1> HIDE DEF g
<1> QED BY <1>1, <1>2, SumsAgree

LEMMA SpentOnNothing == Spent(<<>>) = 0
<1>1. PICK f : Sums(<<>>, 0, f)
  BY SumsExist
<1>2. f[0] = 0
  BY <1>1 DEF Sums
<1>3. <<>> \in Seq(Commands) /\ Len(<<>>) = 0
  OBVIOUS
<1> QED BY <1>1, <1>2, <1>3, SpentIs

LEMMA SpentOnAppend ==
  ASSUME NEW s \in Seq(Commands), NEW c \in Commands
  PROVE  Spent(Append(s, c)) = Spent(s) + c.cost
<1> DEFINE t == Append(s, c)
<1>1. /\ t \in Seq(Commands) /\ Len(t) = Len(s) + 1 /\ t[Len(s) + 1] = c
      /\ Len(s) \in Nat /\ Len(t) \in Nat
      /\ \A i \in 1 .. Len(s) : s[i] = t[i]
  OBVIOUS
<1> HIDE DEF t
<1>2. PICK f : Sums(s, Len(s), f)
  BY <1>1, SumsExist
<1>3. PICK g : Sums(t, Len(t), g)
  BY <1>1, SumsExist
<1>4. f[Len(s)] = g[Len(s)]
  BY <1>1, <1>2, <1>3, SumsAgree
<1>5. g[Len(t)] = g[Len(s)] + c.cost
  BY <1>1, <1>3 DEF Sums
<1>6. Spent(s) = f[Len(s)] /\ Spent(t) = g[Len(t)]
  BY <1>1, <1>2, <1>3, SpentIs
<1> QED BY <1>4, <1>5, <1>6 DEF t
-----------------------------------------------------------------------------
(* The ledger explains the session.                                        *)

Explained == \A i \in DOMAIN ledger :
  ledger[i].seq = i /\ ledger[i].expects = Replay(SubSeq(ledger, 1, i - 1))

Story ==
  /\ state = "prepared" => ledger = <<>>
  /\ state \in Live => state = Replay(ledger)
  /\ Explained

LEMMA DoneIsLedger == IInv /\ state \in Live => Done = ledger
<1> SUFFICES ASSUME IInv, state \in Live PROVE Done = ledger
  OBVIOUS
<1>1. Len(performed) = Len(ledger) /\ \A i \in 1 .. Len(ledger) : performed[i].command = ledger[i]
  BY DEF IInv, Accounts, Live, Ended
<1>2. ledger \in Seq(Commands) /\ DOMAIN performed = 1 .. Len(performed)
  BY DEF IInv, LedgerTypes, GhostTypes
<1> QED BY <1>1, <1>2 DEF Done

LEMMA StoryIsReplay == IInv /\ Story => LedgerReplays
BY DoneIsLedger DEF Story, Explained, LedgerReplays

LEMMA StoryStays ==
  ASSUME IInv, Story, UNCHANGED ledger,
         \/ state' = state
         \/ state' \in Ended
         \/ state = "prepared" /\ state' = "running"
  PROVE  Story'
<1>1. Explained'
  BY DEF Story, Explained
<1>2. state' = "prepared" => ledger' = <<>>
  BY DEF Story, Ended
<1>3. state' \in Live => state' = Replay(ledger')
  BY ReplayOfNothing DEF Story, Ended, Live
<1> QED BY <1>1, <1>2, <1>3 DEF Story

LEMMA StoryGoesOn ==
  ASSUME IInv, Story, NEW c \in Commands, NEW effect \in BOOLEAN, ApplyCommand(c, effect)
  PROVE  Story'
<1>1. /\ state \in Live /\ c.seq = Len(ledger) + 1 /\ c.expects = state
      /\ state' = StateAfter(c.kind, state) /\ ledger' = Append(ledger, c)
  BY DEF ApplyCommand, Sent, Healthy, Acceptable
<1>2. ledger \in Seq(Commands) /\ Len(ledger) \in Nat /\ state = Replay(ledger)
  BY <1>1 DEF IInv, LedgerTypes, Story
<1>3. /\ ledger' \in Seq(Commands) /\ Len(ledger') = Len(ledger) + 1
      /\ \A i \in 1 .. Len(ledger) : ledger'[i] = ledger[i]
      /\ ledger'[Len(ledger) + 1] = c
      /\ DOMAIN ledger = 1 .. Len(ledger) /\ DOMAIN ledger' = 1 .. Len(ledger) + 1
  BY <1>1, <1>2, AppendFacts
<1>4. \A n \in 0 .. Len(ledger) : SubSeq(ledger', 1, n) = SubSeq(ledger, 1, n)
  BY <1>1, <1>2, PrefixOfAppend
<1>5. SubSeq(ledger, 1, Len(ledger)) = ledger
  BY <1>2
<1>6. ASSUME NEW i \in DOMAIN ledger'
      PROVE  ledger'[i].seq = i /\ ledger'[i].expects = Replay(SubSeq(ledger', 1, i - 1))
  <2>1. i \in 1 .. Len(ledger) + 1 /\ i - 1 \in 0 .. Len(ledger)
    BY <1>2, <1>3
  <2>2. CASE i = Len(ledger) + 1
    <3>1. SubSeq(ledger', 1, i - 1) = ledger
      BY <1>2, <1>4, <1>5, <2>2
    <3> QED BY <1>1, <1>2, <1>3, <2>2, <3>1
  <2>3. CASE i \in DOMAIN ledger
    <3>1. SubSeq(ledger', 1, i - 1) = SubSeq(ledger, 1, i - 1)
      BY <1>4, <2>1
    <3>2. ledger'[i] = ledger[i]
      BY <1>3, <2>3
    <3> QED BY <2>3, <3>1, <3>2 DEF Story, Explained
  <2> QED BY <1>2, <1>3, <2>1, <2>2, <2>3
<1>7. state' = Replay(ledger')
  BY <1>1, <1>2, ReplayOfAppend
<1>8. state' # "prepared"
  BY <1>1 DEF StateAfter, Live
<1> QED BY <1>6, <1>7, <1>8 DEF Story, Explained

LEMMA FailSafeStays ==
  ASSUME NEW noted, FailSafeStop(noted)
  PROVE  UNCHANGED ledger /\ state' \in Ended
BY DEF FailSafeStop, Ended

LEMMA StoryPreserved == IInv /\ Story /\ [Next]_vars => Story'
<1> SUFFICES ASSUME IInv, Story, [Next]_vars PROVE Story'
  OBVIOUS
<1>1. CASE Claim \/ FactoryStarts \/ FactoryFails \/ ProcessDies
  BY <1>1, StoryStays DEF Claim, FactoryStarts, FactoryFails, ProcessDies, Ended
<1>2. CASE HealthFails
  BY <1>2, FailSafeStays, StoryStays DEF HealthFails
<1>3. CASE ReadSnapshot \/ RefuseUpdate \/ StopIdle
  <2>1. UNCHANGED ledger /\ (state' = state \/ state' \in Ended)
    BY <1>3, FailSafeStays DEF ReadSnapshot, RefuseUpdate, StopIdle, NothingApplied
  <2> QED BY <2>1, StoryStays
<1>4. CASE Stop
  BY <1>4, StoryStays DEF Stop, Ended
<1>5. CASE \E o \in Others : OtherClaims(o) \/ OtherEnds(o)
  BY <1>5, StoryStays DEF OtherClaims, OtherEnds, session
<1>6. CASE \E c \in Commands : RefuseCommand(c) \/ BreachBudget(c)
  <2>1. UNCHANGED ledger /\ (state' = state \/ state' \in Ended)
    BY <1>6, FailSafeStays DEF RefuseCommand, BreachBudget, NothingApplied
  <2> QED BY <2>1, StoryStays
<1>7. CASE \E c \in Commands, effect \in BOOLEAN : ApplyCommand(c, effect)
  BY <1>7, StoryGoesOn
<1>8. CASE \E c \in Commands, effect \in BOOLEAN : CommandLost(c, effect)
  BY <1>8, FailSafeStays, StoryStays DEF CommandLost
<1>9. CASE \E u \in Updates, effect \in BOOLEAN : ApplyUpdate(u, effect) \/ UpdateLost(u, effect)
  <2>1. UNCHANGED ledger /\ (state' = state \/ state' \in Ended)
    BY <1>9, FailSafeStays DEF ApplyUpdate, UpdateLost
  <2> QED BY <2>1, StoryStays
<1>10. CASE UNCHANGED vars
  BY <1>10, StoryStays DEF vars, session
<1> QED BY <1>1, <1>2, <1>3, <1>4, <1>5, <1>6, <1>7, <1>8, <1>9, <1>10 DEF Next

\* The controller's state is what its ledger leads to, each command was
\* applied in the state it expected, and the process did just what is on it.
THEOREM LedgerExplains == Spec => []LedgerReplays
<1>1. Init => Story
  BY DEF Init, Story, Explained, Live
<1>2. Spec => []Story
  BY <1>1, StoryPreserved, Inductive, PTL DEF Spec
<1> QED BY <1>2, StoryIsReplay, Inductive, PTL
-----------------------------------------------------------------------------
(* The receipt accounts for what the process did.                          *)

\* While a session has not ended the controller knows of every effect.
Known ==
  state \notin Ended =>
    /\ cost = Spent(ledger)
    /\ external <=> Effects
    /\ Treated <=> "treatment" \in deviations

\* ReceiptAccounts without its first conjunct, which follows from Accounts.
Complete ==
  /\ receipt.cost = Spent(ledger)
  /\ receipt.commands = Len(ledger) /\ receipt.updates = Len(updates)
  /\ \/ /\ Len(performed) + Len(delivered) = Len(ledger) + Len(updates) + 1
        /\ receipt.final = "refused" /\ "protocol" \in receipt.deviations
     \/ /\ Len(performed) + Len(delivered) = Len(ledger) + Len(updates)
        /\ receipt.external <=> Effects
        /\ Treated <=> "treatment" \in receipt.deviations

Balance == Known /\ (receipt # NoReceipt => Complete)

LEMMA LedgerBeginsDone == IInv => IsPrefix(ledger, Done)
<1> SUFFICES ASSUME IInv PROVE IsPrefix(ledger, Done)
  OBVIOUS
<1>1. /\ Len(ledger) <= Len(performed) /\ Len(ledger) \in Nat /\ Len(performed) \in Nat
      /\ \A i \in 1 .. Len(ledger) : performed[i].command = ledger[i]
  BY DEF IInv, Accounts, LedgerTypes, GhostTypes
<1>2. ledger \in Seq(Commands) /\ DOMAIN performed = 1 .. Len(performed)
  BY DEF IInv, LedgerTypes, GhostTypes
<1>3. Done = [i \in 1 .. Len(performed) |-> performed[i].command]
  BY <1>2 DEF Done
<1>4. Done \in Seq({performed[i].command : i \in 1 .. Len(performed)}) /\ Len(Done) = Len(performed)
  BY <1>1, <1>3
<1>5. \A i \in 1 .. Len(ledger) : Done[i] = ledger[i]
  BY <1>1, <1>3
<1>6. SubSeq(ledger, 1, Len(ledger)) = SubSeq(Done, 1, Len(ledger))
  BY <1>1, <1>2, <1>4, <1>5
<1> QED BY <1>1, <1>4, <1>6 DEF IsPrefix

LEMMA CompleteIsAccounts == IInv /\ Balance => ReceiptAccounts
<1> SUFFICES ASSUME IInv, Balance, receipt # NoReceipt PROVE ReceiptAccounts
  BY DEF ReceiptAccounts
<1>1. IsPrefix(ledger, Done) /\ Complete
  BY LedgerBeginsDone DEF Balance
<1>2. /\ Len(ledger) \in Nat /\ Len(updates) \in Nat
      /\ Len(performed) \in Nat /\ Len(delivered) \in Nat
  BY DEF IInv, LedgerTypes, GhostTypes
<1> DEFINE lost == Len(performed) + Len(delivered) - (receipt.commands + receipt.updates)
<1>3. \/ lost = 1 /\ receipt.final = "refused" /\ "protocol" \in receipt.deviations
      \/ lost = 0 /\ (receipt.external <=> Effects) /\ (Treated <=> "treatment" \in receipt.deviations)
  BY <1>1, <1>2 DEF Complete
<1> QED BY <1>1, <1>3 DEF Complete, ReceiptAccounts

\* An operation that is not told leaves no trace in what is known: nothing
\* is applied and no note about treatments is taken.
SameTreatment == "treatment" \in deviations' <=> "treatment" \in deviations

LEMMA KnownStays ==
  ASSUME Balance, Quiet, SameTreatment, UNCHANGED receipt,
         state' \notin Ended => state \notin Ended
  PROVE  Balance'
<1>1. (Effects' <=> Effects) /\ (Treated' <=> Treated)
  BY DEF Quiet, ghosts, Effects, Treated
<1>2. Known'
  BY <1>1 DEF Balance, Known, Quiet, SameTreatment
<1>3. receipt' # NoReceipt => Complete'
  BY <1>1 DEF Balance, Complete, Quiet, ghosts
<1> QED BY <1>2, <1>3 DEF Balance

\* A session ends with all that is known in its receipt; at most the operation
\* that ended it was carried out and is not known.
LEMMA EndingTellsAll ==
  ASSUME IInv, Balance, state \notin Ended, state' \in Ended, NEW final, NEW noted,
         EmitReceipt(final, noted), UNCHANGED <<ledger, updates, cost, external>>,
         \/ UNCHANGED ghosts /\ ("treatment" \in noted <=> "treatment" \in deviations)
         \/ /\ Len(performed') + Len(delivered') = Len(performed) + Len(delivered) + 1
            /\ final = "refused" /\ "protocol" \in noted
  PROVE  Balance'
<1>1. receipt' = [final |-> final, commands |-> Len(ledger), updates |-> Len(updates),
                  cost |-> cost, deviations |-> noted, external |-> external]
  BY DEF EmitReceipt
<1>2. /\ receipt'.final = final /\ receipt'.deviations = noted /\ receipt'.cost = cost
      /\ receipt'.commands = Len(ledger) /\ receipt'.updates = Len(updates)
  BY <1>1
<1>3. receipt'.external <=> external
  BY <1>1, Zenon
<1>4. /\ Len(performed) = Len(ledger) /\ Len(delivered) = Len(updates)
      /\ Len(ledger) \in Nat /\ Len(updates) \in Nat
  BY DEF IInv, Accounts, LedgerTypes
<1>5. cost = Spent(ledger) /\ (external <=> Effects) /\ (Treated <=> "treatment" \in deviations)
  BY DEF Balance, Known
<1>6. CASE UNCHANGED ghosts /\ ("treatment" \in noted <=> "treatment" \in deviations)
  <2>1. (Effects' <=> Effects) /\ (Treated' <=> Treated)
    BY <1>6 DEF ghosts, Effects, Treated
  <2>2. Len(performed') + Len(delivered') = Len(ledger') + Len(updates')
    BY <1>4, <1>6 DEF ghosts
  <2> QED BY <1>2, <1>3, <1>5, <1>6, <2>1, <2>2 DEF Balance, Known, Complete
<1>7. CASE /\ Len(performed') + Len(delivered') = Len(performed) + Len(delivered) + 1
           /\ final = "refused" /\ "protocol" \in noted
  <2>1. Len(performed') + Len(delivered') = Len(ledger') + Len(updates') + 1
    BY <1>4, <1>7
  <2> QED BY <1>2, <1>5, <1>7, <2>1 DEF Balance, Known, Complete
<1> QED BY <1>6, <1>7

LEMMA FailSafeTellsAll ==
  ASSUME IInv, Balance, state \in Live, NEW noted, FailSafeStop(noted),
         \/ UNCHANGED ghosts /\ ("treatment" \in noted <=> "treatment" \in deviations)
         \/ /\ Len(performed') + Len(delivered') = Len(performed) + Len(delivered) + 1
            /\ "protocol" \in noted
  PROVE  Balance'
<1>1. PICK returned \in BOOLEAN :
        /\ EmitReceipt("refused", IF returned THEN noted ELSE noted \union {"termination"})
        /\ state' = "refused" /\ UNCHANGED <<ledger, updates, cost, external>>
  BY DEF FailSafeStop
<1> DEFINE told == IF returned THEN noted ELSE noted \union {"termination"}
<1>2. /\ "treatment" \in told <=> "treatment" \in noted
      /\ "protocol" \in noted => "protocol" \in told
  OBVIOUS
<1>3. state \notin Ended /\ state' \in Ended
  BY <1>1 DEF Live, Ended
<1> HIDE DEF told
<1>4. EmitReceipt("refused", told)
  BY <1>1 DEF told
<1> QED BY <1>1, <1>2, <1>3, <1>4, EndingTellsAll

\* What a step adds to the effects and the treatments it adds to what is known.
LEMMA EffectsGrow ==
  ASSUME IInv, NEW c \in Commands, NEW effect \in BOOLEAN, Sent(c), Performs(c, effect), UNCHANGED delivered
  PROVE  (Effects' <=> Effects \/ effect) /\ (Treated' <=> Treated \/ c.treats)
<1> DEFINE r == [command |-> c, external |-> effect]
<1>1. r.command = c /\ (r.external <=> effect)
  BY Zenon
<1>2. /\ Len(performed') = Len(performed) + 1 /\ Len(performed) \in Nat
      /\ \A i \in 1 .. Len(performed) : performed'[i] = performed[i]
  BY PerformsKeeps DEF IInv, GhostTypes
<1>3. performed'[Len(performed) + 1] = r
  BY DEF Performs, IInv, GhostTypes
<1>4. /\ DOMAIN performed = 1 .. Len(performed)
      /\ DOMAIN performed' = 1 .. Len(performed) + 1
  BY <1>2, PerformsKeeps DEF IInv, GhostTypes
<1> HIDE DEF r
<1>5. (\E i \in DOMAIN performed' : performed'[i].external) <=> (\E i \in DOMAIN performed : performed[i].external) \/ effect
  BY <1>1, <1>2, <1>3, <1>4
<1>6. (\E i \in DOMAIN performed' : performed'[i].command.treats) <=> (\E i \in DOMAIN performed : performed[i].command.treats) \/ c.treats
  BY <1>1, <1>2, <1>3, <1>4
<1> QED BY <1>5, <1>6 DEF Effects, Treated

LEMMA EffectsOfUpdate ==
  ASSUME IInv, NEW u \in Updates, NEW effect \in BOOLEAN, Healthy, NextUpdate(u),
         delivered' = Append(delivered, [update |-> u, external |-> effect]), UNCHANGED <<performed, spent>>
  PROVE  (Effects' <=> Effects \/ effect) /\ (Treated' <=> Treated)
<1> DEFINE r == [update |-> u, external |-> effect]
<1>1. r.external <=> effect
  BY Zenon
<1>2. /\ Len(delivered') = Len(delivered) + 1 /\ Len(delivered) \in Nat
      /\ \A i \in 1 .. Len(delivered) : delivered'[i] = delivered[i]
  BY DeliversKeeps DEF IInv, GhostTypes
<1>3. delivered'[Len(delivered) + 1] = r
  BY DEF IInv, GhostTypes
<1>4. /\ DOMAIN delivered = 1 .. Len(delivered)
      /\ DOMAIN delivered' = 1 .. Len(delivered) + 1
  BY <1>2, DeliversKeeps DEF IInv, GhostTypes
<1> HIDE DEF r
<1>5. (\E i \in DOMAIN delivered' : delivered'[i].external) <=> (\E i \in DOMAIN delivered : delivered[i].external) \/ effect
  BY <1>1, <1>2, <1>3, <1>4
<1> QED BY <1>5 DEF Effects, Treated

LEMMA CommandIsKnown ==
  ASSUME IInv, Balance, NEW c \in Commands, NEW effect \in BOOLEAN, ApplyCommand(c, effect)
  PROVE  Balance'
<1>1. /\ Sent(c) /\ Performs(c, effect) /\ UNCHANGED <<delivered, receipt>>
      /\ ledger' = Append(ledger, c) /\ cost' = cost + c.cost
      /\ external' = (external \/ effect)
      /\ state \in Live
  BY DEF ApplyCommand, Sent, Healthy
<1>2. receipt = NoReceipt /\ state \notin Ended
  BY <1>1 DEF IInv, Control, PhasesFit, Live, Ended
<1>3. cost = Spent(ledger) /\ (external <=> Effects) /\ (Treated <=> "treatment" \in deviations)
  BY <1>2 DEF Balance, Known
<1>4. cost' = Spent(ledger')
  BY <1>1, <1>3, SpentOnAppend DEF IInv, LedgerTypes
<1>5. (Effects' <=> Effects \/ effect) /\ (Treated' <=> Treated \/ c.treats)
  BY <1>1, EffectsGrow
<1>6. external' <=> external \/ effect
  BY <1>1, Zenon
<1>7. "treatment" \in deviations' <=> "treatment" \in deviations \/ c.treats
  BY DEF ApplyCommand, Told, Noting
<1> QED BY <1>1, <1>2, <1>3, <1>4, <1>5, <1>6, <1>7 DEF Balance, Known

LEMMA UpdateIsKnown ==
  ASSUME IInv, Balance, NEW u \in Updates, NEW effect \in BOOLEAN, ApplyUpdate(u, effect)
  PROVE  Balance'
<1>1. /\ Healthy /\ NextUpdate(u) /\ UNCHANGED <<performed, spent>> /\ UNCHANGED <<receipt, ledger, cost>>
      /\ delivered' = Append(delivered, [update |-> u, external |-> effect])
      /\ external' = (external \/ effect)
      /\ state \in Live
  BY DEF ApplyUpdate, Healthy
<1>2. receipt = NoReceipt /\ state \notin Ended
  BY <1>1 DEF IInv, Control, PhasesFit, Live, Ended
<1>3. cost = Spent(ledger) /\ (external <=> Effects) /\ (Treated <=> "treatment" \in deviations)
  BY <1>2 DEF Balance, Known
<1>4. (Effects' <=> Effects \/ effect) /\ (Treated' <=> Treated)
  BY <1>1, EffectsOfUpdate
<1>5. external' <=> external \/ effect
  BY <1>1, Zenon
<1>6. "treatment" \in deviations' <=> "treatment" \in deviations
  BY DEF ApplyUpdate, Told
<1> QED BY <1>1, <1>2, <1>3, <1>4, <1>5, <1>6 DEF Balance, Known

\* The reply to a command or an update is lost, and the session fails safe.
LEMMA LostIsTold ==
  ASSUME IInv, Balance, NEW effect \in BOOLEAN,
         (\E c \in Commands : CommandLost(c, effect)) \/ (\E u \in Updates : UpdateLost(u, effect))
  PROVE  Balance'
<1>1. CASE \E c \in Commands : CommandLost(c, effect)
  <2>1. PICK c \in Commands : CommandLost(c, effect)
    BY <1>1
  <2>2. Sent(c) /\ state \in Live /\ UNCHANGED delivered
    BY <2>1 DEF CommandLost, Sent, Healthy
  <2>3. PICK heard \in Told(deviations) : FailSafeStop(heard \union {"protocol"})
    BY <2>1 DEF CommandLost
  <2>4. CASE Performs(c, effect)
    <3>1. Len(performed') = Len(performed) + 1 /\ delivered' = delivered
      BY <2>2, <2>4, PerformsKeeps
    <3>2. Len(performed) \in Nat /\ Len(delivered) \in Nat
      BY DEF IInv, GhostTypes
    <3>3. Len(performed') + Len(delivered') = Len(performed) + Len(delivered) + 1
      BY <3>1, <3>2
    <3> QED BY <2>2, <2>3, <3>3, FailSafeTellsAll
  <2>5. CASE UNCHANGED <<performed, spent>>
    BY <2>2, <2>3, <2>5, FailSafeTellsAll DEF Told, ghosts
  <2> QED BY <2>1, <2>4, <2>5 DEF CommandLost
<1>2. CASE \E u \in Updates : UpdateLost(u, effect)
  <2>1. PICK u \in Updates : UpdateLost(u, effect)
    BY <1>2
  <2>2. Healthy /\ NextUpdate(u) /\ state \in Live /\ UNCHANGED <<performed, spent>>
    BY <2>1 DEF UpdateLost, Healthy
  <2>3. PICK heard \in Told(deviations) : FailSafeStop(heard \union {"protocol"})
    BY <2>1 DEF UpdateLost
  <2>4. CASE delivered' = Append(delivered, [update |-> u, external |-> effect])
    <3>1. Len(performed') + Len(delivered') = Len(performed) + Len(delivered) + 1
      BY <2>2, <2>4, DeliversKeeps DEF IInv, GhostTypes
    <3> QED BY <2>2, <2>3, <3>1, FailSafeTellsAll
  <2>5. CASE UNCHANGED delivered
    BY <2>2, <2>3, <2>5, FailSafeTellsAll DEF Told, ghosts
  <2> QED BY <2>1, <2>4, <2>5 DEF UpdateLost
<1> QED BY <1>1, <1>2

LEMMA BalancePreserved == IInv /\ Balance /\ [Next]_vars => Balance'
<1> SUFFICES ASSUME IInv, Balance, [Next]_vars PROVE Balance'
  OBVIOUS
<1>1. CASE Claim \/ FactoryStarts \/ ProcessDies
  <2>1. /\ Quiet /\ UNCHANGED receipt /\ SameTreatment
        /\ state' \notin Ended => state \notin Ended
    BY <1>1 DEF Claim, FactoryStarts, ProcessDies, Quiet, SameTreatment, Told, Ended
  <2> QED BY <2>1, KnownStays
<1>2. CASE FactoryFails
  <2>1. state \notin Ended /\ state' \in Ended /\ EmitReceipt("refused", deviations)
    BY <1>2 DEF FactoryFails, Ended
  <2> QED BY <1>2, <2>1, EndingTellsAll DEF FactoryFails
<1>3. CASE HealthFails
  <2>1. PICK noted \in {deviations, deviations \union {"protocol"}} : FailSafeStop(noted)
    BY <1>3 DEF HealthFails
  <2>2. "treatment" \in noted <=> "treatment" \in deviations
    OBVIOUS
  <2> QED BY <1>3, <2>1, <2>2, FailSafeTellsAll DEF HealthFails
<1>4. CASE ReadSnapshot
  <2>1. PICK heard \in Told(deviations) :
          \/ \E noted \in Told(heard) : NothingApplied(noted)
          \/ /\ \E noted \in {heard, heard \union {"protocol"}} : FailSafeStop(noted)
             /\ UNCHANGED ghosts
    BY <1>4 DEF ReadSnapshot
  <2>2. CASE \E noted \in Told(heard) : NothingApplied(noted)
    BY <2>2, KnownStays DEF NothingApplied, Told, Quiet, SameTreatment
  <2>3. CASE (\E noted \in {heard, heard \union {"protocol"}} : FailSafeStop(noted)) /\ UNCHANGED ghosts
    <3>1. PICK noted \in {heard, heard \union {"protocol"}} : FailSafeStop(noted)
      BY <2>3
    <3>2. "treatment" \in noted <=> "treatment" \in deviations
      BY DEF Told
    <3> QED BY <1>4, <2>3, <3>1, <3>2, FailSafeTellsAll DEF ReadSnapshot, Healthy
  <2> QED BY <2>1, <2>2, <2>3
<1>5. CASE RefuseUpdate \/ StopIdle
  <2>1. /\ Quiet /\ UNCHANGED <<receipt, state>> /\ SameTreatment
    BY <1>5 DEF RefuseUpdate, StopIdle, NothingApplied, Told, Withheld, Quiet, SameTreatment
  <2> QED BY <2>1, KnownStays
<1>6. CASE Stop
  <2>1. PICK noted \in Withheld, returned \in BOOLEAN :
          EmitReceipt(state', IF returned THEN noted ELSE noted \union {"termination"})
    BY <1>6 DEF Stop
  <2> DEFINE told == IF returned THEN noted ELSE noted \union {"termination"}
  <2>2. "treatment" \in told <=> "treatment" \in deviations
    BY DEF Withheld
  <2> HIDE DEF told
  <2>3. EmitReceipt(state', told)
    BY <2>1 DEF told
  <2>4. /\ state \notin Ended /\ state' \in Ended
        /\ UNCHANGED <<ledger, updates, cost, external>> /\ UNCHANGED ghosts
    BY <1>6 DEF Stop, Live, Ended
  <2> QED BY <2>2, <2>3, <2>4, EndingTellsAll
<1>7. CASE \E o \in Others : OtherClaims(o) \/ OtherEnds(o)
  BY <1>7, KnownStays DEF OtherClaims, OtherEnds, session, Quiet, SameTreatment
<1>8. CASE \E c \in Commands : RefuseCommand(c)
  BY <1>8, KnownStays DEF RefuseCommand, NothingApplied, Told, Quiet, SameTreatment
<1>9. CASE \E c \in Commands : BreachBudget(c)
  <2>1. PICK heard \in Told(deviations) : FailSafeStop(heard)
    BY <1>9 DEF BreachBudget
  <2>2. ("treatment" \in heard <=> "treatment" \in deviations) /\ state \in Live /\ UNCHANGED ghosts
    BY <1>9 DEF Told, BreachBudget, Healthy
  <2> QED BY <2>1, <2>2, FailSafeTellsAll
<1>10. CASE \E c \in Commands, effect \in BOOLEAN : ApplyCommand(c, effect)
  BY <1>10, CommandIsKnown
<1>11. CASE \E u \in Updates, effect \in BOOLEAN : ApplyUpdate(u, effect)
  BY <1>11, UpdateIsKnown
<1>12. CASE \/ \E c \in Commands, effect \in BOOLEAN : CommandLost(c, effect)
            \/ \E u \in Updates, effect \in BOOLEAN : UpdateLost(u, effect)
  BY <1>12, LostIsTold
<1>13. CASE UNCHANGED vars
  BY <1>13, KnownStays DEF vars, session, Quiet, SameTreatment
<1> QED BY <1>1, <1>2, <1>3, <1>4, <1>5, <1>6, <1>7, <1>8, <1>9, <1>10, <1>11, <1>12, <1>13 DEF Next

\* The receipt is complete: counts, cost, treatments and external effects are
\* those of what the process did, but for at most one operation whose reply
\* was lost, of which the receipt tells.
THEOREM ReceiptIsComplete == Spec => []ReceiptAccounts
<1>1. Init => Balance
  <2>1. Init => ~ Effects /\ ~ Treated
    BY DEF Init, Effects, Treated
  <2> QED BY <2>1, SpentOnNothing DEF Init, Balance, Known
<1>2. Spec => []Balance
  BY <1>1, BalancePreserved, Inductive, PTL DEF Spec
<1> QED BY <1>2, CompleteIsAccounts, Inductive, PTL

-----------------------------------------------------------------------------
(* What ReplayLog computes: what is known after each initial part of a log. *)

Replays(lines, n, f) ==
  f = [i \in 0 .. n |-> IF i = 0 THEN Nothing ELSE ReplayLine(f[i - 1], lines[i])]

LEMMA ReplaysExist == ASSUME NEW lines PROVE \A n \in Nat : \E f : Replays(lines, n, f)
<1> DEFINE S == {n \in Nat : \E f : Replays(lines, n, f)}
<1>1. 0 \in S
  <2> DEFINE f == [i \in 0 .. 0 |-> Nothing]
  <2>1. Replays(lines, 0, f)
    BY DEF Replays
  <2> QED BY <2>1
<1>2. ASSUME NEW n \in S PROVE n + 1 \in S
  <2>1. PICK f : Replays(lines, n, f)
    OBVIOUS
  <2> DEFINE g == [i \in 0 .. n + 1 |-> IF i = n + 1 THEN ReplayLine(f[n], lines[i]) ELSE f[i]]
  <2>2. n \in Nat
    OBVIOUS
  <2>3. \A i \in 0 .. n : f[i] = IF i = 0 THEN Nothing ELSE ReplayLine(f[i - 1], lines[i])
    BY <2>1 DEF Replays
  <2>4. \A i \in 0 .. n + 1 : g[i] = IF i = 0 THEN Nothing ELSE ReplayLine(g[i - 1], lines[i])
    BY <2>2, <2>3
  <2>5. Replays(lines, n + 1, g)
    BY <2>4 DEF Replays
  <2> QED BY <2>2, <2>5
<1>3. S = Nat
  BY <1>1, <1>2, Counting
<1> QED BY <1>3

\* Logs that begin with the same lines lead to the same knowledge.
LEMMA ReplaysAgree ==
  ASSUME NEW lines, NEW longer, NEW n \in Nat, NEW m \in Nat, NEW f, NEW g,
         Replays(lines, n, f), Replays(longer, m, g), n <= m, \A i \in 1 .. n : lines[i] = longer[i]
  PROVE  \A i \in 0 .. n : f[i] = g[i]
<1> DEFINE S == {k \in Nat : k <= n => f[k] = g[k]}
<1>1. \A i \in 0 .. n : f[i] = IF i = 0 THEN Nothing ELSE ReplayLine(f[i - 1], lines[i])
  BY DEF Replays
<1>2. \A i \in 0 .. m : g[i] = IF i = 0 THEN Nothing ELSE ReplayLine(g[i - 1], longer[i])
  BY DEF Replays
<1>3. 0 \in S
  BY <1>1, <1>2
<1>4. ASSUME NEW k \in S PROVE k + 1 \in S
  BY <1>1, <1>2
<1>5. S = Nat
  BY <1>3, <1>4, Counting
<1> QED BY <1>5

\* What is known after each line of a log.
After(lines) == CHOOSE f : Replays(lines, Len(lines), f)

LEMMA AfterEachLine ==
  ASSUME NEW S, NEW lines \in Seq(S)
  PROVE  /\ After(lines)[0] = Nothing
         /\ \A i \in 1 .. Len(lines) : After(lines)[i] = ReplayLine(After(lines)[i - 1], lines[i])
         /\ ReplayLog(lines) = After(lines)[Len(lines)]
         /\ Replays(lines, Len(lines), After(lines))
<1>1. Len(lines) \in Nat
  OBVIOUS
<1>2. Replays(lines, Len(lines), After(lines))
  BY <1>1, ReplaysExist DEF After
<1>3. \A i \in 0 .. Len(lines) : After(lines)[i] = IF i = 0 THEN Nothing ELSE ReplayLine(After(lines)[i - 1], lines[i])
  BY <1>2 DEF Replays
<1>4. ReplayLog(lines) = After(lines)[Len(lines)]
  BY DEF ReplayLog, After, Replays
<1> QED BY <1>1, <1>2, <1>3, <1>4

LEMMA ReplayOfNewLine ==
  ASSUME NEW S, NEW lines \in Seq(S), NEW line \in S
  PROVE  ReplayLog(Append(lines, line)) = ReplayLine(ReplayLog(lines), line)
<1> DEFINE longer == Append(lines, line)
<1>1. /\ longer \in Seq(S) /\ Len(longer) = Len(lines) + 1 /\ longer[Len(lines) + 1] = line
      /\ Len(lines) \in Nat /\ Len(longer) \in Nat
      /\ \A i \in 1 .. Len(lines) : lines[i] = longer[i]
  OBVIOUS
<1> HIDE DEF longer
<1>2. After(lines)[Len(lines)] = After(longer)[Len(lines)]
  <2>1. Replays(lines, Len(lines), After(lines)) /\ Replays(longer, Len(longer), After(longer))
    BY <1>1, AfterEachLine
  <2>2. Len(lines) <= Len(longer) /\ Len(lines) \in 0 .. Len(lines)
    BY <1>1
  <2>3. PICK f : f = After(lines)
    OBVIOUS
  <2>4. PICK g : g = After(longer)
    OBVIOUS
  <2>5. Replays(lines, Len(lines), f) /\ Replays(longer, Len(longer), g)
    BY <2>1, <2>3, <2>4
  <2>6. \A i \in 0 .. Len(lines) : f[i] = g[i]
    <3>1. Len(lines) \in Nat /\ Len(longer) \in Nat /\ \A i \in 1 .. Len(lines) : lines[i] = longer[i]
      BY <1>1
    <3> QED BY <2>2, <2>5, <3>1, ReplaysAgree
  <2> QED BY <2>2, <2>3, <2>4, <2>6
<1>3. After(longer)[Len(longer)] = ReplayLine(After(longer)[Len(lines)], line)
  BY <1>1, AfterEachLine
<1>4. ReplayLog(lines) = After(lines)[Len(lines)] /\ ReplayLog(longer) = After(longer)[Len(longer)]
  BY <1>1, AfterEachLine
<1> QED BY <1>2, <1>3, <1>4 DEF longer

LEMMA ReplayOfEmptyLog == ReplayLog(<<>>) = Nothing
<1>1. <<>> \in Seq({}) /\ Len(<<>>) = 0
  OBVIOUS
<1> QED BY <1>1, AfterEachLine

\* A refusal is final: of a log that opens, no initial part is refused.
LEMMA NothingRefused ==
  ASSUME NEW lines \in Seq(Lines \union {Garbage}), ReplayLog(lines) # Refused
  PROVE  \A i \in 0 .. Len(lines) : After(lines)[i] # Refused
<1> DEFINE S == {d \in Nat : d <= Len(lines) => After(lines)[Len(lines) - d] # Refused}
<1>1. Len(lines) \in Nat
  OBVIOUS
<1>2. 0 \in S
  BY <1>1, AfterEachLine
<1>3. ASSUME NEW d \in S PROVE d + 1 \in S
  <2> SUFFICES ASSUME d + 1 <= Len(lines) PROVE After(lines)[Len(lines) - (d + 1)] # Refused
    OBVIOUS
  <2>1. Len(lines) - d \in 1 .. Len(lines) /\ (Len(lines) - d) - 1 = Len(lines) - (d + 1)
    BY <1>1
  <2>2. After(lines)[Len(lines) - d] # Refused
    BY <1>1
  <2>3. After(lines)[Len(lines) - d] = ReplayLine(After(lines)[Len(lines) - (d + 1)], lines[Len(lines) - d])
    BY <2>1, AfterEachLine
  <2> QED BY <2>2, <2>3 DEF ReplayLine
<1>4. S = Nat
  BY <1>2, <1>3, Counting
<1>5. \A d \in Nat : d <= Len(lines) => After(lines)[Len(lines) - d] # Refused
  BY <1>4
<1> HIDE DEF S
<1>6. ASSUME NEW i \in 0 .. Len(lines) PROVE After(lines)[i] # Refused
  <2>1. Len(lines) - i \in Nat /\ Len(lines) - i <= Len(lines) /\ Len(lines) - (Len(lines) - i) = i
    BY <1>1
  <2> QED BY <1>5, <2>1
<1> QED BY <1>6

\* Every line of a log that opens was accepted on what came before it.
LEMMA EachLineAccepted ==
  ASSUME NEW lines \in Seq(Lines \union {Garbage}), ReplayLog(lines) # Refused, NEW i \in 1 .. Len(lines)
  PROVE  /\ lines[i] \in Lines
         /\ Accepts(After(lines)[i - 1], lines[i])
         /\ After(lines)[i] = Learn(After(lines)[i - 1], lines[i])
<1>1. i \in 0 .. Len(lines) /\ lines[i] \in Lines \union {Garbage}
  OBVIOUS
<1>2. After(lines)[i] # Refused
  BY <1>1, NothingRefused
<1>3. After(lines)[i] = ReplayLine(After(lines)[i - 1], lines[i])
  BY AfterEachLine
<1> QED BY <1>1, <1>2, <1>3 DEF ReplayLine
-----------------------------------------------------------------------------
(* Timelines: each event was valid on what came before it.                 *)

LEMMA PrefixIs ==
  ASSUME NEW S, NEW s \in Seq(S), NEW t \in Seq(S)
  PROVE  IsPrefix(s, t) <=> Len(s) <= Len(t) /\ \A i \in 1 .. Len(s) : s[i] = t[i]
<1>1. Len(s) \in Nat /\ Len(t) \in Nat
  OBVIOUS
<1>2. CASE Len(s) <= Len(t)
  <2>1. SubSeq(s, 1, Len(s)) = s
    OBVIOUS
  <2>2. /\ SubSeq(t, 1, Len(s)) \in Seq(S) /\ Len(SubSeq(t, 1, Len(s))) = Len(s)
        /\ \A i \in 1 .. Len(s) : SubSeq(t, 1, Len(s))[i] = t[i]
    BY <1>1, <1>2
  <2>3. s = SubSeq(t, 1, Len(s)) <=> \A i \in 1 .. Len(s) : s[i] = t[i]
    BY <1>1, <2>2
  <2> QED BY <1>2, <2>1, <2>3 DEF IsPrefix
<1>3. CASE ~ (Len(s) <= Len(t))
  BY <1>3 DEF IsPrefix
<1> QED BY <1>2, <1>3

Valid(s, t) == \A i \in DOMAIN t :
  /\ t[i].type \in Successors[HeadType(SubSeq(t, 1, i - 1))]
  /\ Proves(t[i], s, SubSeq(t, 1, i - 1))

LEMMA InitialParts ==
  ASSUME NEW S, NEW t \in Seq(S), NEW i \in 1 .. Len(t) + 1
  PROVE  /\ SubSeq(t, 1, i - 1) \in Seq(S) /\ Len(SubSeq(t, 1, i - 1)) = i - 1
         /\ \A j \in 1 .. i - 1 : SubSeq(t, 1, i - 1)[j] = t[j]
OBVIOUS

LEMMA AcceptedIsValid ==
  ASSUME NEW s, NEW t \in Seq(Artifacts), NEW a \in Artifacts, Valid(s, t),
         a.type \in Successors[HeadType(t)], Proves(a, s, t)
  PROVE  Valid(s, Append(t, a))
<1> DEFINE longer == Append(t, a)
<1>1. /\ longer \in Seq(Artifacts) /\ Len(longer) = Len(t) + 1 /\ longer[Len(t) + 1] = a
      /\ Len(t) \in Nat /\ \A i \in 1 .. Len(t) : longer[i] = t[i]
      /\ DOMAIN longer = 1 .. Len(t) + 1 /\ DOMAIN t = 1 .. Len(t)
  OBVIOUS
<1>2. \A n \in 0 .. Len(t) : SubSeq(longer, 1, n) = SubSeq(t, 1, n)
  BY PrefixOfAppend
<1>3. SubSeq(t, 1, Len(t)) = t
  OBVIOUS
<1> HIDE DEF longer
<1>4. ASSUME NEW i \in DOMAIN longer
      PROVE  /\ longer[i].type \in Successors[HeadType(SubSeq(longer, 1, i - 1))]
             /\ Proves(longer[i], s, SubSeq(longer, 1, i - 1))
  <2>1. i \in 1 .. Len(t) + 1 /\ i - 1 \in 0 .. Len(t)
    BY <1>1
  <2>2. CASE i = Len(t) + 1
    <3>1. SubSeq(longer, 1, i - 1) = t /\ longer[i] = a
      BY <1>1, <1>2, <1>3, <2>2
    <3> QED BY <3>1
  <2>3. CASE i \in DOMAIN t
    <3>1. SubSeq(longer, 1, i - 1) = SubSeq(t, 1, i - 1) /\ longer[i] = t[i]
      BY <1>1, <1>2, <2>1, <2>3
    <3> QED BY <2>3, <3>1 DEF Valid
  <2> QED BY <1>1, <2>1, <2>2, <2>3
<1> QED BY <1>4 DEF Valid, longer

LEMMA HeadOfPart ==
  ASSUME NEW t \in Seq(Artifacts), NEW i \in DOMAIN t
  PROVE  HeadType(SubSeq(t, 1, i - 1)) = IF i = 1 THEN "scenario_drafted" ELSE t[i - 1].type
<1> DEFINE part == SubSeq(t, 1, i - 1)
<1>1. i \in 1 .. Len(t) /\ Len(t) \in Nat
  OBVIOUS
<1>2. part \in Seq(Artifacts) /\ Len(part) = i - 1 /\ \A j \in 1 .. i - 1 : part[j] = t[j]
  BY <1>1, InitialParts
<1> HIDE DEF part
<1>3. part = <<>> <=> i = 1
  BY <1>1, <1>2
<1>4. i # 1 => i - 1 \in 1 .. i - 1
  BY <1>1
<1> QED BY <1>2, <1>3, <1>4 DEF HeadType, Last, part

LEMMA SuccessorsAre ==
  ASSUME NEW head \in DOMAIN Successors
  PROVE  /\ head = "scenario_closed" => Successors[head] = {}
         /\ "execution_receipted" \in Successors[head] => head = "approval_bound"
         /\ "approval_bound" \in Successors[head] => head = "scenario_drafted"
BY DEF Successors

LEMMA LargestExists ==
  ASSUME NEW n \in Nat, NEW S \in SUBSET (1 .. n), S # {}
  PROVE  Max(S) \in S /\ \A k \in S : k <= Max(S)
<1> DEFINE D == {d \in Nat : n - d \in S}
<1>1. \A k \in S : n - k \in D
  OBVIOUS
<1>2. D \subseteq Nat /\ D # {}
  BY <1>1
<1> HIDE DEF D
<1>3. PICK d \in D : \A e \in D : <<e, d>> \notin OpToRel(<, Nat)
  BY <1>2, NatLessThanWellFounded, WFMin, Zenon
<1>4. \A e \in D : ~ (e < d)
  <2>1. \A e \in D : <<e, d>> \in OpToRel(<, Nat) <=> e < d
    BY <1>2, Zenon DEF OpToRel
  <2> QED BY <1>3, <2>1
<1>5. n - d \in S /\ d \in Nat
  BY DEF D
<1>6. \A k \in S : n - d >= k
  <2> TAKE k \in S
  <2>1. ~ (n - k < d)
    BY <1>1, <1>4
  <2> QED BY <1>5, <2>1
<1>7. Max(S) \in S /\ \A k \in S : Max(S) >= k
  BY <1>5, <1>6, Zenon DEF Max
<1> QED BY <1>7

LEMMA ValidMeans ==
  ASSUME NEW s, NEW t \in Seq(Artifacts), Valid(s, t)
  PROVE  Means(s, t)
<1>1. Len(t) \in Nat /\ DOMAIN t = 1 .. Len(t)
  OBVIOUS
<1>2. \A j \in DOMAIN t : t[j].type \in DOMAIN Successors /\ t[j].type # "scenario_drafted"
  BY <1>1, ArtifactsAssumption
<1>3. "scenario_drafted" \in DOMAIN Successors
  BY DEF Successors
<1>4. ASSUME NEW j \in DOMAIN t
      PROVE  /\ j = 1 => t[j].type \in Successors["scenario_drafted"]
             /\ j # 1 => j - 1 \in DOMAIN t /\ t[j].type \in Successors[t[j - 1].type]
  BY <1>1, HeadOfPart DEF Valid
<1> SUFFICES ASSUME NEW i \in DOMAIN t
    PROVE LET before == {t[j] : j \in 1 .. i - 1}
              runs == {a \in before : a.type = "execution_receipted"}
              judged == {j \in 1 .. i - 1 : t[j].type = "analysis_bound"}
          IN  /\ \A a \in before : a.type # "scenario_closed"
              /\ t[i].type = "execution_receipted" =>
                   /\ runs = {}
                   /\ \E a \in before : a.type = "approval_bound" /\ a.source = s /\ a.id = t[i].source
              /\ t[i].type \in {"deviation_recorded", "analysis_bound", "admission_recorded"} =>
                   \E a \in runs : runs = {a} /\ a.id = t[i].source
              /\ t[i].type = "admission_recorded" =>
                   \/ judged = {} /\ t[i].analysis = NoAnalysis
                   \/ \E j \in judged : t[j].id = t[i].analysis /\ \A k \in judged : k <= j
  BY DEF Means
<1> DEFINE before == {t[j] : j \in 1 .. i - 1}
           runs == {a \in before : a.type = "execution_receipted"}
           judged == {j \in 1 .. i - 1 : t[j].type = "analysis_bound"}
           part == SubSeq(t, 1, i - 1)
<1>5. /\ i \in 1 .. Len(t) /\ part \in Seq(Artifacts) /\ Len(part) = i - 1 /\ DOMAIN part = 1 .. i - 1
      /\ \A j \in 1 .. i - 1 : part[j] = t[j] /\ j \in DOMAIN t
  BY <1>1, InitialParts
<1>6. Proves(t[i], s, part)
  BY DEF Valid
<1> HIDE DEF part
<1>7. \A a \in before : a.type # "scenario_closed"
  <2> SUFFICES ASSUME NEW j \in 1 .. i - 1, t[j].type = "scenario_closed" PROVE FALSE
    OBVIOUS
  <2>1. j + 1 \in DOMAIN t /\ j + 1 # 1 /\ (j + 1) - 1 = j
    BY <1>1, <1>5
  <2>2. t[j + 1].type \in Successors[t[j].type]
    BY <1>4, <2>1
  <2> QED BY <1>2, <1>5, <2>2, SuccessorsAre
<1>8. ASSUME t[i].type = "execution_receipted"
      PROVE  /\ runs = {}
             /\ \E a \in before : a.type = "approval_bound" /\ a.source = s /\ a.id = t[i].source
  <2>1. i # 1
    BY <1>3, <1>4, <1>8, SuccessorsAre
  <2>2. i - 1 \in DOMAIN t /\ t[i - 1].type = "approval_bound"
    BY <1>2, <1>4, <1>8, <2>1, SuccessorsAre
  <2>3. i - 1 = 1
    <3> SUFFICES ASSUME i - 1 # 1 PROVE FALSE
      OBVIOUS
    <3>1. (i - 1) - 1 \in DOMAIN t /\ "approval_bound" \in Successors[t[(i - 1) - 1].type]
      BY <1>4, <2>2
    <3> QED BY <1>2, <3>1, SuccessorsAre
  <2>4. before = {t[1]} /\ t[1].type = "approval_bound" /\ 1 \in DOMAIN t
    BY <2>2, <2>3
  <2>5. Binds(part, "approval_bound", t[i].source)
    BY <1>6, <1>8 DEF Proves
  <2>6. part[1].id = t[i].source
    BY <1>5, <2>3, <2>5 DEF Binds, Positions
  <2>7. t[1].source = s
    BY <2>4 DEF Valid, Proves
  <2> QED BY <1>5, <2>3, <2>4, <2>6, <2>7
<1>9. ASSUME t[i].type \in {"deviation_recorded", "analysis_bound", "admission_recorded"}
      PROVE  \E a \in runs : runs = {a} /\ a.id = t[i].source
  <2>1. Binds(part, "execution_receipted", t[i].source)
    BY <1>6, <1>9 DEF Proves
  <2>2. PICK k \in DOMAIN part : Positions(part, "execution_receipted") = {k} /\ part[k].id = t[i].source
    BY <2>1 DEF Binds
  <2>3. \A j \in 1 .. i - 1 : t[j].type = "execution_receipted" <=> j = k
    BY <1>5, <2>2 DEF Positions
  <2>4. k \in 1 .. i - 1 /\ t[k].id = t[i].source
    BY <1>5, <2>2
  <2>5. runs = {t[k]}
    BY <2>3, <2>4
  <2> QED BY <2>4, <2>5
<1>10. ASSUME t[i].type = "admission_recorded"
       PROVE  \/ judged = {} /\ t[i].analysis = NoAnalysis
              \/ \E j \in judged : t[j].id = t[i].analysis /\ \A k \in judged : k <= j
  <2>1. Positions(part, "analysis_bound") = judged
    BY <1>5 DEF Positions
  <2>2. t[i].analysis = IF judged = {} THEN NoAnalysis ELSE part[Max(judged)].id
    BY <1>6, <1>10, <2>1 DEF Proves, CurrentAnalysis
  <2>3. CASE judged = {}
    BY <2>2, <2>3
  <2>4. CASE judged # {}
    <3>1. judged \in SUBSET (1 .. i - 1) /\ i - 1 \in Nat
      BY <1>5
    <3> HIDE DEF judged
    <3>2. Max(judged) \in judged /\ \A k \in judged : k <= Max(judged)
      BY <2>4, <3>1, LargestExists
    <3>3. t[Max(judged)].id = t[i].analysis
      BY <1>5, <2>2, <2>4, <3>1, <3>2
    <3> QED BY <3>2, <3>3
  <2> QED BY <2>3, <2>4
<1> QED BY <1>7, <1>8, <1>9, <1>10
-----------------------------------------------------------------------------
(* What is known is made of the lines of the log, and only grows.          *)

\* The line tells that scenario s stands at the timeline t.
Tells(line, s, t) ==
  /\ line.scenario = s
  /\ IF line.kind = "scenario" THEN t = <<>> ELSE t = Append(line.prior, line.artifact)

LineTypes(line) ==
  /\ line.scenario \in Scenarios
  /\ line.kind \in {"scenario", "event"}
  /\ line.kind = "event" => line.prior \in Seq(Artifacts) /\ line.artifact \in Artifacts

LEMMA LinesHaveTypes == \A line \in Lines : LineTypes(line)
BY DEF Lines, LineTypes

\* A history all of whose timelines are valid.
Sound(known) == IsHistory(known) /\ \A s \in DOMAIN known : Valid(s, known[s])

LEMMA NothingIsSound == Sound(Nothing) /\ DOMAIN Nothing = {}
<1>1. DOMAIN Nothing = {}
  BY DEF Nothing
<1>2. Nothing \in [{} -> Seq(Artifacts)]
  BY DEF Nothing
<1>3. IsHistory(Nothing)
  BY <1>2 DEF IsHistory
<1> QED BY <1>1, <1>3 DEF Sound

LEMMA HistoryIs ==
  ASSUME NEW known
  PROVE  IsHistory(known) =>
           DOMAIN known \subseteq Scenarios /\ \A s \in DOMAIN known : known[s] \in Seq(Artifacts)
BY DEF IsHistory

LEMMA LearntIs ==
  ASSUME NEW known, NEW line, LineTypes(line)
  PROVE  /\ DOMAIN Learn(known, line) = DOMAIN known \union {line.scenario}
         /\ \A s \in DOMAIN known : s # line.scenario => Learn(known, line)[s] = known[s]
         /\ Tells(line, line.scenario, Learn(known, line)[line.scenario])
<1>1. \A s \in DOMAIN known \union {line.scenario} : Learn(known, line)[s] =
        IF s # line.scenario THEN known[s]
        ELSE IF line.kind = "scenario" THEN <<>> ELSE Append(line.prior, line.artifact)
  BY DEF Learn
<1>2. DOMAIN Learn(known, line) = DOMAIN known \union {line.scenario}
  BY DEF Learn
<1> QED BY <1>1, <1>2 DEF Tells

LEMMA LearningIsSound ==
  ASSUME NEW known, Sound(known), NEW line, LineTypes(line), Accepts(known, line)
  PROVE  Sound(Learn(known, line))
<1> DEFINE learnt == Learn(known, line)
           names == DOMAIN known \union {line.scenario}
<1>1. /\ DOMAIN learnt = names
      /\ \A s \in DOMAIN known : s # line.scenario => learnt[s] = known[s]
      /\ Tells(line, line.scenario, learnt[line.scenario])
  BY LearntIs
<1>2. DOMAIN known \subseteq Scenarios /\ \A s \in DOMAIN known : known[s] \in Seq(Artifacts)
  BY HistoryIs DEF Sound
<1>3. learnt[line.scenario] \in Seq(Artifacts) /\ Valid(line.scenario, learnt[line.scenario])
  <2>1. CASE line.kind = "scenario"
    <3>1. learnt[line.scenario] = <<>>
      BY <1>1, <2>1 DEF Tells
    <3> QED BY <3>1 DEF Valid
  <2>2. CASE line.kind # "scenario"
    <3>1. /\ learnt[line.scenario] = Append(line.prior, line.artifact)
          /\ line.prior \in Seq(Artifacts) /\ line.artifact \in Artifacts
      BY <1>1, <2>2 DEF Tells, LineTypes
    <3>2. /\ line.scenario \in DOMAIN known /\ line.prior = known[line.scenario]
          /\ line.artifact.type \in Successors[HeadType(line.prior)]
          /\ Proves(line.artifact, line.scenario, line.prior)
      BY <2>2 DEF Accepts
    <3>3. Valid(line.scenario, line.prior)
      BY <3>2 DEF Sound
    <3> QED BY <3>1, <3>2, <3>3, AcceptedIsValid
  <2> QED BY <2>1, <2>2
<1>4. \A s \in names : learnt[s] \in Seq(Artifacts) /\ Valid(s, learnt[s])
  BY <1>1, <1>2, <1>3 DEF Sound
<1>5. learnt = [s \in names |-> learnt[s]]
  BY DEF Learn
<1>6. names \in SUBSET Scenarios
  BY <1>2 DEF LineTypes
<1> HIDE DEF learnt, names
<1>7. learnt \in [names -> Seq(Artifacts)]
  BY <1>4, <1>5
<1>8. IsHistory(learnt)
  BY <1>6, <1>7 DEF IsHistory
<1> QED BY <1>1, <1>4, <1>8 DEF Sound, learnt

\* Learning adds to timelines and takes nothing away.
Extends(known, learnt) ==
  /\ DOMAIN known \subseteq DOMAIN learnt
  /\ \A s \in DOMAIN known : IsPrefix(known[s], learnt[s])

LEMMA LearningExtends ==
  ASSUME NEW known, Sound(known), NEW line, LineTypes(line), Accepts(known, line)
  PROVE  Extends(known, Learn(known, line))
<1> DEFINE learnt == Learn(known, line)
<1>1. /\ DOMAIN learnt = DOMAIN known \union {line.scenario}
      /\ \A s \in DOMAIN known : s # line.scenario => learnt[s] = known[s]
      /\ Tells(line, line.scenario, learnt[line.scenario])
  BY LearntIs
<1>2. \A s \in DOMAIN known : known[s] \in Seq(Artifacts)
  BY HistoryIs DEF Sound
<1> HIDE DEF learnt
<1>3. ASSUME NEW s \in DOMAIN known PROVE IsPrefix(known[s], learnt[s])
  <2>1. CASE s # line.scenario
    BY <1>1, <1>2, <2>1, PrefixIs
  <2>2. CASE s = line.scenario
    <3>1. /\ learnt[s] = Append(known[s], line.artifact) /\ line.artifact \in Artifacts
      BY <1>1, <2>2 DEF Accepts, Tells, LineTypes
    <3>2. known[s] \in Seq(Artifacts)
      BY <1>2
    <3>3. /\ learnt[s] \in Seq(Artifacts) /\ Len(known[s]) <= Len(learnt[s])
          /\ \A i \in 1 .. Len(known[s]) : known[s][i] = learnt[s][i]
      BY <3>1, <3>2
    <3> QED BY <3>2, <3>3, PrefixIs
  <2> QED BY <2>1, <2>2
<1> QED BY <1>1, <1>3 DEF Extends, learnt

LEMMA ExtendsIsTransitive ==
  ASSUME NEW a, NEW b, NEW c, IsHistory(a), IsHistory(b), IsHistory(c), Extends(a, b), Extends(b, c)
  PROVE  Extends(a, c)
<1>1. ASSUME NEW s \in DOMAIN a PROVE IsPrefix(a[s], c[s])
  <2>1. a[s] \in Seq(Artifacts) /\ b[s] \in Seq(Artifacts) /\ c[s] \in Seq(Artifacts)
    BY HistoryIs DEF Extends
  <2>2. IsPrefix(a[s], b[s]) /\ IsPrefix(b[s], c[s])
    BY DEF Extends
  <2>3. /\ Len(a[s]) <= Len(b[s]) /\ \A i \in 1 .. Len(a[s]) : a[s][i] = b[s][i]
        /\ Len(b[s]) <= Len(c[s]) /\ \A i \in 1 .. Len(b[s]) : b[s][i] = c[s][i]
    BY <2>1, <2>2, PrefixIs
  <2>4. Len(a[s]) \in Nat /\ Len(b[s]) \in Nat /\ Len(c[s]) \in Nat
    BY <2>1
  <2>5. Len(a[s]) <= Len(c[s]) /\ \A i \in 1 .. Len(a[s]) : a[s][i] = c[s][i]
    BY <2>3, <2>4
  <2> QED BY <2>1, <2>5, PrefixIs
<1> QED BY <1>1 DEF Extends

LEMMA ExtendsItself ==
  ASSUME NEW a, IsHistory(a)
  PROVE  Extends(a, a)
BY HistoryIs, PrefixIs DEF Extends

\* Everything a log that opens leads to is sound, and told by one of its lines.
LEMMA ReplayIsSound ==
  ASSUME NEW lines \in Seq(Lines \union {Garbage}), ReplayLog(lines) # Refused, NEW n \in 0 .. Len(lines)
  PROVE  /\ Sound(After(lines)[n])
         /\ \A s \in DOMAIN After(lines)[n] : \E i \in 1 .. n : Tells(lines[i], s, After(lines)[n][s])
<1> DEFINE Fits(k) ==
             /\ Sound(After(lines)[k])
             /\ \A s \in DOMAIN After(lines)[k] : \E i \in 1 .. k : Tells(lines[i], s, After(lines)[k][s])
           S == {k \in Nat : k <= Len(lines) => Fits(k)}
<1>1. Len(lines) \in Nat
  OBVIOUS
<1>2. Fits(0)
  <2>1. After(lines)[0] = Nothing
    BY AfterEachLine
  <2> QED BY <2>1, NothingIsSound
<1>3. ASSUME NEW k \in Nat, k + 1 <= Len(lines), Fits(k) PROVE Fits(k + 1)
  <2>1. k + 1 \in 1 .. Len(lines) /\ (k + 1) - 1 = k
    BY <1>1, <1>3
  <2> DEFINE known == After(lines)[k]
             line == lines[k + 1]
             learnt == After(lines)[k + 1]
  <2>2. line \in Lines /\ Accepts(known, line) /\ learnt = Learn(known, line)
    BY <2>1, EachLineAccepted
  <2>3. LineTypes(line)
    BY <2>2, LinesHaveTypes
  <2>4. Sound(learnt)
    BY <1>3, <2>2, <2>3, LearningIsSound
  <2>5. /\ DOMAIN learnt = DOMAIN known \union {line.scenario}
        /\ \A s \in DOMAIN known : s # line.scenario => learnt[s] = known[s]
        /\ Tells(line, line.scenario, learnt[line.scenario])
    <3> DEFINE next == Learn(known, line)
    <3>1. /\ DOMAIN next = DOMAIN known \union {line.scenario}
          /\ \A s \in DOMAIN known : s # line.scenario => next[s] = known[s]
          /\ Tells(line, line.scenario, next[line.scenario])
      <4> HIDE DEF known, line
      <4> QED BY <2>3, LearntIs
    <3>2. learnt = next
      BY <2>2
    <3> HIDE DEF known, line, learnt, next
    <3> QED BY <3>1, <3>2
  <2>6. \A s \in DOMAIN known : \E i \in 1 .. k : Tells(lines[i], s, known[s])
    BY <1>3
  <2>7. k + 1 \in 1 .. k + 1 /\ \A i \in 1 .. k : i \in 1 .. k + 1
    OBVIOUS
  <2>8. \A s \in DOMAIN learnt : \E i \in 1 .. k + 1 : Tells(lines[i], s, learnt[s])
    <3> HIDE DEF known, learnt
    <3> TAKE s \in DOMAIN learnt
    <3>1. CASE s = line.scenario
      BY <2>5, <2>7, <3>1
    <3>2. CASE s # line.scenario
      BY <2>5, <2>6, <2>7, <3>2
    <3> QED BY <3>1, <3>2
  <2> QED BY <2>4, <2>8
<1> HIDE DEF Fits
<1>4. 0 \in S
  BY <1>2
<1>5. ASSUME NEW k \in S PROVE k + 1 \in S
  <2> SUFFICES ASSUME k + 1 <= Len(lines) PROVE Fits(k + 1)
    OBVIOUS
  <2>1. k \in Nat /\ k <= Len(lines)
    BY <1>1
  <2>2. Fits(k)
    BY <2>1
  <2> QED BY <1>3, <2>1, <2>2
<1>6. S = Nat
  BY <1>4, <1>5, Counting
<1>7. n \in S /\ n <= Len(lines)
  BY <1>1, <1>6
<1>8. Fits(n)
  BY <1>7
<1> QED BY <1>8 DEF Fits

LEMMA ReplayOnlyGrows ==
  ASSUME NEW lines \in Seq(Lines \union {Garbage}), ReplayLog(lines) # Refused, NEW n \in 0 .. Len(lines)
  PROVE  Extends(After(lines)[n], ReplayLog(lines))
<1> DEFINE S == {d \in Nat : n + d <= Len(lines) => Extends(After(lines)[n], After(lines)[n + d])}
<1>1. Len(lines) \in Nat /\ n \in Nat
  OBVIOUS
<1>2. 0 \in S
  <2>1. Extends(After(lines)[n], After(lines)[n]) /\ n + 0 = n
    BY <1>1, ReplayIsSound, ExtendsItself DEF Sound
  <2> QED BY <2>1
<1>3. ASSUME NEW d \in S PROVE d + 1 \in S
  <2> SUFFICES ASSUME n + (d + 1) <= Len(lines) PROVE Extends(After(lines)[n], After(lines)[n + (d + 1)])
    OBVIOUS
  <2>1. /\ n + (d + 1) \in 1 .. Len(lines) /\ (n + (d + 1)) - 1 = n + d
        /\ n + d \in 0 .. Len(lines) /\ n + (d + 1) \in 0 .. Len(lines)
    BY <1>1
  <2>2. Extends(After(lines)[n], After(lines)[n + d])
    BY <2>1
  <2>3. Sound(After(lines)[n]) /\ Sound(After(lines)[n + d]) /\ Sound(After(lines)[n + (d + 1)])
    BY <2>1, ReplayIsSound
  <2>4. /\ lines[n + (d + 1)] \in Lines
        /\ Accepts(After(lines)[n + d], lines[n + (d + 1)])
        /\ After(lines)[n + (d + 1)] = Learn(After(lines)[n + d], lines[n + (d + 1)])
    BY <2>1, EachLineAccepted
  <2>5. Extends(After(lines)[n + d], After(lines)[n + (d + 1)])
    BY <2>3, <2>4, LearningExtends, LinesHaveTypes
  <2> QED BY <2>2, <2>3, <2>5, ExtendsIsTransitive DEF Sound
<1>4. S = Nat
  BY <1>2, <1>3, Counting
<1>5. \A d \in Nat : n + d <= Len(lines) => Extends(After(lines)[n], After(lines)[n + d])
  BY <1>4
<1> HIDE DEF S
<1>6. PICK d \in Nat : n + d = Len(lines)
  <2>1. Len(lines) - n \in Nat /\ n + (Len(lines) - n) = Len(lines)
    BY <1>1
  <2> QED BY <2>1
<1>7. Extends(After(lines)[n], After(lines)[n + d])
  BY <1>1, <1>5, <1>6
<1>8. Extends(After(lines)[n], After(lines)[Len(lines)])
  BY <1>6, <1>7
<1>9. ReplayLog(lines) = After(lines)[Len(lines)]
  BY AfterEachLine
<1> QED BY <1>8, <1>9

\* What a line of a log that opens tells is an initial part of what the log tells.
LEMMA ToldIsReplayed ==
  ASSUME NEW lines \in Seq(Lines \union {Garbage}), ReplayLog(lines) # Refused,
         NEW i \in 1 .. Len(lines), NEW s, NEW t, Tells(lines[i], s, t)
  PROVE  s \in DOMAIN ReplayLog(lines) /\ IsPrefix(t, ReplayLog(lines)[s])
<1>1. i \in 0 .. Len(lines)
  OBVIOUS
<1>2. lines[i] \in Lines /\ After(lines)[i] = Learn(After(lines)[i - 1], lines[i])
  BY EachLineAccepted
<1>3. LineTypes(lines[i])
  BY <1>2, LinesHaveTypes
<1>4. s \in DOMAIN After(lines)[i] /\ Tells(lines[i], s, After(lines)[i][s])
  <2> DEFINE known == After(lines)[i - 1]
             line == lines[i]
             next == Learn(known, line)
  <2>1. line.scenario \in DOMAIN next /\ Tells(line, line.scenario, next[line.scenario])
    <3>1. LineTypes(line)
      BY <1>3
    <3> HIDE DEF known, line
    <3> QED BY <3>1, LearntIs
  <2>2. After(lines)[i] = next /\ line.scenario = s
    BY <1>2 DEF Tells
  <2> HIDE DEF next, known
  <2> QED BY <2>1, <2>2
<1>5. After(lines)[i][s] = t
  BY <1>4 DEF Tells
<1>6. Extends(After(lines)[i], ReplayLog(lines))
  BY <1>1, ReplayOnlyGrows
<1> QED BY <1>4, <1>5, <1>6 DEF Extends
-----------------------------------------------------------------------------
(* The inductive invariant.  A write may leave a line that is no document: *)
(* then the log never opens again and promises nothing.  Until then every  *)
(* receipt and every timeline in memory is told by a line of the log, and  *)
(* no line ever leaves it.                                                  *)

Spoiled == \E i \in DOMAIN log : log[i] = Garbage

\* Every receipt, and every timeline in memory, is told by a line of the log.
OnDisk ==
  \/ Spoiled
  \/ /\ \A line \in receipted : \E i \in DOMAIN log : log[i] = line
     /\ \A h \in Handles : view[h] # Closed =>
          \A s \in DOMAIN view[h] : \E i \in DOMAIN log : Tells(log[i], s, view[h][s])

\* What a handle knows is a history of valid timelines.
ViewsSound == \A h \in Handles : view[h] # Closed => Sound(view[h])

\* The inductive invariant of the registry.
RegistryInd == RegistryTypeOK /\ OnDisk /\ ViewsSound

\* A spoiled log does not open.
LEMMA SpoiledIsRefused == ASSUME RegistryTypeOK, Spoiled PROVE ~ Replayable
<1> SUFFICES ASSUME ReplayLog(log) # Refused PROVE FALSE
  BY DEF Replayable
<1>1. log \in Seq(Lines \union {Garbage}) /\ DOMAIN log = 1 .. Len(log)
  BY DEF RegistryTypeOK
<1>2. PICK i \in 1 .. Len(log) : log[i] = Garbage
  BY <1>1 DEF Spoiled
<1>3. log[i] \in Lines
  BY <1>1, EachLineAccepted
<1> QED BY <1>2, <1>3, MarksAssumption

\* A write keeps the lines and adds one, or spoils the log.
LEMMA WrittenIs ==
  ASSUME RegistryTypeOK, NEW line \in Lines \union {Garbage}
  PROVE  /\ Written(line) \in Seq(Lines \union {Garbage}) /\ Written(line) # <<>>
         /\ \/ \E i \in DOMAIN Written(line) : Written(line)[i] = Garbage
            \/ /\ ~ broken /\ Written(line) = Append(log, line)
               /\ \A i \in DOMAIN log : i \in DOMAIN Written(line) /\ Written(line)[i] = log[i]
               /\ \E i \in DOMAIN Written(line) : Written(line)[i] = line
<1>1. log \in Seq(Lines \union {Garbage}) /\ broken \in BOOLEAN /\ (broken => log # <<>>)
  BY DEF RegistryTypeOK
<1>2. CASE broken
  <2>1. Len(log) \in DOMAIN log /\ Written(line) = [log EXCEPT ![Len(log)] = Garbage]
    BY <1>1, <1>2 DEF Written
  <2>2. /\ Written(line) \in Seq(Lines \union {Garbage})
        /\ Len(log) \in DOMAIN Written(line) /\ Written(line)[Len(log)] = Garbage
        /\ Len(Written(line)) = Len(log)
    BY <1>1, <2>1
  <2>3. Written(line) # <<>>
    BY <1>1, <1>2, <2>2
  <2> QED BY <2>2, <2>3
<1>3. CASE ~ broken
  <2>1. Written(line) = Append(log, line)
    BY <1>3 DEF Written
  <2>2. /\ Append(log, line) \in Seq(Lines \union {Garbage})
        /\ DOMAIN Append(log, line) = 1 .. Len(log) + 1 /\ DOMAIN log = 1 .. Len(log) /\ Len(log) \in Nat
        /\ \A i \in 1 .. Len(log) : Append(log, line)[i] = log[i]
        /\ Append(log, line)[Len(log) + 1] = line
        /\ Append(log, line) # <<>>
    BY <1>1
  <2>3. /\ \A i \in DOMAIN log : i \in 1 .. Len(log) + 1
        /\ Len(log) + 1 \in 1 .. Len(log) + 1
    BY <2>2
  <2> QED BY <1>3, <2>1, <2>2, <2>3
<1> QED BY <1>2, <1>3

\* The lines of the two appends are lines, and are accepted.
LEMMA RegistrableLine ==
  ASSUME NEW h \in Handles, NEW s \in Scenarios, Registrable(h, s)
  PROVE  view[h] # Closed /\ ScenarioLine(s) \in Lines /\ Accepts(view[h], ScenarioLine(s))
BY DEF Registrable, ScenarioLine, Lines, Accepts

LEMMA AppendableLine ==
  ASSUME RegistryTypeOK, NEW h \in Handles, NEW line \in Submitted, Appendable(h, line)
  PROVE  view[h] # Closed /\ line \in Lines /\ Accepts(view[h], line)
<1>1. view[h] # Closed /\ Accepts(view[h], line)
  BY DEF Appendable
<1>2. PICK s \in Scenarios : \E prior \in ReadHeads(s), a \in Artifacts : line = EventLine(s, prior, a)
  BY DEF Submitted
<1>3. PICK prior \in ReadHeads(s), a \in Artifacts : line = EventLine(s, prior, a)
  BY <1>2
<1>4. s \in DOMAIN view[h] /\ prior = view[h][s]
  BY <1>1, <1>3 DEF Accepts, EventLine
<1>5. IsHistory(view[h])
  BY <1>1 DEF RegistryTypeOK
<1>6. prior \in Seq(Artifacts)
  BY <1>4, <1>5, HistoryIs
<1>7. line \in Lines
  BY <1>3, <1>6 DEF EventLine, Lines
<1> QED BY <1>1, <1>7

LEMMA ViewIsSound ==
  ASSUME RegistryInd, NEW h \in Handles, view[h] # Closed
  PROVE  IsHistory(view[h]) /\ Sound(view[h])
BY DEF RegistryInd, ViewsSound, Sound

LEMMA AppendKeeps ==
  ASSUME RegistryInd, NEW h \in Handles, NEW line \in Lines, view[h] # Closed,
         Accepts(view[h], line), AppendLine(h, line)
  PROVE  RegistryInd'
<1> DEFINE learnt == Learn(view[h], line)
<1>1. log' = Written(line) /\ Len(log') <= MaxLines /\ broken' = FALSE /\ failures' = failures
  BY DEF AppendLine
<1>2. view' = [view EXCEPT ![h] = learnt] /\ receipted' = receipted \union {line}
  BY DEF AppendLine
<1>3. RegistryTypeOK /\ OnDisk /\ ViewsSound
  BY DEF RegistryInd
<1>4. LineTypes(line) /\ Sound(view[h])
  BY <1>3, LinesHaveTypes DEF ViewsSound
<1>5. Sound(learnt) /\ IsHistory(learnt)
  BY <1>4, LearningIsSound DEF Sound
<1>6. /\ DOMAIN learnt = DOMAIN view[h] \union {line.scenario}
      /\ \A s \in DOMAIN view[h] : s # line.scenario => learnt[s] = view[h][s]
      /\ Tells(line, line.scenario, learnt[line.scenario])
  BY <1>4, LearntIs
<1> HIDE DEF learnt
<1>7. DOMAIN view = Handles
  BY <1>3 DEF RegistryTypeOK
<1>8. view'[h] = learnt /\ \A g \in Handles : g # h => view'[g] = view[g]
  BY <1>2, <1>7
<1>9. RegistryTypeOK'
  <2>1. log' \in Seq(Lines \union {Garbage})
    BY <1>1, <1>3, WrittenIs
  <2>2. DOMAIN view' = Handles
    BY <1>2, <1>7
  <2>3. \A g \in Handles : view'[g] = Closed \/ IsHistory(view'[g])
    BY <1>3, <1>5, <1>8 DEF RegistryTypeOK
  <2>4. receipted' \in SUBSET Lines
    BY <1>2, <1>3 DEF RegistryTypeOK
  <2>5. failures' \in 0 .. MaxFailures
    BY <1>1, <1>3 DEF RegistryTypeOK
  <2> QED BY <1>1, <2>1, <2>2, <2>3, <2>4, <2>5 DEF RegistryTypeOK
<1>10. ViewsSound'
  BY <1>3, <1>5, <1>8 DEF ViewsSound
<1>11. OnDisk'
  <2>1. CASE Spoiled'
    BY <2>1 DEF OnDisk
  <2>2. CASE ~ Spoiled'
    <3>1. /\ \A i \in DOMAIN log : i \in DOMAIN log' /\ log'[i] = log[i]
          /\ \E i \in DOMAIN log' : log'[i] = line
      BY <1>1, <1>3, <2>2, WrittenIs DEF Spoiled
    <3>2. ~ Spoiled
      BY <2>2, <3>1 DEF Spoiled
    <3>3. \A r \in receipted' : \E i \in DOMAIN log' : log'[i] = r
      BY <1>2, <1>3, <3>1, <3>2 DEF OnDisk
    <3>4. ASSUME NEW g \in Handles, view'[g] # Closed, NEW s \in DOMAIN view'[g]
          PROVE  \E i \in DOMAIN log' : Tells(log'[i], s, view'[g][s])
      <4>1. \A f \in Handles : view[f] # Closed =>
              \A r \in DOMAIN view[f] : \E i \in DOMAIN log : Tells(log[i], r, view[f][r])
        BY <1>3, <3>2 DEF OnDisk
      <4>2. CASE g # h
        BY <1>8, <3>1, <3>4, <4>1, <4>2
      <4>3. CASE g = h /\ s = line.scenario
        <5>1. PICK i \in DOMAIN log' : log'[i] = line
          BY <3>1
        <5>2. Tells(log'[i], s, view'[g][s])
          BY <1>6, <1>8, <4>3, <5>1
        <5> QED BY <5>2
      <4>4. CASE g = h /\ s # line.scenario
        <5>1. s \in DOMAIN view[h] /\ view'[g][s] = view[h][s]
          BY <1>6, <1>8, <3>4, <4>4
        <5>2. PICK i \in DOMAIN log : Tells(log[i], s, view[h][s])
          BY <4>1, <5>1
        <5> QED BY <3>1, <5>1, <5>2
      <4> QED BY <4>2, <4>3, <4>4
    <3> QED BY <3>3, <3>4 DEF OnDisk
  <2> QED BY <2>1, <2>2
<1> QED BY <1>9, <1>10, <1>11 DEF RegistryInd

LEMMA FailureKeeps ==
  ASSUME RegistryInd, NEW h \in Handles, NEW line \in Lines, AppendLineFails(h, line)
  PROVE  RegistryInd'
<1>1. UNCHANGED <<view, receipted>> /\ failures < MaxFailures /\ failures' = failures + 1
  BY DEF AppendLineFails
<1>2. RegistryTypeOK /\ OnDisk /\ ViewsSound
  BY DEF RegistryInd
<1>3. PICK x \in Lines \union {Garbage} :
        \/ log' = log /\ broken' = broken
        \/ log' = Written(x) /\ Len(log') <= MaxLines /\ broken' \in BOOLEAN
  <2>1. log \in Seq(Lines \union {Garbage}) /\ Len(log) \in Nat
    BY <1>2 DEF RegistryTypeOK
  <2>2. Len(Written(Garbage)) = Len(Written(line))
    BY <2>1 DEF Written
  <2>3. /\ Len(Written(line)) <= MaxLines
        /\ \/ log' = log /\ broken' = broken
           \/ log' = Written(Garbage) /\ broken' = TRUE
           \/ log' = Written(line) /\ broken' \in BOOLEAN
    BY DEF AppendLineFails
  <2>4. CASE log' = log /\ broken' = broken
    BY <2>4
  <2>5. CASE log' = Written(Garbage) /\ broken' = TRUE
    BY <2>2, <2>3, <2>5
  <2>6. CASE log' = Written(line) /\ broken' \in BOOLEAN
    BY <2>3, <2>6
  <2> QED BY <2>3, <2>4, <2>5, <2>6
<1>4. /\ log' \in Seq(Lines \union {Garbage}) /\ Len(log') <= MaxLines /\ broken' \in BOOLEAN
      /\ broken' => log' # <<>>
  BY <1>2, <1>3, WrittenIs DEF RegistryTypeOK
<1>5. failures' \in 0 .. MaxFailures
  BY <1>1, <1>2, RegistryAssumption DEF RegistryTypeOK
<1>6. RegistryTypeOK'
  BY <1>1, <1>2, <1>4, <1>5 DEF RegistryTypeOK
<1>7. ViewsSound'
  BY <1>1, <1>2 DEF ViewsSound
<1>8. OnDisk'
  <2>1. CASE Spoiled'
    BY <2>1 DEF OnDisk
  <2>2. CASE ~ Spoiled'
    <3>1. \A i \in DOMAIN log : i \in DOMAIN log' /\ log'[i] = log[i]
      BY <1>2, <1>3, <2>2, WrittenIs DEF Spoiled
    <3>2. ~ Spoiled
      BY <2>2, <3>1 DEF Spoiled
    <3>3. /\ \A r \in receipted : \E i \in DOMAIN log : log[i] = r
          /\ \A g \in Handles : view[g] # Closed =>
               \A s \in DOMAIN view[g] : \E i \in DOMAIN log : Tells(log[i], s, view[g][s])
      BY <1>2, <3>2 DEF OnDisk
    <3>4. /\ \A r \in receipted : \E i \in DOMAIN log' : log'[i] = r
          /\ \A g \in Handles : view[g] # Closed =>
               \A s \in DOMAIN view[g] : \E i \in DOMAIN log' : Tells(log'[i], s, view[g][s])
      BY <3>1, <3>3
    <3> QED BY <1>1, <3>4 DEF OnDisk
  <2> QED BY <2>1, <2>2
<1> QED BY <1>6, <1>7, <1>8 DEF RegistryInd

LEMMA OpenKeeps ==
  ASSUME RegistryInd, NEW h \in Handles, Open(h)
  PROVE  RegistryInd'
<1>1. /\ UNCHANGED <<log, broken, receipted, failures>> /\ ReplayLog(log) # Refused
      /\ view' = [view EXCEPT ![h] = ReplayLog(log)]
  BY DEF Open
<1>2. RegistryTypeOK /\ OnDisk /\ ViewsSound
  BY DEF RegistryInd
<1>3. /\ DOMAIN view = Handles /\ log \in Seq(Lines \union {Garbage}) /\ Len(log) \in 0 .. Len(log)
      /\ DOMAIN log = 1 .. Len(log)
  BY <1>2 DEF RegistryTypeOK
<1>4. /\ Sound(ReplayLog(log))
      /\ \A s \in DOMAIN ReplayLog(log) : \E i \in DOMAIN log : Tells(log[i], s, ReplayLog(log)[s])
  <2>1. PICK known : known = After(log)[Len(log)]
    OBVIOUS
  <2>2. Sound(known) /\ \A s \in DOMAIN known : \E i \in 1 .. Len(log) : Tells(log[i], s, known[s])
    BY <1>1, <1>3, <2>1, ReplayIsSound
  <2>3. ReplayLog(log) = known
    BY <1>3, <2>1, AfterEachLine
  <2> QED BY <1>3, <2>2, <2>3
<1>5. DOMAIN view' = Handles /\ view'[h] = ReplayLog(log) /\ \A g \in Handles : g # h => view'[g] = view[g]
  BY <1>1, <1>3
<1>6. RegistryTypeOK'
  <2>1. \A g \in Handles : view'[g] = Closed \/ IsHistory(view'[g])
    BY <1>2, <1>4, <1>5 DEF RegistryTypeOK, Sound
  <2> QED BY <1>1, <1>2, <1>5, <2>1 DEF RegistryTypeOK
<1>7. ViewsSound'
  BY <1>2, <1>4, <1>5 DEF ViewsSound
<1>8. OnDisk'
  <2>1. CASE Spoiled
    BY <1>1, <2>1 DEF OnDisk, Spoiled
  <2>2. CASE ~ Spoiled
    <3>1. /\ \A r \in receipted : \E i \in DOMAIN log : log[i] = r
          /\ \A g \in Handles : view[g] # Closed =>
               \A s \in DOMAIN view[g] : \E i \in DOMAIN log : Tells(log[i], s, view[g][s])
      BY <1>2, <2>2 DEF OnDisk
    <3>2. \A g \in Handles : view'[g] # Closed =>
            \A s \in DOMAIN view'[g] : \E i \in DOMAIN log : Tells(log[i], s, view'[g][s])
      BY <1>4, <1>5, <3>1
    <3> QED BY <1>1, <3>1, <3>2 DEF OnDisk
  <2> QED BY <2>1, <2>2
<1> QED BY <1>6, <1>7, <1>8 DEF RegistryInd

LEMMA CloseKeeps ==
  ASSUME RegistryInd, NEW h \in Handles, Close(h)
  PROVE  RegistryInd'
<1>1. UNCHANGED <<log, broken, receipted, failures>> /\ view' = [view EXCEPT ![h] = Closed]
  BY DEF Close
<1>2. RegistryTypeOK /\ OnDisk /\ ViewsSound
  BY DEF RegistryInd
<1>3. DOMAIN view' = Handles /\ view'[h] = Closed /\ \A g \in Handles : g # h => view'[g] = view[g]
  BY <1>1, <1>2 DEF RegistryTypeOK
<1>4. RegistryTypeOK'
  BY <1>1, <1>2, <1>3 DEF RegistryTypeOK
<1>5. ViewsSound'
  BY <1>2, <1>3 DEF ViewsSound
<1>6. OnDisk'
  BY <1>1, <1>2, <1>3 DEF OnDisk, Spoiled
<1> QED BY <1>4, <1>5, <1>6 DEF RegistryInd

LEMMA RegistryIndInit == RegistryInit => RegistryInd
<1> SUFFICES ASSUME RegistryInit PROVE RegistryInd
  OBVIOUS
<1>1. log = <<>> /\ broken = FALSE /\ view = [h \in Handles |-> Closed] /\ receipted = {} /\ failures = 0
  BY DEF RegistryInit
<1>2. RegistryTypeOK
  <2>1. log \in Seq(Lines \union {Garbage}) /\ Len(log) <= MaxLines
    BY <1>1, RegistryAssumption
  <2>2. broken \in BOOLEAN /\ (broken => log # <<>>)
    BY <1>1
  <2>3. DOMAIN view = Handles /\ \A h \in Handles : view[h] = Closed
    BY <1>1
  <2>4. receipted \in SUBSET Lines /\ failures \in 0 .. MaxFailures
    BY <1>1, RegistryAssumption
  <2> QED BY <2>1, <2>2, <2>3, <2>4 DEF RegistryTypeOK
<1>3. OnDisk /\ ViewsSound
  BY <1>1 DEF OnDisk, ViewsSound
<1> QED BY <1>2, <1>3 DEF RegistryInd

LEMMA RegistryIndNext == RegistryInd /\ [RegistryNext]_registryVars => RegistryInd'
<1> SUFFICES ASSUME RegistryInd, [RegistryNext]_registryVars PROVE RegistryInd'
  OBVIOUS
<1>1. RegistryTypeOK
  BY DEF RegistryInd
<1>2. ASSUME NEW h \in Handles, Open(h) PROVE RegistryInd'
  BY <1>2, OpenKeeps
<1>3. ASSUME NEW h \in Handles, Close(h) PROVE RegistryInd'
  BY <1>3, CloseKeeps
<1>4. ASSUME NEW h \in Handles, NEW s \in Scenarios, Register(h, s) PROVE RegistryInd'
  BY <1>4, RegistrableLine, AppendKeeps DEF Register
<1>5. ASSUME NEW h \in Handles, NEW s \in Scenarios, RegisterFails(h, s) PROVE RegistryInd'
  BY <1>5, RegistrableLine, FailureKeeps DEF RegisterFails
<1>6. ASSUME NEW h \in Handles, NEW line \in Submitted, AppendEvent(h, line) PROVE RegistryInd'
  BY <1>1, <1>6, AppendableLine, AppendKeeps DEF AppendEvent
<1>7. ASSUME NEW h \in Handles, NEW line \in Submitted, AppendEventFails(h, line) PROVE RegistryInd'
  BY <1>1, <1>7, AppendableLine, FailureKeeps DEF AppendEventFails
<1>8. ASSUME UNCHANGED registryVars PROVE RegistryInd'
  BY <1>8 DEF registryVars, RegistryInd, RegistryTypeOK, OnDisk, ViewsSound, Spoiled
<1> QED BY <1>2, <1>3, <1>4, <1>5, <1>6, <1>7, <1>8 DEF RegistryNext

LEMMA RegistryInductive == RegistrySpec => []RegistryInd
BY RegistryIndInit, RegistryIndNext, PTL DEF RegistrySpec

\* The file holds lines, and a handle a timeline for each scenario it knows.
THEOREM RegistryTypes == RegistrySpec => []RegistryTypeOK
<1>1. RegistryInd => RegistryTypeOK
  BY DEF RegistryInd
<1> QED BY <1>1, RegistryInductive, PTL

\* What was receipted is in every log that opens: however many writes failed,
\* wherever they were cut off, and however many handles wrote the file.
THEOREM ReceiptsSurvive == RegistrySpec => []NothingSilentlyLost
<1>1. ASSUME RegistryInd, Replayable, NEW line \in receipted
      PROVE  /\ line.scenario \in DOMAIN ReplayLog(log)
             /\ line.kind = "event" => IsPrefix(Append(line.prior, line.artifact), ReplayLog(log)[line.scenario])
  <2>1. log \in Seq(Lines \union {Garbage}) /\ DOMAIN log = 1 .. Len(log) /\ receipted \subseteq Lines /\ RegistryTypeOK
    BY <1>1 DEF RegistryInd, RegistryTypeOK
  <2>2. ReplayLog(log) # Refused
    BY <1>1 DEF Replayable
  <2>3. PICK i \in 1 .. Len(log) : log[i] = line
    BY <1>1, <2>1, SpoiledIsRefused DEF RegistryInd, OnDisk
  <2> DEFINE t == IF line.kind = "scenario" THEN <<>> ELSE Append(line.prior, line.artifact)
             s == line.scenario
  <2>4. Tells(log[i], s, t)
    BY <2>3 DEF Tells
  <2>5. line.kind = "event" => t = Append(line.prior, line.artifact)
    OBVIOUS
  <2> HIDE DEF t, s
  <2>6. s \in DOMAIN ReplayLog(log) /\ IsPrefix(t, ReplayLog(log)[s])
    BY <2>1, <2>2, <2>4, ToldIsReplayed
  <2> QED BY <2>5, <2>6 DEF s
<1>2. RegistryInd => NothingSilentlyLost
  BY <1>1 DEF NothingSilentlyLost
<1> QED BY <1>2, RegistryInductive, PTL

\* Every timeline in memory is an initial part of the one on disk, if the log
\* opens at all.
THEOREM MemoryIsOnDisk == RegistrySpec => []ViewsOnDisk
<1>1. ASSUME RegistryInd, Replayable, NEW h \in Handles, view[h] # Closed, NEW s \in DOMAIN view[h]
      PROVE  s \in DOMAIN ReplayLog(log) /\ IsPrefix(view[h][s], ReplayLog(log)[s])
  <2>1. log \in Seq(Lines \union {Garbage}) /\ DOMAIN log = 1 .. Len(log) /\ RegistryTypeOK
    BY <1>1 DEF RegistryInd, RegistryTypeOK
  <2>2. ReplayLog(log) # Refused
    BY <1>1 DEF Replayable
  <2>3. PICK i \in 1 .. Len(log) : Tells(log[i], s, view[h][s])
    BY <1>1, <2>1, SpoiledIsRefused DEF RegistryInd, OnDisk
  <2> QED BY <2>1, <2>2, <2>3, ToldIsReplayed
<1>2. RegistryInd => ViewsOnDisk
  BY <1>1 DEF ViewsOnDisk
<1> QED BY <1>2, RegistryInductive, PTL

\* Every timeline a handle shows means what it says, in whatever order the
\* artifacts arrived.
THEOREM EveryTimelineMeans == RegistrySpec => []TimelinesMean
<1>1. ASSUME RegistryInd, NEW h \in Handles, view[h] # Closed, NEW s \in DOMAIN view[h]
      PROVE  Means(s, view[h][s])
  <2>1. Sound(view[h]) /\ IsHistory(view[h])
    BY <1>1, ViewIsSound
  <2>2. Valid(s, view[h][s]) /\ view[h][s] \in Seq(Artifacts)
    BY <1>1, <2>1, HistoryIs DEF Sound
  <2> QED BY <2>2, ValidMeans
<1>2. RegistryInd => TimelinesMean
  BY <1>1 DEF TimelinesMean
<1> QED BY <1>2, RegistryInductive, PTL
-----------------------------------------------------------------------------
(* The file only gains history.                                            *)

\* A log that opens still holds what it held before the step.
HistoryGrows == Replayable' => Replayable /\ Extends(ReplayLog(log), ReplayLog(log'))

LEMMA ReplayedIsSound ==
  ASSUME NEW lines \in Seq(Lines \union {Garbage}), ReplayLog(lines) # Refused
  PROVE  Sound(ReplayLog(lines))
<1>1. Len(lines) \in 0 .. Len(lines)
  OBVIOUS
<1>2. PICK known : known = After(lines)[Len(lines)]
  OBVIOUS
<1>3. Sound(known)
  BY <1>1, <1>2, ReplayIsSound
<1>4. ReplayLog(lines) = known
  BY <1>2, AfterEachLine
<1> QED BY <1>3, <1>4

\* A line that is accepted on top of what the log tells opens the log again.
LEMMA AcceptedOpens ==
  ASSUME NEW lines \in Seq(Lines \union {Garbage}), ReplayLog(lines) # Refused,
         NEW line \in Lines, Accepts(ReplayLog(lines), line)
  PROVE  ReplayLog(Append(lines, line)) = Learn(ReplayLog(lines), line)
<1>1. line # Garbage /\ line \in Lines \union {Garbage}
  BY MarksAssumption
<1>2. ReplayLog(Append(lines, line)) = ReplayLine(ReplayLog(lines), line)
  BY <1>1, ReplayOfNewLine
<1> QED BY <1>1, <1>2 DEF ReplayLine

LEMMA NewLineGrows ==
  ASSUME NEW lines \in Seq(Lines \union {Garbage}), NEW line \in Lines \union {Garbage},
         ReplayLog(Append(lines, line)) # Refused
  PROVE  ReplayLog(lines) # Refused /\ Extends(ReplayLog(lines), ReplayLog(Append(lines, line)))
<1>1. ReplayLog(Append(lines, line)) = ReplayLine(ReplayLog(lines), line)
  BY ReplayOfNewLine
<1>2. /\ ReplayLog(lines) # Refused /\ line \in Lines /\ Accepts(ReplayLog(lines), line)
      /\ ReplayLog(Append(lines, line)) = Learn(ReplayLog(lines), line)
  BY <1>1 DEF ReplayLine
<1>3. Sound(ReplayLog(lines)) /\ LineTypes(line)
  BY <1>2, ReplayedIsSound, LinesHaveTypes
<1>4. Extends(ReplayLog(lines), Learn(ReplayLog(lines), line))
  <2>1. PICK known : known = ReplayLog(lines)
    OBVIOUS
  <2> QED BY <1>2, <1>3, <2>1, LearningExtends
<1> QED BY <1>2, <1>4

LEMMA WritingGrows ==
  ASSUME RegistryInd, NEW line \in Lines \union {Garbage}, log' = Written(line)
  PROVE  HistoryGrows
<1>1. RegistryTypeOK /\ log \in Seq(Lines \union {Garbage})
  BY DEF RegistryInd, RegistryTypeOK
<1> SUFFICES ASSUME ReplayLog(log') # Refused
             PROVE  ReplayLog(log) # Refused /\ Extends(ReplayLog(log), ReplayLog(log'))
  BY DEF HistoryGrows, Replayable
<1>2. log' \in Seq(Lines \union {Garbage}) /\ DOMAIN log' = 1 .. Len(log')
  BY <1>1, WrittenIs
<1>3. \A i \in DOMAIN log' : log'[i] # Garbage
  BY <1>2, EachLineAccepted, MarksAssumption
<1>4. log' = Append(log, line)
  BY <1>1, <1>3, WrittenIs
<1> QED BY <1>1, <1>4, NewLineGrows

LEMMA StayingGrows ==
  ASSUME RegistryInd, log' = log
  PROVE  HistoryGrows
<1>1. log \in Seq(Lines \union {Garbage})
  BY DEF RegistryInd, RegistryTypeOK
<1> SUFFICES ASSUME ReplayLog(log) # Refused PROVE Extends(ReplayLog(log), ReplayLog(log))
  BY DEF HistoryGrows, Replayable
<1> QED BY <1>1, ReplayedIsSound, ExtendsItself DEF Sound

LEMMA FailingGrows ==
  ASSUME RegistryInd, NEW h \in Handles, NEW line \in Lines, AppendLineFails(h, line)
  PROVE  HistoryGrows
<1>1. log' = log \/ \E x \in Lines \union {Garbage} : log' = Written(x)
  BY DEF AppendLineFails
<1> QED BY <1>1, WritingGrows, StayingGrows

\* A log that refuses to open never opens again, and a log that opens has lost
\* no event that it ever told: no write, failed or not, takes history away.
THEOREM HistoryOnlyGrows == RegistrySpec => [][HistoryGrows]_registryVars
<1>1. ASSUME RegistryInd, [RegistryNext]_registryVars PROVE [HistoryGrows]_registryVars
  <2> SUFFICES ASSUME RegistryNext PROVE HistoryGrows
    BY <1>1
  <2>1. RegistryTypeOK
    BY <1>1 DEF RegistryInd
  <2>2. ASSUME NEW h \in Handles, Open(h) \/ Close(h) PROVE HistoryGrows
    BY <1>1, <2>2, StayingGrows DEF Open, Close
  <2>3. ASSUME NEW h \in Handles, NEW s \in Scenarios, Register(h, s) PROVE HistoryGrows
    <3>1. ScenarioLine(s) \in Lines
      BY <2>3, RegistrableLine DEF Register
    <3> QED BY <1>1, <2>3, <3>1, WritingGrows DEF Register, AppendLine
  <2>4. ASSUME NEW h \in Handles, NEW s \in Scenarios, RegisterFails(h, s) PROVE HistoryGrows
    BY <1>1, <2>4, RegistrableLine, FailingGrows DEF RegisterFails
  <2>5. ASSUME NEW h \in Handles, NEW line \in Submitted, AppendEvent(h, line) PROVE HistoryGrows
    <3>1. line \in Lines
      BY <2>1, <2>5, AppendableLine DEF AppendEvent
    <3> QED BY <1>1, <2>5, <3>1, WritingGrows DEF AppendEvent, AppendLine
  <2>6. ASSUME NEW h \in Handles, NEW line \in Submitted, AppendEventFails(h, line) PROVE HistoryGrows
    BY <1>1, <2>1, <2>6, AppendableLine, FailingGrows DEF AppendEventFails
  <2> QED BY <2>2, <2>3, <2>4, <2>5, <2>6 DEF RegistryNext
<1> QED BY <1>1, RegistryInductive, PTL DEF RegistrySpec

-----------------------------------------------------------------------------
(* One handle at a time.                                                   *)

\* At most one handle is open.
OneHandle == \A g, h \in Handles : view[g] # Closed /\ view[h] # Closed => g = h

\* Until a write fails the open handle knows exactly what the file tells.
InStep ==
  failures = 0 =>
    ~ broken /\ Replayable /\ \A h \in Handles : view[h] # Closed => view[h] = ReplayLog(log)

LEMMA AppendStaysInStep ==
  ASSUME RegistryInd, RegistryInd', OneHandle, InStep, NEW h \in Handles, NEW line \in Lines,
         view[h] # Closed, Accepts(view[h], line), AppendLine(h, line)
  PROVE  OneHandle' /\ InStep'
<1>1. /\ log' = Written(line) /\ broken' = FALSE /\ failures' = failures
      /\ view' = [view EXCEPT ![h] = Learn(view[h], line)]
  BY DEF AppendLine
<1>2. log \in Seq(Lines \union {Garbage}) /\ DOMAIN view = Handles
  BY DEF RegistryInd, RegistryTypeOK
<1>3. view'[h] = Learn(view[h], line) /\ \A g \in Handles : g # h => view[g] = Closed /\ view'[g] = Closed
  BY <1>1, <1>2 DEF OneHandle
<1>4. OneHandle'
  BY <1>3 DEF OneHandle
<1>5. ASSUME failures = 0 PROVE Replayable' /\ view'[h] = ReplayLog(log')
  <2>1. ~ broken /\ ReplayLog(log) # Refused /\ view[h] = ReplayLog(log)
    BY <1>5 DEF InStep, Replayable
  <2>2. log' = Append(log, line)
    BY <1>1, <2>1 DEF Written
  <2>3. ReplayLog(log') = Learn(ReplayLog(log), line)
    BY <1>2, <2>1, <2>2, AcceptedOpens
  <2>4. Sound(Learn(view[h], line))
    BY LearningIsSound, LinesHaveTypes, ViewIsSound
  <2>5. Sound(ReplayLog(log'))
    BY <2>1, <2>3, <2>4
  <2>6. ReplayLog(log') # Refused
    BY <2>5, MarksAssumption DEF Sound
  <2> QED BY <1>3, <2>1, <2>3, <2>6 DEF Replayable
<1> QED BY <1>1, <1>3, <1>4, <1>5 DEF InStep

LEMMA StepStaysInStep ==
  ASSUME ~ Overlap, RegistryInd, RegistryInd', OneHandle, InStep, [RegistryNext]_registryVars
  PROVE  OneHandle' /\ InStep'
<1>1. RegistryTypeOK /\ DOMAIN view = Handles
  BY DEF RegistryInd, RegistryTypeOK
<1>2. ASSUME NEW h \in Handles, Open(h) PROVE OneHandle' /\ InStep'
  <2>1. /\ \A g \in Handles : view[g] = Closed
        /\ view' = [view EXCEPT ![h] = ReplayLog(log)] /\ UNCHANGED <<log, broken, failures>>
    BY <1>2 DEF Open
  <2>2. view'[h] = ReplayLog(log) /\ \A g \in Handles : g # h => view'[g] = Closed
    BY <1>1, <2>1
  <2> QED BY <2>1, <2>2 DEF OneHandle, InStep, Replayable
<1>3. ASSUME NEW h \in Handles, Close(h) PROVE OneHandle' /\ InStep'
  <2>1. view' = [view EXCEPT ![h] = Closed] /\ UNCHANGED <<log, broken, failures>>
    BY <1>3 DEF Close
  <2>2. view'[h] = Closed /\ \A g \in Handles : g # h => view'[g] = view[g]
    BY <1>1, <2>1
  <2> QED BY <2>1, <2>2 DEF OneHandle, InStep, Replayable
<1>4. ASSUME NEW h \in Handles, NEW s \in Scenarios, Register(h, s) PROVE OneHandle' /\ InStep'
  BY <1>4, RegistrableLine, AppendStaysInStep DEF Register
<1>5. ASSUME NEW h \in Handles, NEW line \in Submitted, AppendEvent(h, line) PROVE OneHandle' /\ InStep'
  BY <1>1, <1>5, AppendableLine, AppendStaysInStep DEF AppendEvent
<1>6. ASSUME NEW h \in Handles, NEW line, AppendLineFails(h, line) PROVE OneHandle' /\ InStep'
  <2>1. UNCHANGED view /\ failures' = failures + 1 /\ failures \in Nat
    BY <1>1, <1>6 DEF AppendLineFails, RegistryTypeOK
  <2> QED BY <2>1 DEF OneHandle, InStep
<1>7. ASSUME UNCHANGED registryVars PROVE OneHandle' /\ InStep'
  BY <1>7 DEF registryVars, OneHandle, InStep, Replayable
<1> QED BY <1>2, <1>3, <1>4, <1>5, <1>6, <1>7 DEF RegistryNext, RegisterFails, AppendEventFails

\* As long as one handle at a time holds the log, appends that all succeed
\* leave a log that opens, and what the handle shows is what the log tells:
\* optimistic concurrency is only needed, and only missed, with two handles.
THEOREM OneHandleOpens ==
  ASSUME ~ Overlap
  PROVE  RegistrySpec => [](LogOpens /\ OneHandle /\ InStep)
<1>1. RegistryInit => OneHandle /\ InStep
  <2> SUFFICES ASSUME RegistryInit PROVE OneHandle /\ InStep
    OBVIOUS
  <2>1. log = <<>> /\ broken = FALSE /\ \A h \in Handles : view[h] = Closed
    BY DEF RegistryInit
  <2>2. Sound(ReplayLog(log))
    BY <2>1, ReplayOfEmptyLog, NothingIsSound
  <2>3. ReplayLog(log) # Refused
    BY <2>2, MarksAssumption DEF Sound
  <2> QED BY <2>1, <2>3 DEF OneHandle, InStep, Replayable
<1>2. RegistryInd /\ RegistryInd' /\ OneHandle /\ InStep /\ [RegistryNext]_registryVars => OneHandle' /\ InStep'
  BY StepStaysInStep
<1>3. InStep => LogOpens
  BY DEF InStep, LogOpens
<1> QED BY <1>1, <1>2, <1>3, RegistryInductive, PTL DEF RegistrySpec
=============================================================================
