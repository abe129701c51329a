------------------------------ MODULE LiveTwin ------------------------------
(***************************************************************************)
(* The controller of one live-twin session (platform/live_twin.py): it     *)
(* owns the session's spec digest, drives one control process, applies     *)
(* commands and aggregate mobility updates once each, and ends in exactly  *)
(* one terminal receipt.                                                   *)
(*                                                                         *)
(* A controller is called by one thread, so a call is one step; between    *)
(* two calls the process may die and other controllers of the same digest  *)
(* may come and go.  Starting is two steps, since launching the process    *)
(* takes long.  What the process really did is kept in the ghosts          *)
(* performed and delivered, of which the controller only learns through    *)
(* the replies it gets.  An observe-only session is the instance with      *)
(* Granted = {}: it refuses every command.                                 *)
(***************************************************************************)
EXTENDS Naturals, SequencesExt

CONSTANTS
  Others,        \* further controllers bound to the same spec digest
  Commands,      \* the commands callers may submit: records with fields key
                 \* (idempotency key), seq, expects, kind, cost and treats
  Granted,       \* kinds of command the allowlist, authority and plugins admit
  Unplugged,     \* granted kinds whose plugin is not bound to the session
  Updates,       \* the mobility updates they may submit, with fields id and seq
  MaxCommands, MaxCost,    \* the session's budgets
  NoReceipt

ASSUME LiveTwinAssumption ==
  /\ MaxCommands \in Nat /\ MaxCost \in Nat
  /\ \A c \in Commands : c.seq \in Nat /\ c.cost \in Nat /\ c.treats \in BOOLEAN
  /\ \A u \in Updates : u.seq \in Nat

VARIABLES
  active,        \* the digest is in _ACTIVE_SESSION_DIGESTS
  others,        \* where each other controller stands
  owned, state,  \* this controller's ownership flag and session state
  process,       \* its control process
  ledger,        \* commands applied, in order
  updates,       \* mobility updates applied, in order
  cost,          \* estimated cost of the applied commands
  external,      \* an external effect was reported
  deviations,    \* kinds of deviation noted so far
  receipt,       \* the terminal receipt
  performed,     \* ghost: commands the process carried out, with their effect
  spent,         \* ghost: what they cost
  delivered      \* ghost: updates the process carried out

session == <<owned, state, process, ledger, updates, cost, external, deviations, receipt>>
ghosts == <<performed, spent, delivered>>
vars == <<active, others, session, ghosts>>

Live == {"running", "paused"}
Deviations == {"delivery", "treatment", "protocol", "termination", "withheld"}

\* An event that its sink does not accept is noted; one whose publication
\* raises ends the call there and leaves no note.
Told(noted) == {noted, noted \union {"delivery"}}

Init ==
  /\ active = FALSE
  /\ others = [o \in Others |-> "prepared"]
  /\ owned = FALSE /\ state = "prepared" /\ process = "none"
  /\ ledger = <<>> /\ updates = <<>> /\ cost = 0 /\ external = FALSE
  /\ deviations = {} /\ receipt = NoReceipt
  /\ performed = <<>> /\ spent = 0 /\ delivered = <<>>

-----------------------------------------------------------------------------
(* Ending a session.                                                       *)

\* The receipt is built first; whether its own event was delivered is noted
\* after that.
EmitReceipt(final, noted) ==
  /\ receipt' = [final |-> final, commands |-> Len(ledger), updates |-> Len(updates),
                 cost |-> cost, deviations |-> noted, external |-> external]
  /\ deviations' \in Told(noted)

\* The process's terminate() raises, or returns: that says nothing certain of
\* the process, since the local transport swallows a signal it may not send and
\* a process that outlives the kill.
TerminateProcess(returned) == process' \in IF returned THEN {process, "dead"} ELSE {process}

FailSafeStop(noted) ==
  \E returned \in BOOLEAN :
    /\ TerminateProcess(returned)
    /\ state' = "refused"
    /\ active' = FALSE
    /\ EmitReceipt("refused", IF returned THEN noted ELSE noted \union {"termination"})
    /\ UNCHANGED <<others, owned, ledger, updates, cost, external>>

-----------------------------------------------------------------------------
(* Starting.                                                               *)

\* Mutant: a start refused because the digest is owned takes the failure path.
ClaimOrRefuse ==
  /\ ~ owned /\ state = "prepared"
  /\ \/ ~ active /\ active' = TRUE /\ owned' = TRUE /\ UNCHANGED <<state, deviations, receipt>>
     \/ active /\ active' = FALSE /\ state' = "refused" /\ EmitReceipt("refused", deviations) /\ UNCHANGED owned
  /\ UNCHANGED <<others, process, ledger, updates, cost, external, ghosts>>

Claim ==
  /\ ~ owned /\ state = "prepared" /\ ~ active
  /\ active' = TRUE /\ owned' = TRUE
  /\ UNCHANGED <<others, state, process, ledger, updates, cost, external, deviations, receipt, ghosts>>

FactoryStarts ==
  /\ owned /\ state = "prepared"
  /\ process' = "alive" /\ state' = "running"
  /\ deviations' \in Told(deviations)
  /\ UNCHANGED <<active, others, owned, ledger, updates, cost, external, receipt, ghosts>>

FactoryFails ==
  /\ owned /\ state = "prepared"
  /\ active' = FALSE /\ state' = "refused"
  /\ EmitReceipt("refused", deviations)
  /\ UNCHANGED <<others, owned, process, ledger, updates, cost, external, ghosts>>

\* The same start and stop, as another controller of the digest makes them.
OtherClaims(o) ==
  /\ others[o] = "prepared" /\ ~ active
  /\ active' = TRUE
  /\ others' = [others EXCEPT ![o] = "owning"]
  /\ UNCHANGED <<session, ghosts>>

OtherEnds(o) ==
  /\ others[o] = "owning"
  /\ active' = FALSE
  /\ others' = [others EXCEPT ![o] = "ended"]
  /\ UNCHANGED <<session, ghosts>>

-----------------------------------------------------------------------------
(* Calls on a live session.  Every one first checks the process's health   *)
(* and the wall clock, and announces the heartbeat.                        *)

ProcessDies ==
  /\ process = "alive"
  /\ process' = "dead"
  /\ UNCHANGED <<active, others, owned, state, ledger, updates, cost, external, deviations, receipt, ghosts>>

\* The wall clock ran out, the heartbeat is lost, or the check itself raised.
HealthFails ==
  /\ state \in Live
  /\ \E noted \in {deviations, deviations \union {"protocol"}} : FailSafeStop(noted)
  /\ UNCHANGED ghosts

Healthy == state \in Live /\ process = "alive"

\* A call that raises before it reaches the process, an idempotent retry, or
\* a process refusal that does not end the session.
NothingApplied(noted) ==
  /\ deviations' = noted
  /\ UNCHANGED <<active, others, owned, state, process, ledger, updates, cost, external, receipt, ghosts>>

ReadSnapshot ==
  /\ Healthy
  /\ \E heard \in Told(deviations) :
       \/ \E noted \in Told(heard) : NothingApplied(noted)
       \/ \* a failing read, private content, or the simulation budget
          /\ \E noted \in {heard, heard \union {"protocol"}} : FailSafeStop(noted)
          /\ UNCHANGED ghosts

Bound(key) == {c \in ToSet(ledger) : c.key = key}

\* Mutant: the idempotency record is looked up but a changed command passes.
AcceptsReusedKey(c) == c \notin ToSet(ledger) /\ c.seq = Len(ledger) + 1 /\ c.expects = state /\ c.kind \in Granted

\* The checks of apply_command up to the budgets; a retry of an applied
\* command, or one that reuses its key, never gets past them.
Acceptable(c) ==
  /\ Bound(c.key) = {}
  /\ c.seq = Len(ledger) + 1
  /\ c.expects = state
  /\ c.kind \in Granted

\* Mutant: the cost is compared before the command is counted.
CostBudgetLate(c) == Len(ledger) >= MaxCommands \/ cost > MaxCost

OverBudget(c) == Len(ledger) >= MaxCommands \/ cost + c.cost > MaxCost

\* Mutant: the state is switched before the process is asked.
RefuseSwitched(c) ==
  /\ Healthy
  /\ Acceptable(c) => ~ OverBudget(c)
  /\ state' = IF Acceptable(c) /\ c.kind = "pause" THEN "paused" ELSE state
  /\ deviations' \in Told(deviations)
  /\ UNCHANGED <<active, others, owned, process, ledger, updates, cost, external, receipt, ghosts>>

RefuseCommand(c) ==
  /\ Healthy
  /\ Acceptable(c) => ~ OverBudget(c)
  /\ \E noted \in Told(deviations) : NothingApplied(noted)

BreachBudget(c) ==
  /\ Healthy /\ Acceptable(c) /\ OverBudget(c)
  /\ \E heard \in Told(deviations) : FailSafeStop(heard)
  /\ UNCHANGED ghosts

Sent(c) == Healthy /\ Acceptable(c) /\ ~ OverBudget(c) /\ c.kind \notin Unplugged

StateAfter(kind, before) ==
  CASE kind = "pause"  -> "paused"
    [] kind = "resume" -> "running"
    [] OTHER           -> before

\* What the process does when it carries the command out.
Performs(c, effect) ==
  /\ performed' = Append(performed, [command |-> c, external |-> effect])
  /\ spent' = spent + c.cost

Noting(c, heard) == IF c.treats THEN heard \union {"treatment"} ELSE heard

\* The process carried the command out and said so.
ApplyCommand(c, effect) ==
  /\ Sent(c)
  /\ state' = StateAfter(c.kind, state)
  /\ ledger' = Append(ledger, c)
  /\ cost' = cost + c.cost
  /\ external' = (external \/ effect)
  /\ Performs(c, effect)
  /\ \E heard \in Told(deviations) : deviations' \in Told(Noting(c, heard))
  /\ UNCHANGED <<active, others, owned, process, updates, receipt, delivered>>

\* Mutant: the failure ends the session but is not noted.
CommandLostSilently(c, effect) ==
  /\ Sent(c)
  /\ Performs(c, effect) \/ UNCHANGED <<performed, spent>>
  /\ \E heard \in Told(deviations) : FailSafeStop(heard)
  /\ UNCHANGED delivered

\* The process failed, or the reply was lost: the command may have been done.
CommandLost(c, effect) ==
  /\ Sent(c)
  /\ Performs(c, effect) \/ UNCHANGED <<performed, spent>>
  /\ \E heard \in Told(deviations) : FailSafeStop(heard \union {"protocol"})
  /\ UNCHANGED delivered

NextUpdate(u) ==
  /\ \A v \in ToSet(updates) : v.id # u.id
  /\ u.seq = Len(updates) + 1

\* A stale update, or one of another schema, is refused like any other.
RefuseUpdate ==
  /\ Healthy
  /\ \E noted \in Told(deviations) : NothingApplied(noted)

ApplyUpdate(u, effect) ==
  /\ Healthy /\ NextUpdate(u)
  /\ updates' = Append(updates, u)
  /\ external' = (external \/ effect)
  /\ delivered' = Append(delivered, [update |-> u, external |-> effect])
  /\ \E heard \in Told(deviations) : deviations' \in Told(heard)
  /\ UNCHANGED <<active, others, owned, state, process, ledger, cost, receipt, performed, spent>>

UpdateLost(u, effect) ==
  /\ Healthy /\ NextUpdate(u)
  /\ delivered' \in {delivered, Append(delivered, [update |-> u, external |-> effect])}
  /\ \E heard \in Told(deviations) : FailSafeStop(heard \union {"protocol"})
  /\ UNCHANGED <<performed, spent>>

\* A reason with private content is replaced, and that is noted first.
Withheld == {deviations, deviations \union {"withheld"}}

StopAgain ==
  /\ state # "prepared"
  /\ \E noted \in Withheld, returned \in BOOLEAN :
       /\ TerminateProcess(returned)
       /\ state' = IF returned THEN "completed" ELSE "refused"
       /\ active' = FALSE
       /\ EmitReceipt(state', IF returned THEN noted ELSE noted \union {"termination"})
  /\ UNCHANGED <<others, owned, ledger, updates, cost, external, ghosts>>

Stop ==
  /\ state \in Live
  /\ \E noted \in Withheld, returned \in BOOLEAN :
       /\ TerminateProcess(returned)
       /\ state' = IF returned THEN "completed" ELSE "refused"
       /\ active' = FALSE
       /\ EmitReceipt(state', IF returned THEN noted ELSE noted \union {"termination"})
  /\ UNCHANGED <<others, owned, ledger, updates, cost, external, ghosts>>

\* With no live session stop only answers the receipt there is, or raises.
StopIdle ==
  /\ state \notin Live
  /\ \E noted \in Withheld : NothingApplied(noted)

-----------------------------------------------------------------------------

Next ==
  \/ Claim \/ FactoryStarts \/ FactoryFails
  \/ ProcessDies \/ HealthFails \/ ReadSnapshot \/ RefuseUpdate \/ Stop \/ StopIdle
  \/ \E o \in Others : OtherClaims(o) \/ OtherEnds(o)
  \/ \E c \in Commands : RefuseCommand(c) \/ BreachBudget(c)
  \/ \E c \in Commands, effect \in BOOLEAN : ApplyCommand(c, effect) \/ CommandLost(c, effect)
  \/ \E u \in Updates, effect \in BOOLEAN : ApplyUpdate(u, effect) \/ UpdateLost(u, effect)

Spec == Init /\ [][Next]_vars

-----------------------------------------------------------------------------
(* What must hold.                                                         *)

Receipts ==
  [final : {"completed", "refused"}, commands : 0 .. MaxCommands, updates : Nat,
   cost : 0 .. MaxCost, deviations : SUBSET Deviations, external : BOOLEAN]

ASSUME NoReceiptAssumption == NoReceipt \notin Receipts

TypeOK ==
  /\ active \in BOOLEAN /\ owned \in BOOLEAN
  /\ others \in [Others -> {"prepared", "owning", "ended"}]
  /\ state \in {"prepared", "running", "paused", "completed", "refused"}
  /\ process \in {"none", "alive", "dead"}
  /\ ledger \in Seq(Commands) /\ Len(ledger) <= MaxCommands
  /\ updates \in Seq(Updates)
  /\ cost \in 0 .. MaxCost /\ external \in BOOLEAN
  /\ deviations \in SUBSET Deviations
  /\ receipt \in Receipts \union {NoReceipt}
  /\ spent \in Nat
  /\ performed \in Seq([command : Commands, external : BOOLEAN])
  /\ delivered \in Seq([update : Updates, external : BOOLEAN])

Owning == owned /\ receipt = NoReceipt

\* "Exactly one controller owns a session": the digest is registered exactly
\* while one controller is between its start and its receipt, so nobody's
\* refusal or end can release a digest that somebody else still holds.
OwnershipTracked ==
  LET owning == {o \in Others : others[o] = "owning"} IN
  /\ active <=> Owning \/ owning # {}
  /\ Owning => owning = {}
  /\ \A o, p \in owning : o = p

\* Commands and updates are idempotent at the process: across retries, lost
\* replies, reused keys and refusals nothing is carried out twice.
AppliedOnce ==
  /\ \A i, j \in DOMAIN performed :
       performed[i].command.key = performed[j].command.key => i = j
  /\ \A i, j \in DOMAIN delivered : delivered[i].update.id = delivered[j].update.id => i = j

Spent(commands) ==
  LET sum[n \in 0 .. Len(commands)] == IF n = 0 THEN 0 ELSE sum[n - 1] + commands[n].cost
  IN  sum[Len(commands)]

Done == [i \in DOMAIN performed |-> performed[i].command]

\* The command and cost budgets bound what the process did, the command whose
\* reply was lost included, and not only what the controller has on record.
WithinBudgets == Len(performed) <= MaxCommands /\ spent <= MaxCost

Replay(commands) ==
  LET after[n \in 0 .. Len(commands)] ==
        IF n = 0 THEN "running" ELSE StateAfter(commands[n].kind, after[n - 1])
  IN  after[Len(commands)]

\* The ledger explains the session: replayed from the start it leads to the
\* state the controller reports, each command was applied in the state it
\* expected, and the process did exactly what is on the ledger.
LedgerReplays ==
  /\ state \in Live => state = Replay(ledger) /\ Done = ledger
  /\ \A i \in DOMAIN ledger :
       ledger[i].seq = i /\ ledger[i].expects = Replay(SubSeq(ledger, 1, i - 1))

Effects == \/ \E i \in DOMAIN performed : performed[i].external
           \/ \E i \in DOMAIN delivered : delivered[i].external
Treated == \E i \in DOMAIN performed : performed[i].command.treats

\* The terminal receipt accounts for everything the process did: its counts,
\* cost, treatment changes and external effects are complete, except for at
\* most the one operation whose reply was lost, and then the receipt is a
\* refusal that says the control protocol failed.
ReceiptAccounts ==
  receipt # NoReceipt =>
    LET lost == Len(performed) + Len(delivered) - (receipt.commands + receipt.updates)
    IN  /\ IsPrefix(ledger, Done) /\ receipt.cost = Spent(ledger)
        /\ receipt.commands = Len(ledger) /\ receipt.updates = Len(updates)
        /\ lost \in {0, 1}
        /\ \/ lost = 1 /\ receipt.final = "refused" /\ "protocol" \in receipt.deviations
           \/ /\ lost = 0
              /\ receipt.external <=> Effects
              /\ Treated <=> "treatment" \in receipt.deviations

\* A session ends once: after its receipt no call changes the receipt, the
\* state or the ledger, or has the process do anything, not even if the
\* process is still there.
TerminalIsFinal ==
  [][receipt # NoReceipt => UNCHANGED <<receipt, state, ledger, updates, ghosts>>]_vars
=============================================================================
