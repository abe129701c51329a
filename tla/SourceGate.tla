----------------------------- MODULE SourceGate -----------------------------
(***************************************************************************)
(* What a controlled live refresh promises about one external source,      *)
(* whatever locks, files and processes implement it.                       *)
(*                                                                         *)
(* The source may be asked only on behalf of an attempt that was put on    *)
(* record first, at most once per attempt, and attempts are opened at      *)
(* least MinInterval apart.  An attempt that is abandoned (its process is  *)
(* gone) stays open until the next one opens, which counts it as failed;   *)
(* an attempt succeeds only after its source request was made.             *)
(*                                                                         *)
(* BodsLiveControl implements this specification under a refinement        *)
(* mapping; see THEOREM GateImplemented in BodsLiveControlProofs.          *)
(***************************************************************************)
EXTENDS Naturals, Sequences

CONSTANTS
  MinInterval,   \* least distance between the stamps of two attempts
  NoTime         \* the stamp of a gate that was never used

VARIABLES
  attempts, successes, failures,   \* lifetime totals on record
  last,                            \* stamp of the last recorded attempt
  open,                            \* the last attempt has no outcome yet
  sent                             \* stamps of the attempts that asked the source

gateVars == <<attempts, successes, failures, last, open, sent>>

Asked == sent # <<>> /\ sent[Len(sent)] = last

GateInit ==
  /\ attempts = 0 /\ successes = 0 /\ failures = 0
  /\ last = NoTime
  /\ open = FALSE
  /\ sent = <<>>

\* A new attempt is recorded; an abandoned predecessor becomes a failure.
Open ==
  /\ attempts' = attempts + 1
  /\ failures' = IF open THEN failures + 1 ELSE failures
  /\ last' \in Nat
  /\ last # NoTime => last' >= last + MinInterval
  /\ open' = TRUE
  /\ UNCHANGED <<successes, sent>>

\* The recorded attempt reaches the source, once.
Ask ==
  /\ open /\ ~Asked
  /\ sent' = Append(sent, last)
  /\ UNCHANGED <<attempts, successes, failures, last, open>>

Succeed ==
  /\ open /\ Asked
  /\ open' = FALSE
  /\ successes' = successes + 1
  /\ UNCHANGED <<attempts, failures, last, sent>>

Fail ==
  /\ open
  /\ open' = FALSE
  /\ failures' = failures + 1
  /\ UNCHANGED <<attempts, successes, last, sent>>

GateNext == Open \/ Ask \/ Succeed \/ Fail

GateSpec == GateInit /\ [][GateNext]_gateVars

=============================================================================
