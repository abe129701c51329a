------------------------------ MODULE SealedLog ------------------------------
(***************************************************************************)
(* What the operational history promises, without files, locks or clocks:  *)
(* entries are recorded once and for ever in one order, and each day is    *)
(* sealed at most once, with entries of that day which form an initial     *)
(* part of those recorded for it.                                          *)
(***************************************************************************)
EXTENDS Naturals, Sequences

CONSTANTS
  Entries,       \* what may be recorded
  Days,
  DayOf,         \* the day each entry belongs to
  Unsealed

VARIABLES
  log,           \* the entries recorded, in order
  sealed         \* for each day the entries it was sealed with, or Unsealed

logVars == <<log, sealed>>

EntriesOf(l, d) == {e \in {l[i] : i \in DOMAIN l} : DayOf[e] = d}

LogInit == log = <<>> /\ sealed = [d \in Days |-> Unsealed]

Record(e) ==
  /\ \A i \in DOMAIN log : log[i] # e
  /\ log' = Append(log, e)
  /\ UNCHANGED sealed

Seal(d) ==
  /\ sealed[d] = Unsealed
  /\ \E n \in 0 .. Len(log) :
       sealed' = [sealed EXCEPT ![d] = EntriesOf([i \in 1 .. n |-> log[i]], d)]
  /\ UNCHANGED log

LogNext ==
  \/ \E e \in Entries : Record(e)
  \/ \E d \in Days : Seal(d)

LogSpec == LogInit /\ [][LogNext]_logVars
=============================================================================
