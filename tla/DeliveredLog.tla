----------------------------- MODULE DeliveredLog -----------------------------
(***************************************************************************)
(* What the audit trail promises its readers: a log that only grows, at    *)
(* its end, and that holds each admitted event exactly once and in the     *)
(* order of admission.  AuditOutbox implements it with an SQLite outbox, a *)
(* delivery thread and a PostgreSQL table.                                 *)
(***************************************************************************)
EXTENDS Naturals, Sequences

CONSTANT Event

VARIABLES
  admitted,   \* the events the program admitted, oldest first
  log         \* the events a reader of the table sees, in the order of their ids

Init == admitted = <<>> /\ log = <<>>

Admit(e) ==
  /\ \A i \in DOMAIN admitted : admitted[i] # e
  /\ admitted' = Append(admitted, e)
  /\ UNCHANGED log

\* A transaction makes a run of further events visible at once.
Publish(n) ==
  /\ n > Len(log)
  /\ log' = SubSeq(admitted, 1, n)
  /\ UNCHANGED admitted

Next ==
  \/ \E e \in Event : Admit(e)
  \/ \E n \in 1 .. Len(admitted) : Publish(n)

Spec == Init /\ [][Next]_<<admitted, log>>
===============================================================================
