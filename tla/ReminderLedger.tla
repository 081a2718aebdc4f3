--------------------------- MODULE ReminderLedger ---------------------------
(***************************************************************************)
(* What the reminder pipeline promises of each reminder, whatever the      *)
(* number of jobs that carry it: an attempt opens only while the reminder  *)
(* is unsettled, only an open attempt mails, a reminder is settled once    *)
(* and for ever, and as SENT only by an attempt of a job that mailed.      *)
(* Two open attempts may both mail: that much is not promised.             *)
(***************************************************************************)
EXTENDS Integers

CONSTANTS
    Attempts,     \* the jobs
    Reminders,    \* the keys
    Unassigned    \* the reminder of an attempt that has none yet

VARIABLES
    reminder,     \* the reminder an attempt is for
    opened,       \* attempts that found their reminder unsettled
    delivered,    \* messages delivered for each attempt
    sent,         \* reminders settled as SENT
    suppressed    \* reminders settled as SUPPRESSED

vars == <<reminder, opened, delivered, sent, suppressed>>

Settled == sent \cup suppressed

Init ==
    /\ reminder = [a \in Attempts |-> Unassigned]
    /\ opened = {}
    /\ delivered = [a \in Attempts |-> 0]
    /\ sent = {} /\ suppressed = {}

Assign(a) ==
    /\ reminder[a] = Unassigned
    /\ reminder'[a] \in Reminders
    /\ reminder' = [reminder EXCEPT ![a] = reminder'[a]]
    /\ UNCHANGED <<opened, delivered, sent, suppressed>>

Open(a) ==
    /\ reminder[a] \in Reminders \ Settled
    /\ opened' = opened \cup {a}
    /\ UNCHANGED <<reminder, delivered, sent, suppressed>>

\* The mail server takes the message; the attempt may or may not learn of it.
Mail(a) ==
    /\ a \in opened
    /\ delivered' = [delivered EXCEPT ![a] = @ + 1]
    /\ UNCHANGED <<reminder, opened, sent, suppressed>>

Settle(a) ==
    /\ a \in opened
    /\ reminder[a] \notin Settled
    /\ opened' = opened \ {a}
    /\ \/ /\ delivered[a] > 0
          /\ sent' = sent \cup {reminder[a]}
          /\ UNCHANGED suppressed
       \/ suppressed' = suppressed \cup {reminder[a]} /\ UNCHANGED sent
    /\ UNCHANGED <<reminder, delivered>>

\* Attempts end without settling anything: rejected, overtaken or crashed.
GiveUp(A) ==
    /\ opened' = opened \ A
    /\ UNCHANGED <<reminder, delivered, sent, suppressed>>

Next ==
    \/ \E a \in Attempts : Assign(a) \/ Open(a) \/ Mail(a) \/ Settle(a)
    \/ \E A \in SUBSET opened : GiveUp(A)

Spec == Init /\ [][Next]_vars
=============================================================================
