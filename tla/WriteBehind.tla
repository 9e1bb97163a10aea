---------------------------- MODULE WriteBehind ----------------------------
(***************************************************************************)
(* What AsyncDataRepository promises its callers, without its queues, its  *)
(* thread and its retries: an accepted save is written or given up exactly *)
(* once, saves of one kind in the order they were accepted, and the status *)
(* of a run never before the data that was accepted before it.             *)
(***************************************************************************)
EXTENDS Naturals, Sequences

CONSTANT MaxItems   \* bound: how many saves are accepted

VARIABLES
  accepted,   \* the kinds of the accepted saves, in order: save i is item i
  written,    \* the items stored in the inner repository, write by write
  dropped,    \* items given up
  closed      \* the repository is gone

wbVars == <<accepted, written, dropped, closed>>

Kind == {"point", "result", "status"}

Items == 1..Len(accepted)

Stored == {written[n] : n \in DOMAIN written}

Handled == Stored \cup dropped

\* Item i may be the next to reach the inner repository.
Ready(i) ==
  /\ i \in Items \ Handled
  /\ \A j \in 1..(i - 1) :
       accepted[j] = accepted[i] \/ accepted[i] = "status" => j \in Handled

Init ==
  /\ accepted = <<>>
  /\ written = <<>>
  /\ dropped = {}
  /\ closed = FALSE

Accept ==
  /\ ~closed
  /\ Len(accepted) < MaxItems
  /\ \E k \in Kind : accepted' = Append(accepted, k)
  /\ UNCHANGED <<written, dropped, closed>>

Write ==
  /\ \E i \in Items : Ready(i) /\ written' = Append(written, i)
  /\ UNCHANGED <<accepted, dropped, closed>>

GiveUp ==
  /\ \E i \in Items : Ready(i) /\ dropped' = dropped \cup {i}
  /\ UNCHANGED <<accepted, written, closed>>

\* The repository goes away only when nothing accepted is outstanding.
Close ==
  /\ ~closed
  /\ Items \subseteq Handled
  /\ closed' = TRUE
  /\ UNCHANGED <<accepted, written, dropped>>

Next == Accept \/ Write \/ GiveUp \/ Close

Spec == Init /\ [][Next]_wbVars
=============================================================================
