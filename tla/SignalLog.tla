------------------------------ MODULE SignalLog ------------------------------
(***************************************************************************)
(* What signal persistence promises: signals are emitted in order and wait *)
(* in line; a run of them from the front of the line is either stored, in  *)
(* that order, or given up.  So what is stored is never reordered, never   *)
(* repeated, and never overtakes an earlier signal that is still waiting.  *)
(***************************************************************************)
EXTENDS Naturals, Sequences

VARIABLES
    emitted,     \* how many signals have been emitted; they are 1, 2, ...
    line,        \* the signals that wait
    stored       \* the signals in the database, in insertion order

vars == <<emitted, line, stored>>

Init == emitted = 0 /\ line = <<>> /\ stored = <<>>

Emit ==
    /\ emitted' = emitted + 1
    /\ line' = Append(line, emitted')
    /\ UNCHANGED stored

\* The first n signals leave the line, to the database or to nowhere.
Store(n) ==
    /\ stored' = stored \o SubSeq(line, 1, n)
    /\ line' = SubSeq(line, n + 1, Len(line))
    /\ UNCHANGED emitted

GiveUp(n) ==
    /\ line' = SubSeq(line, n + 1, Len(line))
    /\ UNCHANGED <<emitted, stored>>

Next ==
    \/ Emit
    \/ \E n \in 1..Len(line) : Store(n) \/ GiveUp(n)

Spec == Init /\ [][Next]_vars
=============================================================================
