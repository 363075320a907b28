----------------------------- MODULE AppendOnlyLog -----------------------------
(***************************************************************************)
(* What an audit trail promises its reader: a log that only grows, one     *)
(* entry at a time, at its end, or loses its last entries.                 *)
(***************************************************************************)
EXTENDS Naturals, Sequences

CONSTANTS Entries, Initial
VARIABLE log

Init == log = Initial

Write(e) == log' = Append(log, e)

Cut == \E n \in 0..Len(log) : log' = SubSeq(log, 1, n)

Next == Cut \/ \E e \in Entries : Write(e)

Spec == Init /\ [][Next]_log
================================================================================
