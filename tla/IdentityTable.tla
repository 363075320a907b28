----------------------------- MODULE IdentityTable -----------------------------
(***************************************************************************)
(* What the agent identity file promises its callers: a table of rows that *)
(* changes by one whole operation at a time, whoever the callers are.  A   *)
(* row is registered under a key the table does not have, or one field of  *)
(* one row is edited; a row is never dropped, duplicated or overwritten by *)
(* an older copy of itself.  A save that stops short may lose the table.   *)
(* IdentityStore implements this module.                                   *)
(***************************************************************************)
EXTENDS Naturals, Sequences

CONSTANT Initial  \* the rows at the start
VARIABLE table

KeysOf(rows) == {rows[i].key : i \in 1..Len(rows)}

Register ==
    /\ Len(table') = Len(table) + 1
    /\ SubSeq(table', 1, Len(table)) = table
    /\ table'[Len(table')].key \notin KeysOf(table)

Edit ==
    /\ Len(table') = Len(table)
    /\ \E i \in 1..Len(table) :
          \/ table' = [table EXCEPT ![i].path = table'[i].path]
          \/ table' = [table EXCEPT ![i].revoked = table'[i].revoked]
          \/ table' = [table EXCEPT ![i].grant = table'[i].grant]

Lose == table' = <<>>

Next == Register \/ Edit \/ Lose

Spec == table = Initial /\ [][Next]_table

================================================================================
