----------------------------- MODULE AuditChain -----------------------------
(***************************************************************************)
(* The hash chain of the table events (storage/sqlite.py): the rows that   *)
(* append_event makes of the journal, and verify_audit_chain, one of the   *)
(* checks behind the readiness gate persistence_healthy.                   *)
(*                                                                         *)
(* SHA-256 is taken as injective: the digest of a row stands for the       *)
(* sequence of contents it covers, its own and those of all rows before.   *)
(* The columns of a row are one value; its digest covers all of them.      *)
(***************************************************************************)
EXTENDS Store, SequencesExt

Genesis == << >>   \* "0" * 64

\* Mutant: the quantities, a part of payload_json, are not in the digest.
DigestWithoutQuantity(content, previous) ==
    Append(previous, [content EXCEPT !.quantity = 0])

Digest(content, previous) == Append(previous, content)

\* Mutant: the rows are read without ORDER BY sequence DESC.
FirstHash(rows) == IF rows = << >> THEN Genesis ELSE rows[1].hash

LastHash(rows) == IF rows = << >> THEN Genesis ELSE Last(rows).hash

Row(content, previous) ==
    [content |-> content, previous |-> previous,
     hash |-> Digest(content, previous)]

\* append_event: the last hash is read in the transaction that inserts.
AppendEvent(rows, content) == Append(rows, Row(content, LastHash(rows)))

\* The table events: what append_event made of the journal, row by row.
Events == FoldLeft(AppendEvent, << >>, journal)

\* Mutant: a row is compared with its own digest only.
VerifiesRowByRow(rows) ==
    \A n \in DOMAIN rows :
       rows[n].hash = Digest(rows[n].content, rows[n].previous)

\* verify_audit_chain
Verifies(rows) ==
    \A n \in DOMAIN rows :
       /\ rows[n].previous = LastHash(SubSeq(rows, 1, n - 1))
       /\ rows[n].hash = Digest(rows[n].content, rows[n].previous)

-----------------------------------------------------------------------------
(* Damage to a stored row, and what is left of the table *)

Altered(content) == [content EXCEPT !.quantity = @ + 1]

\* The content of row n changes, and the row is written with a fresh digest.
Rewritten(rows, n) ==
    [rows EXCEPT ![n] = Row(Altered(rows[n].content), rows[n].previous)]

Swapped(rows, n) == [rows EXCEPT ![n] = rows[n + 1], ![n + 1] = rows[n]]

\* Every loss, change or exchange of one row, but for those at the end of the
\* table that leave a chain which is only shorter, or ends differently.
Damaged(rows) ==
    {[rows EXCEPT ![n].content = Altered(@)] : n \in DOMAIN rows}
    \cup UNION {{RemoveAt(rows, n), Rewritten(rows, n), Swapped(rows, n)} :
                  n \in DOMAIN rows \ {Len(rows)}}

(* The check behind persistence_healthy tells damage from the writers' own *)
(* work: the table verifies after every transaction, whichever service     *)
(* wrote last, and once a row was changed, removed or exchanged with its   *)
(* neighbour it does not, nor do events appended afterwards repair it.     *)
(* Rows missing at the end are the exception: nothing refers to the last.  *)
ChainTellsDamage ==
    /\ Verifies(Events)
    /\ \A rows \in Damaged(Events) :
          /\ ~ Verifies(rows)
          /\ journal # << >> => ~ Verifies(AppendEvent(rows, journal[1]))

=============================================================================
