--------------------------- MODULE MCIdentifiers ---------------------------
EXTENDS Identifiers

\* A reader and the loop share identifiers only, which neither changes: readers
\* are explored beside deliveries that were not claimed yet.
ReaderAlone ==
  reader.from # {} => next = 0 /\ \A i \in Rows : rows[i].state = "pending"

=============================================================================
