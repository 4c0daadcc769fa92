----------------------------- MODULE MCWalFile ------------------------------
EXTENDS WalFile

\* No compression; compression that makes a record larger, and one that gains
\* exactly the size cell.
MCLayouts == {[compressed |-> FALSE, packed |-> 2],
              [compressed |-> TRUE, packed |-> 3],
              [compressed |-> TRUE, packed |-> 1]}
MCPlain == {[compressed |-> FALSE, packed |-> 2]}
MCOps == {"Insert", "Update", "Delete", "Schema", "Checkpoint"}
MCInserts == {"Insert"}
=============================================================================
