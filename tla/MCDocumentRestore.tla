-------------------------- MODULE MCDocumentRestore --------------------------
\* The restore of a document's version on a small instance.
EXTENDS DocumentRestore, TLC

\* Edits are interchangeable.
Symmetry == Permutations(Edit)
=============================================================================
