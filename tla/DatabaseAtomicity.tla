-------------------------- MODULE DatabaseAtomicity --------------------------
(***************************************************************************)
(* Storage, with all its tasks, seen as the store of AtomicStore: a        *)
(* dataset exists when it has a label, and what the writer reads of its    *)
(* chunks are their headers.                                               *)
(***************************************************************************)
EXTENDS Database

Store == INSTANCE AtomicStore WITH exists <- label, headers <- Headers(chunks)

\* Storage keeps the promise the writer relies on: chunks change by whole
\* transactions on the current chunks (update_dataset, DatasetCompaction).
ImplementsAtomicStore == Store!Spec
=============================================================================
