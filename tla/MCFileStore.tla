----------------------------- MODULE MCFileStore -----------------------------
(* Instances of FileStore for model checking. *)
EXTENDS FileStore

CONSTANTS c1, c2, d1, d2

\* two versions of one chunk, and a batch with both chunks
ThreeBatches ==
  { [i \in Chunk |-> IF i = c1 THEN d1 ELSE None],
    [i \in Chunk |-> IF i = c1 THEN d2 ELSE None],
    [i \in Chunk |-> d1] }

=============================================================================
