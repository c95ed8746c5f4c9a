---------------------------- MODULE MCIndexReader ----------------------------
(* Model values for IndexReader: two files of two contents, a watcher, one *)
(* other writer and a reader.  Files are alike, and so are their contents. *)
EXTENDS IndexReader, TLC

CONSTANTS f1, f2, v1, v2, t1

MCFiles == {f1, f2}
MCContents == {v1, v2}
MCTool == {t1}
MCSymmetry == Permutations(MCFiles) \cup Permutations(MCContents)
=============================================================================
