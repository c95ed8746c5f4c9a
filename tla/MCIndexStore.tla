---------------------------- MODULE MCIndexStore ----------------------------
(* Model values for IndexStore: two files of two contents and a watcher.   *)
EXTENDS IndexStore

CONSTANTS f1, f2, v1, v2

MCFiles == {f1, f2}
MCContents == {v1, v2}
MCNoTools == {}
=============================================================================
