----------------------------- MODULE MCLibrary -----------------------------
EXTENDS Library, TLC

\* Each path is under a collection of its own.
Apart == {{p} : p \in Path}

\* Paths are alike, and so are contents.
Alike == Permutations(Path) \cup Permutations(Content)
=============================================================================
