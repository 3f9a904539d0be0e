-------------------------- MODULE MCIndexSnapshot --------------------------
EXTENDS IndexSnapshot, TLC

Symmetry == Permutations(Files) \cup Permutations(Procs) \cup Permutations(Inodes)

\* A file is edited once and stays a text.
Texts(f, v) == "text"

\* A file is indexed, grows above the size cap and is broken.
Troubled(f, v) == CASE v = 2 -> "large" [] v = 3 -> "broken" [] OTHER -> "text"
=============================================================================
