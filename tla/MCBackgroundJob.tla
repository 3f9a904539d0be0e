--------------------------- MODULE MCBackgroundJob ---------------------------
(* Two queries, two children, whose process ids are used again, and one    *)
(* other holder of the writer lock.                                        *)
EXTENDS BackgroundJob
=============================================================================
