----------------------------- MODULE MCXnnBackend -----------------------------
(***************************************************************************)
(* Small instances of XnnBackend.                                          *)
(***************************************************************************)
EXTENDS XnnBackend

CONSTANTS t1, t2, p1, empty, none

MCThreads == {t1, t2}
MCSlots == {"global", "program"}
MCPaths == {p1}

\* Each way to share a workspace, one cache used through two workspaces, and a
\* delegate without a cache.
MCRequests == {[slot |-> "global", path |-> None], [slot |-> "program", path |-> p1],
               [slot |-> None, path |-> p1]}
=============================================================================
