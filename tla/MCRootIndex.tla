--------------------------- MODULE MCRootIndex ---------------------------
(* RootIndex with model values, for TLC. *)
EXTENDS RootIndex

\* A server that has been up for a while: the index is ready and current.
Warm ==
    /\ disk \in [Files -> Contents \ Panics]
    /\ \A f, g \in Files : disk[f] = disk[g]
    /\ edits = 0 /\ had = [f \in Files |-> {disk[f]}]
    /\ sealed = TRUE /\ seen = disk /\ repaired = {} /\ queue = NoChange
    /\ batch = NoChange /\ repair = [q \in Queries |-> NoChange]
    /\ query = [q \in Queries |-> "idle"]
    /\ index = "ready" /\ graph = disk
    /\ cold = "done" /\ coldRead = NothingRead
    /\ rebuild = "idle" /\ rebuildRead = NothingRead
    /\ owner = "nobody" /\ job = Idle
    /\ pending = NoChange /\ journal = NoChange /\ unapplied = NoChange /\ inRebuild = NoChange
WarmSpec == Warm /\ [][Next]_vars
=============================================================================
