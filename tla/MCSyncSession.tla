--------------------------- MODULE MCSyncSession ---------------------------
(***************************************************************************)
(* SyncSession for TLC: updates and handler slots are interchangeable. The *)
(* view forgets what nothing reads before it is overwritten: a document    *)
(* state that neither the object nor a handler refers to, the socket of a  *)
(* handler that serves none, and what a closed socket was told.            *)
(***************************************************************************)
EXTENDS SyncSession, TLC

Symmetry == Permutations(Op) \cup Permutations(Handler)

Referenced(h) == h = cur \/ pc[h] = "kvGot" \/ \E g \in Handler : inst[g] = h
LiveView ==
    <<durable, alarm, cur, keys, gate, pc, job, inst, work, batch, open, synced,
      acked, bounds,
      [h \in Handler |-> IF Referenced(h)
                         THEN <<content[h], dirty[h], justExported[h]>>
                         ELSE <<>>],
      [h \in Handler |-> {s \in Socket : h \in Serving(s)}],
      [s \in Socket |-> IF s \in open THEN sees[s] ELSE {}]>>
=============================================================================
