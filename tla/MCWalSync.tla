----------------------------- MODULE MCWalSync -----------------------------
(***************************************************************************)
(* WalSync for TLC: tabs and edits are interchangeable.                    *)
(***************************************************************************)
EXTENDS WalSync, TLC

Symmetry == Permutations(Tab) \cup Permutations(Edit) \cup Permutations(Task)
\* own and excused are read by NoStranded only.
ViewWithoutOwn ==
    <<disk, net, walVars, docVars, appVars, flVars, perVars, logged, dropped,
      faults>>

\* What is own or aged matters only while its row is undelivered.
ViewUndelivered ==
    <<row, hasSnapshot, snapshot, net, walVars, docVars, appVars, flVars, perVars,
      logged, dropped, excused, faults, aged \cap Undelivered,
      [t \in Tab |-> own[t] \cap Undelivered]>>

\* Bound: how many calls of all tabs together are under way at a time.
CONSTANT MaxBusy

Busy ==
    UNION {{<<t, "setup">>   : t \in {t \in Tab : wal[t] \in {"setup", "pruning"}}},
           {<<t, "seed">>    : t \in {t \in Tab : seed[t] \in {"read", "saving"}}},
           {<<t, "append">>  : t \in {t \in Tab : called[t] \cup stored[t] # {}}},
           {<<t, "persist">> : t \in {t \in Tab : persist[t] # "idle"}},
           {<<t, k>> \in Tab \X Task : flush[t][k] # "idle"}}

BusyBound == Cardinality(Busy) <= MaxBusy
=============================================================================
