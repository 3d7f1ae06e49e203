----------------------------- MODULE MCHistory -----------------------------
(* Small instances of HistoryMaster. *)
EXTENDS HistoryMaster, TLC

Root(id, kind) ==
    [line |-> {id}, anc |-> {id}, kind |-> kind, of |-> id, branch |-> NoBranch]
On(store, first, second, kind, of, branch) ==
    Append(store,
        LET id == Len(store) + 1
        IN  [line |-> store[first].line \cup {id},
             anc |-> store[first].anc \cup {id}
                     \cup (IF second = 0 THEN {} ELSE store[second].anc),
             kind |-> kind, of |-> IF of = 0 THEN id ELSE of, branch |-> branch])
\* 1 master, 2 base, 3 base folded into history, 4 a commit of history's own, 5 a
\* branch's history off it, 6 a commit on master.
MCStore ==
    LET s2 == <<Root(1, "master"), Root(2, "upstream")>>
        s3 == On(s2, 1, 2, "base", 2, NoBranch)
        s4 == On(s3, 3, 0, "work", 0, NoBranch)
        s5 == On(s4, 4, 0, "work", 0, "x")
    IN  On(s5, 1, 0, "master", 0, NoBranch)

\* How often each thing may happen; what is not named never does.
Kinds == {"run", "registered", "conflict", "crash", "raw", "checkout", "edit", "master",
          "rewrite", "base", "history", "branch", "rebase"}
Refs(master, origin, history, base) ==
    [master |-> master, origin |-> origin, history |-> history, base |-> base,
     baseRemote |-> 2, scratch |-> 0]
Side(tip, fork) == [b \in Branches |-> IF b = "x" THEN [tip |-> tip, fork |-> fork]
                                       ELSE [tip |-> 0, fork |-> 0]]
Scenario(refs, sides, at, some) ==
    [db |-> MCStore, ref |-> refs, side |-> sides, head |-> at,
     left |-> some @@ [k \in Kinds |-> 0]]

MCScenarios ==
    { \* the first run, a branch off its result, and its merge
      Scenario(Refs(1, 1, 0, 2), Side(0, 0), "master",
          [run |-> 3, branch |-> 2, master |-> 1, conflict |-> 1]),
      Scenario(Refs(1, 1, 0, 2), Side(0, 0), "master",
          [run |-> 2, branch |-> 1, master |-> 2, conflict |-> 1, crash |-> 1]),
      \* history is rebuilt on a master that has moved, with a branch merged
      Scenario(Refs(1, 6, 4, 2), Side(5, 4), "topic",
          [run |-> 2, master |-> 1, conflict |-> 3, crash |-> 1, raw |-> 1]),
      Scenario(Refs(1, 6, 4, 2), Side(5, 4), "history",
          [run |-> 2, history |-> 2, conflict |-> 1, edit |-> 1, checkout |-> 1, raw |-> 1]),
      Scenario(Refs(6, 6, 4, 2), Side(5, 4), "detached",
          [run |-> 2, registered |-> 1, branch |-> 1, base |-> 1, conflict |-> 1]),
      Scenario(Refs(6, 6, 4, 2), Side(5, 4), "master",
          [run |-> 2, rewrite |-> 1, master |-> 1, rebase |-> 1, history |-> 1]) }
=============================================================================
