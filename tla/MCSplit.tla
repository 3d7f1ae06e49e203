------------------------------ MODULE MCSplit ------------------------------
(* Small instances of SplitSync. *)
EXTENDS SplitSync, TLC

b1 == "b1"
b2 == "b2"
File(code, readme, notes) == [p \in Paths |-> CASE p = "code" -> code [] p = "readme" -> readme
                                                [] OTHER -> notes]
Root(id, tree) == [first |-> 0, merged |-> 0, line |-> {id}, anc |-> {id}, tree |-> tree,
                   note |-> NoTrailers, date |-> 1]
\* master, ai/history/master, another unclean branch, base/base, a branch off
\* master.
MCStore ==
    LET s1 == <<Root(1, File(b1, b1, Absent))>>
        s2 == Append(s1, Commit(s1, 1, 0, File(b1, b1, b1), NoTrailers, 1))
        s3 == Append(s2, Commit(s2, 2, 0, File(b2, b2, b2), NoTrailers, 1))
        s4 == Append(s3, Root(4, File(Absent, b2, b2)))
    IN  Append(s4, Commit(s4, 1, 0, File(b2, b2, Absent), NoTrailers, 1))

\* How often each thing may happen; what is not named never does.
Kinds == {"unclean", "clean", "history", "forward", "reverse", "bootstrap", "merge",
          "crash", "undo", "amend", "rebase", "push"}
Budget(some) == some @@ [k \in Kinds |-> 0]
Scenario(onUnclean, onClean, some) ==
    [unclean |-> onUnclean, clean |-> onClean, left |-> Budget(some)]

MCScenarios ==
    { Scenario(2, 0, [unclean |-> 2, forward |-> 3, crash |-> 1, undo |-> 1]),
      Scenario(2, 0, [unclean |-> 1, merge |-> 1, forward |-> 2, crash |-> 1]),
      Scenario(2, 0, [unclean |-> 1, clean |-> 1, history |-> 1, forward |-> 2, reverse |-> 2]),
      Scenario(2, 0, [unclean |-> 1, clean |-> 1, forward |-> 1, reverse |-> 2, amend |-> 1]),
      Scenario(2, 0, [unclean |-> 2, forward |-> 1, reverse |-> 2, amend |-> 2]),
      Scenario(2, 0, [unclean |-> 2, history |-> 1, forward |-> 2, rebase |-> 1]),
      Scenario(0, 5, [clean |-> 1, bootstrap |-> 1, unclean |-> 1, forward |-> 1, crash |-> 1]),
      Scenario(0, 0, [bootstrap |-> 1, forward |-> 1, reverse |-> 1]),
      Scenario(2, 5, [unclean |-> 1, clean |-> 2, forward |-> 1, push |-> 2, amend |-> 1]) }
MCIncoming == {3, 4}
MCEdits == [unclean |-> {[code |-> b2], [notes |-> b2], [code |-> Absent, notes |-> b2]},
            clean |-> {[code |-> b2], [code |-> b1, notes |-> b2]},
            history |-> {[notes |-> Absent]}]
MCAnswers == {<<"clean", "fake">>, <<"clean", "abort">>, <<"clean", "attempt">>,
              <<"history", "fake">>, <<"history", "abort">>, <<"history", "manual">>}
=============================================================================
