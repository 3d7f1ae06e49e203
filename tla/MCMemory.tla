----------------------------- MODULE MCMemory -----------------------------
(* Small instances of MemorySync. *)
EXTENDS MemorySync, TLC

\* The places of a memory are one file; the second name has a file of its own.
First == CHOOSE n \in Names : TRUE
Scene(names, places, deleted, disk, codex, some) ==
    [fs |-> [q \in Paths |->
         IF q[1] \in names /\ q[2] \in places
         THEN File(IF q[1] = First THEN 1 ELSE 2, 0) ELSE Nothing],
     head |-> [n \in Names |-> IF n \in names /\ "project" \in places
                               THEN [is |-> "file", ver |-> 0] ELSE Nothing],
     tracked |-> IF "project" \in places THEN names ELSE {},
     deletion |-> [n \in Names |-> IF n \in deleted THEN "marked" ELSE "none"],
     disk |-> disk, codex |-> codex, names |-> names, left |-> some @@ [k \in Kinds |-> 0]]
MCScenarios ==
    LET one == {First}
        everywhere == {"claude", "project", "resource"}
    IN  { \* a new memory, edited and removed while the hooks run
          Scene(one, {}, {}, TRUE, TRUE, [write |-> 2, rm |-> 1, kill |-> 1, overlap |-> 1]),
          \* a fresh clone, into which edits are pulled
          Scene(one, {"project"}, {}, TRUE, TRUE, [write |-> 1, pull |-> 1, overlap |-> 2]),
          \* a note of Codex, imported by its hook and by hand
          Scene(one, {}, {}, TRUE, TRUE, [edit |-> 1, import |-> 1, kill |-> 1]),
          Scene(Names, {"native"}, {}, TRUE, TRUE, [import |-> 1]),
          \* delete.py beside the hooks
          Scene(one, {"native"}, {}, TRUE, TRUE, [edit |-> 1, delete |-> 1]),
          Scene(one, everywhere, {}, TRUE, TRUE, [delete |-> 1, kill |-> 1, overlap |-> 1]),
          \* the project on a disk of its own
          Scene(one, everywhere, {}, FALSE, TRUE, [write |-> 1, remove |-> 1, overlap |-> 1]),
          \* without Codex: what was deleted elsewhere, what the user deletes
          Scene(one, {"claude"}, one, TRUE, FALSE, [write |-> 2, rm |-> 1, kill |-> 1]),
          Scene(one, everywhere, {}, TRUE, FALSE, [pull |-> 1, commit |-> 1, delete |-> 1,
                                                  remove |-> 1, overlap |-> 1]) }
=============================================================================
