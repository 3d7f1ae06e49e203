----------------------------- MODULE SplitRepo -----------------------------
(***************************************************************************)
(* The git repository as scripts/base/git/split.py sees it: commits, the   *)
(* trees they hold, the trailers in their messages, and the questions the  *)
(* tools ask of them.                                                      *)
(*                                                                         *)
(* A commit is named by its position in the object store db, which only    *)
(* grows: an object that no branch reaches any more can still be read, and *)
(* a commit that is rewritten gets a new name.  A commit carries its whole *)
(* past: line, itself and its first parents back to the root, and anc, all *)
(* that it reaches.                                                        *)
(***************************************************************************)
EXTENDS Integers, Sequences, FiniteSetsExt

CONSTANTS
    CodePaths,    \* the files that .ai_ignore does not name
    AiPaths,      \* the files that it names
    NoisyPaths,   \* README.md and .gitignore: a conflict takes their version
    Blobs,        \* the contents a file can have
    Absent        \* a file that a tree does not hold

ASSUME PathsAssumption ==
    /\ CodePaths \cap AiPaths = {}
    /\ NoisyPaths \subseteq CodePaths
    /\ Absent \notin Blobs

Sides == {"clean", "history"}
Paths == CodePaths \cup AiPaths
Trees == [Paths -> Blobs \cup {Absent}]

\* What the keep predicate of a pass lets through.
Kept(side) == IF side = "clean" THEN CodePaths ELSE AiPaths

\* What commit i holds and where it stands; 0 stands for no commit.
LineOf(db, i) == IF i = 0 THEN {} ELSE db[i].line
PastOf(db, i) == IF i = 0 THEN {} ELSE db[i].anc
TreeOf(db, i) == IF i = 0 THEN [p \in Paths |-> Absent] ELSE db[i].tree

\* A commit's record, and what the records of an object store have in common: a
\* commit comes after its parents, is part of its own past, and has the first
\* parents of its first parent.
Objects == [first : Nat, merged : Nat, line : SUBSET Nat, anc : SUBSET Nat, tree : Trees,
            note : [source : Nat, mate : Nat, recon : Nat], date : Int]
Stands(db, i) ==
    /\ db[i].first \in 0..(i - 1) /\ db[i].merged \in 0..(i - 1)
    /\ db[i].line = LineOf(db, db[i].first) \cup {i}
    /\ db[i].line \subseteq db[i].anc /\ db[i].anc \subseteq 1..i
    /\ db[i].merged # 0 => db[i].merged \in db[i].anc
    /\ \A j \in db[i].line : db[j].line = {k \in db[i].line : k <= j}
    /\ {db[i].note.source, db[i].note.mate, db[i].note.recon} \subseteq 0..Len(db)
WellFormed(db) == db \in Seq(Objects) /\ \A i \in 1..Len(db) : Stands(db, i)

\* Mutant: the second parent of a merge is left out of its past.
CommitOneParent(db, first, second, tree, note, date) ==
    LET id == Len(db) + 1
    IN  [first |-> first, merged |-> second, line |-> LineOf(db, first) \cup {id},
         anc |-> PastOf(db, first) \cup {id}, tree |-> tree, note |-> note, date |-> date]

\* git commit-tree.  first is 0 for a root, second unless the commit is a merge;
\* note holds the trailers of the message.
Commit(db, first, second, tree, note, date) ==
    LET id == Len(db) + 1
    IN  [first  |-> first,
         merged |-> second,
         line   |-> LineOf(db, first) \cup {id},
         anc    |-> PastOf(db, first) \cup PastOf(db, second) \cup {id},
         tree   |-> tree,
         note   |-> note,
         date   |-> date]

FirstParent(db, i) == db[i].first

\* What a commit did to its first parent.  A renamed file is one that went
\* and one that came, each judged by its own name.
Changed(db, i) == {p \in Paths : db[i].tree[p] # TreeOf(db, FirstParent(db, i))[p]}

\* git diff-tree without -m says nothing of a merge.
ListedPaths(db, i) == IF db[i].merged # 0 THEN {} ELSE Changed(db, i)

\* Mutant: a commit with any AI file in it counts as one of AI files only.
AiOnlyAny(db, i) == ListedPaths(db, i) \cap AiPaths # {}
\* Mutant: only a commit of nothing but AI files is tainted.
AiTaintedAll(db, i) == ListedPaths(db, i) # {} /\ ListedPaths(db, i) \subseteq AiPaths

\* classify_commit.
AiOnly(db, i) == ListedPaths(db, i) # {} /\ ListedPaths(db, i) \subseteq AiPaths
AiTainted(db, i) == ListedPaths(db, i) \cap AiPaths # {}

\* Commit i's own changes to the kept paths, laid over a tree.
Overlay(db, tree, i, kept) ==
    [p \in Paths |-> IF p \in Changed(db, i) \cap kept THEN db[i].tree[p] ELSE tree[p]]

Related(db, a, b) == db[a].anc \cap db[b].anc # {}
MergeBase(db, a, b) == Max(db[a].anc \cap db[b].anc)

\* The tree that two lines of work last had in common.
CommonTree(db, a, b) ==
    IF Related(db, a, b) THEN db[MergeBase(db, a, b)].tree ELSE [p \in Paths |-> Absent]

\* git merge: the files both sides changed, differently.
Conflicts(db, ours, theirs) ==
    LET base == CommonTree(db, ours, theirs)
    IN  {p \in Paths : /\ db[ours].tree[p] # base[p]
                       /\ db[theirs].tree[p] # base[p]
                       /\ db[ours].tree[p] # db[theirs].tree[p]}

\* The merged tree; of the files in conflict, those in taken as they have them.
MergeTree(db, ours, theirs, taken) ==
    LET base == CommonTree(db, ours, theirs)
    IN  [p \in Paths |->
            IF \/ p \in Conflicts(db, ours, theirs) \cap taken
               \/ db[ours].tree[p] = base[p]
            THEN db[theirs].tree[p]
            ELSE db[ours].tree[p]]
=============================================================================
