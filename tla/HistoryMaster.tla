--------------------------- MODULE HistoryMaster ---------------------------
(***************************************************************************)
(* split.py update-history-master: ai/history/master is kept on top of      *)
(* master.  When master has moved, what history has of its own is applied  *)
(* anew, one commit after the other, onto master's tip; then come the AI   *)
(* commits of each branch that master has merged since, closed by a marker;*)
(* then the tip of base/base is merged in.  Only at the end does the ref   *)
(* move.                                                                   *)
(*                                                                         *)
(* A conflict ends the process: a state file says what is left, and the    *)
(* author resolves it and runs --continue, or --abort.  The work happens   *)
(* on a scratch branch in the author's own checkout.                       *)
(***************************************************************************)
EXTENDS Integers, Sequences, FiniteSetsExt

CONSTANTS
    Branches,     \* branches that have an ai/history/<branch>
    Scenarios     \* where the refs are at first, and how much of what happens

VARIABLES
    db,           \* the object store
    ref,          \* master, ai/history/master, their remotes, the scratch branch
    side,         \* side[b]: the tip of ai/history/b and its fork-point ref
    head,         \* what is checked out
    dirty,        \* the checkout holds changes of the author's own
    op,           \* what git has in progress: a cherry-pick or a merge of a commit
    open,         \* there are conflicts that nobody has resolved
    state,        \* .git/BASE_SPLIT_HISTORY_MASTER_STATE; <<>> if there is none
    run,          \* the process
    odd,          \* history: "lost", changes of the author's own were overwritten;
                  \* "cut", a resumed run was killed before it noted a conflict
    left          \* how much of each kind of thing may still happen

vars == <<db, ref, side, head, dirty, op, open, state, run, odd, left>>

RefNames == {"master", "origin", "history", "base", "baseRemote", "scratch"}

Heads == {"master", "topic", "history", "scratch", "detached"}

\* What is about no branch has this for one.
NoBranch == ""

\* A commit has its first parents, all that it reaches, what it is, and what
\* it stands for: the commit it was first made as, the base commit it merges,
\* the merge on master it is the marker of; and the branch it is about.
Objects == [line : SUBSET Nat, anc : SUBSET Nat, of : Nat,
            branch : Branches \cup {NoBranch},
            kind : {"master", "merged", "work", "base", "upstream", "marker"}]
Stands(store, i) ==
    /\ i \in store[i].line /\ store[i].line \subseteq store[i].anc
    /\ store[i].anc \subseteq 1..i /\ store[i].of \in 1..i
    /\ \A j \in store[i].anc : store[j].anc \subseteq store[i].anc
    /\ \A j \in store[i].line : store[j].line = {k \in store[i].line : k <= j}
    /\ store[i].kind = "merged" => store[i].branch \in Branches
WellFormed(store) == store \in Seq(Objects) /\ \A i \in 1..Len(store) : Stands(store, i)

\* What the past of commit i, or its line of first parents, holds of a kind, by what
\* that stands for.
Past(store, i, kind) == {store[j].of : j \in {k \in store[i].anc : store[k].kind = kind}}
Bases(store, i) == {store[j].of : j \in {k \in store[i].line : store[k].kind = "base"}}

\* Master's commits are its own, base's are upstream's.
OfMaster(store, i) ==
    \A j \in store[i].anc : store[j].kind \in {"master", "merged"} /\ store[j].of = j
OfBase(store, i) == \A j \in store[i].anc : store[j].kind = "upstream"

\* On a line where history is kept: it has its markers and base merges among its first
\* parents, and reaches the base that it has merged.
OnLine(store, i) ==
    \A j \in store[i].anc : store[j].kind \in {"marker", "base"} => j \in store[i].line
Whole(store, i) == OnLine(store, i) /\ Bases(store, i) \subseteq store[i].anc

\* What the refs promise one another.  A branch's history began at ai/history/master, so
\* that this has the marker of each merge, and each base commit, that the branch's has.
Related(store, refs, sides) ==
    /\ \A i \in 1..Len(store) : store[i].kind = "base" => OfBase(store, store[i].of)
    /\ OfMaster(store, refs["master"]) /\ OfMaster(store, refs["origin"])
    /\ OfBase(store, refs["baseRemote"])
    /\ refs["base"] # 0 => OfBase(store, refs["base"])
    /\ refs["history"] # 0 =>
          /\ Whole(store, refs["history"])
          /\ Past(store, refs["history"], "merged") \subseteq Past(store, refs["history"], "marker")
    /\ \A b \in Branches : sides[b].tip # 0 =>
          /\ refs["history"] # 0
          /\ Past(store, sides[b].tip, "merged") \subseteq Past(store, refs["history"], "marker")
          /\ Past(store, sides[b].tip, "base") \subseteq Bases(store, refs["history"])

\* A ref is a commit, or 0 if there is none.
ASSUME ScenariosAssumption ==
    \A s \in Scenarios :
        /\ WellFormed(s.db)
        /\ s.ref \in [RefNames -> 0..Len(s.db)]
        /\ 0 \notin {s.ref["master"], s.ref["origin"], s.ref["baseRemote"]}
        /\ s.side \in [Branches -> [tip : 0..Len(s.db), fork : 0..Len(s.db)]]
        /\ s.head \in Heads /\ (s.head \in RefNames => s.ref[s.head] # 0)
\* What is there at first was made by the tools and git: the refs keep their promises,
\* and all of master's and history's commits have a root in common.
ASSUME RelatedAssumption ==
    \A s \in Scenarios :
        /\ Related(s.db, s.ref, s.side)
        /\ \E root \in s.db[s.ref["master"]].line \cap s.db[s.ref["origin"]].line :
              /\ s.db[root].line = {root}
              /\ s.ref["history"] # 0 => root \in s.db[s.ref["history"]].anc

Commit(first, second, kind, of, branch) ==
    LET id == Len(db) + 1
    IN  [line   |-> db[first].line \cup {id},
         anc    |-> db[first].anc \cup {id}
                    \cup (IF second = 0 THEN {} ELSE db[second].anc),
         kind   |-> kind,
         of     |-> IF of = 0 THEN id ELSE of,
         branch |-> branch]
New == Len(db) + 1

NoOp == [kind |-> "none", sha |-> 0]
Idle == [pc |-> "idle", tip |-> 0, todo |-> {}, old |-> 0, from |-> "detached",
         resumed |-> FALSE, merges |-> {}]

Init ==
    \E s \in Scenarios :
        /\ db = s.db
        /\ ref = s.ref
        /\ side = s.side
        /\ head = s.head
        /\ dirty = FALSE /\ op = NoOp /\ open = FALSE /\ odd = {}
        /\ state = <<>>
        /\ run = Idle
        /\ left = s.left

Spend(kind) == left[kind] > 0 /\ left' = [left EXCEPT ![kind] = @ - 1]
At(pc) == run.pc = pc
Ancestor(i, j) == i \in db[j].anc
MergeBase(i, j) ==
    LET common == db[i].anc \cap db[j].anc
    IN  CHOOSE n \in common : \A m \in common : Ancestor(n, m) => m = n
Dirty == dirty \/ op # NoOp

-----------------------------------------------------------------------------
(* Planning.                                                               *)

\* As it would be if a run did not care for a conflict that is pending.
Regardless == TRUE
NonePending == state = <<>>

\* update_history_master up to the plan: note the checkout, pull master if that
\* is a fast-forward and does not disturb the checkout, fetch base.
PullsMaster == Ancestor(ref["master"], ref["origin"])
Begin ==
    /\ At("idle") /\ NonePending
    /\ left["run"] > 0
    /\ \E pullMaster, pullBase \in BOOLEAN, registered \in SUBSET (Branches \X {ref["origin"]}) :
          /\ Cardinality(registered) <= left["registered"]
          /\ left' = [left EXCEPT !["run"] = @ - 1,
                                 !["registered"] = @ - Cardinality(registered)]
          /\ IF pullMaster /\ PullsMaster /\ head = "master" /\ Dirty
             THEN UNCHANGED <<ref, run>>
             ELSE /\ ref' = [ref EXCEPT
                        !["master"] = IF pullMaster /\ PullsMaster THEN ref["origin"] ELSE @,
                        !["base"] = IF pullBase THEN ref["baseRemote"] ELSE @]
                  /\ run' = [Idle EXCEPT !.pc = "plan", !.from = head, !.merges = registered]
    /\ UNCHANGED <<db, side, head, dirty, op, open, state, odd>>

\* find_newly_merged_clean_branches; what the author registers counts as well,
\* if it is on master.
FirstRun == ref["history"] = 0
OldMaster == MergeBase(ref["history"], ref["master"])
\* As it would be if a first run took history to have everything.
NewSinceHistory == IF FirstRun THEN {} ELSE db[ref["master"]].anc \ db[OldMaster].anc
NewOnMaster == db[ref["master"]].anc \ (IF FirstRun THEN {} ELSE db[OldMaster].anc)
NewlyMerged ==
    {i \in NewOnMaster : db[i].kind = "merged"} \cup {r[2] : r \in run.merges}
BranchOf(i) ==
    IF \E r \in run.merges : r[2] = i THEN (CHOOSE r \in run.merges : r[2] = i)[1]
    ELSE db[i].branch
HasMarker(tip, i) == i \in Past(db, tip, "marker")

\* A step of the plan; for is the merge on master that it is about, 0 if what is
\* replayed is history's own.  History's own comes first, then one merge after the
\* other, each one's marker last; and what is older comes before what is younger.
Step(kind, i, b, for) == [kind |-> kind, sha |-> i, branch |-> b, for |-> for]
Sooner(s, t) ==
    \/ s.for < t.for
    \/ s.for = t.for /\ s.kind # "marker" /\ (t.kind = "marker" \/ s.sha < t.sha)
First(todo) == CHOOSE s \in todo : \A t \in todo \ {s} : Sooner(s, t)
Rest(todo) == todo \ {First(todo)}

\* The commits of a merged branch that are its own: those after its fork point,
\* or after where it left history as history is now.
\* As it would be without fork-point refs.
ForkPointGuessed(b) ==
    MergeBase(side[b].tip, IF FirstRun THEN ref["master"] ELSE ref["history"])
ForkPoint(b) ==
    IF side[b].fork # 0 THEN side[b].fork
    ELSE MergeBase(side[b].tip, IF FirstRun THEN ref["master"] ELSE ref["history"])
BranchSteps(i) ==
    LET b   == BranchOf(i)
        own == IF side[b].tip = 0 THEN {} ELSE db[side[b].tip].anc \ db[ForkPoint(b)].anc
    IN  {Step("commit", j, b, i) : j \in own} \cup {Step("marker", i, b, i)}

\* What history has of its own, if master has moved.
OwnSteps ==
    IF FirstRun \/ OldMaster = ref["master"] THEN {}
    ELSE {Step(IF db[j].kind = "base" THEN "base_merge" ELSE "commit", j, NoBranch, 0) :
             j \in db[ref["history"]].line \ db[OldMaster].anc}

\* _build_plan.
Plan ==
    /\ At("plan")
    /\ IF \A r \in run.merges : Ancestor(r[2], ref["master"])
       THEN LET new == {i \in NewlyMerged : FirstRun \/ ~HasMarker(ref["history"], i)}
            IN  run' = [run EXCEPT
                  !.pc   = "step",
                  !.old  = ref["history"],
                  !.tip  = IF ~FirstRun /\ OldMaster = ref["master"] THEN ref["history"]
                           ELSE ref["master"],
                  !.todo = OwnSteps \cup UNION {BranchSteps(i) : i \in new}]
       ELSE run' = Idle
    /\ UNCHANGED <<db, ref, side, head, dirty, op, open, state, odd, left>>

-----------------------------------------------------------------------------
(* Carrying the plan out.                                                  *)

\* _checkout_scratch refuses a dirty tree; the process ends, HEAD where it is.
Refuse ==
    /\ run' = Idle
    /\ UNCHANGED <<db, ref, head, op, open>>

\* A commit was made on the scratch branch, and _cleanup_scratch has left it.
Made(commit) ==
    /\ db' = Append(db, commit)
    /\ ref' = [ref EXCEPT !["scratch"] = 0]
    /\ head' = "detached"
    /\ op' = NoOp /\ open' = FALSE

\* Git stops in the middle of a pick or a merge on the scratch branch.
Stop(what, sha) ==
    /\ ref' = [ref EXCEPT !["scratch"] = run.tip]
    /\ head' = "scratch"
    /\ op' = [kind |-> what, sha |-> sha] /\ open' = TRUE
    /\ UNCHANGED db

Advance(tip) == run' = [run EXCEPT !.tip = tip, !.todo = Rest(@)]
Stepping(kind) == At("step") /\ run.todo # {} /\ First(run.todo).kind = kind

\* replay_commit.  Conflicts in CLAUDE.md and AGENTS.md only, picks that turn
\* out empty, and conflicts over a commit that is already below the tip, are
\* resolved on the spot; any other conflict is the author's.
ReplayCommit ==
    /\ Stepping("commit")
    /\ LET sha == First(run.todo).sha
       IN  IF Dirty THEN Refuse /\ UNCHANGED left
           ELSE \/ /\ Made(Commit(run.tip, 0, db[sha].kind, db[sha].of, db[sha].branch))
                   /\ Advance(New)
                   /\ UNCHANGED left
                \/ /\ ~Ancestor(sha, run.tip)
                   /\ Spend("conflict")
                   /\ Stop("cherry-pick", sha)
                   /\ run' = [run EXCEPT !.pc = "save"]
    /\ UNCHANGED <<side, dirty, state, odd>>

\* recreate_base_merge settles every conflict as the old merge did; if that
\* has no such file it gives up with the merge still in progress.
RecreateBaseMerge ==
    /\ Stepping("base_merge")
    /\ LET old == db[First(run.todo).sha]
       IN  IF Dirty THEN Refuse /\ UNCHANGED left
           ELSE \/ /\ Made(Commit(run.tip, old.of, "base", old.of, NoBranch))
                   /\ Advance(New)
                   /\ UNCHANGED left
                \/ /\ Spend("conflict")
                   /\ Stop("merge", old.of)
                   /\ run' = Idle
    /\ UNCHANGED <<side, dirty, state, odd>>

\* _create_merge_marker needs no checkout.
CreateMergeMarker ==
    /\ Stepping("marker")
    /\ LET step == First(run.todo)
       IN  db' = Append(db, Commit(run.tip, 0, "marker", step.sha, step.branch))
    /\ Advance(New)
    /\ UNCHANGED <<ref, side, head, dirty, op, open, state, odd, left>>

StepsDone ==
    /\ At("step") /\ run.todo = {}
    /\ run' = [run EXCEPT !.pc = IF ref["base"] = 0 \/ Ancestor(ref["base"], run.tip)
                                 THEN "move" ELSE "fold"]
    /\ UNCHANGED <<db, ref, side, head, dirty, op, open, state, odd, left>>

\* _fold_base: README.md and .gitignore are settled as base has them.
FoldBase ==
    /\ At("fold")
    /\ IF Dirty THEN Refuse /\ UNCHANGED left
       ELSE \/ /\ Made(Commit(run.tip, ref["base"], "base", ref["base"], NoBranch))
               /\ run' = [run EXCEPT !.tip = New, !.pc = "move"]
               /\ UNCHANGED left
            \/ /\ Spend("conflict")
               /\ Stop("merge", ref["base"])
               /\ run' = [run EXCEPT !.pc = "save",
                                     !.todo = {Step("base_fold", ref["base"], NoBranch, 0)}]
    /\ UNCHANGED <<side, dirty, state, odd>>

\* _write_state, and the process ends.
SaveState ==
    /\ At("save")
    /\ state' = [tip |-> run.tip, todo |-> run.todo, old |-> run.old, from |-> run.from,
                 op |-> op.kind]
    /\ run' = Idle
    /\ UNCHANGED <<db, ref, side, head, dirty, op, open, odd, left>>

\* The ref moves if nobody has moved it since the plan; a checkout of it that
\* has no changes follows.  A run that is resumed after a first plan without
\* any history expects nothing of the ref.
\* As it would be if the ref moved whatever became of it.
MoveHistoryUnguarded ==
    /\ At("move")
    /\ ref' = [ref EXCEPT !["history"] = run.tip]
    /\ run' = [run EXCEPT !.pc = "restore"]
    /\ UNCHANGED <<db, side, head, dirty, op, open, state, odd, left>>
MoveHistory ==
    /\ At("move")
    /\ IF \/ head = "history" /\ Dirty
          \/ ref["history"] # run.old /\ ~(run.resumed /\ run.old = 0)
       THEN /\ run' = Idle
            /\ UNCHANGED ref
       ELSE /\ ref' = [ref EXCEPT !["history"] = run.tip]
            /\ run' = [run EXCEPT !.pc = "restore"]
    /\ UNCHANGED <<db, side, head, dirty, op, open, state, odd, left>>

\* _restore_checkout: nothing to restore, or nothing there any more, and HEAD
\* stays where it is.
\* As it would be if the checkout were restored whatever became of the branch.
RestoredBlindly(from, now) == IF from = "detached" THEN now ELSE from
Restored(from, now) ==
    IF from = "detached" \/ (from \in RefNames /\ ref[from] = 0) THEN now ELSE from
RestoreCheckout ==
    /\ At("restore")
    /\ head' = Restored(run.from, head)
    /\ run' = IF run.resumed THEN [run EXCEPT !.pc = "clear"] ELSE Idle
    /\ UNCHANGED <<db, ref, side, dirty, op, open, state, odd, left>>

ClearState ==
    /\ At("clear")
    /\ state' = <<>>
    /\ run' = Idle
    /\ UNCHANGED <<db, ref, side, head, dirty, op, open, odd, left>>

-----------------------------------------------------------------------------
(* --continue and --abort.                                                 *)

\* _do_continue: with git's own operation gone it only says so; with conflicts
\* left, likewise.  Otherwise what git has in progress is committed and what
\* the state file has left but the first runs.  The file stays as it is until
\* the run ends.
Continue ==
    /\ At("idle") /\ state # <<>>
    /\ op.kind = state.op /\ ~open
    /\ IF op.kind = "cherry-pick"
       THEN Made(Commit(ref["scratch"], 0, db[op.sha].kind, db[op.sha].of, db[op.sha].branch))
       ELSE Made(Commit(ref["scratch"], op.sha, "base", First(state.todo).sha, NoBranch))
    /\ run' = [Idle EXCEPT !.pc = "step", !.tip = New, !.todo = Rest(state.todo),
                           !.old = state.old, !.from = state.from, !.resumed = TRUE]
    /\ UNCHANGED <<side, dirty, state, odd, left>>

\* _do_abort: git's operation is aborted if it is the one in the state file; then
\* what is checked out by now is reset, unless conflicts of another operation
\* are in the way, and the checkout of before is restored.
Abort ==
    /\ At("idle") /\ state # <<>>
    /\ op.kind \in {"none", state.op} \/ ~open
    /\ op' = NoOp /\ open' = FALSE
    /\ ref' = [ref EXCEPT !["scratch"] = 0]
    /\ head' = IF state.from \in {"detached", "scratch"} THEN "detached" ELSE state.from
    /\ odd' = IF dirty THEN odd \cup {"lost"} ELSE odd
    /\ dirty' = FALSE
    /\ state' = <<>>
    /\ UNCHANGED <<db, side, run, left>>

\* The process is killed; perhaps with the scratch branch just checked out.
Crash ==
    /\ ~At("idle")
    /\ Spend("crash")
    /\ \/ UNCHANGED <<ref, head>>
       \/ /\ Stepping("commit") \/ Stepping("base_merge") \/ At("fold")
          /\ ~Dirty
          /\ ref' = [ref EXCEPT !["scratch"] = run.tip]
          /\ head' = "scratch"
    /\ run' = Idle
    /\ odd' = IF run.resumed /\ At("save") THEN odd \cup {"cut"} ELSE odd
    /\ UNCHANGED <<db, side, dirty, op, open, state>>

-----------------------------------------------------------------------------
(* The author, at the same checkout, while no process runs.                *)

Quiet == At("idle")

Resolve ==
    /\ Quiet /\ open
    /\ open' = FALSE
    /\ UNCHANGED <<db, ref, side, head, dirty, op, state, run, odd, left>>

\* git cherry-pick --abort, or git merge --abort, by hand.
RawAbort ==
    /\ Quiet /\ op # NoOp
    /\ Spend("raw")
    /\ op' = NoOp /\ open' = FALSE
    /\ UNCHANGED <<db, ref, side, head, dirty, state, run, odd>>

Checkout ==
    /\ Quiet /\ op = NoOp
    /\ Spend("checkout")
    /\ \E to \in {"master", "topic"} \cup (IF ref["history"] = 0 THEN {} ELSE {"history"}) :
          head' = to
    /\ UNCHANGED <<db, ref, side, dirty, op, open, state, run, odd>>

Edit ==
    /\ Quiet /\ op = NoOp /\ ~dirty
    /\ Spend("edit")
    /\ dirty' = TRUE
    /\ UNCHANGED <<db, ref, side, head, op, open, state, run, odd>>

Stash ==
    /\ Quiet /\ dirty
    /\ dirty' = FALSE
    /\ UNCHANGED <<db, ref, side, head, op, open, state, run, odd, left>>

-----------------------------------------------------------------------------
(* Everyone else, at any time.                                             *)

\* master moves on its remote: an ordinary commit, or a merge of a branch; or
\* its last commit is replaced.
MasterMoves ==
    /\ Spend("master")
    /\ \E b \in Branches \cup {NoBranch} :
          db' = Append(db, Commit(ref["origin"], 0,
                                  IF b = NoBranch THEN "master" ELSE "merged", 0, b))
    /\ ref' = [ref EXCEPT !["origin"] = New]
    /\ UNCHANGED <<side, head, dirty, op, open, state, run, odd>>

MasterIsRewritten ==
    /\ Quiet
    /\ Spend("rewrite")
    /\ LET tip     == db[ref["master"]]
           earlier == tip.line \ {ref["master"]}
       IN  /\ earlier # {}
           /\ db' = Append(db, Commit(Max(earlier), 0, tip.kind, 0, tip.branch))
    /\ ref' = [ref EXCEPT !["origin"] = New, !["master"] = New]
    /\ UNCHANGED <<side, head, dirty, op, open, state, run, odd>>

BaseMoves ==
    /\ Spend("base")
    /\ db' = Append(db, Commit(ref["baseRemote"], 0, "upstream", 0, NoBranch))
    /\ ref' = [ref EXCEPT !["baseRemote"] = New]
    /\ UNCHANGED <<side, head, dirty, op, open, state, run, odd>>

\* A pull, or another machine's sync, brings a commit to ai/history/master.
HistoryMoves ==
    /\ ref["history"] # 0
    /\ Spend("history")
    /\ db' = Append(db, Commit(ref["history"], 0, "work", 0, NoBranch))
    /\ ref' = [ref EXCEPT !["history"] = New]
    /\ UNCHANGED <<side, head, dirty, op, open, state, run, odd>>

\* sync-splits on a branch: its history starts at ai/history/master, with the
\* fork point noted, and grows.
BranchGrows ==
    /\ Spend("branch")
    /\ \E b \in Branches :
          /\ side[b].tip # 0 \/ ref["history"] # 0
          /\ LET from == IF side[b].tip = 0 THEN ref["history"] ELSE side[b].tip
             IN  /\ db' = Append(db, Commit(from, 0, "work", 0, b))
                 /\ side' = [side EXCEPT ![b] = [tip |-> New,
                                                 fork |-> IF @.tip = 0 THEN from ELSE @.fork]]
    /\ UNCHANGED <<ref, head, dirty, op, open, state, run, odd>>

\* rebase-branches-to-master on a branch: its commits move onto the tip of
\* ai/history/master, less those that are there already.  The fork-point ref
\* stays where it is.
OldestFirst(S) ==
    {each \in [1..Cardinality(S) -> S] :
        \A m, n \in DOMAIN each : m < n => each[m] < each[n]}
BranchIsRebased ==
    /\ Quiet /\ ref["history"] # 0
    /\ Spend("rebase")
    /\ \E b \in Branches :
          LET onto  == db[ref["history"]]
              there == {db[i].of : i \in onto.line}
              own   == {i \in db[side[b].tip].line :
                           i \notin onto.anc /\ db[i].of \notin there}
              count == Cardinality(own)
              More(n) == (Len(db) + 1)..(Len(db) + n)
          IN  /\ side[b].tip # 0
              /\ \E each \in OldestFirst(own) :
                    db' = db \o [n \in 1..count |->
                                   [line   |-> onto.line \cup More(n),
                                    anc    |-> onto.anc \cup More(n),
                                    kind   |-> db[each[n]].kind,
                                    of     |-> db[each[n]].of,
                                    branch |-> db[each[n]].branch]]
              /\ side' = [side EXCEPT ![b].tip = IF own = {} THEN ref["history"]
                                                ELSE Len(db) + count]
    /\ UNCHANGED <<ref, head, dirty, op, open, state, run, odd>>

-----------------------------------------------------------------------------
Process ==
    \/ Begin \/ Plan \/ ReplayCommit \/ RecreateBaseMerge \/ CreateMergeMarker
    \/ StepsDone \/ FoldBase \/ SaveState \/ MoveHistory \/ RestoreCheckout
    \/ ClearState \/ Continue \/ Abort \/ Crash
Author == Resolve \/ RawAbort \/ Checkout \/ Edit \/ Stash
Others ==
    \/ MasterMoves \/ MasterIsRewritten \/ BaseMoves \/ HistoryMoves
    \/ BranchGrows \/ BranchIsRebased

Next == Process \/ Author \/ Others

Spec == Init /\ [][Next]_vars

-----------------------------------------------------------------------------
(* What is promised.                                                       *)

Commits == 1..Len(db)
Steps == [kind : {"commit", "base_merge", "marker", "base_fold"}, sha : Commits,
          branch : Branches \cup {NoBranch}, for : 0..Len(db)]

\* Everything has its type, commits only reach what is older, and what is checked
\* out exists (_restore_checkout).
TypeOK ==
    /\ WellFormed(db)
    /\ ref \in [RefNames -> 0..Len(db)]
    /\ side \in [Branches -> [tip : 0..Len(db), fork : 0..Len(db)]]
    /\ head \in Heads /\ dirty \in BOOLEAN /\ open \in BOOLEAN
    /\ op \in [kind : {"cherry-pick", "merge"}, sha : Commits] \cup {NoOp}
    /\ head \in RefNames => ref[head] # 0
    /\ open => op # NoOp
    /\ odd \subseteq {"lost", "cut"}
    /\ state # <<>> =>
          /\ state.tip \in Commits /\ state.todo \subseteq Steps
          /\ state.old \in 0..Len(db) /\ state.from \in Heads
    /\ run.pc \in {"idle", "plan", "step", "fold", "save", "move", "restore", "clear"}
    /\ run.tip \in 0..Len(db) /\ run.todo \subseteq Steps

\* What a line has of history's own: what was made on it, what base it took in, the
\* markers.  It is kept by another line if that has as much, in the same order.
Own(store, tip) == {i \in store[tip].line : store[i].kind \in {"work", "base", "marker"}}
StandsFor(store, i) == <<store[i].kind, store[i].of>>
KeptBy(old, new) ==
    \E place \in [Own(db, old) -> Own(db', new)] : \A i, j \in Own(db, old) :
        /\ StandsFor(db', place[i]) = StandsFor(db, i)
        /\ i < j => place[i] < place[j]

\* When a run moves ai/history/master, by itself or resumed after conflicts,
\* kills and what others did meanwhile, nothing that was there is gone: every
\* commit and marker is on the new line, in the same order, and every base
\* commit once folded in is still reached (build plan, run steps, move_ref's guard).
NothingDropped ==
    [][At("move") /\ ref'["history"] # ref["history"] /\ ref["history"] # 0
       => /\ KeptBy(ref["history"], ref'["history"])
          /\ Bases(db, ref["history"]) \subseteq db[ref["history"]].anc']_vars

\* Whatever merge of a branch ai/history/master reaches, it has that merge's
\* marker: no later run finds it again, and none was passed over
\* (find_newly_merged_clean_branches, has_merge_marker).
MarkersComplete ==
    ref["history"] # 0 =>
        \A i \in db[ref["history"]].anc :
            db[i].kind = "merged" => HasMarker(ref["history"], db[i].of)

\* As long as a branch was merged once and its fork point is where its own
\* commits begin, no commit is on ai/history/master twice, however often the
\* line was rebuilt (the fork-point range in _build_plan, the remaining steps of
\* --continue).
ForkFits(b) == \A i \in db[side[b].tip].anc \ db[side[b].fork].anc : db[i].branch = b
MergedOnce(b) ==
    Cardinality({i \in db[ref["history"]].line :
                     db[i].kind = "marker" /\ db[i].branch = b}) <= 1
NothingTwice ==
    /\ ref["history"] # 0 /\ "cut" \notin odd
    /\ \A b \in Branches : side[b].tip # 0 => side[b].fork # 0 /\ ForkFits(b) /\ MergedOnce(b)
    => \A i, j \in db[ref["history"]].line :
           db[i].kind = "work" /\ db[j].kind = "work" /\ db[i].of = db[j].of => i = j

\* A state file describes what git has in progress: as long as the operation it
\* names is, the scratch branch is checked out at the state's tip and the
\* operation is that of its first step.  This is what --continue takes for
\* granted (_write_state, _do_continue).
StateFits ==
    state # <<>> /\ At("idle") /\ op.kind = state.op /\ "cut" \notin odd =>
        /\ head = "scratch" /\ ref["scratch"] = state.tip
        /\ op.sha = First(state.todo).sha

\* The process never overwrites what the author has not committed: "The scratch
\* checkout contains no user changes" (_cleanup_scratch).
UserWorkKept == "lost" \notin odd
=============================================================================
