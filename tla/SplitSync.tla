----------------------------- MODULE SplitSync -----------------------------
(***************************************************************************)
(* split.py sync-splits and bootstrap-branch on one branch, and check-push *)
(* on what they produce.  The branch exists three times: ai/UNCLEAN/x (the *)
(* work, code and AI files mixed), x (clean: code only) and ai/history/x   *)
(* (the AI files).  The forward direction replays unclean onto the other   *)
(* two; the reverse direction rebuilds unclean from them.                  *)
(*                                                                         *)
(* An invocation is a chain of steps, each of which creates one commit or  *)
(* updates one ref: the process can be killed between any two of them, and *)
(* commits that no ref names yet are lost.  Authors commit between         *)
(* invocations.                                                            *)
(***************************************************************************)
EXTENDS SplitRepo

CONSTANTS
    Main, HistoryMain,  \* the tips of master and ai/history/master
    Store,        \* the object store that a scenario starts from
    Incoming,     \* tips of other branches that authors merge into unclean
    Edits,        \* Edits[r]: what one commit of an author to r changes
    Dates,        \* author dates
    Answers,      \* <<target, answer>>: how a merge in the way is dealt with
    Flags,        \* the --unclean-merge flags in use
    Rewrites,     \* the values of --allow-diverge-rewrite in use
    Scenarios     \* where branches start, and how much of each thing happens

ASSUME StoreAssumption ==
    /\ WellFormed(Store)
    /\ Main \in 1..Len(Store) /\ HistoryMain \in 1..Len(Store)
    /\ Incoming \subseteq 1..Len(Store)
    /\ \A s \in Scenarios : s.unclean \in 0..Len(Store) /\ s.clean \in 0..Len(Store)
    /\ Dates \subseteq Int
ASSUME EditsAssumption ==
    \A r \in {"unclean", "clean", "history"} : \A e \in Edits[r] :
        \A p \in DOMAIN e \cap Paths : e[p] \in Blobs \cup {Absent}

VARIABLES
    db,           \* the object store
    ref,          \* the refs of this branch; 0 is a ref that does not exist
    run,          \* the invocation in progress
    logged,       \* the refs in the undo commands of .rebase-recovery.tmp
    origin,       \* the tip of x on the remote named origin; 0 before a push
    left,         \* how much of each kind of thing may still happen
    foreign,      \* clean and history are not the work of forward sync alone
    broken        \* an invocation was cut short, or history was rewritten

vars == <<db, ref, run, logged, origin, left, foreign, broken>>

RefNames == {"unclean", "clean", "history", "fork", "fwdClean", "fwdHistory",
             "revClean", "revHistory"}

\* refs/base-split/forward-cursor/<side>/x: the last unclean commit replayed.
Fwd(side) == IF side = "clean" THEN "fwdClean" ELSE "fwdHistory"
\* refs/base-split/<side>-cursor/x: the last commit of the side rebuilt.
Rev(side) == IF side = "clean" THEN "revClean" ELSE "revHistory"
Bound(side) == IF side = "clean" THEN Main ELSE HistoryMain

\* source: X-Base-Split-Source; mate: X-Base-History-Clean-Commit; recon:
\* X-Base-Unclean-Reconstructed-From.  0 when the message has no such line.
NoTrailers == [source |-> 0, mate |-> 0, recon |-> 0]

\* tip is the commit that the invocation has got to, rest what it is still to
\* apply on top: commits, or the keys of what is to be rebuilt.
Idle == [pc |-> "idle", side |-> "clean", flag |-> "abort", fake |-> FALSE,
         rewrite |-> FALSE, stop |-> 0, last |-> 0, tip |-> 0, rest |-> {},
         mates |-> {}, todo |-> {}]

Init ==
    \E s \in Scenarios :
        /\ db = Store
        /\ ref = [r \in RefNames |-> IF r = "unclean" THEN s.unclean
                                     ELSE IF r = "clean" THEN s.clean ELSE 0]
        /\ run = Idle
        /\ logged = <<>>
        /\ origin = 0
        /\ left = s.left
        \* Unclean begins with what the sides begin with if it starts from
        \* ai/history/master and clean is yet to be created.
        /\ foreign = (s.unclean # HistoryMain \/ s.clean # 0)
        /\ broken = FALSE

At(pc) == run.pc = pc
Go(pc) == run' = [run EXCEPT !.pc = pc]
Finish == run' = Idle
Spend(kind) == left[kind] > 0 /\ left' = [left EXCEPT ![kind] = @ - 1]

\* What is left to apply is applied oldest first.  The next one becomes a commit on
\* top of tip, or is passed over; in the end the branch moves there.
Working(pc) == At(pc) /\ run.rest # {}
Worked(pc) == At(pc) /\ run.rest = {}
Oldest == Min(run.rest)
Make(x, commit) ==
    /\ db' = Append(db, commit)
    /\ run' = [run EXCEPT !.tip = Len(db) + 1, !.rest = @ \ {x}]
Pass(x) ==
    /\ run' = [run EXCEPT !.rest = @ \ {x}]
    /\ UNCHANGED db
MoveTo(r, begun) ==
    /\ ref' = [ref EXCEPT ![r] = run.tip]
    /\ run' = begun

-----------------------------------------------------------------------------
(* The forward direction.                                                  *)

\* find_last_synced_source, then find_reconstruction_correlated_cursor: a
\* rebuilt commit of unclean whose original the target already contains.
Rebuilt(side) ==
    {i \in db[ref["unclean"]].anc :
        db[i].note.recon # 0 /\ db[i].note.recon \in db[ref[side]].anc}
Cursor(side) ==
    IF ref[Fwd(side)] # 0 THEN ref[Fwd(side)]
    ELSE IF db[ref[side]].note.source # 0 THEN db[ref[side]].note.source
    ELSE IF Rebuilt(side) # {} THEN Max(Rebuilt(side))
    ELSE 0

\* Mutant: the cursor's own commit is replayed again.
SourcesFromCursor(side) ==
    LET known == IF Cursor(side) # 0 THEN db[Cursor(side)].anc \ {Cursor(side)}
                 ELSE db[ref["unclean"]].anc \cap db[Bound(side)].anc
    IN  db[ref["unclean"]].line \ known

\* commits_to_replay: first parents of unclean after the cursor.
Sources(side) ==
    LET known == IF Cursor(side) # 0 THEN db[Cursor(side)].anc
                 ELSE db[ref["unclean"]].anc \cap db[Bound(side)].anc
    IN  db[ref["unclean"]].line \ known

IsMerge(i) == db[i].merged # 0

MateOf(mates, i) == IF \E m \in mates : m[1] = i
                    THEN (CHOOSE m \in mates : m[1] = i)[2] ELSE 0

\* ensure_branch_started, for clean and then for history; a history branch
\* that is new has its fork point recorded next.
EnsureClean ==
    /\ At("clean")
    /\ ref' = [ref EXCEPT !["clean"] = IF @ = 0 THEN Main ELSE @]
    /\ Go("history")
    /\ UNCHANGED <<db, logged, origin, left, foreign, broken>>

EnsureHistory ==
    /\ At("history")
    /\ ref' = [ref EXCEPT !["history"] = IF @ = 0 THEN HistoryMain ELSE @]
    /\ Go(IF ref["history"] = 0 THEN "fork" ELSE "pass")
    /\ UNCHANGED <<db, logged, origin, left, foreign, broken>>

MarkForkPoint ==
    /\ At("fork") \/ At("bootFork")
    /\ ref' = [ref EXCEPT !["fork"] = ref["history"]]
    /\ Go(IF At("fork") THEN "pass" ELSE "rebuild")
    /\ UNCHANGED <<db, logged, origin, left, foreign, broken>>

\* Without an unclean branch git fails, and with it the invocation.
NothingToReplay ==
    /\ At("pass") /\ ref["unclean"] = 0
    /\ Finish
    /\ UNCHANGED <<db, ref, logged, origin, left, foreign, broken>>

StartPass ==
    /\ At("pass") /\ ref["unclean"] # 0
    /\ LET sources == Sources(run.side)
       IN  run' = [run EXCEPT !.pc = "lay", !.tip = ref[run.side], !.rest = sources,
                              !.last = Max({0} \cup sources)]
    /\ UNCHANGED <<db, ref, logged, origin, left, foreign, broken>>

\* One source commit is laid on the side.  clean drops what changes no code; each
\* source becomes a commit of history, an empty one if need be.
InTheWay(i) == IsMerge(i) /\ ~run.fake
Laid(i) == Overlay(db, db[run.tip].tree, i, Kept(run.side))
LaySource ==
    /\ Working("lay") /\ ~InTheWay(Oldest)
    /\ LET i == Oldest
       IN  IF run.side = "clean"
           THEN IF AiOnly(db, i) \/ Laid(i) = db[run.tip].tree
                THEN Pass(i)
                ELSE /\ db' = Append(db, Commit(db, run.tip, 0, Laid(i), NoTrailers, db[i].date))
                     /\ run' = [run EXCEPT !.tip = Len(db) + 1, !.rest = @ \ {i},
                                            !.mates = @ \cup {<<i, Len(db) + 1>>}]
           ELSE Make(i, Commit(db, run.tip, 0, Laid(i),
                               [source |-> i, mate |-> MateOf(run.mates, i), recon |-> 0],
                               db[i].date))
    /\ UNCHANGED <<ref, logged, origin, left, foreign, broken>>

\* The side's branch moves to what was laid.  If a merge is in the way the question
\* comes next, and the cursor stays where it is.
StopAtMerge ==
    /\ Working("lay") /\ InTheWay(Oldest)
    /\ MoveTo(run.side, [run EXCEPT !.pc = "asked", !.stop = Oldest, !.last = 0,
                                    !.tip = 0, !.rest = {}])
    /\ broken' = TRUE
    /\ UNCHANGED <<db, logged, origin, left, foreign>>

EndPass ==
    /\ Worked("lay")
    /\ MoveTo(run.side, [run EXCEPT !.pc = "cursor", !.tip = 0])
    /\ UNCHANGED <<db, logged, origin, left, foreign, broken>>

MoveForwardCursor ==
    /\ At("cursor")
    /\ ref' = IF run.last = 0 THEN ref ELSE [ref EXCEPT ![Fwd(run.side)] = run.last]
    /\ IF run.side = "clean"
       THEN run' = [run EXCEPT !.pc = "pass", !.side = "history", !.last = 0]
       ELSE Finish
    /\ UNCHANGED <<db, logged, origin, left, foreign, broken>>

-----------------------------------------------------------------------------
(* A merge commit on unclean: what _resolve_unclean_merge does about it.   *)

Second == db[run.stop].merged
Answered(answer) ==
    /\ At("asked")
    /\ <<run.side, answer>> \in Answers
    /\ run.flag = "menu" \/ run.flag = answer

\* sync_branch starts over; what the first passes paired is forgotten.
StartOver(fake) ==
    [run EXCEPT !.pc = "clean", !.side = "clean", !.fake = fake, !.stop = 0,
                !.last = 0, !.mates = {}]

\* Replay this merge, and every other one of the run, as one plain commit.
AnswerFake ==
    /\ Answered("fake")
    /\ run' = StartOver(TRUE)
    /\ UNCHANGED <<db, ref, logged, origin, left, foreign, broken>>

AnswerAbort ==
    /\ Answered("abort")
    /\ Finish
    /\ UNCHANGED <<db, ref, logged, origin, left, foreign, broken>>

\* Mutant: the merge is committed as git made it.
AttemptUnfiltered ==
    Commit(db, ref[run.side], Second, MergeTree(db, ref[run.side], Second, NoisyPaths),
           NoTrailers, db[run.stop].date)

\* build_filtered_merge_commit: a true merge of the same second parent, from
\* which every file that is not for this side is removed.
Attempt ==
    LET ours == ref[run.side]
        tree == MergeTree(db, ours, Second, NoisyPaths)
    IN  Commit(db, ours, Second,
               [p \in Paths |-> IF p \in Kept(run.side) THEN tree[p] ELSE Absent],
               NoTrailers, db[run.stop].date)
AttemptWorks ==
    /\ Related(db, ref[run.side], Second)
    /\ Conflicts(db, ref[run.side], Second) \subseteq NoisyPaths

AnswerAttempt ==
    /\ Answered("attempt")
    /\ IF AttemptWorks
       THEN /\ db' = Append(db, Attempt)
            /\ ref' = [ref EXCEPT ![run.side] = Len(db) + 1]
            /\ Go("resolved")
            /\ foreign' = TRUE
       ELSE /\ IF run.flag = "menu" THEN run' = run ELSE Finish
            /\ UNCHANGED <<db, ref, foreign>>
    /\ UNCHANGED <<logged, origin, left, broken>>

\* The author merges the second parent by hand, settling conflicts either way;
\* the tool amends the merge to carry the source's trailer.
MergeByHand ==
    /\ Answered("manual")
    /\ \E taken \in SUBSET Conflicts(db, ref[run.side], Second) :
          db' = Append(db, Commit(db, ref[run.side], Second,
                                  MergeTree(db, ref[run.side], Second, taken),
                                  NoTrailers, db[run.stop].date))
    /\ ref' = [ref EXCEPT ![run.side] = Len(db) + 1]
    /\ Go("merged")
    /\ foreign' = TRUE
    /\ UNCHANGED <<logged, origin, left, broken>>

AnswerManual ==
    /\ At("merged")
    /\ LET mine == db[ref[run.side]]
       IN  db' = Append(db, Commit(db, FirstParent(db, ref[run.side]), mine.merged,
                                   mine.tree, [NoTrailers EXCEPT !.source = run.stop],
                                   mine.date))
    /\ ref' = [ref EXCEPT ![run.side] = Len(db) + 1]
    /\ Go("resolved")
    /\ UNCHANGED <<logged, origin, left, foreign, broken>>

\* The cursor passes the merge, and sync_branch is tried again.
MergeResolved ==
    /\ At("resolved")
    /\ ref' = [ref EXCEPT ![Fwd(run.side)] = run.stop]
    /\ run' = StartOver(run.fake)
    /\ UNCHANGED <<db, logged, origin, left, foreign, broken>>

-----------------------------------------------------------------------------
(* The reverse direction: reconstruct_unclean.                             *)

Past(r) == PastOf(db, ref[r])

\* _new_shas_since_cursor: a cursor that the branch no longer contains counts
\* for nothing, and then all of the branch's own commits are new.
NewOn(side) ==
    Past(side) \ db[IF ref[Rev(side)] \in Past(side) THEN ref[Rev(side)] ELSE Bound(side)].anc

\* correlate_clean_infos: a clean commit has the source of the first commit, of
\* those in history, that names it as its counterpart.
Naming(i, history) == {h \in history : db[h].note.mate = i}
Source(i, history) ==
    IF db[i].note.source = 0 /\ Naming(i, history) # {}
    THEN db[Min(Naming(i, history))].note.source
    ELSE db[i].note.source

\* _key_for_info: the source, or else a mark made of the commit's own name.
Key(i, history) == IF Source(i, history) # 0 THEN Source(i, history) ELSE -i
NewKey(i) == Key(i, NewOn("history"))
AllKey(i) == Key(i, Past("history"))

\* read_unclean_source_order: what unclean was rebuilt from; a key's place is where
\* it comes first.
RebuiltFor(key) == {i \in Past("unclean") : db[i].note.recon = key}
Known(key) == key > 0 /\ RebuiltFor(key) # {}
Place(key) == Min(RebuiltFor(key))

\* bucket_commits, correlate_clean_infos and check_order_consistency raise
\* ValueError (--force is off).
SourcesDisagree ==
    \E g, h \in Past("history") : /\ db[g].note.mate # 0 /\ db[g].note.mate = db[h].note.mate
                                  /\ db[g].note.source # db[h].note.source
KeyTwice(side) ==
    \E i, j \in NewOn(side) : i # j /\ NewKey(i) = NewKey(j)
OutOfOrder(side) ==
    \E i, j \in NewOn(side) :
        /\ i < j
        /\ Known(NewKey(i)) /\ Known(NewKey(j))
        /\ Place(NewKey(i)) > Place(NewKey(j))
Refused ==
    \/ SourcesDisagree
    \/ \E side \in Sides : KeyTwice(side) \/ OutOfOrder(side)

\* detect_divergences: a pair that was rebuilt before, and that would now be
\* rebuilt differently.
LatestWith(side, key) == Max({0} \cup {i \in Past(side) : AllKey(i) = key})
RebuiltAs(key) == Max(RebuiltFor(key))
Expected(key) ==
    LET base == TreeOf(db, FirstParent(db, RebuiltAs(key)))
        code == Overlay(db, base, LatestWith("clean", key), Paths)
    IN  Overlay(db, code, LatestWith("history", key), Paths)
Diverged(key) ==
    /\ \A side \in Sides : LatestWith(side, key) # 0
    /\ Expected(key) # db[RebuiltAs(key)].tree
Divergences ==
    {[at |-> Place(key), old |-> RebuiltAs(key), tree |-> Expected(key)] :
        key \in {k \in {db[i].note.recon : i \in Past("unclean")} \ {0} : Diverged(k)}}

ReadSides ==
    /\ At("rebuild")
    /\ IF Refused \/ (ref["clean"] = 0 /\ ref["history"] = 0)
       THEN /\ Finish
            /\ UNCHANGED ref
       ELSE /\ run' = [run EXCEPT !.pc = "rewrite",
                                  !.todo = IF run.rewrite THEN Divergences ELSE {}]
            /\ ref' = [ref EXCEPT !["unclean"] = IF @ = 0 THEN Main ELSE @]
    /\ UNCHANGED <<db, logged, origin, left, foreign, broken>>

\* _rewrite_from, the first divergence first: the tree of one commit of unclean is
\* replaced, and every commit listed after it is applied again on top, each with
\* one parent.  After a first rewrite the next commit to rewrite has a new name
\* too: it is not found on the branch, and the run ends with a ValueError.
RewriteDiverged ==
    /\ At("rewrite") /\ run.todo # {}
    /\ \E next \in run.todo :
          /\ \A d \in run.todo : next.at <= d.at
          /\ IF next.old \in Past("unclean")
             THEN /\ db' = Append(db, Commit(db, FirstParent(db, next.old), 0, next.tree,
                                             db[next.old].note, db[next.old].date))
                  /\ run' = [run EXCEPT !.pc = "again", !.tip = Len(db) + 1,
                                         !.todo = @ \ {next},
                                         !.rest = {i \in Past("unclean") : i > next.old}]
             ELSE /\ Finish
                  /\ UNCHANGED db
    /\ broken' = TRUE
    /\ UNCHANGED <<ref, logged, origin, left, foreign>>

ApplyAgain ==
    /\ Working("again")
    /\ LET i == Oldest
       IN  Make(i, Commit(db, run.tip, 0, Overlay(db, db[run.tip].tree, i, Paths),
                          db[i].note, db[i].date))
    /\ UNCHANGED <<ref, logged, origin, left, foreign, broken>>

Rewritten ==
    /\ Worked("again")
    /\ MoveTo("unclean", [run EXCEPT !.pc = "rewrite", !.tip = 0])
    /\ UNCHANGED <<db, logged, origin, left, foreign, broken>>

\* One item for each key among the new commits, clean's first.
Item(key) ==
    [side \in Sides |-> Max({0} \cup {i \in NewOn(side) : NewKey(i) = key})]
Items ==
    {key \in {NewKey(i) : i \in NewOn("clean") \cup NewOn("history")} : ~Known(key)}

\* _order_buckets: by the place of the last commit before it, on its own side,
\* that unclean had already; then by author date; then clean before history; and
\* then as they are listed.
Leading(item) == IF item.clean # 0 THEN item.clean ELSE item.history
Preceding(item) ==
    LET side    == IF item.clean # 0 THEN "clean" ELSE "history"
        matched == {i \in NewOn(side) : i < Leading(item) /\ Known(NewKey(i))}
    IN  IF matched = {} THEN 0 ELSE Place(NewKey(Max(matched)))
Before(j, k) ==
    LET Rank(key) == <<Preceding(Item(key)), db[Leading(Item(key))].date,
                       IF Item(key).clean # 0 THEN 0 ELSE 1, Leading(Item(key))>>
        differ    == {n \in 1..4 : Rank(j)[n] # Rank(k)[n]}
    IN  differ # {} /\ Rank(j)[Min(differ)] < Rank(k)[Min(differ)]

StartRebuild ==
    /\ At("rewrite") /\ run.todo = {}
    /\ run' = [run EXCEPT !.pc = "build", !.tip = ref["unclean"], !.rest = Items]
    /\ UNCHANGED <<db, ref, logged, origin, left, foreign, broken>>

\* build_merged_commit.
\* Mutant: what history did in a pair is not applied.
MergedLeading(item) == Overlay(db, db[run.tip].tree, Leading(item), Paths)

Merged(item) ==
    LET first == Overlay(db, db[run.tip].tree, Leading(item), Paths)
    IN  IF item.clean # 0 /\ item.history # 0
        THEN Overlay(db, first, item.history, Paths) ELSE first

BuildItem ==
    /\ Working("build")
    /\ \E key \in run.rest :
          LET item == Item(key)
          IN  /\ \A j \in run.rest \ {key} : Before(key, j)
              /\ Make(key, Commit(db, run.tip, 0, Merged(item),
                     [NoTrailers EXCEPT !.recon = IF key > 0 THEN key ELSE Leading(item)],
                     db[Leading(item)].date))
    /\ UNCHANGED <<ref, logged, origin, left, foreign, broken>>

RebuildUnclean ==
    /\ Worked("build")
    /\ MoveTo("unclean", [run EXCEPT !.pc = "revClean", !.tip = 0])
    /\ UNCHANGED <<db, logged, origin, left, foreign, broken>>

MoveReverseCursor ==
    /\ At("revClean") \/ At("revHistory")
    /\ LET side == IF At("revClean") THEN "clean" ELSE "history"
       IN  ref' = [ref EXCEPT ![Rev(side)] = IF ref[side] = 0 THEN @ ELSE ref[side]]
    /\ IF At("revClean") THEN Go("revHistory") ELSE Finish
    /\ UNCHANGED <<db, logged, origin, left, foreign, broken>>

-----------------------------------------------------------------------------
(* Invocations: run_with_recovery logs the refs before anything moves.     *)

Start(kind, begun) ==
    /\ At("idle")
    /\ Spend(kind)
    /\ run' = begun
    /\ logged' = ref
    /\ UNCHANGED <<db, ref, origin>>

SyncToCleanHistory ==
    /\ \E flag \in Flags :
          Start("forward", [Idle EXCEPT !.pc = "clean", !.flag = flag, !.fake = (flag = "fake")])
    /\ UNCHANGED <<foreign, broken>>

SyncToUnclean ==
    /\ \E rewrite \in Rewrites : Start("reverse", [Idle EXCEPT !.pc = "rebuild", !.rewrite = rewrite])
    /\ foreign' = TRUE
    /\ UNCHANGED broken

BootstrapBranch ==
    /\ Start("bootstrap", [Idle EXCEPT !.pc = "boot"])
    /\ foreign' = TRUE
    /\ UNCHANGED broken

CreateHistory ==
    /\ At("boot")
    /\ IF ref["clean"] = 0
       THEN /\ Finish
            /\ UNCHANGED ref
       ELSE /\ Go(IF ref["history"] = 0 THEN "bootFork" ELSE "rebuild")
            /\ ref' = [ref EXCEPT !["history"] = IF @ = 0 THEN HistoryMain ELSE @]
    /\ UNCHANGED <<db, logged, origin, left, foreign, broken>>

\* The process is killed.  If it was flattening merges, a side may be past one
\* that its cursor is not past; a run that stops at the merge then lays older
\* commits over newer ones, and the side shows a mixture.
Crash ==
    /\ ~At("idle")
    /\ Spend("crash")
    /\ Finish
    /\ broken' = TRUE
    /\ foreign' = (foreign \/ run.fake)
    /\ UNCHANGED <<db, ref, logged, origin>>

\* The undo commands of the last entry, run while nobody has committed since.
Undo ==
    /\ At("idle") /\ logged # <<>>
    /\ Spend("undo")
    /\ ref' = logged
    /\ logged' = <<>>
    /\ UNCHANGED <<db, run, origin, foreign, broken>>

-----------------------------------------------------------------------------
(* What authors do between invocations.                                    *)

Tip(r) == db[ref[r]]

\* An edit says what becomes of the files it is about.
Edited(e, r) == [p \in Paths |-> IF p \in DOMAIN e THEN e[p] ELSE Tip(r).tree[p]]

\* One more commit, and the branch moves to it.
Extend(r, commit) ==
    /\ At("idle")
    /\ db' = Append(db, commit)
    /\ ref' = [ref EXCEPT ![r] = Len(db) + 1]
    /\ logged' = <<>>
    /\ UNCHANGED <<run, origin>>

\* git refuses a commit that changes nothing.
AuthorCommit(r) ==
    /\ ref[r] # 0
    /\ Spend(r)
    /\ \E e \in Edits[r], d \in Dates :
          /\ Edited(e, r) # Tip(r).tree
          /\ Extend(r, Commit(db, ref[r], 0, Edited(e, r), NoTrailers, d))
    /\ foreign' = (foreign \/ r # "unclean")
    /\ UNCHANGED broken

\* split.py merge-base, or an ordinary git merge, on unclean; the author settles
\* the conflicts that the tool leaves, file by file.
MergeIntoUnclean ==
    /\ ref["unclean"] # 0
    /\ Spend("merge")
    /\ \E theirs \in Incoming \ Tip("unclean").anc :
          LET open == Conflicts(db, ref["unclean"], theirs)
          IN  \E taken \in SUBSET (open \ NoisyPaths), d \in Dates :
                 Extend("unclean",
                        Commit(db, ref["unclean"], theirs,
                               MergeTree(db, ref["unclean"], theirs,
                                         taken \cup (open \cap NoisyPaths)),
                               NoTrailers, d))
    /\ UNCHANGED <<foreign, broken>>

\* git commit --amend keeps the message, and so the trailers.
Amend(side) ==
    /\ ref[side] # 0 /\ ref[side] \notin db[Bound(side)].anc
    /\ Tip(side).merged = 0
    /\ Spend("amend")
    /\ \E e \in Edits[side] :
          Extend(side, Commit(db, FirstParent(db, ref[side]), 0, Edited(e, side),
                              Tip(side).note, Tip(side).date))
    /\ foreign' = TRUE
    /\ broken' = TRUE

\* git rebase: the commits of a branch that are no merges, each applied anew
\* unless it then changes nothing; a file that both changed stops the rebase.
Clashes(tree, i) ==
    \E p \in Changed(db, i) :
        tree[p] # db[i].tree[p] /\ tree[p] # TreeOf(db, FirstParent(db, i))[p]

\* rebase-branches-to-master.  Neither master moves in this model, so what is
\* left to do is to rebase unclean onto history.
RebaseBranches ==
    /\ ref["unclean"] # 0 /\ ref["history"] # 0
    /\ Start("rebase", [Idle EXCEPT !.pc = "rebase", !.tip = ref["history"],
          !.rest = {i \in Past("unclean") \ Past("history") : db[i].merged = 0}])
    /\ foreign' = TRUE
    /\ broken' = TRUE

Reapply ==
    /\ Working("rebase")
    /\ LET i    == Oldest
           tree == Overlay(db, db[run.tip].tree, i, Paths)
       IN  IF tree = db[run.tip].tree THEN Pass(i)
           ELSE IF Clashes(db[run.tip].tree, i) THEN Finish /\ UNCHANGED db
           ELSE Make(i, Commit(db, run.tip, 0, tree, db[i].note, db[i].date))
    /\ UNCHANGED <<ref, logged, origin, left, foreign, broken>>

EndRebase ==
    /\ Worked("rebase")
    /\ MoveTo("unclean", Idle)
    /\ UNCHANGED <<db, logged, origin, left, foreign, broken>>

\* git push origin x: the pre-push hook looks at the commits that are new to
\* the remote and refuses if one of them touches an AI file.
Push ==
    /\ At("idle") /\ ref["clean"] # 0
    /\ Spend("push")
    /\ \A i \in Past("clean") \ db[IF origin = 0 THEN Main ELSE origin].anc : ~AiTainted(db, i)
    /\ origin' = ref["clean"]
    /\ UNCHANGED <<db, ref, run, logged, foreign, broken>>

ForwardStep ==
    \/ EnsureClean \/ EnsureHistory \/ MarkForkPoint \/ NothingToReplay
    \/ StartPass \/ LaySource \/ StopAtMerge \/ EndPass \/ MoveForwardCursor
    \/ AnswerFake \/ AnswerAbort \/ AnswerAttempt \/ MergeByHand \/ AnswerManual
    \/ MergeResolved

ReverseStep ==
    \/ CreateHistory \/ ReadSides
    \/ RewriteDiverged \/ ApplyAgain \/ Rewritten
    \/ StartRebuild \/ BuildItem \/ RebuildUnclean \/ MoveReverseCursor

RebaseStep == RebaseBranches \/ Reapply \/ EndRebase

AuthorStep ==
    \/ \E r \in {"unclean", "clean", "history"} : AuthorCommit(r)
    \/ MergeIntoUnclean \/ Push
    \/ \E side \in Sides : Amend(side)

Next ==
    \/ SyncToCleanHistory \/ SyncToUnclean \/ BootstrapBranch
    \/ ForwardStep \/ ReverseStep \/ RebaseStep \/ Crash \/ Undo \/ AuthorStep

Spec == Init /\ [][Next]_vars

-----------------------------------------------------------------------------
(* Properties.                                                             *)

Commits == 1..Len(db)

TypeOK ==
    /\ WellFormed(db)
    /\ ref \in [RefNames -> {0} \cup Commits]
    /\ run.tip \in {0} \cup Commits /\ run.stop \in {0} \cup Commits
    /\ run.last \in {0} \cup Commits
    /\ logged # <<>> => logged \in [RefNames -> {0} \cup Commits]
    /\ origin \in {0} \cup Commits
    /\ foreign \in BOOLEAN /\ broken \in BOOLEAN

\* The forward direction of sync_splits.py keeps the promises of SplitLedger,
\* across crashes, aborted merges, flattened merges and undone runs.
PartOf(side, i) == [p \in Kept(side) |-> db[i].tree[p]]
Line == LineOf(db, ref["unclean"])
Ledger == INSTANCE SplitLedger WITH
    LedgerSides <- Sides,
    work <- [i \in Line |-> [side \in Sides |-> PartOf(side, i)]],
    view <- [side \in Sides |-> PartOf(side, IF ref[side] = 0 THEN Bound(side) ELSE ref[side])],
    acked <- [side \in Sides |-> IF ref[Fwd(side)] \in Line THEN ref[Fwd(side)] ELSE 0],
    attached <- ~foreign
LedgerSpec == Ledger!Spec

\* Whatever is synced, in whichever direction, no invocation changes an AI file
\* on a clean branch or a code file on a history branch; a merge made by hand
\* is its author's.
KeepsApart ==
    \A side \in Sides :
        ~At("idle") /\ ~At("merged")' /\ ref[side] # 0 =>
           \A p \in Paths \ Kept(side) : db'[ref'[side]].tree[p] = Tip(side).tree[p]
SidesKeptApart == [][KeepsApart]_vars

\* A commit of unclean becomes one commit of history, and history has them in
\* the order of unclean, unless an invocation was cut short or commits were
\* rewritten: a second copy makes every later reverse sync refuse.
HistoryHasEachOnce ==
    ~broken /\ ref["history"] # 0 =>
        \A i, j \in Tip("history").line :
            i < j /\ db[i].note.source # 0 /\ db[j].note.source # 0 =>
                db[i].note.source < db[j].note.source

\* Once unclean has been rebuilt, and held nothing that had not been delivered
\* before, each file that is for one side, and that no commit of the other one
\* touched, is on unclean as that side's commits left it, however the commits
\* of the two sides were interleaved.  The new ones are sorted by author date,
\* so the claim needs each side's dates to increase: otherwise an older commit
\* can be laid over a younger one of its own side.
Delivered == \A i \in Line : \/ db[i].note.recon # 0
                                    \/ i \in db[Main].anc \cup db[HistoryMain].anc
                                    \/ \A side \in Sides : /\ ref[Fwd(side)] # 0
                                                           /\ i \in db[ref[Fwd(side)]].anc
DatesInOrder ==
    \A side \in Sides : \A i, j \in Past(side) \ db[Bound(side)].anc :
        i < j => db[i].date < db[j].date
Touched(side) ==
    UNION {Changed(db, i) : i \in Past(side) \ db[Bound(side)].anc}
RebuiltShowsSides ==
    At("revClean") /\ ~broken /\ Delivered /\ DatesInOrder =>
        \A side \in Sides :
            \A p \in (Touched(side) \cap Kept(side)) \ UNION {Touched(s) : s \in Sides \ {side}} :
                Tip("unclean").tree[p] = Tip(side).tree[p]

\* No commit that origin has got through the pre-push hook touches an AI file.
OriginHasNoAi ==
    origin # 0 => \A p \in AiPaths : db[origin].tree[p] = db[Main].tree[p]
=============================================================================
