--------------------------- MODULE HistoryProofs ---------------------------
(***************************************************************************)
(* Theorems about HistoryMaster, for every set of branches and every       *)
(* scenario: what the state file says of git; the types; that every merge  *)
(* ai/history/master reaches has its marker there; and that when a run     *)
(* moves the ref, nothing that was on it is dropped.  They hold across      *)
(* every order of runs, conflicts, kills, --continue, --abort and what the *)
(* author and others do meanwhile.                                         *)
(*                                                                         *)
(* The inductive invariant is FitInv, of the state file, with HistoryInv,  *)
(* of the lines: what a run has made so far, with what it has left to do,  *)
(* is always enough for a line that history can be.                        *)
(***************************************************************************)
EXTENDS HistoryMaster, NaturalBounds

-----------------------------------------------------------------------------
(* The state file: what is inductive.                                      *)

\* What the variables are records of.
Fields == {"pc", "tip", "todo", "old", "from", "resumed", "merges"}
Formed == DOMAIN ref = RefNames /\ DOMAIN run = Fields

\* There is one step left.
One(steps) == \E step : steps = {step}

\* A file or run with one step left.
LEMMA OneStep == ASSUME NEW step PROVE First({step}) = step /\ Rest({step}) = {}
BY DEF First, Rest

\* A run that has met a conflict, and is about to write the state file, has the
\* scratch branch and the operation as the file will tell; a merge is base's, and
\* the last step there is.
Saving ==
    At("save") =>
        /\ head = "scratch" /\ ref["scratch"] = run.tip
        /\ op.sha = First(run.todo).sha
        /\ \/ op.kind = "cherry-pick"
           \/ op.kind = "merge" /\ One(run.todo)

\* So the file, if there is one, names one of the two operations.
Pending ==
    state # <<>> =>
        \/ state.op = "cherry-pick"
        \/ state.op = "merge" /\ One(state.todo)

\* While there is a file only a resumed run is at work.  Until its own conflict it
\* has nothing in progress, and after base's merge it has no steps left, so that
\* the merge that recreate_base_merge leaves behind is never taken for the file's.
Resuming ==
    state # <<>> /\ ~At("idle") =>
        /\ run.resumed /\ ~At("plan")
        /\ At("save") \/ op = NoOp
        /\ At("step") /\ state.op = "merge" => run.todo = {}

\* All of that, and the property itself.
FitInv == Formed /\ Saving /\ Pending /\ Resuming /\ StateFits

-----------------------------------------------------------------------------
\* At first there is neither a run nor a file.
LEMMA InitFits == Init => FitInv
<1> SUFFICES ASSUME Init PROVE FitInv
  OBVIOUS
<1>1. PICK s \in Scenarios : ref = s.ref
  BY DEF Init
<1>2. DOMAIN ref = RefNames
  BY <1>1, ScenariosAssumption
<1>3. DOMAIN run = Fields
  BY DEF Init, Idle, Fields
<1>4. state = <<>> /\ run.pc = "idle"
  BY DEF Init, Idle
<1> QED BY <1>2, <1>3, <1>4 DEF FitInv, Formed, Saving, Pending, Resuming, StateFits, At
-----------------------------------------------------------------------------
(* The state file: steps.                                                  *)

\* With nothing in progress no state file fits, and with none there is nothing to fit.
LEMMA Unfit ==
  ASSUME Pending, op = NoOp \/ state = <<>> PROVE StateFits
BY DEF Pending, StateFits, NoOp

\* A process that ends with nothing in progress, or with no file about.
LEMMA Ends ==
  ASSUME FitInv, run' = Idle, DOMAIN ref' = RefNames, state' = state,
         op' = NoOp \/ state = <<>>
  PROVE  FitInv'
<1>1. DOMAIN run' = Fields /\ run'.pc = "idle"
  BY DEF Idle, Fields
<1>2. Pending'
  BY DEF FitInv, Pending
<1> QED BY <1>1, <1>2 DEF FitInv, Formed, Saving, Pending, Resuming, StateFits, At, NoOp

\* What happens beside a run, or with none about, without touching the scratch
\* branch, the operation and the file.
LEMMA Aside ==
  ASSUME FitInv, UNCHANGED <<head, op, state, run>>, odd \subseteq odd',
         DOMAIN ref' = RefNames, ref'["scratch"] = ref["scratch"]
  PROVE  FitInv'
BY DEF FitInv, Formed, Saving, Pending, Resuming, StateFits, At

\* A run that goes on at another place than save, with what it has left no longer,
\* unless it is about to take the first step.
LEMMA Proceeds ==
  ASSUME FitInv, ~At("idle"), ~At("save"), DOMAIN run' = Fields, DOMAIN ref' = RefNames,
         run'.pc \notin {"idle", "plan", "save"}, state' = state,
         run'.resumed = run.resumed, op' = NoOp \/ UNCHANGED op,
         state # <<>> /\ run'.pc = "step" /\ state.op = "merge" => run'.todo = {}
  PROVE  FitInv'
BY DEF FitInv, Formed, Saving, Pending, Resuming, StateFits, At

\* A run meets a conflict that it is going to write down.
LEMMA Conflicts ==
  ASSUME FitInv, ~At("idle"), DOMAIN run' = Fields, DOMAIN ref' = RefNames,
         run'.pc = "save", run'.tip = run.tip, run'.resumed = run.resumed, state' = state,
         ~At("plan"),
         NEW what, NEW sha, Stop(what, sha), sha = First(run'.todo).sha,
         what = "cherry-pick" \/ (what = "merge" /\ One(run'.todo))
  PROVE  FitInv'
<1>1. /\ head' = "scratch" /\ ref'["scratch"] = run.tip
      /\ op'.sha = sha /\ op'.kind = what
  BY DEF Stop, FitInv, Formed, RefNames
<1> QED BY <1>1 DEF FitInv, Formed, Saving, Pending, Resuming, StateFits, At

\* The process: update-history-master, --continue, --abort, and its being killed.
LEMMA ProcessFits ==
  ASSUME FitInv, Process PROVE FitInv'
<1>run. DOMAIN run = Fields /\ DOMAIN ref = RefNames
  BY DEF FitInv, Formed
<1>1. CASE Begin
  <2>1. DOMAIN ref' = RefNames /\ state = <<>> /\ state' = <<>>
    BY <1>1, <1>run DEF Begin, NonePending
  <2>2. run' = run \/ (DOMAIN run' = Fields /\ run'.pc = "plan")
    <3>1. \/ run' = run
          \/ \E registered : run' = [Idle EXCEPT !.pc = "plan", !.from = head, !.merges = registered]
      BY <1>1 DEF Begin
    <3>2. CASE \E registered :
                 run' = [Idle EXCEPT !.pc = "plan", !.from = head, !.merges = registered]
      <4>1. PICK registered :
              run' = [Idle EXCEPT !.pc = "plan", !.from = head, !.merges = registered]
        BY <3>2
      <4> QED BY <4>1 DEF Idle, Fields
    <3> QED BY <3>1, <3>2
  <2> QED BY <1>run, <1>1, <2>1, <2>2
      DEF Begin, FitInv, Formed, Saving, Pending, Resuming, StateFits, At
<1>2. CASE Plan
  <2>1. At("plan") /\ UNCHANGED <<ref, head, op, state, odd>>
    BY <1>2 DEF Plan
  <2>2. state = <<>>
    BY <2>1 DEF FitInv, Resuming, At
  <2>3. CASE run' = Idle
    BY <1>run, <2>1, <2>2, <2>3, Ends
  <2>4. CASE run' # Idle
    <3>1. DOMAIN run' = Fields /\ run'.pc = "step" /\ run'.resumed = run.resumed
      BY <1>2, <1>run, <2>4 DEF Plan, Fields
    <3> QED BY <1>run, <2>1, <2>2, <3>1, Proceeds DEF At
  <2> QED BY <2>3, <2>4
<1>3. CASE ReplayCommit
  <2>1. At("step") /\ run.todo # {} /\ state' = state
    BY <1>3 DEF ReplayCommit, Stepping
  <2>2. state # <<>> => op = NoOp /\ state.op # "merge"
    BY <2>1 DEF FitInv, Resuming, At
  <2>3. CASE Refuse
    BY <1>run, <2>1, <2>2, <2>3, Ends DEF Refuse
  <2>4. CASE Advance(New) /\ \E commit : Made(commit)
    <3>1. /\ DOMAIN run' = Fields /\ run'.pc = "step" /\ run'.resumed = run.resumed
          /\ DOMAIN ref' = RefNames /\ op' = NoOp
      BY <1>run, <2>1, <2>4 DEF Advance, Made, Fields, At
    <3> QED BY <2>1, <2>2, <3>1, Proceeds DEF At
  <2>5. CASE Stop("cherry-pick", First(run.todo).sha) /\ run' = [run EXCEPT !.pc = "save"]
    <3>1. /\ DOMAIN run' = Fields /\ run'.pc = "save" /\ run'.resumed = run.resumed
          /\ run'.tip = run.tip /\ run'.todo = run.todo /\ DOMAIN ref' = RefNames
      BY <1>run, <2>5 DEF Stop, Fields
    <3> DEFINE sha == First(run.todo).sha
    <3>2. Stop("cherry-pick", sha) /\ sha = First(run'.todo).sha
      BY <2>5, <3>1
    <3> HIDE DEF sha
    <3> QED BY <2>1, <3>1, <3>2, Conflicts DEF At
  <2> QED BY <1>3, <2>3, <2>4, <2>5 DEF ReplayCommit
<1>4. CASE RecreateBaseMerge
  <2>1. At("step") /\ run.todo # {} /\ state' = state
    BY <1>4 DEF RecreateBaseMerge, Stepping
  <2>2. state # <<>> => op = NoOp /\ state.op = "cherry-pick"
    BY <2>1 DEF FitInv, Resuming, Pending, At
  <2>3. CASE Refuse
    BY <1>run, <2>1, <2>2, <2>3, Ends DEF Refuse
  <2>4. CASE Advance(New) /\ \E commit : Made(commit)
    <3>1. /\ DOMAIN run' = Fields /\ run'.pc = "step" /\ run'.resumed = run.resumed
          /\ DOMAIN ref' = RefNames /\ op' = NoOp
      BY <1>run, <2>1, <2>4 DEF Advance, Made, Fields, At
    <3>2. state # <<>> => state.op # "merge"
      BY <2>2
    <3> QED BY <2>1, <3>1, <3>2, Proceeds DEF At
  <2>5. CASE \E sha : Stop("merge", sha) /\ run' = Idle
    <3>1. op'.kind = "merge" /\ DOMAIN ref' = RefNames
      BY <1>run, <2>5 DEF Stop
    <3>2. DOMAIN run' = Fields /\ run'.pc = "idle"
      BY <2>5 DEF Idle, Fields
    <3> QED BY <2>1, <2>2, <3>1, <3>2
        DEF FitInv, Formed, Saving, Pending, Resuming, StateFits, At
  <2> QED BY <1>4, <2>3, <2>4, <2>5 DEF RecreateBaseMerge
<1>5. CASE CreateMergeMarker
  <2>1. At("step") /\ run.todo # {} /\ UNCHANGED <<ref, op, state>> /\ Advance(New)
    BY <1>5 DEF CreateMergeMarker, Stepping
  <2>2. DOMAIN run' = Fields /\ run'.pc = "step" /\ run'.resumed = run.resumed
    BY <1>run, <2>1 DEF Advance, Fields, At
  <2>3. state # <<>> => state.op # "merge"
    BY <2>1 DEF FitInv, Resuming, At
  <2> QED BY <1>run, <2>1, <2>2, <2>3, Proceeds DEF At
<1>6. CASE StepsDone
  <2>1. At("step") /\ UNCHANGED <<ref, op, state>>
    BY <1>6 DEF StepsDone
  <2>2. DOMAIN run' = Fields /\ run'.pc \in {"move", "fold"} /\ run'.resumed = run.resumed
    BY <1>run, <1>6 DEF StepsDone, Fields
  <2> QED BY <1>run, <2>1, <2>2, Proceeds DEF At
<1>7. CASE FoldBase
  <2>1. At("fold") /\ state' = state
    BY <1>7 DEF FoldBase
  <2>2. state # <<>> => op = NoOp
    BY <2>1 DEF FitInv, Resuming, At
  <2>3. CASE Refuse
    BY <1>run, <2>1, <2>2, <2>3, Ends DEF Refuse
  <2>4. CASE /\ \E commit : Made(commit)
             /\ run' = [run EXCEPT !.tip = New, !.pc = "move"]
    <3>1. /\ DOMAIN run' = Fields /\ run'.pc = "move" /\ run'.resumed = run.resumed
          /\ DOMAIN ref' = RefNames /\ op' = NoOp
      BY <1>run, <2>4 DEF Made, Fields
    <3> QED BY <2>1, <3>1, Proceeds DEF At
  <2>5. CASE /\ Stop("merge", ref["base"])
             /\ run' = [run EXCEPT !.pc = "save", !.todo = {Step("base_fold", ref["base"], NoBranch, 0)}]
    <3> DEFINE step == Step("base_fold", ref["base"], NoBranch, 0)
    <3>1. /\ DOMAIN run' = Fields /\ run'.pc = "save" /\ run'.resumed = run.resumed
          /\ run'.tip = run.tip /\ run'.todo = {step} /\ DOMAIN ref' = RefNames
      BY <1>run, <2>5 DEF Stop, Fields
    <3>2. step.sha = ref["base"]
      BY DEF Step
    <3> HIDE DEF step
    <3>3. First(run'.todo) = step /\ One(run'.todo)
      BY <3>1, OneStep DEF One
    <3> QED BY <2>1, <2>5, <3>1, <3>2, <3>3, Conflicts DEF At
  <2> QED BY <1>7, <2>3, <2>4, <2>5 DEF FoldBase
<1>8. CASE SaveState
  <2>1. /\ state'.op = op.kind /\ state'.todo = run.todo /\ state'.tip = run.tip
        /\ UNCHANGED <<ref, head, op, odd>> /\ At("save")
    BY <1>8 DEF SaveState
  <2>2. DOMAIN run' = Fields /\ run'.pc = "idle"
    BY <1>8 DEF SaveState, Idle, Fields
  <2> QED BY <1>run, <2>1, <2>2
      DEF FitInv, Formed, Saving, Pending, Resuming, StateFits, At
<1>9. CASE MoveHistory
  <2>1. At("move") /\ UNCHANGED <<op, state>> /\ DOMAIN ref' = RefNames
    BY <1>run, <1>9 DEF MoveHistory
  <2>2. state # <<>> => op = NoOp
    BY <2>1 DEF FitInv, Resuming, At
  <2>3. CASE run' = Idle
    <3>1. op = NoOp => op' = NoOp
      BY <2>1
    <3> QED BY <2>1, <2>2, <2>3, <3>1, Ends
  <2>4. CASE run' = [run EXCEPT !.pc = "restore"]
    <3>1. DOMAIN run' = Fields /\ run'.pc = "restore" /\ run'.resumed = run.resumed
      BY <1>run, <2>4 DEF Fields
    <3> QED BY <2>1, <3>1, Proceeds DEF At
  <2> QED BY <1>9, <2>3, <2>4 DEF MoveHistory
<1>10. CASE RestoreCheckout
  <2>1. At("restore") /\ UNCHANGED <<ref, op, state>>
    BY <1>10 DEF RestoreCheckout
  <2>2. state # <<>> => run.resumed
    BY <2>1 DEF FitInv, Resuming, At
  <2>3. CASE run.resumed
    <3>1. DOMAIN run' = Fields /\ run'.pc = "clear" /\ run'.resumed = run.resumed
      BY <1>run, <1>10, <2>3 DEF RestoreCheckout, Fields
    <3> QED BY <1>run, <2>1, <3>1, Proceeds DEF At
  <2>4. CASE ~run.resumed
    <3>1. run' = Idle
      BY <1>10, <2>4 DEF RestoreCheckout
    <3> QED BY <1>run, <2>1, <2>2, <2>4, <3>1, Ends
  <2> QED BY <2>3, <2>4
<1>11. CASE ClearState
  <2>1. DOMAIN run' = Fields /\ run'.pc = "idle" /\ state' = <<>> /\ UNCHANGED ref
    BY <1>11 DEF ClearState, Idle, Fields
  <2> QED BY <1>run, <2>1 DEF FitInv, Formed, Saving, Pending, Resuming, StateFits, At
<1>12. CASE Continue
  <2>1. op' = NoOp /\ DOMAIN ref' = RefNames /\ state' = state /\ state # <<>>
    BY <1>run, <1>12 DEF Continue, Made
  <2>2. /\ DOMAIN run' = Fields /\ run'.pc = "step" /\ run'.resumed
        /\ run'.todo = Rest(state.todo)
    BY <1>12 DEF Continue, Idle, Fields
  <2>3. state.op = "merge" => run'.todo = {}
    <3>1. SUFFICES ASSUME state.op = "merge" PROVE Rest(state.todo) = {}
      BY <2>2
    <3>2. PICK step : state.todo = {step}
      BY <2>1, <3>1 DEF FitInv, Pending, One
    <3> QED BY <3>2, OneStep
  <2> QED BY <2>1, <2>2, <2>3 DEF FitInv, Formed, Saving, Pending, Resuming, StateFits, At
<1>13. CASE Abort
  <2>1. /\ state' = <<>> /\ run' = run /\ run.pc = "idle" /\ DOMAIN ref' = RefNames
    BY <1>run, <1>13 DEF Abort, At
  <2> QED BY <1>run, <2>1 DEF FitInv, Formed, Saving, Pending, Resuming, StateFits, At
<1>14. CASE Crash
  <2>1. /\ run' = Idle /\ UNCHANGED <<op, state>> /\ ~At("idle")
    BY <1>14 DEF Crash
  <2>2. DOMAIN ref' = RefNames
    BY <1>run, <1>14 DEF Crash
  <2>3. CASE op = NoOp \/ state = <<>>
    <3>1. op = NoOp => op' = NoOp
      BY <2>1
    <3> QED BY <2>1, <2>2, <2>3, <3>1, Ends
  <2>4. CASE op # NoOp /\ state # <<>>
    <3>1. "cut" \in odd'
      BY <1>14, <2>1, <2>4 DEF Crash, FitInv, Resuming, At
    <3>2. DOMAIN run' = Fields /\ run'.pc = "idle"
      BY <2>1 DEF Idle, Fields
    <3> QED BY <2>1, <2>2, <3>1, <3>2
        DEF FitInv, Formed, Saving, Pending, Resuming, StateFits, At
  <2> QED BY <2>3, <2>4
<1> QED
  BY <1>1, <1>2, <1>3, <1>4, <1>5, <1>6, <1>7, <1>8, <1>9, <1>10, <1>11, <1>12, <1>13, <1>14
  DEF Process

\* The author and everyone else, and steps that change nothing.
LEMMA OthersFit ==
  ASSUME FitInv, Author \/ Others \/ UNCHANGED vars PROVE FitInv'
<1>run. DOMAIN run = Fields /\ DOMAIN ref = RefNames
  BY DEF FitInv, Formed
<1>1. CASE Resolve \/ Edit \/ Stash \/ UNCHANGED vars
  <2>1. UNCHANGED <<ref, head, op, state, run, odd>>
    BY <1>1 DEF Resolve, Edit, Stash, vars
  <2> QED BY <1>run, <2>1, Aside
<1>2. CASE RawAbort
  <2>1. op' = NoOp /\ UNCHANGED <<ref, state, run>> /\ run.pc = "idle"
    BY <1>2 DEF RawAbort, Quiet, At
  <2> QED BY <1>run, <2>1 DEF FitInv, Formed, Saving, Pending, Resuming, StateFits, At, NoOp
<1>3. CASE Checkout
  <2>1. op = NoOp /\ UNCHANGED <<ref, op, state, run>> /\ run.pc = "idle"
    BY <1>3 DEF Checkout, Quiet, At
  <2> QED BY <1>run, <2>1 DEF FitInv, Formed, Saving, Pending, Resuming, StateFits, At, NoOp
<1>4. CASE Others
  <2>1. UNCHANGED <<head, op, state, run, odd>>
    BY <1>4 DEF Others, MasterMoves, MasterIsRewritten, BaseMoves, HistoryMoves, BranchGrows,
                BranchIsRebased
  <2>2. DOMAIN ref' = RefNames /\ ref'["scratch"] = ref["scratch"]
    BY <1>4, <1>run
    DEF Others, MasterMoves, MasterIsRewritten, BaseMoves, HistoryMoves, BranchGrows,
        BranchIsRebased, RefNames
  <2> QED BY <2>1, <2>2, Aside
<1> QED BY <1>1, <1>2, <1>3, <1>4 DEF Author

-----------------------------------------------------------------------------
\* A state file that --continue takes up describes what git has in progress: the
\* scratch branch is at the file's tip, and the operation is its first step's,
\* unless a resumed run was killed before it noted its own conflict.
THEOREM FileFits == Spec => []StateFits
<1>1. FitInv /\ [Next]_vars => FitInv'
  BY ProcessFits, OthersFit DEF Next
<1>2. FitInv => StateFits
  BY DEF FitInv
<1> QED BY <1>1, <1>2, InitFits, PTL DEF Spec

-----------------------------------------------------------------------------
(* Commits.                                                                *)

\* d has grown into e: what it held is still there, under the same names.
Grown(d, e) == Len(e) \in Nat /\ Len(d) <= Len(e) /\ \A i \in 1..Len(d) : e[i] = d[i]

\* What a commit can be.
Kinds == {"master", "merged", "work", "base", "upstream", "marker"}

\* What the store is made of.
LEMMA RecordsTyped ==
  ASSUME NEW d, WellFormed(d)
  PROVE  /\ d \in Seq(Objects) /\ Len(d) \in Nat
         /\ \A i \in 1..Len(d) :
               /\ d[i] = [line |-> d[i].line, anc |-> d[i].anc, of |-> d[i].of,
                          branch |-> d[i].branch, kind |-> d[i].kind]
               /\ d[i].kind \in Kinds /\ d[i].branch \in Branches \cup {NoBranch}
               /\ d[i].of \in Nat
<1>1. d \in Seq(Objects)
  BY DEF WellFormed
<1>2. Len(d) \in Nat /\ \A i \in 1..Len(d) : d[i] \in Objects
  BY <1>1
<1> QED BY <1>1, <1>2 DEF Objects, Kinds

\* The first parents of commit i: i is the last of them, and each has those before it.
LEMMA LineFacts ==
  ASSUME NEW d, WellFormed(d), NEW i \in 1..Len(d)
  PROVE  /\ i \in d[i].line /\ d[i].line \subseteq d[i].anc /\ d[i].anc \subseteq 1..i
         /\ d[i].anc \subseteq 1..Len(d) /\ 1..i \subseteq 1..Len(d)
         /\ i \in Nat /\ i # 0 /\ d[i].of \in 1..i /\ d[i].of \in 1..Len(d)
         /\ \A j \in d[i].anc : j \in 1..Len(d) /\ d[j].anc \subseteq d[i].anc
         /\ \A j \in d[i].line : d[j].line = {k \in d[i].line : k <= j}
         /\ d[i].kind = "merged" => d[i].branch \in Branches
<1>1. Stands(d, i) /\ Len(d) \in Nat
  BY RecordsTyped DEF WellFormed
<1>2. 1..i \subseteq 1..Len(d)
  BY <1>1
<1> QED BY <1>1, <1>2 DEF Stands

\* What comes with another parent, if there is one.
Parent(d, i) == IF i = 0 THEN {} ELSE d[i].anc

\* A new commit on top of first, with second for another parent, keeps the store
\* well-formed.
LEMMA OneMore ==
  ASSUME NEW d, WellFormed(d), NEW first \in 1..Len(d), NEW second \in 0..Len(d), NEW c,
         c \in Objects, c.line = d[first].line \cup {Len(d) + 1},
         c.anc = d[first].anc \cup {Len(d) + 1} \cup Parent(d, second),
         c.of \in 1..(Len(d) + 1), c.kind = "merged" => c.branch \in Branches
  PROVE  /\ WellFormed(Append(d, c)) /\ Grown(d, Append(d, c))
         /\ Len(Append(d, c)) = Len(d) + 1 /\ Append(d, c)[Len(d) + 1] = c
<1>1. PICK size \in Nat : size = Len(d) /\ d \in Seq(Objects)
  BY RecordsTyped
<1> DEFINE id == size + 1
           e == Append(d, c)
<1>2. /\ e \in Seq(Objects) /\ Len(e) = id /\ e[id] = c
      /\ \A i \in 1..size : e[i] = d[i]
  BY <1>1
<1> HIDE DEF e
<1>3. /\ d[first].line \subseteq d[first].anc /\ d[first].anc \subseteq 1..size
      /\ \A j \in d[first].anc : d[j].anc \subseteq d[first].anc
      /\ \A j \in d[first].line : d[j].line = {k \in d[first].line : k <= j}
      /\ first \in 1..size /\ first \in d[first].line
  BY <1>1, LineFacts
<1>4. /\ Parent(d, second) \subseteq 1..size
      /\ \A j \in Parent(d, second) : d[j].anc \subseteq Parent(d, second)
  <2>1. CASE second = 0
    BY <2>1 DEF Parent
  <2>2. CASE second # 0
    <3>1. second \in 1..Len(d)
      BY <1>1, <2>2
    <3> QED BY <1>1, <2>2, <3>1, LineFacts DEF Parent
  <2> QED BY <2>1, <2>2
<1>5. ASSUME NEW i \in 1..size PROVE Stands(e, i)
  <2>1. Stands(d, i) /\ e[i] = d[i]
    BY <1>1, <1>2 DEF WellFormed
  <2>2. \A j \in d[i].anc : e[j] = d[j]
    BY <1>1, <1>2, LineFacts
  <2>3. \A j \in d[i].line : e[j] = d[j]
    BY <2>2, <1>1, LineFacts
  <2> QED BY <2>1, <2>2, <2>3 DEF Stands
<1>6. Stands(e, id)
  <2>1. /\ e[id].line = d[first].line \cup {id}
        /\ e[id].anc = d[first].anc \cup {id} \cup Parent(d, second)
    BY <1>1, <1>2
  <2>2. e[id].anc \subseteq 1..id /\ id \in e[id].line /\ e[id].line \subseteq e[id].anc
    BY <1>1, <1>3, <1>4, <2>1
  <2>3. ASSUME NEW j \in e[id].anc PROVE e[j].anc \subseteq e[id].anc
    <3>1. CASE j = id
      BY <3>1
    <3>2. CASE j \in d[first].anc
      <4>1. e[j] = d[j]
        BY <1>2, <1>3, <3>2
      <4> QED BY <1>3, <2>1, <3>2, <4>1
    <3>3. CASE j \in Parent(d, second)
      <4>1. e[j] = d[j]
        BY <1>2, <1>4, <3>3
      <4> QED BY <1>4, <2>1, <3>3, <4>1
    <3> QED BY <2>1, <3>1, <3>2, <3>3
  <2>4. ASSUME NEW j \in e[id].line PROVE e[j].line = {k \in e[id].line : k <= j}
    <3>1. \A k \in e[id].line : k \in Nat /\ k <= id
      BY <1>1, <2>2
    <3>2. CASE j = id
      BY <3>1, <3>2
    <3>3. CASE j # id
      <4>1. j \in d[first].line /\ j \in 1..size /\ e[j] = d[j]
        BY <1>2, <1>3, <2>1, <3>3
      <4>2. {k \in e[id].line : k <= j} = {k \in d[first].line : k <= j}
        BY <1>1, <1>3, <2>1, <4>1
      <4> QED BY <1>3, <4>1, <4>2
    <3> QED BY <3>2, <3>3
  <2>5. e[id].of \in 1..id /\ (e[id].kind = "merged" => e[id].branch \in Branches)
    BY <1>1, <1>2
  <2> QED BY <2>2, <2>3, <2>4, <2>5 DEF Stands
<1>7. WellFormed(e)
  <2>1. 1..Len(e) = (1..size) \cup {id}
    BY <1>1, <1>2
  <2> QED BY <1>2, <1>5, <1>6, <2>1 DEF WellFormed
<1>8. Grown(d, e)
  BY <1>1, <1>2 DEF Grown
<1> QED BY <1>1, <1>2, <1>7, <1>8 DEF e

\* What is said of a commit of d is said of it in e.
LEMMA Same ==
  ASSUME NEW d, NEW e, WellFormed(d), Grown(d, e), NEW i \in 1..Len(d)
  PROVE  /\ e[i] = d[i] /\ i \in 1..Len(e) /\ \A j \in d[i].anc : e[j] = d[j]
         /\ \A kind : Past(e, i, kind) = Past(d, i, kind)
         /\ Bases(e, i) = Bases(d, i) /\ Own(e, i) = Own(d, i)
         /\ \A j \in Own(d, i) : StandsFor(e, j) = StandsFor(d, j)
         /\ OnLine(d, i) => OnLine(e, i)
         /\ Whole(d, i) => Whole(e, i)
         /\ OfMaster(d, i) => OfMaster(e, i)
         /\ OfBase(d, i) => OfBase(e, i)
<1>1. PICK size \in Nat : size = Len(d)
  BY RecordsTyped
<1>2. e[i] = d[i] /\ i \in 1..Len(e)
  BY <1>1 DEF Grown
<1>3. \A j \in d[i].anc : e[j] = d[j]
  BY LineFacts DEF Grown
<1>4. \A j \in d[i].line : e[j] = d[j] /\ j \in d[i].anc
  BY <1>3, LineFacts
<1>5. \A kind : Past(e, i, kind) = Past(d, i, kind)
  BY <1>2, <1>3 DEF Past
<1>6. Bases(e, i) = Bases(d, i)
  BY <1>2, <1>4 DEF Bases
<1>7. Own(e, i) = Own(d, i)
  BY <1>2, <1>4 DEF Own
<1>8. \A j \in Own(d, i) : StandsFor(e, j) = StandsFor(d, j)
  BY <1>4 DEF Own, StandsFor
<1>9. OnLine(d, i) => OnLine(e, i)
  BY <1>2, <1>3 DEF OnLine
<1>10. Whole(d, i) => Whole(e, i)
  BY <1>2, <1>6, <1>9 DEF Whole
<1>11. OfMaster(d, i) => OfMaster(e, i)
  BY <1>2, <1>3 DEF OfMaster
<1>12. OfBase(d, i) => OfBase(e, i)
  BY <1>2, <1>3 DEF OfBase
<1> QED BY <1>2, <1>3, <1>5, <1>6, <1>7, <1>8, <1>9, <1>10, <1>11, <1>12

\* e is d and one commit more, on top of first and with second for another parent.
NewIn(d) == Len(d) + 1
OnTop(d, e, first, second) ==
  /\ WellFormed(e) /\ Grown(d, e) /\ Len(e) = NewIn(d)
  /\ first \in 1..Len(d) /\ second \in 0..Len(d)
  /\ e[NewIn(d)].line = d[first].line \cup {NewIn(d)}
  /\ e[NewIn(d)].anc = d[first].anc \cup {NewIn(d)} \cup Parent(d, second)

\* That is what git commit makes.
CommitOn(d, e, first, second, kind, of, branch) ==
  /\ OnTop(d, e, first, second) /\ NewIn(d) \in 1..Len(e) /\ NewIn(d) # 0
  /\ e[NewIn(d)].kind = kind /\ e[NewIn(d)].branch = branch
  /\ e[NewIn(d)].of = (IF of = 0 THEN NewIn(d) ELSE of)

\* The model's Commit, appended, is such a commit.
LEMMA CommitMade ==
  ASSUME WellFormed(db), NEW first \in 1..Len(db), NEW second \in 0..Len(db),
         NEW kind \in Kinds, NEW of \in 0..Len(db), NEW branch \in Branches \cup {NoBranch},
         kind = "merged" => branch \in Branches,
         NEW e, e = Append(db, Commit(first, second, kind, of, branch))
  PROVE  New = NewIn(db) /\ CommitOn(db, e, first, second, kind, of, branch)
<1>1. PICK size \in Nat : /\ size = Len(db) /\ db \in Seq(Objects)
                          /\ first \in 1..size /\ second \in 0..size /\ of \in 0..size
  BY RecordsTyped
<1> DEFINE c == Commit(first, second, kind, of, branch)
<1>2. /\ c.line = db[first].line \cup {size + 1}
      /\ c.anc = db[first].anc \cup {size + 1} \cup Parent(db, second)
      /\ c.kind = kind /\ c.branch = branch
      /\ c.of = IF of = 0 THEN size + 1 ELSE of
      /\ c = [line |-> c.line, anc |-> c.anc, kind |-> c.kind, of |-> c.of, branch |-> c.branch]
  BY <1>1 DEF Commit, Parent
<1> HIDE DEF c
<1>3. db[first].line \subseteq Nat /\ db[first].anc \subseteq Nat /\ Parent(db, second) \subseteq Nat
  <2>1. db[first].line \subseteq Nat /\ db[first].anc \subseteq Nat
    BY <1>1, LineFacts
  <2>2. second # 0 => second \in 1..size
    BY <1>1
  <2>3. second # 0 => db[second].anc \subseteq Nat
    BY <1>1, <2>2, LineFacts
  <2> QED BY <2>1, <2>3 DEF Parent
<1>4. c.of \in 1..(size + 1) /\ c.of \in Nat
  BY <1>1, <1>2
<1>5. c.line \in SUBSET Nat /\ c.anc \in SUBSET Nat
  BY <1>1, <1>2, <1>3
<1>6. c \in Objects
  BY <1>2, <1>4, <1>5 DEF Objects, Kinds
<1>7. e = Append(db, c)
  BY DEF c
<1>8. WellFormed(e) /\ Grown(db, e) /\ Len(e) = size + 1 /\ e[size + 1] = c
  BY <1>1, <1>2, <1>4, <1>6, <1>7, OneMore
<1>9. New = size + 1 /\ NewIn(db) = size + 1 /\ size + 1 # 0 /\ size + 1 \in 1..Len(e)
  BY <1>1, <1>8 DEF New, NewIn
<1> QED BY <1>1, <1>2, <1>8, <1>9 DEF CommitOn, OnTop

\* The new commit and what it reaches.
LEMMA Tip ==
  ASSUME NEW d, NEW e, NEW first, NEW second, WellFormed(d), OnTop(d, e, first, second),
         NEW n, n = NewIn(d)
  PROVE  /\ n \in 1..Len(e) /\ n \notin 1..Len(d) /\ n \in Nat /\ \A i \in 1..Len(d) : i < n
         /\ e[n].line = d[first].line \cup {n}
         /\ e[n].anc = d[first].anc \cup {n} \cup Parent(d, second)
         /\ d[first].anc \subseteq 1..Len(d) /\ Parent(d, second) \subseteq 1..Len(d)
         /\ 1..Len(e) = 1..Len(d) \cup {n}
         /\ \A j \in e[n].anc \ {n} : j \in 1..Len(d) /\ e[j] = d[j]
<1>1. PICK size \in Nat : size = Len(d) /\ n = size + 1 /\ Len(e) = size + 1
  BY RecordsTyped DEF OnTop, NewIn
<1>2. n \in 1..Len(e) /\ n \notin 1..Len(d) /\ n \in Nat /\ \A i \in 1..Len(d) : i < n
  BY <1>1
<1>3. /\ e[n].line = d[first].line \cup {n}
      /\ e[n].anc = d[first].anc \cup {n} \cup Parent(d, second)
  BY DEF OnTop
<1>4. d[first].anc \subseteq 1..Len(d)
  BY LineFacts DEF OnTop
<1>5. Parent(d, second) \subseteq 1..Len(d)
  <2>1. CASE second = 0
    BY <2>1 DEF Parent
  <2>2. CASE second # 0
    <3>1. second \in 0..size
      BY <1>1 DEF OnTop
    <3>2. second \in 1..Len(d)
      BY <1>1, <2>2, <3>1
    <3> QED BY <2>2, <3>2, LineFacts DEF Parent
  <2> QED BY <2>1, <2>2
<1>6. 1..Len(e) = 1..Len(d) \cup {n}
  BY <1>1
<1>7. \A j \in e[n].anc \ {n} : j \in 1..Len(d) /\ e[j] = d[j]
  BY <1>3, <1>4, <1>5 DEF OnTop, Grown
<1> QED BY <1>2, <1>3, <1>4, <1>5, <1>6, <1>7

\* What the new commit adds to what first has, when its other parent is base's.
LEMMA Added ==
  ASSUME NEW d, NEW e, NEW first, NEW second, WellFormed(d), OnTop(d, e, first, second),
         second = 0 \/ OfBase(d, second), NEW n, n = NewIn(d)
  PROVE  /\ \A kind : Past(d, first, kind) \subseteq Past(e, n, kind)
         /\ \A kind \in Kinds \ {"upstream"} :
               Past(e, n, kind) = Past(d, first, kind)
                                  \cup (IF e[n].kind = kind THEN {e[n].of} ELSE {})
         /\ Bases(e, n) = Bases(d, first)
                          \cup (IF e[n].kind = "base" THEN {e[n].of} ELSE {})
         /\ OnLine(d, first) => OnLine(e, n)
         /\ Own(e, n) = Own(d, first)
                        \cup (IF e[n].kind \in {"work", "base", "marker"} THEN {n} ELSE {})
         /\ \A j \in Own(d, first) : j < n /\ StandsFor(e, j) = StandsFor(d, j)
         /\ d[first].anc \subseteq e[n].anc /\ Parent(d, second) \subseteq e[n].anc
         /\ d[first].line \subseteq e[n].line
<1>1. /\ e[n].line = d[first].line \cup {n}
      /\ e[n].anc = d[first].anc \cup {n} \cup Parent(d, second)
      /\ \A i \in 1..Len(d) : i < n
      /\ d[first].anc \subseteq 1..Len(d)
  BY Tip
<1>2. /\ \A j \in d[first].anc : e[j] = d[j]
      /\ \A j \in Parent(d, second) : e[j] = d[j]
      /\ n \notin d[first].anc /\ n \notin Parent(d, second)
  BY Tip
<1>3. d[first].line \subseteq d[first].anc
  BY LineFacts DEF OnTop
<1>4. \A j \in Parent(d, second) : d[j].kind = "upstream"
  BY DEF Parent, OfBase
<1>5. \A kind : Past(d, first, kind) \subseteq Past(e, n, kind)
  BY <1>1, <1>2 DEF Past
<1>6. ASSUME NEW kind \in Kinds \ {"upstream"}
      PROVE  Past(e, n, kind) = Past(d, first, kind)
                                \cup (IF e[n].kind = kind THEN {e[n].of} ELSE {})
  <2>1. {k \in e[n].anc : e[k].kind = kind}
          = {k \in d[first].anc : d[k].kind = kind} \cup (IF e[n].kind = kind THEN {n} ELSE {})
    BY <1>1, <1>2, <1>4
  <2>2. \A k \in d[first].anc : e[k].of = d[k].of
    BY <1>2
  <2> QED BY <2>1, <2>2 DEF Past
<1>7. Bases(e, n) = Bases(d, first) \cup (IF e[n].kind = "base" THEN {e[n].of} ELSE {})
  <2>1. {k \in e[n].line : e[k].kind = "base"}
          = {k \in d[first].line : d[k].kind = "base"}
            \cup (IF e[n].kind = "base" THEN {n} ELSE {})
    BY <1>1, <1>2, <1>3
  <2>2. \A k \in d[first].line : e[k].of = d[k].of
    BY <1>2, <1>3
  <2> QED BY <2>1, <2>2 DEF Bases
<1>8. OnLine(d, first) => OnLine(e, n)
  BY <1>1, <1>2, <1>4 DEF OnLine
<1>9. Own(e, n) = Own(d, first)
                  \cup (IF e[n].kind \in {"work", "base", "marker"} THEN {n} ELSE {})
  BY <1>1, <1>2, <1>3 DEF Own
<1>10. \A j \in Own(d, first) : j < n /\ StandsFor(e, j) = StandsFor(d, j)
  BY <1>1, <1>2, <1>3 DEF Own, StandsFor
<1> QED BY <1>1, <1>5, <1>6, <1>7, <1>8, <1>9, <1>10

-----------------------------------------------------------------------------
(* What is left to do.                                                     *)

\* The steps there can be with the commits of store d.
StepsIn(d) == [kind : {"commit", "base_merge", "marker", "base_fold"}, sha : 1..Len(d),
               branch : Branches \cup {NoBranch}, for : 0..Len(d)]

\* What is to be picked again, by what it stands for; the markers that are to be made or
\* picked; the base commits that are to be merged again; what of history's own is left.
Replays(d, todo, kind) ==
  {d[s.sha].of : s \in {t \in todo : t.kind = "commit" /\ d[t.sha].kind = kind}}
Due(d, todo) == {s.sha : s \in {t \in todo : t.kind = "marker"}} \cup Replays(d, todo, "marker")
DueBases(d, todo) == {d[s.sha].of : s \in {t \in todo : t.kind = "base_merge"}}
Left(todo) == {s.sha : s \in {t \in todo : t.for = 0 /\ t.kind # "base_fold"}}

\* It is clear which step is first, and each is of something there is a step of its kind for.
Ordered(todo) == \A s, t \in todo : s = t \/ Sooner(s, t) \/ Sooner(t, s)
Shaped(d, todo) ==
  /\ Ordered(todo)
  /\ \A s \in todo :
       /\ s.kind = "marker" => s.for # 0
       /\ s.kind = "commit" /\ s.for = 0 => d[s.sha].kind # "base"
       /\ s.kind = "base_merge" => s.for = 0 /\ d[s.sha].kind = "base"
       /\ s.kind = "base_fold" => OfBase(d, s.sha) /\ todo = {s}

\* Line tip has all that line old has of its own but the rest, in the same order, and
\* the rest is younger.
Embeds(d, old, tip, rest) ==
  /\ \A i \in Own(d, old) \ rest : \A j \in rest : i < j
  /\ \E place \in [Own(d, old) \ rest -> Own(d, tip)] :
        \A i, j \in Own(d, old) \ rest :
           /\ StandsFor(d, place[i]) = StandsFor(d, i)
           /\ i < j => place[i] < place[j]

\* The line at tip, with what is left to do, comes to be one that history can be: of
\* every merge, on it or yet to be replayed, there is a marker or one due, of every base
\* commit a merge or one due, and all that history's old line had of its own is there.
Progress(d, tip, todo, old) ==
  /\ tip \in 1..Len(d)
  /\ OnLine(d, tip) /\ Bases(d, tip) \subseteq d[tip].anc
  /\ Shaped(d, todo)
  /\ Past(d, tip, "merged") \cup Replays(d, todo, "merged")
        \subseteq Past(d, tip, "marker") \cup Due(d, todo)
  /\ Replays(d, todo, "base") \subseteq Bases(d, tip) \cup DueBases(d, todo)
  /\ old # 0 => Embeds(d, old, tip, Left(todo))

\* The first of the steps there are.
LEMMA FirstIs ==
  ASSUME NEW todo, \A s \in todo : s.sha \in Nat /\ s.for \in Nat, Ordered(todo), todo # {}
  PROVE  First(todo) \in todo /\ \A t \in Rest(todo) : Sooner(First(todo), t)
<1> DEFINE Fors == {s.for : s \in todo}
<1>1. PICK m \in Fors : \A n \in Fors : m <= n
  <2>1. Fors \in SUBSET Nat /\ Fors # {}
    OBVIOUS
  <2> HIDE DEF Fors
  <2> QED BY <2>1, Least
<1> DEFINE Plain == {s \in todo : s.for = m /\ s.kind # "marker"}
<1>2. \E s \in todo : \A t \in todo \ {s} : Sooner(s, t)
  <2>1. CASE Plain # {}
    <3> DEFINE Shas == {s.sha : s \in Plain}
    <3>1. PICK k \in Shas : \A n \in Shas : k <= n
      <4>1. Shas \in SUBSET Nat /\ Shas # {}
        BY <2>1
      <4> HIDE DEF Shas
      <4> QED BY <4>1, Least
    <3>2. PICK s \in Plain : s.sha = k
      OBVIOUS
    <3>3. ASSUME NEW t \in todo \ {s} PROVE ~Sooner(t, s)
      <4>1. t.for \in Nat /\ m <= t.for /\ m \in Nat /\ t.sha \in Nat /\ k \in Nat
        BY <1>1
      <4>2. t \in Plain => k <= t.sha
        BY <3>1
      <4> QED BY <3>2, <4>1, <4>2 DEF Sooner
    <3> QED BY <3>3 DEF Ordered
  <2>2. CASE Plain = {}
    <3>1. PICK s \in todo : s.for = m
      OBVIOUS
    <3>2. ASSUME NEW t \in todo \ {s} PROVE ~Sooner(t, s)
      <4>1. t.for \in Nat /\ m <= t.for /\ m \in Nat
        BY <1>1
      <4>2. t.for = m => t.kind = "marker"
        BY <2>2
      <4> QED BY <3>1, <4>1, <4>2 DEF Sooner
    <3> QED BY <3>2 DEF Ordered
  <2> QED BY <2>1, <2>2
<1> QED BY <1>2 DEF First, Rest

\* It is the oldest of what is left of history's own, as long as any is left.
LEMMA Lead ==
  ASSUME NEW d, NEW todo \in SUBSET StepsIn(d), WellFormed(d), Shaped(d, todo), todo # {},
         NEW s, s = First(todo)
  PROVE  /\ s \in todo /\ Rest(todo) = todo \ {s} /\ Rest(todo) \in SUBSET StepsIn(d)
         /\ s.sha \in 1..Len(d) /\ s.for \in Nat /\ s.sha \in Nat
         /\ \A t \in Rest(todo) : t.for = 0 => s.for = 0 /\ s.sha < t.sha
         /\ Shaped(d, Rest(todo))
<1>1. \A t \in todo : t.sha \in 1..Len(d) /\ t.sha \in Nat /\ t.for \in Nat
  <2>1. Len(d) \in Nat
    BY RecordsTyped
  <2> QED BY <2>1 DEF StepsIn
<1>2. Ordered(todo)
  BY DEF Shaped
<1>3. s \in todo /\ \A t \in Rest(todo) : Sooner(s, t)
  BY <1>1, <1>2, FirstIs
<1>4. Rest(todo) = todo \ {s}
  BY DEF Rest
<1>5. ASSUME NEW t \in Rest(todo), t.for = 0 PROVE s.for = 0 /\ s.sha < t.sha
  <2>1. t.kind # "marker" /\ t \in todo
    BY <1>4, <1>5 DEF Shaped
  <2> QED BY <1>1, <1>3, <1>5, <2>1 DEF Sooner
<1>6. Shaped(d, Rest(todo))
  <2>1. Ordered(Rest(todo))
    BY <1>2, <1>4 DEF Ordered
  <2>2. ASSUME NEW t \in Rest(todo)
        PROVE  /\ t.kind = "marker" => t.for # 0
               /\ t.kind = "commit" /\ t.for = 0 => d[t.sha].kind # "base"
               /\ t.kind = "base_merge" => t.for = 0 /\ d[t.sha].kind = "base"
               /\ t.kind = "base_fold" => OfBase(d, t.sha) /\ Rest(todo) = {t}
    <3>1. t \in todo /\ t # s
      BY <1>4
    <3>2. t.kind # "base_fold"
      BY <1>3, <3>1 DEF Shaped
    <3> QED BY <3>1, <3>2 DEF Shaped
  <2> QED BY <2>1, <2>2 DEF Shaped
<1> QED BY <1>1, <1>3, <1>4, <1>5, <1>6

\* What is left to do says the same of e as of d.
LEMMA TodoSame ==
  ASSUME NEW d, NEW e, WellFormed(d), Grown(d, e), NEW todo \in SUBSET StepsIn(d)
  PROVE  /\ \A kind : Replays(e, todo, kind) = Replays(d, todo, kind)
         /\ Due(e, todo) = Due(d, todo) /\ DueBases(e, todo) = DueBases(d, todo)
         /\ Shaped(d, todo) => Shaped(e, todo)
         /\ \A t \in todo : t.sha \in 1..Len(d) /\ e[t.sha] = d[t.sha]
<1>1. \A t \in todo : t.sha \in 1..Len(d)
  BY DEF StepsIn
<1>2. \A t \in todo : e[t.sha] = d[t.sha]
  BY <1>1, Same
<1>3. ASSUME NEW kind PROVE Replays(e, todo, kind) = Replays(d, todo, kind)
  <2>1. {t \in todo : t.kind = "commit" /\ e[t.sha].kind = kind}
          = {t \in todo : t.kind = "commit" /\ d[t.sha].kind = kind}
    BY <1>2
  <2> QED BY <1>2, <2>1 DEF Replays
<1>4. Due(e, todo) = Due(d, todo)
  BY <1>3 DEF Due
<1>5. DueBases(e, todo) = DueBases(d, todo)
  BY <1>2 DEF DueBases
<1>6. ASSUME Shaped(d, todo) PROVE Shaped(e, todo)
  <2>1. \A t \in todo : OfBase(d, t.sha) => OfBase(e, t.sha)
    BY <1>1, Same
  <2> QED BY <1>2, <1>6, <2>1 DEF Shaped
<1> QED BY <1>1, <1>2, <1>3, <1>4, <1>5, <1>6

\* A line keeps what it took over from another when the store grows.
LEMMA EmbedsStays ==
  ASSUME NEW d, NEW e, WellFormed(d), Grown(d, e), NEW old \in 1..Len(d), NEW tip \in 1..Len(d),
         NEW rest, Embeds(d, old, tip, rest)
  PROVE  Embeds(e, old, tip, rest)
<1>1. /\ Own(e, old) = Own(d, old) /\ Own(e, tip) = Own(d, tip)
      /\ \A j \in Own(d, old) : StandsFor(e, j) = StandsFor(d, j)
      /\ \A j \in Own(d, tip) : StandsFor(e, j) = StandsFor(d, j)
  BY Same
<1>2. PICK place \in [Own(d, old) \ rest -> Own(d, tip)] :
         \A i, j \in Own(d, old) \ rest :
            /\ StandsFor(d, place[i]) = StandsFor(d, i)
            /\ i < j => place[i] < place[j]
  BY DEF Embeds
<1>3. \A i, j \in Own(d, old) \ rest :
         /\ StandsFor(e, place[i]) = StandsFor(e, i)
         /\ i < j => place[i] < place[j]
  <2>1. \A i \in Own(d, old) \ rest : place[i] \in Own(d, tip)
    OBVIOUS
  <2>2. \A i \in Own(d, old) \ rest : StandsFor(e, place[i]) = StandsFor(e, i)
    BY <1>1, <1>2, <2>1
  <2> QED BY <1>2, <2>2
<1>4. place \in [Own(e, old) \ rest -> Own(e, tip)]
  BY <1>1
<1>5. \A i \in Own(d, old) \ rest : \A j \in rest : i < j
  BY DEF Embeds
<1> QED BY <1>1, <1>3, <1>4, <1>5 DEF Embeds

\* A run is as far as it was when the store grows.
LEMMA ProgressStays ==
  ASSUME NEW d, NEW e, WellFormed(d), Grown(d, e), NEW todo \in SUBSET StepsIn(d),
         NEW old \in 0..Len(d), NEW tip, Progress(d, tip, todo, old)
  PROVE  Progress(e, tip, todo, old)
<1>1. tip \in 1..Len(d) /\ OnLine(d, tip) /\ Bases(d, tip) \subseteq d[tip].anc /\ Shaped(d, todo)
  BY DEF Progress
<1>2. /\ tip \in 1..Len(e) /\ OnLine(e, tip) /\ Bases(e, tip) \subseteq e[tip].anc
      /\ \A kind : Past(e, tip, kind) = Past(d, tip, kind)
      /\ Bases(e, tip) = Bases(d, tip)
  BY <1>1, Same
<1>3. /\ \A kind : Replays(e, todo, kind) = Replays(d, todo, kind)
      /\ Due(e, todo) = Due(d, todo) /\ DueBases(e, todo) = DueBases(d, todo)
      /\ Shaped(e, todo)
  BY <1>1, TodoSame
<1>4. ASSUME old # 0 PROVE Embeds(e, old, tip, Left(todo))
  <2>1. old \in 1..Len(d)
    <3>1. Len(d) \in Nat
      BY RecordsTyped
    <3> QED BY <1>4, <3>1
  <2>2. Embeds(d, old, tip, Left(todo))
    BY <1>4 DEF Progress
  <2> QED BY <1>1, <2>1, <2>2, EmbedsStays
<1> QED BY <1>2, <1>3, <1>4 DEF Progress

\* A line that has grown keeps what it had.
LEMMA EmbedsOn ==
  ASSUME NEW d, NEW e, NEW first, NEW second, WellFormed(d), OnTop(d, e, first, second),
         second = 0 \/ OfBase(d, second), NEW n, n = NewIn(d),
         NEW old \in 1..Len(d), NEW rest, Embeds(d, old, first, rest)
  PROVE  Embeds(e, old, n, rest)
<1>1. Embeds(e, old, first, rest)
  BY EmbedsStays DEF OnTop
<1>2. Own(e, first) = Own(d, first)
  BY Same DEF OnTop
<1>3. Own(e, first) \subseteq Own(e, n)
  BY <1>2, Added
<1>4. [Own(e, old) \ rest -> Own(e, first)] \subseteq [Own(e, old) \ rest -> Own(e, n)]
  BY <1>3
<1> QED BY <1>1, <1>4 DEF Embeds

\* A commit beside the steps: if it brings a merge, that has its marker or is due one;
\* if a base commit, that is reached already.
LEMMA Beside ==
  ASSUME NEW d, NEW e, NEW tip, NEW second, WellFormed(d), OnTop(d, e, tip, second),
         second = 0 \/ OfBase(d, second), NEW n, n = NewIn(d),
         NEW todo \in SUBSET StepsIn(d), NEW old \in 0..Len(d), Progress(d, tip, todo, old),
         e[n].kind \in Kinds,
         e[n].kind = "merged" => e[n].of \in Past(d, tip, "marker") \cup Due(d, todo),
         e[n].kind = "base" => e[n].of \in d[tip].anc \cup Parent(d, second)
  PROVE  Progress(e, n, todo, old)
<1> DEFINE of == e[n].of
           kind == e[n].kind
<1>1. /\ tip \in 1..Len(d) /\ OnLine(d, tip) /\ Bases(d, tip) \subseteq d[tip].anc
      /\ Shaped(d, todo) /\ Grown(d, e)
  BY DEF Progress, OnTop
<1>2. /\ \A k : Replays(e, todo, k) = Replays(d, todo, k)
      /\ Due(e, todo) = Due(d, todo) /\ DueBases(e, todo) = DueBases(d, todo)
      /\ Shaped(e, todo)
  BY <1>1, TodoSame
<1>3. /\ Past(d, tip, "marker") \subseteq Past(e, n, "marker")
      /\ Past(e, n, "merged") = Past(d, tip, "merged")
                                \cup (IF kind = "merged" THEN {of} ELSE {})
      /\ Bases(e, n) = Bases(d, tip) \cup (IF kind = "base" THEN {of} ELSE {})
      /\ OnLine(e, n) /\ d[tip].anc \subseteq e[n].anc /\ Parent(d, second) \subseteq e[n].anc
  BY <1>1, Added DEF Kinds
<1>4. n \in 1..Len(e)
  BY Tip
<1>5. Bases(e, n) \subseteq e[n].anc
  BY <1>1, <1>3
<1>6. Past(e, n, "merged") \cup Replays(e, todo, "merged")
        \subseteq Past(e, n, "marker") \cup Due(e, todo)
  BY <1>2, <1>3 DEF Progress
<1>7. Replays(e, todo, "base") \subseteq Bases(e, n) \cup DueBases(e, todo)
  BY <1>2, <1>3 DEF Progress
<1>8. ASSUME old # 0 PROVE Embeds(e, old, n, Left(todo))
  <2>1. old \in 1..Len(d)
    <3>1. Len(d) \in Nat
      BY RecordsTyped
    <3> QED BY <1>8, <3>1
  <2>2. Embeds(d, old, tip, Left(todo))
    BY <1>8 DEF Progress
  <2> QED BY <2>1, <2>2, EmbedsOn
<1> QED BY <1>2, <1>3, <1>4, <1>5, <1>6, <1>7, <1>8 DEF Progress

\* The first of the steps is carried out by commit n.
Does(d, e, n, second, s) ==
  \/ s.kind = "commit" /\ second = 0 /\ e[n].kind = d[s.sha].kind /\ e[n].of = d[s.sha].of
  \/ s.kind = "base_merge" /\ second = d[s.sha].of /\ e[n].kind = "base" /\ e[n].of = second
  \/ s.kind = "marker" /\ second = 0 /\ e[n].kind = "marker" /\ e[n].of = s.sha
  \/ s.kind = "base_fold" /\ second = s.sha /\ e[n].kind = "base" /\ e[n].of = s.sha

\* What history's old line had is on the new one in order, with the one that was picked.
LEMMA EmbedsOneMore ==
  ASSUME NEW d, NEW e, NEW tip, NEW second, WellFormed(d), OnTop(d, e, tip, second),
         second = 0 \/ OfBase(d, second), NEW n, n = NewIn(d),
         NEW old \in 1..Len(d), NEW rest \in SUBSET Nat, Embeds(d, old, tip, rest),
         NEW m \in rest, \A j \in rest \ {m} : m < j,
         m \in Own(d, old) => StandsFor(e, n) = StandsFor(d, m)
  PROVE  Embeds(e, old, n, rest \ {m})
<1> DEFINE Had == Own(d, old) \ rest
           Has == Own(d, old) \ (rest \ {m})
<1>1. PICK place \in [Had -> Own(d, tip)] :
         \A i, j \in Had :
            /\ StandsFor(d, place[i]) = StandsFor(d, i)
            /\ i < j => place[i] < place[j]
  BY DEF Embeds
<1>2. \A i \in Had : i \in Nat /\ m \in Nat /\ i < m /\ \A j \in rest : i < j
  <2>1. Own(d, old) \subseteq Nat
    BY LineFacts DEF Own
  <2> QED BY <2>1 DEF Embeds
<1>3. Own(e, old) = Own(d, old) /\ \A j \in Own(d, old) : StandsFor(e, j) = StandsFor(d, j)
  BY Same DEF OnTop
<1>4. /\ Own(d, tip) \subseteq Own(e, n)
      /\ \A j \in Own(d, tip) : j < n /\ StandsFor(e, j) = StandsFor(d, j)
  BY Added
<1> DEFINE new == [i \in Has |-> IF i = m THEN n ELSE place[i]]
<1>5. \A i \in Has : i = m \/ i \in Had
  OBVIOUS
<1>6. m \in Has => n \in Own(e, n)
  <2>1. SUFFICES ASSUME m \in Own(d, old) PROVE n \in Own(e, n)
    OBVIOUS
  <2>2. e[n].kind = d[m].kind /\ d[m].kind \in {"work", "base", "marker"}
    BY <2>1 DEF StandsFor, Own
  <2>3. n \in e[n].line
    BY Tip
  <2> QED BY <2>2, <2>3 DEF Own
<1>7. \A i \in Had : m # i /\ place[i] \in Own(d, tip)
  OBVIOUS
<1>8. new \in [Has -> Own(e, n)]
  BY <1>4, <1>5, <1>6, <1>7
<1>9. \A i \in Has : StandsFor(e, new[i]) = StandsFor(e, i)
  BY <1>1, <1>3, <1>4, <1>5, <1>7
<1>10. ASSUME NEW i \in Has, NEW j \in Has, i < j PROVE new[i] < new[j]
  <2>1. i \in Had
    <3>1. m \in Nat
      OBVIOUS
    <3> QED BY <1>2, <1>5, <1>10, <3>1
  <2>2. place[i] < n
    BY <1>4, <1>7, <2>1
  <2> QED BY <1>1, <1>5, <1>7, <1>10, <2>1, <2>2
<1>11. ASSUME NEW i \in Has, NEW j \in rest \ {m} PROVE i < j
  BY <1>2, <1>5, <1>11
<1> HIDE DEF new, Has, Had
<1>12. /\ \A i \in Has : \A j \in rest \ {m} : i < j
       /\ \E place2 \in [Has -> Own(e, n)] :
             \A i, j \in Has :
                /\ StandsFor(e, place2[i]) = StandsFor(e, i)
                /\ i < j => place2[i] < place2[j]
  BY <1>8, <1>9, <1>10, <1>11
<1> QED BY <1>3, <1>12 DEF Embeds, Has

\* The step is done, and the rest is left.
LEMMA Laid ==
  ASSUME NEW d, NEW e, NEW tip, NEW second, WellFormed(d), OnTop(d, e, tip, second),
         second = 0 \/ OfBase(d, second), NEW n, n = NewIn(d),
         NEW todo \in SUBSET StepsIn(d), NEW old \in 0..Len(d), Progress(d, tip, todo, old),
         todo # {}, NEW s, s = First(todo), Does(d, e, n, second, s)
  PROVE  Progress(e, n, Rest(todo), old)
<1> DEFINE rest == Rest(todo)
           of == e[n].of
           kind == e[n].kind
<1>1. /\ tip \in 1..Len(d) /\ OnLine(d, tip) /\ Bases(d, tip) \subseteq d[tip].anc
      /\ Shaped(d, todo) /\ Grown(d, e)
  BY DEF Progress, OnTop
<1>2. /\ s \in todo /\ rest = todo \ {s} /\ rest \in SUBSET StepsIn(d)
      /\ s.sha \in 1..Len(d) /\ s.for \in Nat /\ s.sha \in Nat
      /\ \A t \in rest : t.for = 0 => s.for = 0 /\ s.sha < t.sha
      /\ Shaped(d, rest)
  BY <1>1, Lead
<1> HIDE DEF rest
<1>3. /\ \A k : Replays(e, rest, k) = Replays(d, rest, k)
      /\ Due(e, rest) = Due(d, rest) /\ DueBases(e, rest) = DueBases(d, rest)
      /\ Shaped(e, rest)
  BY <1>1, <1>2, TodoSame
<1>4. /\ Past(d, tip, "marker") \subseteq Past(e, n, "marker")
      /\ Past(e, n, "merged") = Past(d, tip, "merged")
                                \cup (IF kind = "merged" THEN {of} ELSE {})
      /\ Past(e, n, "marker") = Past(d, tip, "marker")
                                \cup (IF kind = "marker" THEN {of} ELSE {})
      /\ Bases(e, n) = Bases(d, tip) \cup (IF kind = "base" THEN {of} ELSE {})
      /\ OnLine(e, n) /\ d[tip].anc \subseteq e[n].anc /\ Parent(d, second) \subseteq e[n].anc
  BY <1>1, Added DEF Kinds
<1>5. n \in 1..Len(e)
  BY Tip
<1>6. \A k : Replays(d, rest, k) \subseteq Replays(d, todo, k)
  BY <1>2 DEF Replays
<1>7. s.kind = "commit" => \A k : /\ kind = k => of \in Replays(d, todo, k)
                                  /\ kind # k => Replays(d, rest, k) = Replays(d, todo, k)
  <2>1. SUFFICES ASSUME s.kind = "commit", NEW k
                 PROVE  /\ kind = k => of \in Replays(d, todo, k)
                        /\ kind # k => Replays(d, rest, k) = Replays(d, todo, k)
    OBVIOUS
  <2>2. kind = d[s.sha].kind /\ of = d[s.sha].of
    BY <2>1 DEF Does
  <2>3. kind = k => of \in Replays(d, todo, k)
    BY <1>2, <2>1, <2>2 DEF Replays
  <2>4. ASSUME kind # k PROVE Replays(d, rest, k) = Replays(d, todo, k)
    <3>1. {t \in todo : t.kind = "commit" /\ d[t.sha].kind = k}
            = {t \in rest : t.kind = "commit" /\ d[t.sha].kind = k}
      BY <1>2, <2>2, <2>4
    <3> QED BY <3>1 DEF Replays
  <2> QED BY <2>3, <2>4
<1>8. Due(d, todo) \subseteq Due(d, rest) \cup (IF kind = "marker" THEN {of} ELSE {})
  <2>1. CASE s.kind = "commit"
    <3>1. {t \in todo : t.kind = "marker"} = {t \in rest : t.kind = "marker"}
      BY <1>2, <2>1
    <3>2. ASSUME NEW i \in Replays(d, todo, "marker")
          PROVE  i \in Replays(d, rest, "marker") \cup (IF kind = "marker" THEN {of} ELSE {})
      <4>1. PICK t \in todo : t.kind = "commit" /\ d[t.sha].kind = "marker" /\ i = d[t.sha].of
        BY <3>2 DEF Replays
      <4>2. CASE t = s
        BY <2>1, <4>1, <4>2 DEF Does
      <4>3. CASE t # s
        BY <1>2, <4>1, <4>3 DEF Replays
      <4> QED BY <4>2, <4>3
    <3> QED BY <3>1, <3>2 DEF Due
  <2>2. CASE s.kind # "commit"
    <3>1. Replays(d, rest, "marker") = Replays(d, todo, "marker")
      <4>1. {t \in todo : t.kind = "commit" /\ d[t.sha].kind = "marker"}
              = {t \in rest : t.kind = "commit" /\ d[t.sha].kind = "marker"}
        BY <1>2, <2>2
      <4> QED BY <4>1 DEF Replays
    <3>2. ASSUME NEW t \in todo, t.kind = "marker"
          PROVE  t.sha \in Due(d, rest) \cup (IF kind = "marker" THEN {of} ELSE {})
      <4>1. CASE t = s
        BY <3>2, <4>1 DEF Does
      <4>2. CASE t # s
        BY <1>2, <3>2, <4>2 DEF Due
      <4> QED BY <4>1, <4>2
    <3> QED BY <3>1, <3>2 DEF Due
  <2> QED BY <2>1, <2>2
<1>9. Past(e, n, "merged") \cup Replays(e, rest, "merged")
        \subseteq Past(e, n, "marker") \cup Due(e, rest)
  <2>1. Past(d, tip, "merged") \cup Replays(d, todo, "merged")
          \subseteq Past(d, tip, "marker") \cup Due(d, todo)
    BY DEF Progress
  <2>2. kind = "merged" => of \in Replays(d, todo, "merged")
    BY <1>7 DEF Does
  <2> QED BY <1>3, <1>4, <1>6, <1>8, <2>1, <2>2
<1>10. DueBases(d, todo) \subseteq DueBases(d, rest) \cup (IF kind = "base" THEN {of} ELSE {})
  <2>1. ASSUME NEW t \in todo, t.kind = "base_merge"
        PROVE  d[t.sha].of \in DueBases(d, rest) \cup (IF kind = "base" THEN {of} ELSE {})
    <3>1. CASE t = s
      BY <2>1, <3>1 DEF Does
    <3>2. CASE t # s
      BY <1>2, <2>1, <3>2 DEF DueBases
    <3> QED BY <3>1, <3>2
  <2> QED BY <2>1 DEF DueBases
<1>11. Replays(e, rest, "base") \subseteq Bases(e, n) \cup DueBases(e, rest)
  <2>1. Replays(d, todo, "base") \subseteq Bases(d, tip) \cup DueBases(d, todo)
    BY DEF Progress
  <2> QED BY <1>3, <1>4, <1>6, <1>10, <2>1
<1>12. Bases(e, n) \subseteq e[n].anc
  <2>1. ASSUME kind = "base" PROVE of \in e[n].anc
    <3>1. CASE s.kind = "commit"
      <4>1. s.for # 0
        BY <1>1, <1>2, <2>1, <3>1 DEF Does, Shaped
      <4>2. \A t \in todo : t.kind # "base_merge"
        BY <1>1, <1>2, <3>1, <4>1 DEF Shaped
      <4>3. of \in Bases(d, tip)
        BY <1>7, <2>1, <3>1, <4>2 DEF Progress, DueBases
      <4> QED BY <1>1, <1>4, <4>3
    <3>2. CASE s.kind # "commit"
      <4>1. of = second /\ second # 0 /\ second \in 1..Len(d)
        BY <1>2, <2>1, <3>2, LineFacts DEF Does
      <4>2. second \in d[second].anc
        BY <4>1, LineFacts
      <4> QED BY <1>4, <4>1, <4>2 DEF Parent
    <3> QED BY <3>1, <3>2
  <2> QED BY <1>1, <1>4, <2>1
<1>13. ASSUME old # 0 PROVE Embeds(e, old, n, Left(rest))
  <2>1. old \in 1..Len(d)
    <3>1. Len(d) \in Nat
      BY RecordsTyped
    <3> QED BY <1>13, <3>1
  <2>2. Embeds(d, old, tip, Left(todo))
    BY <1>13 DEF Progress
  <2>3. CASE s.for = 0 /\ s.kind # "base_fold"
    <3>1. Left(rest) = Left(todo) \ {s.sha} /\ s.sha \in Left(todo)
      BY <1>2, <2>3 DEF Left
    <3>2. \A j \in Left(todo) \ {s.sha} : s.sha < j
      BY <1>2, <2>3 DEF Left
    <3>3. StandsFor(e, n) = StandsFor(d, s.sha)
      BY <1>1, <1>2, <2>3 DEF Does, StandsFor, Shaped
    <3>4. Left(todo) \in SUBSET Nat
      <4>1. \A t \in todo : t.sha \in Nat
        BY LineFacts DEF StepsIn
      <4> QED BY <4>1 DEF Left
    <3> QED BY <2>1, <2>2, <3>1, <3>2, <3>3, <3>4, EmbedsOneMore
  <2>4. CASE ~(s.for = 0 /\ s.kind # "base_fold")
    <3>1. Left(rest) = Left(todo)
      BY <1>2, <2>4 DEF Left
    <3> QED BY <2>1, <2>2, <3>1, EmbedsOn
  <2> QED BY <2>3, <2>4
<1> QED BY <1>3, <1>4, <1>5, <1>9, <1>11, <1>12, <1>13 DEF Progress, rest

-----------------------------------------------------------------------------
(* The lines: the inductive invariant.                                     *)

\* Where a run can be, and where it has a line in hand; and all types, by the store.
Places == {"idle", "plan", "step", "fold", "save", "move", "restore", "clear"}
Working == {"step", "fold", "save", "move"}
Running == run.pc \in Working

Operations(d) == [kind : {"cherry-pick", "merge"}, sha : 1..Len(d)] \cup {NoOp}
Runs(d) == [pc : Places, tip : 0..Len(d), todo : SUBSET StepsIn(d), old : 0..Len(d),
            from : Heads, resumed : BOOLEAN, merges : SUBSET (Branches \X (1..Len(d)))]
Files(d) == [tip : 0..Len(d), todo : SUBSET StepsIn(d), old : 0..Len(d), from : Heads,
             op : {"cherry-pick", "merge"}]
RefsOf(d) == [RefNames -> 0..Len(d)]
SidesOf(d) == [Branches -> [tip : 0..Len(d), fork : 0..Len(d)]]

\* What has a type, and that refs which are needed are there.
StoreTyped ==
  /\ WellFormed(db) /\ ref \in RefsOf(db) /\ side \in SidesOf(db)
  /\ ref["master"] # 0 /\ ref["origin"] # 0 /\ ref["baseRemote"] # 0
RunTyped == run \in Runs(db) /\ (run.from = "history" => ref["history"] # 0)
FileTyped ==
  state # <<>> => state \in Files(db) /\ (state.from = "history" => ref["history"] # 0)
CheckoutTyped ==
  /\ head \in Heads /\ (head \in RefNames => ref[head] # 0)
  /\ dirty \in BOOLEAN /\ open \in BOOLEAN /\ odd \subseteq {"lost", "cut"}
  /\ op \in Operations(db) /\ (open => op # NoOp)
  /\ op # NoOp => ref["scratch"] # 0
Typed == StoreTyped /\ RunTyped /\ FileTyped /\ CheckoutTyped

\* A resumed run, r, has on its line what the state file, st, has planned.
Resumes(d, r, st) ==
  /\ r.old = st.old
  /\ Progress(d, r.tip, Rest(st.todo), st.old)
  /\ st.op = "merge" => First(st.todo).sha \in d[r.tip].anc
  /\ Replays(d, r.todo, "merged") \subseteq Past(d, r.tip, "marker") \cup Due(d, Rest(st.todo))

\* Operation o is that of a later step than the file's first, and scratch is the line of
\* the run that was killed before it wrote that down: what --continue then makes of it is
\* no worse than a commit beside the steps.
Later(d, scratch, o, st) ==
  /\ Progress(d, scratch, Rest(st.todo), st.old)
  /\ o.kind = "merge" => First(st.todo).sha \in d[scratch].anc /\ OfBase(d, o.sha)
  /\ o.kind = "cherry-pick" =>
        /\ d[o.sha].kind = "merged" =>
              d[o.sha].of \in Past(d, scratch, "marker") \cup Due(d, Rest(st.todo))
        /\ d[o.sha].kind = "base" => d[o.sha].of \in Bases(d, scratch)

\* A file has steps left, and the first is what git was at.
Filed(d, st) ==
  /\ st.todo # {} /\ Progress(d, st.tip, st.todo, st.old)
  /\ st.op = "cherry-pick" => First(st.todo).kind = "commit"
  /\ st.op = "merge" => First(st.todo).kind = "base_fold"

\* The run: its line and what is left make progress, a resumed one is no behind its file,
\* and at each place it has what the code there takes for granted.
RunInv ==
  /\ Running => Progress(db, run.tip, run.todo, run.old) /\ (run.old = 0 => ref["history"] = 0)
  /\ Running /\ state # <<>> => Resumes(db, run, state)
  /\ At("fold") \/ At("move") => run.todo = {}
  /\ At("fold") => ref["base"] # 0
  /\ At("save") =>
        /\ run.todo # {} /\ ref["scratch"] = run.tip /\ op.sha = First(run.todo).sha
        /\ \/ op.kind = "cherry-pick" /\ First(run.todo).kind = "commit"
           \/ op.kind = "merge" /\ First(run.todo).kind = "base_fold"

\* The operation that the file names is in progress, so that --continue would take it up.
Pends == state # <<>> /\ At("idle") /\ op.kind = state.op
FileInv ==
  /\ state # <<>> => Filed(db, state)
  /\ state # <<>> /\ state.old = 0 =>
        ref["history"] = 0 \/ (op = NoOp /\ run.pc \in {"idle", "restore", "clear"})
  /\ Pends => \/ ref["scratch"] = state.tip /\ op.sha = First(state.todo).sha
              \/ Later(db, ref["scratch"], op, state)

\* All lines begin at one root.
RootAt(root) ==
  /\ root \in db[ref["master"]].line /\ root \in db[ref["origin"]].line
  /\ db[root].line = {root}
  /\ ref["history"] # 0 => root \in db[ref["history"]].anc
  /\ Running => root \in db[run.tip].anc
  /\ state # <<>> => root \in db[state.tip].anc
  /\ Pends => root \in db[ref["scratch"]].anc
Rooted == \E root \in Commits : RootAt(root)

\* The refs keep their promises.
Sound == Related(db, ref, side)
HistoryInv == Typed /\ Sound /\ RunInv /\ FileInv /\ Rooted

-----------------------------------------------------------------------------
(* When the store grows.                                                   *)

\* All types only get larger.
LEMMA MoreTyped ==
  ASSUME NEW d, NEW e, WellFormed(d), Grown(d, e)
  PROVE  /\ Len(d) \in Nat /\ 0..Len(d) \subseteq 0..Len(e) /\ 1..Len(d) \subseteq 1..Len(e)
         /\ StepsIn(d) \subseteq StepsIn(e) /\ Operations(d) \subseteq Operations(e)
         /\ Runs(d) \subseteq Runs(e) /\ Files(d) \subseteq Files(e)
         /\ RefsOf(d) \subseteq RefsOf(e) /\ SidesOf(d) \subseteq SidesOf(e)
<1>1. Len(d) \in Nat /\ 0..Len(d) \subseteq 0..Len(e) /\ 1..Len(d) \subseteq 1..Len(e)
  BY RecordsTyped DEF Grown
<1>2. StepsIn(d) \subseteq StepsIn(e)
  BY <1>1 DEF StepsIn
<1>3. Operations(d) \subseteq Operations(e)
  BY <1>1 DEF Operations
<1>4. SUBSET (Branches \X (1..Len(d))) \subseteq SUBSET (Branches \X (1..Len(e)))
  BY <1>1
<1>5. Runs(d) \subseteq Runs(e)
  BY <1>1, <1>2, <1>4 DEF Runs
<1>6. Files(d) \subseteq Files(e)
  BY <1>1, <1>2 DEF Files
<1>7. RefsOf(d) \subseteq RefsOf(e) /\ SidesOf(d) \subseteq SidesOf(e)
  BY <1>1 DEF RefsOf, SidesOf
<1> QED BY <1>1, <1>2, <1>3, <1>5, <1>6, <1>7

\* What a resumed run has of its file stays.
LEMMA ResumesStays ==
  ASSUME NEW d, NEW e, WellFormed(d), Grown(d, e), NEW r \in Runs(d), NEW st \in Files(d),
         Filed(d, st), Resumes(d, r, st), r.tip # 0
  PROVE  Resumes(e, r, st)
<1>1. Rest(st.todo) \in SUBSET StepsIn(d) /\ st.old \in 0..Len(d)
  BY Lead DEF Filed, Files, Progress
<1>2. r.tip \in 1..Len(d) /\ r.todo \in SUBSET StepsIn(d)
  BY RecordsTyped DEF Runs
<1>3. Progress(e, r.tip, Rest(st.todo), st.old)
  BY <1>1, ProgressStays DEF Resumes
<1>4. e[r.tip] = d[r.tip] /\ Past(e, r.tip, "marker") = Past(d, r.tip, "marker")
  BY <1>2, Same
<1>5. /\ Due(e, Rest(st.todo)) = Due(d, Rest(st.todo))
      /\ Replays(e, r.todo, "merged") = Replays(d, r.todo, "merged")
  BY <1>1, <1>2, TodoSame
<1> QED BY <1>3, <1>4, <1>5 DEF Resumes

\* So does what an operation of a later step has.
LEMMA LaterStays ==
  ASSUME NEW d, NEW e, WellFormed(d), Grown(d, e), NEW st \in Files(d), Filed(d, st),
         NEW o, o.sha \in 1..Len(d), NEW scratch, Later(d, scratch, o, st)
  PROVE  Later(e, scratch, o, st)
<1>1. Rest(st.todo) \in SUBSET StepsIn(d) /\ st.old \in 0..Len(d)
  BY Lead DEF Filed, Files, Progress
<1>2. Progress(e, scratch, Rest(st.todo), st.old) /\ scratch \in 1..Len(d)
  BY <1>1, ProgressStays DEF Later, Progress
<1>3. /\ e[scratch] = d[scratch] /\ Past(e, scratch, "marker") = Past(d, scratch, "marker")
      /\ Bases(e, scratch) = Bases(d, scratch)
      /\ e[o.sha] = d[o.sha] /\ (OfBase(d, o.sha) => OfBase(e, o.sha))
  BY <1>2, Same
<1>4. Due(e, Rest(st.todo)) = Due(d, Rest(st.todo))
  BY <1>1, TodoSame
<1> QED BY <1>2, <1>3, <1>4 DEF Later

\* And what the file says.
LEMMA FiledStays ==
  ASSUME NEW d, NEW e, WellFormed(d), Grown(d, e), NEW st \in Files(d), Filed(d, st)
  PROVE  Filed(e, st)
BY ProgressStays DEF Filed, Files

-----------------------------------------------------------------------------
\* A process that has ended.
LEMMA IdleTyped ==
  ASSUME NEW d, Len(d) \in Nat PROVE Idle \in Runs(d) /\ Idle.pc = "idle" /\ Idle.from = "detached"
<1>1. 0 \in 0..Len(d)
  OBVIOUS
<1> QED BY <1>1 DEF Idle, Runs, Places, Heads

\* What there is at first is related, by assumption; nothing runs and nothing is filed.
LEMMA HistoryInit == Init => HistoryInv
<1> SUFFICES ASSUME Init PROVE HistoryInv
  OBVIOUS
<1>1. PICK s \in Scenarios :
         db = s.db /\ ref = s.ref /\ side = s.side /\ head = s.head
  BY DEF Init
<1>2. /\ dirty = FALSE /\ op = NoOp /\ open = FALSE /\ odd = {} /\ state = <<>> /\ run = Idle
  BY DEF Init
<1>3. /\ WellFormed(db) /\ ref \in RefsOf(db) /\ side \in SidesOf(db)
      /\ 0 \notin {ref["master"], ref["origin"], ref["baseRemote"]}
      /\ head \in Heads /\ (head \in RefNames => ref[head] # 0)
  BY <1>1, ScenariosAssumption DEF RefsOf, SidesOf
<1>4. Len(db) \in Nat
  BY <1>3, RecordsTyped
<1>5. StoreTyped
  BY <1>3 DEF StoreTyped
<1>6. run \in Runs(db) /\ run.pc = "idle" /\ run.from = "detached"
  BY <1>2, <1>4, IdleTyped
<1>7. RunTyped /\ FileTyped
  BY <1>2, <1>6 DEF RunTyped, FileTyped
<1>8. CheckoutTyped
  BY <1>2, <1>3 DEF CheckoutTyped, Operations
<1>9. RunInv /\ FileInv
  BY <1>2, <1>6 DEF RunInv, FileInv, Running, Working, At, Pends
<1>10. Sound
  BY <1>1, RelatedAssumption DEF Sound
<1>11. Rooted
  <2>1. PICK root \in db[ref["master"]].line \cap db[ref["origin"]].line :
           /\ db[root].line = {root}
           /\ ref["history"] # 0 => root \in db[ref["history"]].anc
    BY <1>1, RelatedAssumption
  <2>2. RootAt(root)
    BY <1>2, <1>6, <2>1 DEF RootAt, Running, Working, Pends
  <2>3. root \in Commits
    <3>1. ref["master"] \in 1..Len(db)
      BY <1>3, <1>4 DEF RefsOf, RefNames
    <3> QED BY <1>3, <2>1, <3>1, LineFacts DEF Commits
  <2> QED BY <2>2, <2>3 DEF Rooted
<1> QED BY <1>5, <1>7, <1>8, <1>9, <1>10, <1>11 DEF HistoryInv, Typed

-----------------------------------------------------------------------------
(* Beside the process.                                                     *)

\* The refs there are.
LEMMA RefFacts ==
  ASSUME Typed
  PROVE  /\ Len(db) \in Nat /\ WellFormed(db) /\ DOMAIN ref = RefNames
         /\ \A r \in RefNames : ref[r] \in 0..Len(db) /\ (ref[r] # 0 => ref[r] \in 1..Len(db))
         /\ ref["master"] \in 1..Len(db) /\ ref["origin"] \in 1..Len(db)
         /\ ref["baseRemote"] \in 1..Len(db)
         /\ \A b \in Branches : /\ side[b].tip \in 0..Len(db) /\ side[b].fork \in 0..Len(db)
                                /\ side[b].tip # 0 => side[b].tip \in 1..Len(db)
<1>1. Len(db) \in Nat /\ WellFormed(db)
  BY RecordsTyped DEF Typed, StoreTyped
<1>2. /\ ref \in [RefNames -> 0..Len(db)]
      /\ side \in [Branches -> [tip : 0..Len(db), fork : 0..Len(db)]]
      /\ ref["master"] # 0 /\ ref["origin"] # 0 /\ ref["baseRemote"] # 0
  BY DEF Typed, StoreTyped, RefsOf, SidesOf
<1>3. \A r \in RefNames : ref[r] \in 0..Len(db) /\ (ref[r] # 0 => ref[r] \in 1..Len(db))
  BY <1>1, <1>2
<1>4. "master" \in RefNames /\ "origin" \in RefNames /\ "baseRemote" \in RefNames
  BY DEF RefNames
<1>5. \A b \in Branches : /\ side[b].tip \in 0..Len(db) /\ side[b].fork \in 0..Len(db)
                          /\ side[b].tip # 0 => side[b].tip \in 1..Len(db)
  BY <1>1, <1>2
<1> QED BY <1>1, <1>2, <1>3, <1>4, <1>5

\* The run and the file stay, whatever others commit; so do the types of all but the
\* store.
LEMMA RunStays ==
  ASSUME HistoryInv, WellFormed(db'), Grown(db, db'), UNCHANGED <<op, state, run>>,
         ref'["scratch"] = ref["scratch"], ref'["base"] = ref["base"],
         ref'["history"] = 0 <=> ref["history"] = 0
  PROVE  RunInv' /\ FileInv' /\ RunTyped' /\ FileTyped'
<1>1. Typed /\ RunInv /\ FileInv /\ WellFormed(db) /\ Len(db) \in Nat
  BY RefFacts DEF HistoryInv
<1>2. run \in Runs(db) /\ (state # <<>> => state \in Files(db)) /\ op \in Operations(db)
  BY <1>1 DEF Typed, RunTyped, FileTyped, CheckoutTyped
<1>3. run.todo \in SUBSET StepsIn(db) /\ run.old \in 0..Len(db)
  BY <1>2 DEF Runs
<1>4. Runs(db) \subseteq Runs(db') /\ Files(db) \subseteq Files(db')
  BY <1>1, MoreTyped
<1>5. RunTyped' /\ FileTyped'
  BY <1>1, <1>2, <1>4 DEF RunTyped, FileTyped, Typed
<1>6. RunInv'
  <2>1. Running' <=> Running
    BY DEF Running
  <2>2. Running => Progress(db', run.tip, run.todo, run.old)
    BY <1>1, <1>3, ProgressStays DEF RunInv
  <2>3. Running => run.tip # 0
    BY <1>1 DEF RunInv, Progress
  <2>4. Running /\ state # <<>> => Resumes(db', run, state)
    BY <1>1, <1>2, <2>3, ResumesStays DEF RunInv, FileInv
  <2> QED BY <1>1, <2>1, <2>2, <2>4 DEF RunInv, At
<1>7. FileInv'
  <2>1. state # <<>> => Filed(db', state)
    BY <1>1, <1>2, FiledStays DEF FileInv
  <2>2. Pends' <=> Pends
    BY DEF Pends, At
  <2>3. ASSUME Pends, Later(db, ref["scratch"], op, state)
        PROVE  Later(db', ref["scratch"], op, state)
    <3>1. state # <<>> /\ state \in Files(db) /\ Filed(db, state)
      BY <1>1, <1>2, <2>3 DEF Pends, FileInv
    <3>2. op.sha \in 1..Len(db)
      BY <1>2, <2>3, <3>1 DEF Pends, Operations, NoOp, Files
    <3> QED BY <1>1, <2>3, <3>1, <3>2, LaterStays
  <2>4. Pends => \/ ref'["scratch"] = state.tip /\ op.sha = First(state.todo).sha
                 \/ Later(db', ref'["scratch"], op, state)
    BY <1>1, <2>3 DEF FileInv
  <2>5. state # <<>> /\ state.old = 0 =>
          ref'["history"] = 0 \/ (op = NoOp /\ run.pc \in {"idle", "restore", "clear"})
    BY <1>1 DEF FileInv
  <2> QED BY <2>1, <2>2, <2>4, <2>5 DEF FileInv
<1> QED BY <1>5, <1>6, <1>7

\* All that others may do: commits, and refs other than the scratch branch.
LEMMA OthersAside ==
  ASSUME HistoryInv, WellFormed(db'), Grown(db, db'), ref' \in RefsOf(db'), side' \in SidesOf(db'),
         UNCHANGED <<head, dirty, op, open, state, run, odd>>,
         ref'["scratch"] = ref["scratch"], ref'["base"] = ref["base"],
         ref'["history"] = 0 <=> ref["history"] = 0,
         ref'["master"] # 0, ref'["origin"] # 0, ref'["baseRemote"] # 0,
         Related(db', ref', side'),
         \A root \in 1..Len(db) : RootAt(root) =>
            /\ root \in db'[ref'["master"]].line /\ root \in db'[ref'["origin"]].line
            /\ ref["history"] # 0 => root \in db'[ref'["history"]].anc
  PROVE  HistoryInv'
<1>1. Typed /\ WellFormed(db) /\ Len(db) \in Nat
  BY RefFacts DEF HistoryInv
<1>2. RunInv' /\ FileInv' /\ RunTyped' /\ FileTyped'
  BY RunStays
<1>3. StoreTyped'
  BY DEF StoreTyped
<1>4. CheckoutTyped'
  <2>1. Operations(db) \subseteq Operations(db')
    BY <1>1, MoreTyped
  <2>2. head \in RefNames => ref'[head] # 0
    <3>1. head \in {"master", "history", "scratch"} \/ head \notin RefNames
      BY <1>1 DEF Typed, CheckoutTyped, Heads, RefNames
    <3>2. head \in RefNames => ref[head] # 0
      BY <1>1 DEF Typed, CheckoutTyped
    <3> QED BY <3>1, <3>2
  <2> QED BY <1>1, <2>1, <2>2 DEF CheckoutTyped, Typed
<1>5. Rooted'
  <2>1. PICK root \in 1..Len(db) : RootAt(root)
    BY DEF HistoryInv, Rooted, Commits
  <2>2. /\ root \in db'[ref'["master"]].line /\ root \in db'[ref'["origin"]].line
        /\ ref["history"] # 0 => root \in db'[ref'["history"]].anc
    BY <2>1
  <2>3. db'[root].line = {root}
    BY <1>1, <2>1, Same DEF RootAt
  <2>4. \A i \in 1..Len(db) : db'[i] = db[i]
    BY DEF Grown
  <2>5. Running' <=> Running
    BY DEF Running
  <2>6. Pends' <=> Pends
    BY DEF Pends, At
  <2>7. Running => root \in db'[run.tip].anc
    <3>1. Running => run.tip \in 1..Len(db)
      BY DEF HistoryInv, RunInv, Progress
    <3> QED BY <2>1, <2>4, <3>1 DEF RootAt
  <2>8. state # <<>> => root \in db'[state.tip].anc
    <3>1. state # <<>> => state.tip \in 1..Len(db)
      BY DEF HistoryInv, FileInv, Filed, Progress
    <3> QED BY <2>1, <2>4, <3>1 DEF RootAt
  <2>9. Pends => root \in db'[ref["scratch"]].anc
    <3>1. Pends => op # NoOp
      BY <1>1 DEF Pends, NoOp, Typed, FileTyped, Files
    <3>2. Pends => ref["scratch"] \in 1..Len(db)
      BY <1>1, <3>1, RefFacts DEF Typed, CheckoutTyped, RefNames
    <3> QED BY <2>1, <2>4, <3>2 DEF RootAt
  <2>10. RootAt(root)'
    BY <2>2, <2>3, <2>5, <2>6, <2>7, <2>8, <2>9 DEF RootAt
  <2>11. root \in 1..Len(db')
    BY <1>1, <2>1, MoreTyped
  <2> QED BY <2>10, <2>11 DEF Rooted, Commits
<1> QED BY <1>2, <1>3, <1>4, <1>5 DEF HistoryInv, Typed, Sound

\* A new commit that merges no base but what base has changes nothing that the refs
\* promise.
LEMMA RelatedStays ==
  ASSUME NEW d, NEW e, WellFormed(d), Grown(d, e), NEW refs \in RefsOf(d), NEW sides \in SidesOf(d),
         refs["master"] # 0, refs["origin"] # 0, refs["baseRemote"] # 0,
         Related(d, refs, sides),
         \A i \in 1..Len(e) : i \notin 1..Len(d) /\ e[i].kind = "base" => OfBase(e, e[i].of)
  PROVE  Related(e, refs, sides)
<1>1. Len(d) \in Nat
  BY RecordsTyped
<1>2. /\ \A r \in RefNames : refs[r] # 0 => refs[r] \in 1..Len(d)
      /\ \A b \in Branches : sides[b].tip # 0 => sides[b].tip \in 1..Len(d)
  BY <1>1 DEF RefsOf, SidesOf
<1>3. ASSUME NEW i \in 1..Len(e), e[i].kind = "base" PROVE OfBase(e, e[i].of)
  <2>1. CASE i \in 1..Len(d)
    <3>1. e[i] = d[i]
      BY <2>1, Same
    <3>2. OfBase(d, d[i].of)
      BY <1>3, <2>1, <3>1 DEF Related
    <3> QED BY <2>1, <3>1, <3>2, LineFacts, Same
  <2>2. CASE i \notin 1..Len(d)
    BY <1>3, <2>2
  <2> QED BY <2>1, <2>2
<1>4. OfMaster(e, refs["master"]) /\ OfMaster(e, refs["origin"]) /\ OfBase(e, refs["baseRemote"])
  <2>1. refs["master"] \in 1..Len(d) /\ refs["origin"] \in 1..Len(d) /\ refs["baseRemote"] \in 1..Len(d)
    BY <1>2 DEF RefNames
  <2>2. OfMaster(d, refs["master"]) /\ OfMaster(d, refs["origin"]) /\ OfBase(d, refs["baseRemote"])
    BY DEF Related
  <2> QED BY <2>1, <2>2, Same
<1>5. refs["base"] # 0 => OfBase(e, refs["base"])
  <2>1. SUFFICES ASSUME refs["base"] # 0 PROVE OfBase(e, refs["base"])
    OBVIOUS
  <2>2. refs["base"] \in 1..Len(d) /\ OfBase(d, refs["base"])
    BY <1>2, <2>1 DEF Related, RefNames
  <2> QED BY <2>2, Same
<1>6. ASSUME refs["history"] # 0
      PROVE  /\ Whole(e, refs["history"])
             /\ Past(e, refs["history"], "merged") \subseteq Past(e, refs["history"], "marker")
             /\ Past(e, refs["history"], "marker") = Past(d, refs["history"], "marker")
             /\ Bases(e, refs["history"]) = Bases(d, refs["history"])
  <2>1. /\ refs["history"] \in 1..Len(d) /\ Whole(d, refs["history"])
        /\ Past(d, refs["history"], "merged") \subseteq Past(d, refs["history"], "marker")
    BY <1>2, <1>6 DEF Related, RefNames
  <2> QED BY <2>1, Same
<1>7. ASSUME NEW b \in Branches, sides[b].tip # 0
      PROVE  /\ refs["history"] # 0
             /\ Past(e, sides[b].tip, "merged") \subseteq Past(e, refs["history"], "marker")
             /\ Past(e, sides[b].tip, "base") \subseteq Bases(e, refs["history"])
  <2>1. /\ refs["history"] # 0
        /\ Past(d, sides[b].tip, "merged") \subseteq Past(d, refs["history"], "marker")
        /\ Past(d, sides[b].tip, "base") \subseteq Bases(d, refs["history"])
    BY <1>7 DEF Related
  <2>2. \A kind : Past(e, sides[b].tip, kind) = Past(d, sides[b].tip, kind)
    BY <1>2, <1>7, Same
  <2> QED BY <1>6, <2>1, <2>2
<1> QED BY <1>3, <1>4, <1>5, <1>6, <1>7 DEF Related

\* What a line of master, base or history is with a commit more.
LEMMA OfMasterOn ==
  ASSUME NEW d, NEW e, NEW first, WellFormed(d), OnTop(d, e, first, 0), OfMaster(d, first),
         NEW n, n = NewIn(d), e[n].kind \in {"master", "merged"}, e[n].of = n
  PROVE  OfMaster(e, n)
<1>1. e[n].anc = d[first].anc \cup {n} \cup Parent(d, 0) /\ \A j \in e[n].anc \ {n} : e[j] = d[j]
  BY Tip
<1>2. Parent(d, 0) = {}
  BY DEF Parent
<1> QED BY <1>1, <1>2 DEF OfMaster

\* Base's line goes on.
LEMMA OfBaseOn ==
  ASSUME NEW d, NEW e, NEW first, WellFormed(d), OnTop(d, e, first, 0), OfBase(d, first),
         NEW n, n = NewIn(d), e[n].kind = "upstream"
  PROVE  OfBase(e, n)
<1>1. e[n].anc = d[first].anc \cup {n} \cup Parent(d, 0) /\ \A j \in e[n].anc \ {n} : e[j] = d[j]
  BY Tip
<1>2. Parent(d, 0) = {}
  BY DEF Parent
<1> QED BY <1>1, <1>2 DEF OfBase

\* The line with its root.
LEMMA RootOn ==
  ASSUME NEW d, NEW e, NEW first, NEW second, WellFormed(d), OnTop(d, e, first, second),
         NEW n, n = NewIn(d)
  PROVE  d[first].line \subseteq e[n].line /\ d[first].anc \subseteq e[n].anc
BY Tip

\* What one commit more, that is no base merge, leaves to be shown.
LEMMA OneCommit ==
  ASSUME HistoryInv, NEW first \in 1..Len(db), NEW kind \in Kinds \ {"base"}, NEW branch,
         branch \in Branches \cup {NoBranch}, kind = "merged" => branch \in Branches,
         db' = Append(db, Commit(first, 0, kind, 0, branch))
  PROVE  /\ WellFormed(db) /\ WellFormed(db') /\ Grown(db, db') /\ OnTop(db, db', first, 0)
         /\ New = NewIn(db) /\ New \in 1..Len(db') /\ New # 0
         /\ RefsOf(db) \subseteq RefsOf(db') /\ SidesOf(db) \subseteq SidesOf(db')
         /\ db'[New].kind = kind /\ db'[New].of = New
         /\ Related(db', ref, side)
         /\ ref \in RefsOf(db') /\ side \in SidesOf(db') /\ db'[New].branch = branch
<1>1. Typed /\ WellFormed(db) /\ Len(db) \in Nat /\ Sound
  BY RefFacts DEF HistoryInv
<1>2. 0 \in 0..Len(db) /\ kind \in Kinds
  BY <1>1
<1>e. PICK e : e = Append(db, Commit(first, 0, kind, 0, branch)) /\ e = db'
  OBVIOUS
<1>3. New = NewIn(db) /\ CommitOn(db, e, first, 0, kind, 0, branch)
  BY <1>1, <1>2, <1>e, CommitMade, Zenon
<1>4. /\ OnTop(db, e, first, 0) /\ New \in 1..Len(e) /\ New # 0
      /\ e[New].kind = kind /\ e[New].branch = branch /\ e[New].of = New
      /\ WellFormed(e) /\ Grown(db, e) /\ Len(e) = New
  BY <1>3 DEF CommitOn, OnTop
<1>5. 1..Len(e) = 1..Len(db) \cup {New}
  BY <1>1, <1>4 DEF New
<1>6. RefsOf(db) \subseteq RefsOf(e) /\ SidesOf(db) \subseteq SidesOf(e)
  BY <1>1, <1>4, MoreTyped
<1>7. ref \in RefsOf(db) /\ side \in SidesOf(db)
  BY <1>1 DEF Typed, StoreTyped
<1>8. Related(e, ref, side)
  <2>1. ASSUME NEW i \in 1..Len(e), i \notin 1..Len(db) PROVE e[i].kind # "base"
    BY <1>4, <1>5, <2>1
  <2>2. /\ ref["master"] # 0 /\ ref["origin"] # 0 /\ ref["baseRemote"] # 0
        /\ Related(db, ref, side)
    BY <1>1 DEF Typed, StoreTyped, Sound
  <2> QED BY <1>1, <1>4, <1>7, <2>1, <2>2, RelatedStays
<1> QED BY <1>e, <1>1, <1>3, <1>4, <1>5, <1>6, <1>7, <1>8

\* Of the branch's histories and history itself, if no other ref of theirs moves.
LEMMA SameRefs ==
  ASSUME NEW d, NEW refs, NEW sides, NEW refs2, Related(d, refs, sides),
         refs2["history"] = refs["history"],
         OfMaster(d, refs2["master"]), OfMaster(d, refs2["origin"]), OfBase(d, refs2["baseRemote"]),
         refs2["base"] # 0 => OfBase(d, refs2["base"])
  PROVE  Related(d, refs2, sides)
BY DEF Related

\* A commit or a merge on master's remote is of master.
LEMMA MasterMovesKeeps == ASSUME HistoryInv, MasterMoves PROVE HistoryInv'
<1>1. PICK b \in Branches \cup {NoBranch} :
         db' = Append(db, Commit(ref["origin"], 0, IF b = NoBranch THEN "master" ELSE "merged", 0, b))
  BY DEF MasterMoves
<1>2. /\ ref' = [ref EXCEPT !["origin"] = New]
      /\ UNCHANGED <<side, head, dirty, op, open, state, run, odd>>
  BY DEF MasterMoves
<1>3. Typed /\ ref["origin"] \in 1..Len(db) /\ ref["master"] \in 1..Len(db) /\ DOMAIN ref = RefNames
      /\ ref["master"] # 0 /\ ref["origin"] # 0 /\ ref["baseRemote"] # 0
  BY RefFacts DEF HistoryInv, Typed, StoreTyped
<1>4. PICK kind \in Kinds \ {"base"} :
         /\ kind = IF b = NoBranch THEN "master" ELSE "merged"
         /\ kind = "merged" => b \in Branches
         /\ kind \in {"master", "merged"}
  BY DEF Kinds
<1>5. /\ WellFormed(db) /\ WellFormed(db') /\ Grown(db, db') /\ OnTop(db, db', ref["origin"], 0)
      /\ New = NewIn(db) /\ New \in 1..Len(db') /\ New # 0
      /\ db'[New].kind = kind /\ db'[New].of = New
      /\ Related(db', ref, side) /\ ref \in RefsOf(db') /\ side \in SidesOf(db')
  <2>1. db' = Append(db, Commit(ref["origin"], 0, kind, 0, b))
    BY <1>1, <1>4
  <2> QED BY <1>3, <1>4, <2>1, OneCommit
<1>6. /\ ref' \in RefsOf(db') /\ ref'["origin"] = New
      /\ \A r \in RefNames \ {"origin"} : ref'[r] = ref[r]
  BY <1>2, <1>3, <1>5 DEF RefsOf, RefNames
<1>7. /\ ref'["master"] = ref["master"] /\ ref'["base"] = ref["base"]
      /\ ref'["baseRemote"] = ref["baseRemote"] /\ ref'["history"] = ref["history"]
      /\ ref'["scratch"] = ref["scratch"]
  BY <1>6 DEF RefNames
<1>8. OfMaster(db', New)
  <2>1. OfMaster(db, ref["origin"])
    BY DEF HistoryInv, Sound, Related
  <2> QED BY <1>4, <1>5, <2>1, OfMasterOn
<1>9. Related(db', ref', side)
  <2>1. /\ OfMaster(db', ref["master"]) /\ OfBase(db', ref["baseRemote"])
        /\ ref["base"] # 0 => OfBase(db', ref["base"])
    BY <1>5 DEF Related
  <2> QED BY <1>5, <1>6, <1>7, <1>8, <2>1, SameRefs
<1>10. ASSUME NEW root \in 1..Len(db), RootAt(root)
       PROVE  /\ root \in db'[ref'["master"]].line /\ root \in db'[ref'["origin"]].line
              /\ ref["history"] # 0 => root \in db'[ref'["history"]].anc
  <2>1. db[ref["origin"]].line \subseteq db'[New].line
    BY <1>5, RootOn
  <2>2. db'[ref["master"]] = db[ref["master"]]
    BY <1>3, <1>5, Same
  <2>3. ref["history"] # 0 => db'[ref["history"]] = db[ref["history"]]
    BY <1>3, <1>5, Same, RefFacts DEF RefNames
  <2> QED BY <1>6, <1>7, <1>10, <2>1, <2>2, <2>3 DEF RootAt
<1> QED BY <1>2, <1>3, <1>5, <1>6, <1>7, <1>9, <1>10, OthersAside

\* A commit of base's upstream is of base.
LEMMA BaseMovesKeeps == ASSUME HistoryInv, BaseMoves PROVE HistoryInv'
<1>1. /\ db' = Append(db, Commit(ref["baseRemote"], 0, "upstream", 0, NoBranch))
      /\ ref' = [ref EXCEPT !["baseRemote"] = New]
      /\ UNCHANGED <<side, head, dirty, op, open, state, run, odd>>
  BY DEF BaseMoves
<1>3. Typed /\ ref["origin"] \in 1..Len(db) /\ ref["master"] \in 1..Len(db) /\ DOMAIN ref = RefNames
      /\ ref["master"] # 0 /\ ref["origin"] # 0 /\ ref["baseRemote"] # 0
      /\ ref["baseRemote"] \in 1..Len(db)
  BY RefFacts DEF HistoryInv, Typed, StoreTyped
<1>4. PICK kind \in Kinds \ {"base"} : kind = "upstream" /\ (kind = "merged" => NoBranch \in Branches)
  BY DEF Kinds
<1>5. /\ WellFormed(db) /\ WellFormed(db') /\ Grown(db, db') /\ OnTop(db, db', ref["baseRemote"], 0)
      /\ New = NewIn(db) /\ New \in 1..Len(db') /\ New # 0
      /\ db'[New].kind = kind
      /\ Related(db', ref, side) /\ ref \in RefsOf(db') /\ side \in SidesOf(db')
  <2>1. db' = Append(db, Commit(ref["baseRemote"], 0, kind, 0, NoBranch))
    BY <1>1, <1>4
  <2> QED BY <1>3, <1>4, <2>1, OneCommit
<1>6. /\ ref' \in RefsOf(db') /\ ref'["baseRemote"] = New
      /\ \A r \in RefNames \ {"baseRemote"} : ref'[r] = ref[r]
  BY <1>1, <1>3, <1>5 DEF RefsOf, RefNames
<1>7. /\ ref'["master"] = ref["master"] /\ ref'["base"] = ref["base"]
      /\ ref'["origin"] = ref["origin"] /\ ref'["history"] = ref["history"]
      /\ ref'["scratch"] = ref["scratch"]
  BY <1>6 DEF RefNames
<1>8. OfBase(db', New)
  <2>1. OfBase(db, ref["baseRemote"])
    BY DEF HistoryInv, Sound, Related
  <2> QED BY <1>4, <1>5, <2>1, OfBaseOn
<1>9. Related(db', ref', side)
  <2>1. /\ OfMaster(db', ref["master"]) /\ OfMaster(db', ref["origin"])
        /\ ref["base"] # 0 => OfBase(db', ref["base"])
    BY <1>5 DEF Related
  <2> QED BY <1>5, <1>6, <1>7, <1>8, <2>1, SameRefs
<1>10. ASSUME NEW root \in 1..Len(db), RootAt(root)
       PROVE  /\ root \in db'[ref'["master"]].line /\ root \in db'[ref'["origin"]].line
              /\ ref["history"] # 0 => root \in db'[ref'["history"]].anc
  <2>1. db'[ref["master"]] = db[ref["master"]] /\ db'[ref["origin"]] = db[ref["origin"]]
    BY <1>3, <1>5, Same
  <2>2. ref["history"] # 0 => db'[ref["history"]] = db[ref["history"]]
    BY <1>3, <1>5, Same, RefFacts DEF RefNames
  <2> QED BY <1>6, <1>7, <1>10, <2>1, <2>2 DEF RootAt
<1> QED BY <1>1, <1>3, <1>5, <1>6, <1>7, <1>9, <1>10, OthersAside

\* A commit pulled to ai/history/master keeps its markers and bases.
LEMMA HistoryMovesKeeps == ASSUME HistoryInv, HistoryMoves PROVE HistoryInv'
<1>1. /\ db' = Append(db, Commit(ref["history"], 0, "work", 0, NoBranch))
      /\ ref' = [ref EXCEPT !["history"] = New] /\ ref["history"] # 0
      /\ UNCHANGED <<side, head, dirty, op, open, state, run, odd>>
  BY DEF HistoryMoves
<1>3. Typed /\ ref["origin"] \in 1..Len(db) /\ ref["master"] \in 1..Len(db) /\ DOMAIN ref = RefNames
      /\ ref["master"] # 0 /\ ref["origin"] # 0 /\ ref["baseRemote"] # 0
      /\ ref["history"] \in 1..Len(db)
  BY <1>1, RefFacts DEF HistoryInv, Typed, StoreTyped, RefNames
<1>4. PICK kind \in Kinds \ {"base"} : kind = "work" /\ (kind = "merged" => NoBranch \in Branches)
  BY DEF Kinds
<1>5. /\ WellFormed(db) /\ WellFormed(db') /\ Grown(db, db') /\ OnTop(db, db', ref["history"], 0)
      /\ New = NewIn(db) /\ New \in 1..Len(db') /\ New # 0
      /\ db'[New].kind = kind
      /\ Related(db', ref, side) /\ ref \in RefsOf(db') /\ side \in SidesOf(db')
  <2>1. db' = Append(db, Commit(ref["history"], 0, kind, 0, NoBranch))
    BY <1>1, <1>4
  <2> QED BY <1>3, <1>4, <2>1, OneCommit
<1>6. /\ ref' \in RefsOf(db') /\ ref'["history"] = New
      /\ \A r \in RefNames \ {"history"} : ref'[r] = ref[r]
  BY <1>1, <1>3, <1>5 DEF RefsOf, RefNames
<1>7. /\ ref'["master"] = ref["master"] /\ ref'["base"] = ref["base"]
      /\ ref'["origin"] = ref["origin"] /\ ref'["baseRemote"] = ref["baseRemote"]
      /\ ref'["scratch"] = ref["scratch"]
  BY <1>6 DEF RefNames
<1>8. /\ OnLine(db', New) /\ Bases(db', New) = Bases(db, ref["history"])
      /\ Past(db', New, "merged") = Past(db, ref["history"], "merged")
      /\ Past(db', New, "marker") = Past(db, ref["history"], "marker")
      /\ db[ref["history"]].anc \subseteq db'[New].anc
      /\ Whole(db, ref["history"])
      /\ Past(db, ref["history"], "merged") \subseteq Past(db, ref["history"], "marker")
  <2>1. /\ Whole(db, ref["history"]) /\ OnLine(db, ref["history"])
        /\ Past(db, ref["history"], "merged") \subseteq Past(db, ref["history"], "marker")
    BY <1>1 DEF HistoryInv, Sound, Related, Whole
  <2>2. "merged" \in Kinds \ {"upstream"} /\ "marker" \in Kinds \ {"upstream"}
    BY DEF Kinds
  <2>3. /\ Past(db', New, "merged") = Past(db, ref["history"], "merged")
                                     \cup (IF db'[New].kind = "merged" THEN {db'[New].of} ELSE {})
        /\ Past(db', New, "marker") = Past(db, ref["history"], "marker")
                                     \cup (IF db'[New].kind = "marker" THEN {db'[New].of} ELSE {})
    BY <1>5, <2>2, Added
  <2>4. Bases(db', New) = Bases(db, ref["history"])
                          \cup (IF db'[New].kind = "base" THEN {db'[New].of} ELSE {})
    BY <1>5, Added
  <2>5. OnLine(db', New) /\ db[ref["history"]].anc \subseteq db'[New].anc
    BY <1>5, <2>1, Added
  <2> QED BY <1>4, <1>5, <2>1, <2>3, <2>4, <2>5
<1>9. Related(db', ref', side)
  <2>1. Whole(db', New)
    BY <1>8 DEF Whole
  <2>2. /\ Past(db', ref["history"], "marker") = Past(db, ref["history"], "marker")
        /\ Bases(db', ref["history"]) = Bases(db, ref["history"])
    BY <1>3, <1>5, Same
  <2> QED BY <1>5, <1>6, <1>7, <1>8, <2>1, <2>2 DEF Related
<1>10. ASSUME NEW root \in 1..Len(db), RootAt(root)
       PROVE  /\ root \in db'[ref'["master"]].line /\ root \in db'[ref'["origin"]].line
              /\ ref["history"] # 0 => root \in db'[ref'["history"]].anc
  <2>1. db'[ref["master"]] = db[ref["master"]] /\ db'[ref["origin"]] = db[ref["origin"]]
    BY <1>3, <1>5, Same
  <2> QED BY <1>1, <1>6, <1>7, <1>8, <1>10, <2>1 DEF RootAt
<1> QED BY <1>1, <1>3, <1>5, <1>6, <1>7, <1>9, <1>10, OthersAside

\* The greatest of some commits.
LEMMA Latest ==
  ASSUME NEW n \in Nat, NEW S \in SUBSET (1..n), S # {}
  PROVE  Max(S) \in S /\ \A i \in S : i <= Max(S)
<1>1. S \in SUBSET Nat /\ \A i \in S : i <= n
  OBVIOUS
<1>2. PICK m \in S : \A i \in S : i <= m
  BY <1>1, Greatest
<1>3. \E x \in S : \A y \in S : x >= y
  BY <1>1, <1>2
<1>4. Max(S) \in S /\ \A i \in S : Max(S) >= i
  BY <1>3 DEF Max
<1> QED BY <1>1, <1>4

\* Master without its last commit still has the root, and is of master.
LEMMA MasterIsRewrittenKeeps == ASSUME HistoryInv, MasterIsRewritten PROVE HistoryInv'
<1> DEFINE tip == db[ref["master"]]
           earlier == tip.line \ {ref["master"]}
<1>1. /\ earlier # {}
      /\ db' = Append(db, Commit(Max(earlier), 0, tip.kind, 0, tip.branch))
      /\ ref' = [ref EXCEPT !["origin"] = New, !["master"] = New]
      /\ UNCHANGED <<side, head, dirty, op, open, state, run, odd>>
  BY DEF MasterIsRewritten
<1>3. Typed /\ ref["master"] \in 1..Len(db) /\ DOMAIN ref = RefNames
      /\ ref["master"] # 0 /\ ref["origin"] # 0 /\ ref["baseRemote"] # 0
      /\ WellFormed(db) /\ Len(db) \in Nat
  BY RefFacts DEF HistoryInv, Typed, StoreTyped
<1>a. PICK first : first = Max(earlier)
  OBVIOUS
<1>b. first \in earlier /\ \A i \in earlier : i <= first
  <2>1. earlier \in SUBSET (1..Len(db))
    BY <1>3, LineFacts
  <2> HIDE DEF earlier
  <2> QED BY <1>1, <1>3, <1>a, <2>1, Latest
<1>c. first \in tip.line /\ first \in tip.anc /\ first \in 1..Len(db)
  BY <1>3, <1>b, LineFacts
<1>d. OfMaster(db, ref["master"])
  BY DEF HistoryInv, Sound, Related
<1>4. PICK kind \in Kinds \ {"base"} :
         /\ kind = tip.kind /\ kind \in {"master", "merged"}
         /\ kind = "merged" => tip.branch \in Branches
         /\ tip.branch \in Branches \cup {NoBranch}
  <2>1. tip.kind \in {"master", "merged"}
    BY <1>3, <1>d, LineFacts DEF OfMaster
  <2>2. tip.branch \in Branches \cup {NoBranch} /\ (tip.kind = "merged" => tip.branch \in Branches)
    BY <1>3, RecordsTyped, LineFacts
  <2> QED BY <2>1, <2>2 DEF Kinds
<1>5. /\ WellFormed(db) /\ WellFormed(db') /\ Grown(db, db') /\ OnTop(db, db', first, 0)
      /\ New = NewIn(db) /\ New \in 1..Len(db') /\ New # 0
      /\ db'[New].kind = kind /\ db'[New].of = New
      /\ Related(db', ref, side) /\ ref \in RefsOf(db') /\ side \in SidesOf(db')
  <2> DEFINE branch == tip.branch
  <2>1. db' = Append(db, Commit(first, 0, kind, 0, branch))
    BY <1>1, <1>a, <1>4
  <2>2. branch \in Branches \cup {NoBranch} /\ (kind = "merged" => branch \in Branches)
    BY <1>4
  <2> HIDE DEF branch
  <2> QED BY <1>c, <2>1, <2>2, OneCommit
<1>6. /\ ref' \in RefsOf(db') /\ ref'["origin"] = New /\ ref'["master"] = New
      /\ \A r \in RefNames \ {"origin", "master"} : ref'[r] = ref[r]
  BY <1>1, <1>3, <1>5 DEF RefsOf, RefNames
<1>7. /\ ref'["base"] = ref["base"]
      /\ ref'["baseRemote"] = ref["baseRemote"] /\ ref'["history"] = ref["history"]
      /\ ref'["scratch"] = ref["scratch"]
  BY <1>6 DEF RefNames
<1>8. OfMaster(db', New)
  <2>1. OfMaster(db, first)
    <3>1. db[first].anc \subseteq tip.anc
      BY <1>3, <1>c, LineFacts
    <3> QED BY <1>d, <3>1 DEF OfMaster
  <2> QED BY <1>4, <1>5, <2>1, OfMasterOn
<1>9. Related(db', ref', side)
  <2>1. OfBase(db', ref["baseRemote"]) /\ (ref["base"] # 0 => OfBase(db', ref["base"]))
    BY <1>5 DEF Related
  <2> QED BY <1>5, <1>6, <1>7, <1>8, <2>1, SameRefs
<1>10. ASSUME NEW root \in 1..Len(db), RootAt(root)
       PROVE  /\ root \in db'[ref'["master"]].line /\ root \in db'[ref'["origin"]].line
              /\ ref["history"] # 0 => root \in db'[ref'["history"]].anc
  <2>1. db[first].line \subseteq db'[New].line
    BY <1>5, RootOn
  <2>2. ref["history"] # 0 => db'[ref["history"]] = db[ref["history"]]
    BY <1>3, <1>5, Same, RefFacts DEF RefNames
  <2>3. root \in tip.line /\ db[root].line = {root}
    BY <1>10 DEF RootAt
  <2>4. {k \in tip.line : k <= root} = {root} /\ db[first].line = {k \in tip.line : k <= first}
    BY <1>3, <1>c, <2>3, LineFacts
  <2>5. first # ref["master"] /\ first <= ref["master"]
    BY <1>3, <1>b, <1>c, LineFacts
  <2>6. root # ref["master"]
    BY <1>c, <2>4, <2>5
  <2>7. root <= first
    BY <1>b, <2>3, <2>6
  <2>8. root \in db[first].line
    BY <2>3, <2>4, <2>7
  <2> QED BY <1>6, <1>7, <1>10, <2>1, <2>2, <2>8 DEF RootAt
<1> QED BY <1>1, <1>3, <1>5, <1>6, <1>7, <1>9, <1>10, OthersAside

\* A branch's history that starts at ai/history/master, or goes on.
LEMMA BranchGrowsKeeps == ASSUME HistoryInv, BranchGrows PROVE HistoryInv'
<1>1. PICK b \in Branches :
         /\ side[b].tip # 0 \/ ref["history"] # 0
         /\ LET from == IF side[b].tip = 0 THEN ref["history"] ELSE side[b].tip
            IN  /\ db' = Append(db, Commit(from, 0, "work", 0, b))
                /\ side' = [side EXCEPT ![b] = [tip |-> New,
                                                fork |-> IF @.tip = 0 THEN from ELSE @.fork]]
  BY DEF BranchGrows
<1>2. UNCHANGED <<ref, head, dirty, op, open, state, run, odd>>
  BY DEF BranchGrows
<1>3. /\ Typed /\ ref["origin"] \in 1..Len(db) /\ ref["master"] \in 1..Len(db) /\ DOMAIN ref = RefNames
      /\ ref["master"] # 0 /\ ref["origin"] # 0 /\ ref["baseRemote"] # 0 /\ Len(db) \in Nat
      /\ \A c \in Branches : side[c].tip # 0 => side[c].tip \in 1..Len(db)
      /\ ref["history"] # 0 => ref["history"] \in 1..Len(db)
  BY RefFacts DEF HistoryInv, Typed, StoreTyped, RefNames
<1>a. PICK from : from = IF side[b].tip = 0 THEN ref["history"] ELSE side[b].tip
  OBVIOUS
<1>b. PICK fork : fork = IF side[b].tip = 0 THEN from ELSE side[b].fork
  OBVIOUS
<1>c. /\ from \in 1..Len(db) /\ fork \in 0..Len(db)
      /\ ref["history"] # 0 /\ ref["history"] \in 1..Len(db)
      /\ Past(db, from, "merged") \subseteq Past(db, ref["history"], "marker")
      /\ Past(db, from, "base") \subseteq Bases(db, ref["history"])
  <2>1. Related(db, ref, side)
    BY DEF HistoryInv, Sound
  <2>2. CASE side[b].tip = 0
    <3>1. ref["history"] # 0 /\ from = ref["history"] /\ fork = from
      BY <1>1, <1>a, <1>b, <2>2
    <3>2. /\ Past(db, from, "merged") \subseteq Past(db, ref["history"], "marker")
          /\ OnLine(db, from)
      BY <2>1, <3>1 DEF Related, Whole
    <3>3. Past(db, from, "base") \subseteq Bases(db, ref["history"])
      BY <3>1, <3>2 DEF Past, Bases, OnLine
    <3>4. from \in 1..Len(db) /\ fork \in 0..Len(db)
      <4>1. \A i \in 1..Len(db) : i \in 0..Len(db)
        OBVIOUS
      <4>2. from \in 1..Len(db)
        BY <1>3, <3>1
      <4> QED BY <3>1, <4>1, <4>2
    <3> QED BY <1>3, <3>1, <3>2, <3>3, <3>4
  <2>3. CASE side[b].tip # 0
    <3>1. from = side[b].tip /\ fork = side[b].fork
      BY <1>a, <1>b, <2>3
    <3>2. from \in 1..Len(db) /\ fork \in 0..Len(db)
      BY <1>3, <2>3, <3>1, RefFacts
    <3>3. /\ ref["history"] # 0
          /\ Past(db, from, "merged") \subseteq Past(db, ref["history"], "marker")
          /\ Past(db, from, "base") \subseteq Bases(db, ref["history"])
      BY <2>1, <2>3, <3>1 DEF Related
    <3> QED BY <1>3, <3>2, <3>3
  <2> QED BY <2>2, <2>3
<1>4. PICK kind \in Kinds \ {"base"} :
        kind = "work" /\ (kind = "merged" => b \in Branches) /\ b \in Branches \cup {NoBranch}
  BY DEF Kinds
<1>5. /\ WellFormed(db) /\ WellFormed(db') /\ Grown(db, db') /\ OnTop(db, db', from, 0)
      /\ New = NewIn(db) /\ New \in 1..Len(db') /\ New # 0
      /\ db'[New].kind = kind
      /\ Related(db', ref, side) /\ ref \in RefsOf(db') /\ side \in SidesOf(db')
  <2>1. db' = Append(db, Commit(from, 0, kind, 0, b))
    BY <1>1, <1>4, <1>a
  <2> QED BY <1>c, <1>4, <2>1, OneCommit
<1>6. /\ side' \in SidesOf(db') /\ side'[b].tip = New
      /\ \A c \in Branches \ {b} : side'[c] = side[c]
  <2>1. side' = [side EXCEPT ![b] = [tip |-> New, fork |-> fork]]
    BY <1>1, <1>a, <1>b
  <2>2. New \in 0..Len(db') /\ fork \in 0..Len(db')
    BY <1>c, <1>3, <1>5, MoreTyped
  <2>3. side \in [Branches -> [tip : 0..Len(db'), fork : 0..Len(db')]]
    BY <1>5 DEF SidesOf
  <2> QED BY <2>1, <2>2, <2>3 DEF SidesOf
<1>8. /\ Past(db', New, "merged") = Past(db, from, "merged")
      /\ Past(db', New, "base") = Past(db, from, "base")
  <2>1. /\ Past(db', New, "merged") = Past(db, from, "merged")
                                \cup (IF db'[New].kind = "merged" THEN {db'[New].of} ELSE {})
        /\ Past(db', New, "base") = Past(db, from, "base")
                                \cup (IF db'[New].kind = "base" THEN {db'[New].of} ELSE {})
    <3>1. "merged" \in Kinds \ {"upstream"} /\ "base" \in Kinds \ {"upstream"}
      BY DEF Kinds
    <3> QED BY <1>5, <3>1, Added
  <2> QED BY <1>4, <1>5, <2>1
<1>9. Related(db', ref, side')
  <2>1. /\ Past(db', ref["history"], "marker") = Past(db, ref["history"], "marker")
        /\ Bases(db', ref["history"]) = Bases(db, ref["history"])
    BY <1>c, <1>5, Same
  <2>2. ASSUME NEW c \in Branches, side'[c].tip # 0
        PROVE  /\ ref["history"] # 0
               /\ Past(db', side'[c].tip, "merged") \subseteq Past(db', ref["history"], "marker")
               /\ Past(db', side'[c].tip, "base") \subseteq Bases(db', ref["history"])
    <3>1. CASE c = b
      BY <1>c, <1>6, <1>8, <2>1, <3>1
    <3>2. CASE c # b
      BY <1>5, <1>6, <2>2, <3>2 DEF Related
    <3> QED BY <3>1, <3>2
  <2> QED BY <1>5, <2>2 DEF Related
<1>10. ASSUME NEW root \in 1..Len(db), RootAt(root)
       PROVE  /\ root \in db'[ref'["master"]].line /\ root \in db'[ref'["origin"]].line
              /\ ref["history"] # 0 => root \in db'[ref'["history"]].anc
  <2>1. db'[ref["master"]] = db[ref["master"]] /\ db'[ref["origin"]] = db[ref["origin"]]
    BY <1>3, <1>5, Same
  <2>2. db'[ref["history"]] = db[ref["history"]]
    BY <1>c, <1>5, Same
  <2> QED BY <1>2, <1>10, <2>1, <2>2 DEF RootAt
<1>11. Related(db', ref', side') /\ ref' \in RefsOf(db')
  BY <1>2, <1>5, <1>9
<1> QED BY <1>2, <1>3, <1>5, <1>6, <1>11, <1>10, OthersAside

\* One sequence after another, and the names the second has then.
LEMMA Joined ==
  ASSUME NEW S, NEW d \in Seq(S), NEW F \in Seq(S), NEW size \in Nat, NEW count \in Nat,
         size = Len(d), count = Len(F), NEW e, e = d \o F
  PROVE  /\ e \in Seq(S) /\ Len(e) = size + count
         /\ \A i \in 1..size : e[i] = d[i]
         /\ \A n \in 1..count : e[size + n] = F[n]
         /\ \A i \in 1..Len(e) :
               i \in 1..size \/ (i - size \in 1..count /\ i = size + (i - size))
<1>1. e \in Seq(S) /\ Len(e) = size + count
  OBVIOUS
<1>2. \A i \in 1..size : e[i] = d[i]
  OBVIOUS
<1>3. ASSUME NEW n \in 1..count PROVE e[size + n] = F[n]
  <2>1. size + n \in 1..(size + count) /\ size + n > size /\ (size + n) - size = n
    OBVIOUS
  <2> QED BY <2>1
<1>4. ASSUME NEW i \in 1..Len(e), i \notin 1..size PROVE i - size \in 1..count /\ i = size + (i - size)
  BY <1>1, <1>4
<1> QED BY <1>1, <1>2, <1>3, <1>4

\* Numbers from size + 1 on, as the names of n commits that follow one another.
LEMMA Following ==
  ASSUME NEW size \in Nat, NEW n \in Nat
  PROVE  /\ \A j \in (size + 1)..(size + n) : j - size \in 1..n /\ j = size + (j - size)
         /\ \A m \in 1..n : /\ (size + 1)..(size + m) \subseteq (size + 1)..(size + n)
                            /\ {k \in (size + 1)..(size + n) : k <= size + m}
                                  = (size + 1)..(size + m)
         /\ \A j \in 1..size : \A k \in (size + 1)..(size + n) : j < k /\ ~(k <= j)
         /\ n # 0 => size + n \in (size + 1)..(size + n)
         /\ (size + 1)..(size + n) \subseteq 1..(size + n)
         /\ 1..size \subseteq 1..(size + n)
<1>1. \A j \in (size + 1)..(size + n) : j - size \in 1..n /\ j = size + (j - size)
  OBVIOUS
<1>2. ASSUME NEW m \in 1..n
      PROVE  /\ (size + 1)..(size + m) \subseteq (size + 1)..(size + n)
             /\ {k \in (size + 1)..(size + n) : k <= size + m} = (size + 1)..(size + m)
  OBVIOUS
<1> QED BY <1>1, <1>2

\* Commits made anew on another line, one after the other.
AnewOn(d, onto, F) ==
  \A n \in 1..Len(F) :
     /\ F[n].line = d[onto].line \cup ((Len(d) + 1)..(Len(d) + n))
     /\ F[n].anc = d[onto].anc \cup ((Len(d) + 1)..(Len(d) + n))
     /\ F[n].of \in 1..Len(d)
     /\ F[n].kind = "merged" => F[n].branch \in Branches

\* e is d and the commits F, and still well-formed.
Continued(d, F, e) ==
  /\ WellFormed(e) /\ Grown(d, e) /\ Len(e) = Len(d) + Len(F)
  /\ \A n \in 1..Len(F) : e[Len(d) + n] = F[n]
  /\ \A i \in 1..Len(e) : i \in 1..Len(d) \/ \E n \in 1..Len(F) : i = Len(d) + n

\* So does a store to which such commits are appended.
LEMMA Replanted ==
  ASSUME NEW d, WellFormed(d), NEW onto \in 1..Len(d), NEW F \in Seq(Objects),
         AnewOn(d, onto, F), NEW e, e = d \o F
  PROVE  Continued(d, F, e)
<1>0. PICK size \in Nat, count \in Nat : size = Len(d) /\ count = Len(F)
  BY RecordsTyped
<1>1. d \in Seq(Objects)
  BY RecordsTyped
<1>2. \A n \in 1..count :
         /\ F[n].line = d[onto].line \cup ((size + 1)..(size + n))
         /\ F[n].anc = d[onto].anc \cup ((size + 1)..(size + n))
         /\ F[n].of \in 1..size
         /\ F[n].kind = "merged" => F[n].branch \in Branches
  BY <1>0 DEF AnewOn
<1>4. /\ e \in Seq(Objects) /\ Len(e) = size + count
      /\ \A i \in 1..size : e[i] = d[i]
      /\ \A n \in 1..count : e[size + n] = F[n]
      /\ \A i \in 1..Len(e) : i \in 1..size \/ \E n \in 1..count : i = size + n
  <2>1. e \in Seq(Objects) /\ Len(e) = size + count
    BY <1>0, <1>1, Joined
  <2>2. \A i \in 1..size : e[i] = d[i]
    BY <1>0, <1>1, Joined
  <2>3. \A n \in 1..count : e[size + n] = F[n]
    BY <1>0, <1>1, Joined
  <2>4. \A i \in 1..Len(e) : i \in 1..size \/ \E n \in 1..count : i = size + n
    <3>1. \A i \in 1..Len(e) :
             i \in 1..size \/ (i - size \in 1..count /\ i = size + (i - size))
      BY <1>0, <1>1, Joined
    <3> QED BY <3>1, Zenon
  <2> QED BY <2>1, <2>2, <2>3, <2>4
<1>5. Grown(d, e)
  BY <1>4 DEF Grown
<1>6. ASSUME NEW i \in 1..size PROVE Stands(e, i)
  <2>1. Stands(d, i) /\ e[i] = d[i]
    BY <1>0, <1>4 DEF WellFormed
  <2>2. \A j \in d[i].anc : e[j] = d[j]
    <3>1. i \in 1..Len(d)
      BY <1>0
    <3> QED BY <1>0, <1>4, <3>1, LineFacts
  <2>3. \A j \in d[i].line : e[j] = d[j]
    <3>1. i \in 1..Len(d)
      BY <1>0
    <3> QED BY <2>2, <3>1, LineFacts
  <2> QED BY <2>1, <2>2, <2>3 DEF Stands
<1>7. ASSUME NEW n \in 1..count PROVE Stands(e, size + n)
  <2> DEFINE id == size + n
             new == (size + 1)..id
             L == d[onto].line
             A == d[onto].anc
  <2>f. /\ \A j \in new : \E m \in 1..n : j = size + m
        /\ \A m \in 1..n : /\ (size + 1)..(size + m) \subseteq new
                           /\ {k \in new : k <= size + m} = (size + 1)..(size + m)
        /\ \A j \in 1..size : \A k \in new : j < k /\ ~(k <= j)
        /\ id \in new /\ new \subseteq 1..id /\ 1..size \subseteq 1..id
    <3>1. n \in Nat /\ n # 0
      OBVIOUS
    <3>2. \A j \in (size + 1)..(size + n) : \E m \in 1..n : j = size + m
      <4>1. \A j \in (size + 1)..(size + n) : j - size \in 1..n /\ j = size + (j - size)
        BY <3>1, Following
      <4> QED BY <4>1, Zenon
    <3>3. \A m \in 1..n : (size + 1)..(size + m) \subseteq (size + 1)..(size + n)
      BY <3>1, Following
    <3>4. \A m \in 1..n : {k \in (size + 1)..(size + n) : k <= size + m}
                               = (size + 1)..(size + m)
      BY <3>1, Following
    <3>5. \A j \in 1..size : \A k \in (size + 1)..(size + n) : j < k /\ ~(k <= j)
      BY <3>1, Following
    <3>6. /\ size + n \in (size + 1)..(size + n)
          /\ (size + 1)..(size + n) \subseteq 1..(size + n)
          /\ 1..size \subseteq 1..(size + n)
      BY <3>1, Following
    <3> QED BY <3>2, <3>3, <3>4, <3>5, <3>6, Zenon
  <2>1. \A m \in 1..n : /\ e[size + m].line = L \cup ((size + 1)..(size + m))
                        /\ e[size + m].anc = A \cup ((size + 1)..(size + m))
    <3>1. \A m \in 1..n : m \in 1..count
      OBVIOUS
    <3> QED BY <1>2, <1>4, <3>1
  <2>2. /\ e[id].line = L \cup new /\ e[id].anc = A \cup new
        /\ e[id].of \in 1..size /\ (e[id].kind = "merged" => e[id].branch \in Branches)
    BY <1>2, <1>4
  <2>3. /\ L \subseteq A /\ A \subseteq 1..size
        /\ \A j \in A : d[j].anc \subseteq A /\ e[j] = d[j]
        /\ \A j \in L : d[j].line = {k \in L : k <= j}
    BY <1>0, <1>4, LineFacts
  <2> HIDE DEF id, new, L, A
  <2>4. id \in e[id].line /\ e[id].line \subseteq e[id].anc /\ e[id].anc \subseteq 1..id
    BY <2>f, <2>2, <2>3
  <2>5. e[id].of \in 1..id
    BY <2>f, <2>2
  <2>7. ASSUME NEW j \in e[id].anc PROVE e[j].anc \subseteq e[id].anc
    <3>1. CASE j \in A
      BY <2>2, <2>3, <3>1
    <3>2. CASE j \in new
      <4>1. PICK m \in 1..n : j = size + m
        BY <2>f, <3>2
      <4>2. e[j].anc = A \cup ((size + 1)..(size + m))
        BY <2>1, <4>1
      <4>3. (size + 1)..(size + m) \subseteq new
        BY <2>f
      <4> QED BY <2>2, <4>2, <4>3
    <3> QED BY <2>2, <3>1, <3>2
  <2>8. ASSUME NEW j \in e[id].line PROVE e[j].line = {k \in e[id].line : k <= j}
    <3>1. CASE j \in L
      <4>1. e[j].line = {k \in L : k <= j} /\ j \in 1..size
        BY <2>3, <3>1
      <4>2. \A k \in new : ~(k <= j)
        BY <2>f, <4>1
      <4> QED BY <2>2, <4>1, <4>2
    <3>2. CASE j \in new
      <4>1. PICK m \in 1..n : j = size + m
        BY <2>f, <3>2
      <4>2. e[j].line = L \cup {k \in new : k <= j}
        BY <2>f, <2>1, <4>1
      <4>3. \A k \in L : k <= j
        <5>1. \A k \in L : k \in 1..size
          BY <2>3
        <5>2. \A k \in 1..size : k < j
          BY <2>f, <3>2
        <5>3. \A k \in 1..size : k < j => k <= j
          BY <4>1
        <5> QED BY <5>1, <5>2, <5>3
      <4> QED BY <2>2, <4>2, <4>3
    <3> QED BY <2>2, <3>1, <3>2
  <2> QED BY <2>2, <2>4, <2>5, <2>7, <2>8 DEF Stands, id
<1>8. WellFormed(e)
  BY <1>4, <1>6, <1>7 DEF WellFormed
<1> QED BY <1>0, <1>4, <1>5, <1>8 DEF Continued

\* A branch's history that is rebased promises what it and ai/history/master did.
LEMMA BranchIsRebasedKeeps == ASSUME HistoryInv, BranchIsRebased PROVE HistoryInv'
<1>0. /\ ref["history"] # 0 /\ UNCHANGED <<ref, head, dirty, op, open, state, run, odd>>
  BY DEF BranchIsRebased
<1>1. PICK b \in Branches :
          LET onto  == db[ref["history"]]
              there == {db[i].of : i \in onto.line}
              own   == {i \in db[side[b].tip].line : i \notin onto.anc /\ db[i].of \notin there}
              count == Cardinality(own)
              More(n) == (Len(db) + 1)..(Len(db) + n)
          IN  /\ side[b].tip # 0
              /\ \E each \in OldestFirst(own) :
                    db' = db \o [n \in 1..count |->
                                   [line   |-> onto.line \cup More(n),
                                    anc    |-> onto.anc \cup More(n),
                                    kind   |-> db[each[n]].kind,
                                    of     |-> db[each[n]].of,
                                    branch |-> db[each[n]].branch]]
              /\ side' = [side EXCEPT ![b].tip = IF own = {} THEN ref["history"]
                                                ELSE Len(db) + count]
  BY DEF BranchIsRebased
<1>2. PICK own, count, size :
          /\ own \in SUBSET db[side[b].tip].line
          /\ count = Cardinality(own) /\ size = Len(db)
          /\ side[b].tip # 0
          /\ \E each \in OldestFirst(own) :
                db' = db \o [n \in 1..count |->
                               [line   |-> db[ref["history"]].line \cup ((size + 1)..(size + n)),
                                anc    |-> db[ref["history"]].anc \cup ((size + 1)..(size + n)),
                                kind   |-> db[each[n]].kind,
                                of     |-> db[each[n]].of,
                                branch |-> db[each[n]].branch]]
          /\ side' = [side EXCEPT ![b].tip = IF own = {} THEN ref["history"] ELSE size + count]
  <2> DEFINE o == {i \in db[side[b].tip].line :
                      /\ i \notin db[ref["history"]].anc
                      /\ db[i].of \notin {db[k].of : k \in db[ref["history"]].line}}
  <2>1. o \in SUBSET db[side[b].tip].line
    OBVIOUS
  <2> QED BY <1>1, <2>1
<1>3. /\ Typed /\ WellFormed(db) /\ size \in Nat /\ size = Len(db)
      /\ side[b].tip \in 1..Len(db) /\ ref["history"] \in 1..Len(db)
      /\ ref["master"] \in 1..Len(db) /\ ref["origin"] \in 1..Len(db)
  BY <1>0, <1>2, RefFacts DEF HistoryInv, RefNames
<1>4. own \in SUBSET (1..Len(db)) /\ own \subseteq db[side[b].tip].anc
  BY <1>2, <1>3, LineFacts
<1>5. count \in Nat /\ (own # {} => count # 0) /\ (own = {} => count = 0)
  <2>1. IsFiniteSet(1..Len(db))
    BY <1>3, FS_Interval
  <2>2. IsFiniteSet(own)
    BY <1>4, <2>1, FS_Subset
  <2> QED BY <1>2, <2>2, FS_CardinalityType, FS_EmptySet
<1>6. PICK each \in [1..count -> own] :
         db' = db \o [n \in 1..count |->
                        [line   |-> db[ref["history"]].line \cup ((size + 1)..(size + n)),
                         anc    |-> db[ref["history"]].anc \cup ((size + 1)..(size + n)),
                         kind   |-> db[each[n]].kind,
                         of     |-> db[each[n]].of,
                         branch |-> db[each[n]].branch]]
  BY <1>2 DEF OldestFirst
<1>7. PICK F : F = [n \in 1..count |->
                        [line   |-> db[ref["history"]].line \cup ((size + 1)..(size + n)),
                         anc    |-> db[ref["history"]].anc \cup ((size + 1)..(size + n)),
                         kind   |-> db[each[n]].kind,
                         of     |-> db[each[n]].of,
                         branch |-> db[each[n]].branch]]
  OBVIOUS
<1>8. ASSUME NEW n \in 1..count
      PROVE  /\ F[n] \in Objects
             /\ F[n].line = db[ref["history"]].line \cup ((size + 1)..(size + n))
             /\ F[n].anc = db[ref["history"]].anc \cup ((size + 1)..(size + n))
             /\ F[n].kind = db[each[n]].kind /\ F[n].of = db[each[n]].of
             /\ F[n].of \in 1..size /\ (F[n].kind = "merged" => F[n].branch \in Branches)
  <2>1. PICK i \in 1..Len(db) : i = each[n]
    BY <1>4
  <2>2. /\ db[i].kind \in Kinds /\ db[i].branch \in Branches \cup {NoBranch}
        /\ db[i].of \in Nat /\ db[i].of \in 1..size
        /\ db[i].kind = "merged" => db[i].branch \in Branches
    BY <1>3, <2>1, RecordsTyped, LineFacts
  <2>4. db[ref["history"]].line \in SUBSET Nat /\ db[ref["history"]].anc \in SUBSET Nat
    BY <1>3, LineFacts
  <2>5. (size + 1)..(size + n) \in SUBSET Nat
    BY <1>3
  <2>6. F[n] = [line   |-> db[ref["history"]].line \cup ((size + 1)..(size + n)),
                anc    |-> db[ref["history"]].anc \cup ((size + 1)..(size + n)),
                kind   |-> db[i].kind,
                of     |-> db[i].of,
                branch |-> db[i].branch]
    BY <1>7, <2>1
  <2> QED BY <2>1, <2>2, <2>4, <2>5, <2>6 DEF Objects, Kinds
<1>9. F \in Seq(Objects) /\ Len(F) = count /\ db' = db \o F
  <2>1. F \in [1..count -> Objects]
    BY <1>7, <1>8
  <2>2. db' = db \o F
    BY <1>6, <1>7
  <2> QED BY <1>5, <2>1, <2>2
<1>10. /\ WellFormed(db') /\ Grown(db, db') /\ Len(db') = size + count
       /\ \A n \in 1..count : db'[size + n] = F[n]
       /\ \A i \in 1..Len(db') : i \in 1..Len(db) \/ \E n \in 1..count : i = size + n
  <2>1. AnewOn(db, ref["history"], F)
    BY <1>3, <1>8, <1>9 DEF AnewOn
  <2>2. PICK e : e = db' /\ e = db \o F
    BY <1>9
  <2>3. WellFormed(db) /\ ref["history"] \in 1..Len(db) /\ F \in Seq(Objects)
    BY <1>3, <1>9
  <2>4. Continued(db, F, e)
    BY <2>1, <2>2, <2>3, Replanted, Zenon
  <2>5. /\ WellFormed(e) /\ Grown(db, e) /\ Len(e) = Len(db) + Len(F)
        /\ \A n \in 1..Len(F) : e[Len(db) + n] = F[n]
        /\ \A i \in 1..Len(e) : i \in 1..Len(db) \/ \E n \in 1..Len(F) : i = Len(db) + n
    BY <2>4 DEF Continued
  <2> QED BY <1>3, <1>9, <2>2, <2>5
<1>11. /\ ref \in RefsOf(db) /\ side \in SidesOf(db)
       /\ ref["master"] # 0 /\ ref["origin"] # 0 /\ ref["baseRemote"] # 0
       /\ Related(db, ref, side)
  BY DEF HistoryInv, Typed, StoreTyped, Sound
<1>12. ref \in RefsOf(db') /\ side \in SidesOf(db')
  BY <1>3, <1>10, <1>11, MoreTyped
<1>13. Related(db', ref, side)
  <2>1. ASSUME NEW i \in 1..Len(db'), i \notin 1..Len(db), db'[i].kind = "base"
        PROVE  OfBase(db', db'[i].of)
    <3>1. PICK n \in 1..count : i = size + n
      BY <1>10, <2>1
    <3>2. PICK j \in 1..Len(db) : j = each[n]
      BY <1>4
    <3>3. db[j].kind = "base" /\ db'[i].of = db[j].of
      BY <1>8, <1>10, <2>1, <3>1, <3>2
    <3>4. OfBase(db, db[j].of) /\ db[j].of \in 1..Len(db)
      BY <1>3, <1>11, <3>3, LineFacts DEF Related
    <3> QED BY <1>3, <1>10, <3>3, <3>4, Same
  <2> QED BY <1>3, <1>10, <1>11, <2>1, RelatedStays
<1>14. PICK to : to = IF own = {} THEN ref["history"] ELSE size + count
  OBVIOUS
<1>15. to \in 0..Len(db') /\ to # 0
  BY <1>3, <1>5, <1>10, <1>14
<1>16. /\ side' \in SidesOf(db') /\ side'[b].tip = to
       /\ \A c \in Branches \ {b} : side'[c] = side[c]
  BY <1>2, <1>12, <1>14, <1>15 DEF SidesOf
<1>17. ASSUME NEW kind, NEW x \in Past(db', to, kind)
       PROVE  x \in Past(db, ref["history"], kind) \cup Past(db, side[b].tip, kind)
  <2>1. CASE own = {}
    <3>1. to = ref["history"]
      BY <1>14, <2>1
    <3> QED BY <1>3, <1>10, <1>17, <3>1, Same
  <2>2. CASE own # {}
    <3>1. to = size + count /\ count \in 1..count
      BY <1>5, <1>14, <2>2
    <3>2. db'[to].anc = db[ref["history"]].anc \cup ((size + 1)..(size + count))
      BY <1>8, <1>10, <3>1
    <3>3. PICK i \in db'[to].anc : db'[i].kind = kind /\ x = db'[i].of
      BY <1>17 DEF Past
    <3>4. CASE i \in db[ref["history"]].anc
      <4>1. db'[i] = db[i]
        <5>1. i \in 1..Len(db)
          BY <1>3, <3>4, LineFacts
        <5> QED BY <1>10, <5>1 DEF Grown
      <4> QED BY <3>3, <3>4, <4>1 DEF Past
    <3>5. CASE i \in (size + 1)..(size + count)
      <4>1. i - size \in 1..count /\ i = size + (i - size)
        BY <1>3, <1>5, <3>5, Following
      <4>2. PICK n \in 1..count : i = size + n
        BY <4>1
      <4>3. db'[i].kind = db[each[n]].kind /\ db'[i].of = db[each[n]].of
        BY <1>8, <1>10, <4>2
      <4>4. each[n] \in db[side[b].tip].anc
        BY <1>4
      <4> QED BY <3>3, <4>3, <4>4 DEF Past
    <3> QED BY <3>2, <3>4, <3>5
  <2> QED BY <2>1, <2>2
<1>18. /\ Past(db', to, "merged") \subseteq Past(db, ref["history"], "marker")
       /\ Past(db', to, "base") \subseteq Bases(db, ref["history"])
  <2>1. /\ Past(db, ref["history"], "merged") \subseteq Past(db, ref["history"], "marker")
        /\ OnLine(db, ref["history"])
        /\ Past(db, side[b].tip, "merged") \subseteq Past(db, ref["history"], "marker")
        /\ Past(db, side[b].tip, "base") \subseteq Bases(db, ref["history"])
    BY <1>0, <1>2, <1>11 DEF Related, Whole
  <2>2. Past(db, ref["history"], "base") \subseteq Bases(db, ref["history"])
    BY <2>1 DEF Past, Bases, OnLine
  <2> QED BY <1>17, <2>1, <2>2
<1>19. Related(db', ref', side')
  <2>1. /\ Past(db', ref["history"], "marker") = Past(db, ref["history"], "marker")
        /\ Bases(db', ref["history"]) = Bases(db, ref["history"])
    BY <1>3, <1>10, Same
  <2>2. ASSUME NEW c \in Branches, side'[c].tip # 0
        PROVE  /\ ref["history"] # 0
               /\ Past(db', side'[c].tip, "merged") \subseteq Past(db', ref["history"], "marker")
               /\ Past(db', side'[c].tip, "base") \subseteq Bases(db', ref["history"])
    <3>1. CASE c = b
      BY <1>0, <1>16, <1>18, <2>1, <3>1
    <3>2. CASE c # b
      BY <1>13, <1>16, <2>2, <3>2 DEF Related
    <3> QED BY <3>1, <3>2
  <2>3. Related(db', ref, side')
    BY <1>13, <2>2 DEF Related
  <2> QED BY <1>0, <2>3
<1>20. ASSUME NEW root \in 1..Len(db), RootAt(root)
       PROVE  /\ root \in db'[ref'["master"]].line /\ root \in db'[ref'["origin"]].line
              /\ ref["history"] # 0 => root \in db'[ref'["history"]].anc
  <2>1. /\ db'[ref["master"]] = db[ref["master"]] /\ db'[ref["origin"]] = db[ref["origin"]]
        /\ db'[ref["history"]] = db[ref["history"]]
    BY <1>3, <1>10, Same
  <2> QED BY <1>0, <1>20, <2>1 DEF RootAt
<1>21. ref' \in RefsOf(db') /\ ref'["scratch"] = ref["scratch"]
  BY <1>0, <1>12
<1> QED BY <1>0, <1>10, <1>11, <1>16, <1>19, <1>20, <1>21, OthersAside

-----------------------------------------------------------------------------
(* The author, and what a process does without a commit.                   *)

\* The author commits nothing and moves no ref.
LEMMA AuthorKeeps == ASSUME HistoryInv, Author \/ UNCHANGED vars PROVE HistoryInv'
<1>1. Typed /\ Sound /\ RunInv /\ FileInv /\ Rooted
  BY DEF HistoryInv
<1>2. /\ UNCHANGED <<db, ref, side, state, run>>
      /\ UNCHANGED op \/ (op' = NoOp /\ run.pc = "idle")
  BY DEF Author, Resolve, RawAbort, Checkout, Edit, Stash, vars, Quiet, At
<1>3. CheckoutTyped'
  <2>1. CheckoutTyped /\ (state # <<>> => state \in Files(db))
    BY <1>1 DEF Typed, FileTyped
  <2>2. op' \in Operations(db)
    BY <1>2, <2>1 DEF CheckoutTyped, Operations
  <2>3. CASE Resolve \/ Edit \/ Stash \/ UNCHANGED vars
    <3>1. UNCHANGED <<head, op, odd>>
      BY <2>3 DEF Resolve, Edit, Stash, vars
    <3>2. dirty' \in BOOLEAN /\ open' \in BOOLEAN /\ (open' => open)
      <4>1. dirty \in BOOLEAN /\ open \in BOOLEAN
        BY <2>1 DEF CheckoutTyped
      <4>2. dirty' \in {dirty, TRUE, FALSE}
        BY <2>3 DEF Resolve, Edit, Stash, vars
      <4>3. open' \in {open, FALSE}
        BY <2>3 DEF Resolve, Edit, Stash, vars
      <4>4. open' => open
        BY <4>1, <4>3, Zenon
      <4> QED BY <4>1, <4>2, <4>3, <4>4, Zenon
    <3> QED BY <1>2, <2>1, <3>1, <3>2 DEF CheckoutTyped
  <2>4. CASE RawAbort
    BY <1>2, <2>1, <2>2, <2>4 DEF RawAbort, CheckoutTyped
  <2>5. CASE Checkout
    <3>1. /\ head' \in {"master", "topic", "history"} /\ (head' = "history" => ref["history"] # 0)
          /\ UNCHANGED <<dirty, op, open, odd>>
      BY <2>5 DEF Checkout
    <3>2. ref["master"] # 0
      BY <1>1 DEF Typed, StoreTyped
    <3> QED BY <1>2, <2>1, <3>1, <3>2 DEF CheckoutTyped, Heads, RefNames
  <2> QED BY <2>3, <2>4, <2>5 DEF Author
<1>4. StoreTyped' /\ RunTyped' /\ FileTyped' /\ Sound'
  BY <1>1, <1>2 DEF Typed, StoreTyped, RunTyped, FileTyped, Sound
<1>5. RunInv'
  BY <1>1, <1>2 DEF RunInv, Running, Working, At
<1>6. Pends' => Pends /\ op' = op
  BY <1>1, <1>2 DEF Pends, At, NoOp, Typed, FileTyped, Files
<1>7. FileInv'
  BY <1>1, <1>2, <1>6 DEF FileInv
<1>8. Rooted'
  <2>1. \A root : RootAt(root) => RootAt(root)'
    BY <1>2, <1>6 DEF RootAt, Running
  <2> QED BY <1>1, <1>2, <2>1 DEF Rooted, Commits
<1> QED BY <1>3, <1>4, <1>5, <1>7, <1>8 DEF HistoryInv, Typed

\* The process has ended, or was killed: what git has in progress is not what the file
\* tells, unless a resumed run was killed before it noted its own conflict.
LEMMA Ended ==
  ASSUME HistoryInv, run' = Idle, UNCHANGED <<db, side, state>>, StoreTyped', CheckoutTyped',
         ref'["master"] = ref["master"], ref'["origin"] = ref["origin"],
         ref'["history"] = ref["history"], Sound',
         state # <<>> =>
            \/ op' = NoOp
            \/ /\ state.old = 0 => ref["history"] = 0
               /\ \/ op'.kind # state.op
                  \/ /\ Later(db, ref'["scratch"], op', state)
                     /\ Running /\ ref'["scratch"] = run.tip
  PROVE  HistoryInv'
<1>1. Typed /\ RunInv /\ FileInv /\ Rooted /\ Len(db) \in Nat
  BY RefFacts DEF HistoryInv
<1>2. run' \in Runs(db') /\ run'.pc = "idle" /\ run'.from = "detached"
  BY <1>1, IdleTyped
<1>3. RunTyped' /\ FileTyped'
  BY <1>1, <1>2 DEF RunTyped, FileTyped, Typed
<1>4. RunInv'
  BY <1>2 DEF RunInv, Running, Working, At
<1>5. Pends' =>
        Later(db, ref'["scratch"], op', state) /\ Running /\ ref'["scratch"] = run.tip
  BY <1>1 DEF Pends, NoOp, Typed, FileTyped, Files
<1>6. FileInv'
  <2>1. state # <<>> => Filed(db, state)
    BY <1>1 DEF FileInv
  <2>2. state # <<>> /\ state.old = 0 => ref'["history"] = 0 \/ op' = NoOp
    OBVIOUS
  <2> QED BY <1>2, <1>5, <2>1, <2>2 DEF FileInv
<1>7. Rooted'
  <2>1. ASSUME NEW root, RootAt(root) PROVE RootAt(root)'
    BY <1>2, <1>5, <2>1 DEF RootAt, Running, Working
  <2> QED BY <1>1, <2>1 DEF Rooted, Commits
<1> QED BY <1>3, <1>4, <1>6, <1>7 DEF HistoryInv, Typed

\* The run goes on elsewhere in the plan that it has.
LEMMA GoesOn ==
  ASSUME HistoryInv, UNCHANGED <<db, side, state>>, StoreTyped', CheckoutTyped', Sound',
         run' \in Runs(db), run'.tip = run.tip, run'.old = run.old, run'.todo = run.todo,
         run'.from = run.from, Running, run'.pc \in Working,
         ref'["master"] = ref["master"], ref'["origin"] = ref["origin"],
         ref'["history"] = ref["history"],
         run'.pc \in {"fold", "move"} => run.todo = {},
         run'.pc = "fold" => ref'["base"] # 0,
         run'.pc = "save" =>
            /\ run.todo # {} /\ ref'["scratch"] = run.tip /\ op'.sha = First(run.todo).sha
            /\ \/ op'.kind = "cherry-pick" /\ First(run.todo).kind = "commit"
               \/ op'.kind = "merge" /\ First(run.todo).kind = "base_fold"
  PROVE  HistoryInv'
<1>1. Typed /\ RunInv /\ FileInv /\ Rooted
  BY DEF HistoryInv
<1>2. RunTyped' /\ FileTyped'
  BY <1>1 DEF RunTyped, FileTyped, Typed
<1>3. Running' /\ ~At("idle")'
  BY DEF Running, Working, At
<1>4. RunInv'
  <2>1. Progress(db, run.tip, run.todo, run.old) /\ (run.old = 0 => ref["history"] = 0)
    BY <1>1 DEF RunInv
  <2>2. state # <<>> => Resumes(db, run', state)
    BY <1>1 DEF RunInv, Resumes
  <2> QED BY <1>3, <2>1, <2>2 DEF RunInv, At
<1>5. FileInv'
  <2>1. state # <<>> => Filed(db, state)
    BY <1>1 DEF FileInv
  <2>2. state # <<>> /\ state.old = 0 => ref["history"] = 0
    BY <1>1 DEF RunInv, Resumes
  <2> QED BY <1>3, <2>1, <2>2 DEF FileInv, Pends
<1>6. Rooted'
  <2>1. ASSUME NEW root, RootAt(root) PROVE RootAt(root)'
    BY <1>3, <2>1 DEF RootAt, Pends
  <2> QED BY <1>1, <2>1 DEF Rooted, Commits
<1> QED BY <1>2, <1>4, <1>5, <1>6 DEF HistoryInv, Typed

-----------------------------------------------------------------------------
(* Commits of the run.                                                     *)

\* A base merge of a branch's own is replayed on a line that has that base already.
LEMMA PickFits ==
  ASSUME NEW d, WellFormed(d), NEW tip, NEW todo \in SUBSET StepsIn(d), NEW old,
         Progress(d, tip, todo, old), todo # {}, NEW s, s = First(todo), s.kind = "commit",
         d[s.sha].kind = "base"
  PROVE  d[s.sha].of \in Bases(d, tip) /\ d[s.sha].of \in d[tip].anc
<1>1. Shaped(d, todo) /\ Bases(d, tip) \subseteq d[tip].anc
  BY DEF Progress
<1>2. /\ s \in todo /\ Rest(todo) = todo \ {s}
      /\ \A t \in Rest(todo) : t.for = 0 => s.for = 0
  BY <1>1, Lead
<1>3. s.for # 0
  BY <1>1, <1>2 DEF Shaped
<1>4. \A t \in todo : t.kind # "base_merge"
  BY <1>1, <1>2, <1>3 DEF Shaped
<1>5. DueBases(d, todo) = {}
  BY <1>4 DEF DueBases
<1>6. d[s.sha].of \in Replays(d, todo, "base")
  BY <1>2 DEF Replays
<1> QED BY <1>1, <1>5, <1>6 DEF Progress

\* A resumed run that has made a commit is still on what the file has planned.
LEMMA ResumesOn ==
  ASSUME NEW d, NEW e, NEW r \in Runs(d), NEW st \in Files(d), NEW second, NEW n, NEW r2,
         WellFormed(d), Filed(d, st), Resumes(d, r, st), OnTop(d, e, r.tip, second), n = NewIn(d),
         second = 0 \/ OfBase(d, second), e[n].kind \in Kinds,
         e[n].kind = "merged" => e[n].of \in Replays(d, r.todo, "merged"),
         e[n].kind = "base" => e[n].of \in d[r.tip].anc \cup Parent(d, second),
         r2.tip = n, r2.old = r.old, r2.todo \subseteq r.todo
  PROVE  Resumes(e, r2, st)
<1> DEFINE later == Rest(st.todo)
<1>1. later \in SUBSET StepsIn(d) /\ st.old \in 0..Len(d)
  BY Lead DEF Filed, Files, Progress
<1>2. r.todo \in SUBSET StepsIn(d) /\ Grown(d, e) /\ r.tip \in 1..Len(d)
  BY DEF Runs, OnTop
<1>3. /\ Replays(d, r.todo, "merged") \subseteq Past(d, r.tip, "marker") \cup Due(d, later)
      /\ Progress(d, r.tip, later, st.old) /\ r.old = st.old
  BY DEF Resumes
<1> HIDE DEF later
<1>4. Progress(e, n, later, st.old)
  BY <1>1, <1>3, Beside
<1>5. d[r.tip].anc \subseteq e[n].anc
  BY Tip
<1>6. /\ Past(d, r.tip, "marker") \subseteq Past(e, n, "marker")
  <2>1. OnLine(d, r.tip)
    BY <1>3 DEF Progress
  <2> QED BY <1>2, <2>1, Added DEF Kinds
<1>7. Due(e, later) = Due(d, later) /\ Replays(e, r.todo, "merged") = Replays(d, r.todo, "merged")
  BY <1>1, <1>2, TodoSame
<1>8. Replays(e, r2.todo, "merged") \subseteq Replays(e, r.todo, "merged")
  BY DEF Replays
<1>9. Replays(e, r2.todo, "merged") \subseteq Past(e, n, "marker") \cup Due(e, later)
  BY <1>3, <1>6, <1>7, <1>8
<1>10. st.op = "merge" => First(st.todo).sha \in e[n].anc
  BY <1>5 DEF Resumes
<1> QED BY <1>3, <1>4, <1>9, <1>10 DEF Resumes, later

\* What a commit of the run leaves to be shown.
LEMMA CommitKeeps ==
  ASSUME HistoryInv, NEW tip \in 1..Len(db), NEW second \in 0..Len(db),
         OnTop(db, db', tip, second), New = NewIn(db),
         db'[New].kind = "base" => OfBase(db, db'[New].of) /\ db'[New].of \in 1..Len(db),
         UNCHANGED <<side, dirty, state, odd>>, ref' \in RefsOf(db), DOMAIN ref' = RefNames,
         \A r \in RefNames \ {"scratch"} : ref'[r] = ref[r],
         (head' = "detached" /\ op' = NoOp /\ open' = FALSE) \/ UNCHANGED <<ref, head, op, open>>,
         run' \in Runs(db'), run'.pc \in {"step", "move"}, run'.tip = New,
         run'.from = "history" => ref["history"] # 0,
         Progress(db', New, run'.todo, run'.old), run'.old = 0 => ref["history"] = 0,
         state # <<>> => Resumes(db', run', state),
         run'.pc = "move" => run'.todo = {},
         \A root \in 1..Len(db) : RootAt(root) => root \in db[tip].anc
  PROVE  HistoryInv'
<1>1. Typed /\ RunInv /\ FileInv /\ Rooted /\ Len(db) \in Nat /\ WellFormed(db)
  BY RefFacts DEF HistoryInv
<1>2. /\ WellFormed(db') /\ Grown(db, db') /\ New \in 1..Len(db') /\ New \notin 1..Len(db)
      /\ db[tip].anc \subseteq db'[New].anc /\ 1..Len(db') = 1..Len(db) \cup {New}
  BY <1>1, Tip DEF OnTop
<1>3. RefsOf(db) \subseteq RefsOf(db') /\ SidesOf(db) \subseteq SidesOf(db')
  BY <1>1, <1>2, MoreTyped
<1>4. /\ ref'["master"] = ref["master"] /\ ref'["origin"] = ref["origin"]
      /\ ref'["base"] = ref["base"] /\ ref'["baseRemote"] = ref["baseRemote"]
      /\ ref'["history"] = ref["history"]
  BY DEF RefNames
<1>5. /\ ref \in RefsOf(db) /\ side \in SidesOf(db)
      /\ ref["master"] # 0 /\ ref["origin"] # 0 /\ ref["baseRemote"] # 0
      /\ Related(db, ref, side)
  BY <1>1 DEF Typed, StoreTyped, HistoryInv, Sound
<1>6. StoreTyped'
  BY <1>2, <1>3, <1>4, <1>5 DEF StoreTyped
<1>7. CheckoutTyped'
  <2>1. Operations(db) \subseteq Operations(db') /\ CheckoutTyped
    BY <1>1, <1>2, MoreTyped DEF Typed
  <2>2. CASE head' = "detached" /\ op' = NoOp /\ open' = FALSE
    <3>1. NoOp \in Operations(db')
      BY DEF Operations
    <3>2. head' \in Heads /\ head' \notin RefNames
      BY <2>2 DEF Heads, RefNames
    <3>3. dirty' \in BOOLEAN /\ odd' \subseteq {"lost", "cut"}
      BY <2>1 DEF CheckoutTyped
    <3> QED BY <2>2, <3>1, <3>2, <3>3 DEF CheckoutTyped
  <2>3. CASE UNCHANGED <<ref, head, op, open>>
    BY <2>1, <2>3 DEF CheckoutTyped
  <2> QED BY <2>2, <2>3
<1>8. Sound'
  <2>1. ASSUME NEW i \in 1..Len(db'), i \notin 1..Len(db), db'[i].kind = "base"
        PROVE  OfBase(db', db'[i].of)
    <3>1. i = New
      BY <1>2, <2>1
    <3>2. OfBase(db, db'[New].of) /\ db'[New].of \in 1..Len(db)
      BY <2>1, <3>1
    <3> QED BY <1>1, <1>2, <3>1, <3>2, Same
  <2>2. Related(db', ref, side)
    BY <1>1, <1>2, <1>5, <2>1, RelatedStays
  <2>3. Related(db', ref', side)
    <3>1. /\ OfMaster(db', ref["master"]) /\ OfMaster(db', ref["origin"])
          /\ OfBase(db', ref["baseRemote"]) /\ (ref["base"] # 0 => OfBase(db', ref["base"]))
      BY <2>2 DEF Related
    <3> QED BY <1>4, <2>2, <3>1, SameRefs
  <2> QED BY <2>3 DEF Sound
<1>9. RunTyped' /\ FileTyped'
  <2>1. state # <<>> => state \in Files(db')
    BY <1>1, <1>2, MoreTyped DEF Typed, FileTyped
  <2> QED BY <1>1, <1>4, <2>1 DEF RunTyped, FileTyped, Typed
<1>10. RunInv'
  BY <1>4 DEF RunInv, Running, Working, At
<1>11. ~Pends' /\ Running'
  BY DEF Pends, Running, Working, At
<1>12. FileInv'
  <2>1. state # <<>> => Filed(db', state)
    BY <1>1, <1>2, FiledStays DEF FileInv, Typed, FileTyped
  <2>2. state # <<>> /\ state.old = 0 => ref'["history"] = 0
    BY <1>4 DEF Resumes
  <2> QED BY <1>11, <2>1, <2>2 DEF FileInv
<1>13. Rooted'
  <2>1. PICK root \in 1..Len(db) : RootAt(root)
    BY <1>1 DEF Rooted, Commits
  <2>2. \A i \in 1..Len(db) : db'[i] = db[i]
    BY <1>2 DEF Grown
  <2>3. ref["master"] \in 1..Len(db) /\ ref["origin"] \in 1..Len(db)
    BY <1>1, RefFacts
  <2>4. ref["history"] # 0 => ref["history"] \in 1..Len(db)
    BY <1>1, RefFacts DEF RefNames
  <2>5. root \in db'[New].anc
    BY <1>2, <2>1
  <2>6. state # <<>> => state.tip \in 1..Len(db)
    BY <1>1 DEF FileInv, Filed, Progress
  <2>7. RootAt(root)'
    BY <1>4, <1>11, <2>1, <2>2, <2>3, <2>4, <2>5, <2>6 DEF RootAt
  <2> QED BY <1>2, <2>1, <2>7 DEF Rooted, Commits
<1> QED BY <1>6, <1>7, <1>8, <1>9, <1>10, <1>12, <1>13 DEF HistoryInv, Typed

\* What is known of a run that has a line in hand.
LEMMA RunFacts ==
  ASSUME HistoryInv, Running
  PROVE  /\ WellFormed(db) /\ Len(db) \in Nat /\ run.tip \in 1..Len(db) /\ run \in Runs(db)
         /\ run.todo \in SUBSET StepsIn(db) /\ run.old \in 0..Len(db)
         /\ Progress(db, run.tip, run.todo, run.old) /\ Shaped(db, run.todo)
         /\ run.old = 0 => ref["history"] = 0
         /\ state # <<>> => state \in Files(db) /\ Filed(db, state) /\ Resumes(db, run, state)
         /\ \A root : RootAt(root) => root \in db[run.tip].anc
<1>1. Typed /\ RunInv /\ FileInv /\ Len(db) \in Nat /\ WellFormed(db)
  BY RefFacts DEF HistoryInv
<1>2. run \in Runs(db) /\ (state # <<>> => state \in Files(db))
  BY <1>1 DEF Typed, RunTyped, FileTyped
<1>3. run.todo \in SUBSET StepsIn(db) /\ run.old \in 0..Len(db)
  BY <1>2 DEF Runs
<1>4. /\ Progress(db, run.tip, run.todo, run.old) /\ run.tip \in 1..Len(db)
      /\ Shaped(db, run.todo)
      /\ run.old = 0 => ref["history"] = 0
      /\ state # <<>> => Filed(db, state) /\ Resumes(db, run, state)
  BY <1>1 DEF RunInv, FileInv, Progress
<1>5. \A root : RootAt(root) => root \in db[run.tip].anc
  BY DEF RootAt
<1> QED BY <1>1, <1>2, <1>3, <1>4, <1>5

\* The scratch branch is gone, and what was in progress on it; or a commit was made
\* without a checkout.
Released ==
  \/ /\ ref' = [ref EXCEPT !["scratch"] = 0]
     /\ head' = "detached" /\ op' = NoOp /\ open' = FALSE
  \/ UNCHANGED <<ref, head, op, open>>

\* The refs after that.
LEMMA ReleasedRefs ==
  ASSUME Typed, Released
  PROVE  /\ ref' \in RefsOf(db) /\ DOMAIN ref' = RefNames
         /\ \A r \in RefNames \ {"scratch"} : ref'[r] = ref[r]
         /\ \/ head' = "detached" /\ op' = NoOp /\ open' = FALSE
            \/ UNCHANGED <<ref, head, op, open>>
<1>1. ref \in RefsOf(db) /\ DOMAIN ref = RefNames /\ 0 \in 0..Len(db)
  BY RefFacts DEF Typed, StoreTyped
<1> QED BY <1>1 DEF Released, RefsOf

\* A step that has made its commit: the run goes on with the rest.
LEMMA StepCommits ==
  ASSUME HistoryInv, At("step"), run.todo # {}, NEW s, s = First(run.todo),
         NEW second \in 0..Len(db), second = 0 \/ OfBase(db, second),
         OnTop(db, db', run.tip, second), New = NewIn(db), db'[New].kind \in Kinds,
         Does(db, db', New, second, s), run' = [run EXCEPT !.tip = New, !.todo = Rest(@)],
         UNCHANGED <<side, dirty, state, odd>>, Released
  PROVE  HistoryInv'
<1>1. Running /\ Typed /\ Related(db, ref, side)
  BY DEF Running, Working, At, HistoryInv, Sound
<1>2. /\ WellFormed(db) /\ Len(db) \in Nat /\ run.tip \in 1..Len(db) /\ run \in Runs(db)
      /\ run.todo \in SUBSET StepsIn(db) /\ run.old \in 0..Len(db)
      /\ Progress(db, run.tip, run.todo, run.old) /\ Shaped(db, run.todo)
      /\ run.old = 0 => ref["history"] = 0
      /\ state # <<>> => state \in Files(db) /\ Filed(db, state) /\ Resumes(db, run, state)
      /\ \A root : RootAt(root) => root \in db[run.tip].anc
  BY <1>1, RunFacts
<1>3. /\ s \in run.todo /\ Rest(run.todo) \subseteq run.todo /\ s.sha \in 1..Len(db)
  BY <1>2, Lead
<1>4. PICK e, n : e = db' /\ n = New
  OBVIOUS
<1>5. /\ OnTop(db, e, run.tip, second) /\ n = NewIn(db) /\ e[n].kind \in Kinds
      /\ Does(db, e, n, second, s)
  BY <1>4
<1>6. Progress(e, n, Rest(run.todo), run.old)
  BY <1>2, <1>5, Laid
<1>7. e[n].kind = "base" =>
        /\ e[n].of \in db[run.tip].anc \cup Parent(db, second)
        /\ OfBase(db, e[n].of) /\ e[n].of \in 1..Len(db)
  <2>1. SUFFICES ASSUME e[n].kind = "base"
                 PROVE  /\ e[n].of \in db[run.tip].anc \cup Parent(db, second)
                        /\ OfBase(db, e[n].of) /\ e[n].of \in 1..Len(db)
    OBVIOUS
  <2>2. CASE s.kind = "commit"
    <3>1. db[s.sha].kind = "base" /\ e[n].of = db[s.sha].of
      BY <1>5, <2>1, <2>2 DEF Does
    <3>2. e[n].of \in db[run.tip].anc
      BY <1>2, <2>2, <3>1, PickFits
    <3>3. OfBase(db, e[n].of) /\ e[n].of \in 1..Len(db)
      BY <1>1, <1>2, <1>3, <3>1, LineFacts DEF Related
    <3> QED BY <3>2, <3>3
  <2>3. CASE s.kind # "commit"
    <3>1. e[n].of = second /\ second \in 1..Len(db)
      BY <1>2, <1>3, <1>5, <2>1, <2>3, LineFacts DEF Does
    <3>2. second \in Parent(db, second) /\ OfBase(db, second)
      BY <1>2, <3>1, LineFacts DEF Parent
    <3> QED BY <3>1, <3>2
  <2> QED BY <2>2, <2>3
<1>8. e[n].kind = "merged" => e[n].of \in Replays(db, run.todo, "merged")
  BY <1>3, <1>5 DEF Does, Replays
<1>9. /\ run'.tip = n /\ run'.old = run.old /\ run'.todo = Rest(run.todo)
      /\ run'.from = run.from /\ run'.pc = "step" /\ run' \in Runs(e)
  <2>1. run \in Runs(e) /\ n \in 0..Len(e)
    BY <1>2, <1>5, MoreTyped, Tip DEF OnTop
  <2>2. run' = [run EXCEPT !.tip = n, !.todo = Rest(@)]
    BY <1>4
  <2>3. run.pc = "step"
    BY DEF At
  <2> QED BY <1>3, <2>1, <2>2, <2>3 DEF Runs
<1>10. state # <<>> => Resumes(e, run', state)
  <2>1. SUFFICES ASSUME state # <<>> PROVE Resumes(e, run', state)
    OBVIOUS
  <2>2. PICK r2 : r2 = run'
    OBVIOUS
  <2>3. /\ r2.tip = n /\ r2.old = run.old /\ r2.todo \subseteq run.todo
    BY <1>3, <1>9, <2>2
  <2>4. state \in Files(db) /\ Filed(db, state) /\ Resumes(db, run, state)
    BY <1>2, <2>1
  <2>5. Resumes(e, r2, state)
    BY <1>2, <1>5, <1>7, <1>8, <2>3, <2>4, ResumesOn
  <2> QED BY <2>2, <2>5
<1>11. /\ ref' \in RefsOf(db) /\ DOMAIN ref' = RefNames
       /\ \A r \in RefNames \ {"scratch"} : ref'[r] = ref[r]
       /\ \/ head' = "detached" /\ op' = NoOp /\ open' = FALSE
          \/ UNCHANGED <<ref, head, op, open>>
  BY <1>1, ReleasedRefs
<1>12. run.from = "history" => ref["history"] # 0
  BY <1>1 DEF Typed, RunTyped
<1> QED
  BY <1>2, <1>4, <1>5, <1>6, <1>7, <1>9, <1>10, <1>11, <1>12, CommitKeeps

\* A process that will not touch the author's checkout.
LEMMA RefuseKeeps ==
  ASSUME HistoryInv, FitInv, Refuse, At("step") \/ At("fold"),
         UNCHANGED <<side, dirty, state, odd>>
  PROVE  HistoryInv'
<1>1. /\ UNCHANGED <<db, ref, head, op, open>> /\ run' = Idle /\ Typed /\ Sound
  BY DEF Refuse, HistoryInv
<1>2. StoreTyped' /\ CheckoutTyped' /\ Sound'
  BY <1>1 DEF Typed, StoreTyped, CheckoutTyped, Sound
<1>3. state # <<>> => op' = NoOp
  BY <1>1 DEF FitInv, Resuming, At
<1> QED BY <1>1, <1>2, <1>3, Ended

\* The types when git stops in the middle.
LEMMA StopTyped ==
  ASSUME HistoryInv, Running, NEW what \in {"cherry-pick", "merge"}, NEW sha \in 1..Len(db),
         Stop(what, sha), UNCHANGED <<dirty, odd, side>>
  PROVE  /\ StoreTyped' /\ CheckoutTyped' /\ Sound'
         /\ ref'["scratch"] = run.tip /\ op'.kind = what /\ op'.sha = sha
         /\ ref'["master"] = ref["master"] /\ ref'["origin"] = ref["origin"]
         /\ ref'["history"] = ref["history"] /\ ref'["base"] = ref["base"]
<1>1. /\ Typed /\ Sound /\ run.tip \in 1..Len(db) /\ Len(db) \in Nat /\ DOMAIN ref = RefNames
      /\ ref \in RefsOf(db)
  BY RunFacts, RefFacts DEF HistoryInv, Typed, StoreTyped
<1>2. /\ ref' = [ref EXCEPT !["scratch"] = run.tip] /\ head' = "scratch"
      /\ op' = [kind |-> what, sha |-> sha] /\ open' = TRUE /\ db' = db
  BY DEF Stop
<1>3. /\ ref'["scratch"] = run.tip /\ run.tip # 0 /\ ref' \in RefsOf(db)
      /\ \A r \in RefNames \ {"scratch"} : ref'[r] = ref[r]
  BY <1>1, <1>2 DEF RefsOf, RefNames
<1>4. /\ ref'["master"] = ref["master"] /\ ref'["origin"] = ref["origin"]
      /\ ref'["base"] = ref["base"] /\ ref'["baseRemote"] = ref["baseRemote"]
      /\ ref'["history"] = ref["history"]
  BY <1>3 DEF RefNames
<1>5. StoreTyped'
  BY <1>1, <1>2, <1>3, <1>4 DEF Typed, StoreTyped
<1>6. op' \in Operations(db) /\ op' # NoOp /\ op'.kind = what /\ op'.sha = sha
  <2>1. op'.kind # NoOp.kind
    BY <1>2 DEF NoOp
  <2> QED BY <1>2, <2>1 DEF Operations
<1>7. CheckoutTyped'
  <2>1. dirty \in BOOLEAN /\ odd \subseteq {"lost", "cut"}
    BY <1>1 DEF Typed, CheckoutTyped
  <2>2. dirty' \in BOOLEAN /\ odd' \subseteq {"lost", "cut"}
    BY <2>1
  <2>3. open' \in BOOLEAN /\ head' \in Heads
    BY <1>2 DEF Heads
  <2> QED BY <1>2, <1>3, <1>6, <2>2, <2>3 DEF CheckoutTyped
<1>8. Sound'
  <2>1. Related(db, ref, side)
    BY <1>1 DEF Sound
  <2>2. /\ OfMaster(db, ref'["master"]) /\ OfMaster(db, ref'["origin"])
        /\ OfBase(db, ref'["baseRemote"]) /\ (ref'["base"] # 0 => OfBase(db, ref'["base"]))
    BY <1>4, <2>1 DEF Related
  <2>3. Related(db, ref', side)
    BY <1>4, <2>1, <2>2, SameRefs
  <2> QED BY <1>2, <2>3 DEF Sound
<1> QED BY <1>3, <1>4, <1>5, <1>6, <1>7, <1>8

\* A commit picked anew is the first of the steps, or git stops at it.
LEMMA ReplayCommitKeeps == ASSUME HistoryInv, FitInv, ReplayCommit PROVE HistoryInv'
<1>1. PICK s : s = First(run.todo) /\ s.kind = "commit"
  BY DEF ReplayCommit, Stepping
<1>2. /\ At("step") /\ run.todo # {} /\ UNCHANGED <<side, dirty, state, odd>> /\ Running
  BY DEF ReplayCommit, Stepping, Running, Working, At
<1>3. /\ WellFormed(db) /\ Len(db) \in Nat /\ run.tip \in 1..Len(db) /\ s.sha \in 1..Len(db)
      /\ run \in Runs(db)
  <2>1. /\ WellFormed(db) /\ Len(db) \in Nat /\ run.tip \in 1..Len(db) /\ run \in Runs(db)
        /\ run.todo \in SUBSET StepsIn(db) /\ Shaped(db, run.todo)
    BY <1>2, RunFacts
  <2> QED BY <1>1, <1>2, <2>1, Lead
<1>4. CASE Refuse
  BY <1>2, <1>4, RefuseKeeps
<1>5. CASE /\ Made(Commit(run.tip, 0, db[s.sha].kind, db[s.sha].of, db[s.sha].branch))
           /\ Advance(New)
  <2> DEFINE kind == db[s.sha].kind
             of == db[s.sha].of
             branch == db[s.sha].branch
  <2>1. /\ kind \in Kinds /\ branch \in Branches \cup {NoBranch} /\ of \in 1..Len(db)
        /\ kind = "merged" => branch \in Branches
    BY <1>3, RecordsTyped, LineFacts
  <2>2. PICK e : e = db' /\ e = Append(db, Commit(run.tip, 0, kind, of, branch))
    BY <1>5 DEF Made
  <2> HIDE DEF kind, of, branch
  <2>3. of \in 0..Len(db) /\ of # 0 /\ 0 \in 0..Len(db)
    BY <1>3, <2>1
  <2>4. New = NewIn(db) /\ CommitOn(db, e, run.tip, 0, kind, of, branch)
    BY <1>3, <2>1, <2>2, <2>3, CommitMade, Zenon
  <2>5. OnTop(db, e, run.tip, 0) /\ e[New].kind = kind /\ e[New].of = of
    BY <2>3, <2>4 DEF CommitOn
  <2>6. Does(db, e, New, 0, s)
    BY <1>1, <2>5 DEF Does, kind, of
  <2>7. Released /\ run' = [run EXCEPT !.tip = New, !.todo = Rest(@)]
    BY <1>5 DEF Made, Advance, Released
  <2> QED BY <1>1, <1>2, <2>1, <2>2, <2>3, <2>4, <2>5, <2>6, <2>7, StepCommits
<1>6. CASE Stop("cherry-pick", s.sha) /\ run' = [run EXCEPT !.pc = "save"]
  <2>1. PICK sha \in 1..Len(db) : sha = s.sha
    BY <1>3
  <2>2. /\ StoreTyped' /\ CheckoutTyped' /\ Sound'
        /\ ref'["scratch"] = run.tip /\ op'.kind = "cherry-pick" /\ op'.sha = sha
        /\ ref'["master"] = ref["master"] /\ ref'["origin"] = ref["origin"]
        /\ ref'["history"] = ref["history"] /\ ref'["base"] = ref["base"]
    BY <1>2, <1>6, <2>1, StopTyped
  <2>3. /\ run' \in Runs(db) /\ run'.pc = "save" /\ run'.tip = run.tip /\ run'.old = run.old
        /\ run'.todo = run.todo /\ run'.from = run.from
    BY <1>3, <1>6 DEF Runs, Places
  <2>4. "save" \in Working /\ db' = db
    BY <1>6 DEF Working, Stop
  <2> QED BY <1>1, <1>2, <2>1, <2>2, <2>3, <2>4, GoesOn
<1> QED BY <1>1, <1>4, <1>5, <1>6 DEF ReplayCommit

\* A marker made is one that was due.
LEMMA CreateMergeMarkerKeeps == ASSUME HistoryInv, CreateMergeMarker PROVE HistoryInv'
<1>1. PICK s : s = First(run.todo) /\ s.kind = "marker"
  BY DEF CreateMergeMarker, Stepping
<1>2. /\ At("step") /\ run.todo # {} /\ UNCHANGED <<side, dirty, state, odd>> /\ Running
      /\ UNCHANGED <<ref, head, op, open>> /\ Advance(New)
  BY DEF CreateMergeMarker, Stepping, Running, Working, At
<1>3. /\ WellFormed(db) /\ Len(db) \in Nat /\ run.tip \in 1..Len(db) /\ s.sha \in 1..Len(db)
      /\ s.branch \in Branches \cup {NoBranch}
  <2>1. /\ WellFormed(db) /\ Len(db) \in Nat /\ run.tip \in 1..Len(db)
        /\ run.todo \in SUBSET StepsIn(db) /\ Shaped(db, run.todo)
    BY <1>2, RunFacts
  <2>2. s \in run.todo /\ s.sha \in 1..Len(db)
    BY <1>1, <1>2, <2>1, Lead
  <2> QED BY <2>1, <2>2 DEF StepsIn
<1>4. PICK e : e = db' /\ e = Append(db, Commit(run.tip, 0, "marker", s.sha, s.branch))
  BY <1>1 DEF CreateMergeMarker
<1>5. PICK kind \in Kinds, of \in 0..Len(db), branch \in Branches \cup {NoBranch} :
        /\ kind = "marker" /\ of = s.sha /\ branch = s.branch /\ of # 0
        /\ kind = "merged" => branch \in Branches
  <2>1. PICK of \in 0..Len(db) : of = s.sha /\ of # 0
    BY <1>3
  <2>2. PICK kind \in Kinds : kind = "marker" /\ kind # "merged"
    BY DEF Kinds
  <2> QED BY <1>3, <2>1, <2>2
<1>6. 0 \in 0..Len(db) /\ e = Append(db, Commit(run.tip, 0, kind, of, branch))
  BY <1>3, <1>4, <1>5
<1>7. New = NewIn(db) /\ CommitOn(db, e, run.tip, 0, kind, of, branch)
  BY <1>3, <1>5, <1>6, CommitMade, Zenon
<1>8. OnTop(db, e, run.tip, 0) /\ e[New].kind = kind /\ e[New].of = of
  BY <1>5, <1>7 DEF CommitOn
<1>9. Does(db, e, New, 0, s)
  BY <1>1, <1>5, <1>8 DEF Does
<1>10. Released /\ run' = [run EXCEPT !.tip = New, !.todo = Rest(@)]
  BY <1>2 DEF Advance, Released
<1> QED BY <1>1, <1>2, <1>4, <1>5, <1>6, <1>7, <1>8, <1>9, <1>10, StepCommits

\* A base commit merged again is one that was due; or the run gives up.
LEMMA RecreateBaseMergeKeeps ==
  ASSUME HistoryInv, FitInv, RecreateBaseMerge PROVE HistoryInv'
<1>1. PICK s : s = First(run.todo) /\ s.kind = "base_merge"
  BY DEF RecreateBaseMerge, Stepping
<1>2. /\ At("step") /\ run.todo # {} /\ UNCHANGED <<side, dirty, state, odd>> /\ Running
  BY DEF RecreateBaseMerge, Stepping, Running, Working, At
<1>3. /\ WellFormed(db) /\ Len(db) \in Nat /\ run.tip \in 1..Len(db) /\ s.sha \in 1..Len(db)
      /\ run \in Runs(db) /\ db[s.sha].kind = "base"
      /\ state # <<>> => Resumes(db, run, state)
      /\ run.old = 0 => ref["history"] = 0
  <2>1. /\ WellFormed(db) /\ Len(db) \in Nat /\ run.tip \in 1..Len(db) /\ run \in Runs(db)
        /\ run.todo \in SUBSET StepsIn(db) /\ Shaped(db, run.todo)
        /\ state # <<>> => Resumes(db, run, state)
        /\ run.old = 0 => ref["history"] = 0
    BY <1>2, RunFacts
  <2>2. s \in run.todo /\ s.sha \in 1..Len(db)
    BY <1>1, <1>2, <2>1, Lead
  <2> QED BY <1>1, <2>1, <2>2 DEF Shaped
<1>a. PICK of : of = db[s.sha].of
  OBVIOUS
<1>b. of \in 1..Len(db) /\ OfBase(db, of) /\ of \in 0..Len(db) /\ of # 0
  <2>1. Related(db, ref, side)
    BY DEF HistoryInv, Sound
  <2>2. OfBase(db, of) /\ of \in 1..Len(db)
    BY <1>3, <1>a, <2>1, LineFacts DEF Related
  <2> QED BY <1>3, <2>2
<1>4. CASE Refuse
  BY <1>2, <1>4, RefuseKeeps
<1>5. CASE /\ Made(Commit(run.tip, of, "base", of, NoBranch))
           /\ Advance(New)
  <2>1. PICK kind \in Kinds, branch \in Branches \cup {NoBranch} :
          kind = "base" /\ branch = NoBranch /\ (kind = "merged" => branch \in Branches)
    BY DEF Kinds
  <2>2. PICK e : e = db' /\ e = Append(db, Commit(run.tip, of, kind, of, branch))
    BY <1>5, <2>1 DEF Made
  <2>4. New = NewIn(db) /\ CommitOn(db, e, run.tip, of, kind, of, branch)
    BY <1>3, <1>b, <2>1, <2>2, CommitMade, Zenon
  <2>5. OnTop(db, e, run.tip, of) /\ e[New].kind = kind /\ e[New].of = of
    BY <1>b, <2>4 DEF CommitOn
  <2>6. Does(db, e, New, of, s)
    BY <1>1, <1>a, <2>1, <2>5 DEF Does
  <2>7. Released /\ run' = [run EXCEPT !.tip = New, !.todo = Rest(@)]
    BY <1>5 DEF Made, Advance, Released
  <2> QED BY <1>1, <1>2, <1>b, <2>1, <2>2, <2>4, <2>5, <2>6, <2>7, StepCommits
<1>6. CASE Stop("merge", of) /\ run' = Idle
  <2>2. /\ StoreTyped' /\ CheckoutTyped' /\ Sound'
        /\ op'.kind = "merge"
        /\ ref'["master"] = ref["master"] /\ ref'["origin"] = ref["origin"]
        /\ ref'["history"] = ref["history"]
    BY <1>2, <1>6, <1>b, StopTyped
  <2>3. state # <<>> => state.op # "merge"
    BY <1>2 DEF FitInv, Resuming, At
  <2>4. state # <<>> => op'.kind # state.op /\ (state.old = 0 => ref["history"] = 0)
    BY <1>3, <2>2, <2>3 DEF Resumes
  <2>5. db' = db
    BY <1>6 DEF Stop
  <2> QED BY <1>2, <1>6, <2>2, <2>4, <2>5, Ended
<1> QED BY <1>1, <1>a, <1>4, <1>5, <1>6 DEF RecreateBaseMerge

\* With no steps left the line is whole.
LEMMA StepsDoneKeeps == ASSUME HistoryInv, FitInv, StepsDone PROVE HistoryInv'
<1>1. /\ At("step") /\ run.todo = {} /\ UNCHANGED <<db, ref, side, head, dirty, op, open, state, odd>>
      /\ Running /\ Typed /\ Sound
  BY DEF StepsDone, Running, Working, At, HistoryInv
<1>2. PICK pc \in {"move", "fold"} :
         run' = [run EXCEPT !.pc = pc] /\ (pc = "fold" => ref["base"] # 0)
  BY DEF StepsDone
<1>3. run \in Runs(db)
  BY <1>1, RunFacts
<1>4. /\ run' \in Runs(db) /\ run'.pc = pc /\ run'.tip = run.tip /\ run'.old = run.old
      /\ run'.todo = run.todo /\ run'.from = run.from /\ pc \in Working /\ pc # "save"
  BY <1>2, <1>3 DEF Runs, Places, Working
<1>5. StoreTyped' /\ CheckoutTyped' /\ Sound'
  BY <1>1 DEF Typed, StoreTyped, CheckoutTyped, Sound
<1> QED BY <1>1, <1>2, <1>4, <1>5, GoesOn

\* A merge of base, made where the steps end.
LEMMA FoldCommits ==
  ASSUME HistoryInv, At("fold"), NEW base \in 1..Len(db), base = ref["base"],
         Made(Commit(run.tip, base, "base", base, NoBranch)),
         run' = [run EXCEPT !.tip = New, !.pc = "move"], UNCHANGED <<side, dirty, state, odd>>
  PROVE  HistoryInv'
<1>1. Running /\ Typed /\ Related(db, ref, side) /\ RunInv
  BY DEF Running, Working, At, HistoryInv, Sound
<1>2. /\ WellFormed(db) /\ Len(db) \in Nat /\ run.tip \in 1..Len(db) /\ run \in Runs(db)
      /\ run.old \in 0..Len(db)
      /\ Progress(db, run.tip, run.todo, run.old)
      /\ run.todo \in SUBSET StepsIn(db)
      /\ run.old = 0 => ref["history"] = 0
      /\ state # <<>> => state \in Files(db) /\ Filed(db, state) /\ Resumes(db, run, state)
      /\ \A root : RootAt(root) => root \in db[run.tip].anc
  BY <1>1, RunFacts
<1>3. run.todo = {}
  BY <1>1 DEF RunInv
<1>4. OfBase(db, base) /\ base \in 0..Len(db) /\ base # 0
  BY <1>1, <1>2 DEF Related
<1>5. PICK kind \in Kinds, branch \in Branches \cup {NoBranch} :
        kind = "base" /\ branch = NoBranch /\ (kind = "merged" => branch \in Branches)
  BY DEF Kinds
<1>6. PICK e : e = db' /\ e = Append(db, Commit(run.tip, base, kind, base, branch))
  BY <1>5 DEF Made
<1>7. New = NewIn(db) /\ CommitOn(db, e, run.tip, base, kind, base, branch)
  BY <1>2, <1>4, <1>5, <1>6, CommitMade, Zenon
<1>n. PICK n : n = New
  OBVIOUS
<1>8. /\ OnTop(db, e, run.tip, base) /\ e[n].kind = "base" /\ e[n].of = base /\ n = NewIn(db)
      /\ e[n].kind \in Kinds /\ e[n].kind # "merged"
  BY <1>4, <1>5, <1>7, <1>n DEF CommitOn
<1>9. base \in Parent(db, base)
  BY <1>2, <1>4, LineFacts DEF Parent
<1>10. Progress(e, n, run.todo, run.old)
  BY <1>2, <1>4, <1>8, <1>9, Beside
<1>11. /\ run'.tip = n /\ run'.old = run.old /\ run'.todo = run.todo
       /\ run'.from = run.from /\ run'.pc = "move" /\ run' \in Runs(e)
  <2>1. run \in Runs(e) /\ n \in 0..Len(e)
    BY <1>2, <1>8, MoreTyped, Tip DEF OnTop
  <2>2. run' = [run EXCEPT !.tip = n, !.pc = "move"]
    BY <1>n
  <2> QED BY <2>1, <2>2 DEF Runs, Places
<1>12. state # <<>> => Resumes(e, run', state)
  <2>1. SUFFICES ASSUME state # <<>> PROVE Resumes(e, run', state)
    OBVIOUS
  <2>2. PICK r2 : r2 = run'
    OBVIOUS
  <2>3. r2.tip = n /\ r2.old = run.old /\ r2.todo \subseteq run.todo
    BY <1>11, <2>2
  <2>4. state \in Files(db) /\ Filed(db, state) /\ Resumes(db, run, state)
    BY <1>2, <2>1
  <2>5. Resumes(e, r2, state)
    BY <1>2, <1>4, <1>8, <1>9, <2>3, <2>4, ResumesOn
  <2> QED BY <2>2, <2>5
<1>13. /\ ref' \in RefsOf(db) /\ DOMAIN ref' = RefNames
       /\ \A r \in RefNames \ {"scratch"} : ref'[r] = ref[r]
       /\ \/ head' = "detached" /\ op' = NoOp /\ open' = FALSE
          \/ UNCHANGED <<ref, head, op, open>>
  BY <1>1, ReleasedRefs DEF Made, Released
<1>14. run.from = "history" => ref["history"] # 0
  BY <1>1 DEF Typed, RunTyped
<1> QED
  BY <1>2, <1>3, <1>4, <1>6, <1>n, <1>8, <1>10, <1>11, <1>12, <1>13, <1>14, CommitKeeps

\* Where that is a conflict, it is the one step there is.
LEMMA FoldStops ==
  ASSUME HistoryInv, At("fold"), NEW base \in 1..Len(db), base = ref["base"], Stop("merge", base),
         run' = [run EXCEPT !.pc = "save", !.todo = {Step("base_fold", base, NoBranch, 0)}],
         UNCHANGED <<side, dirty, state, odd>>
  PROVE  HistoryInv'
<1>1. Running /\ Typed /\ Related(db, ref, side) /\ RunInv /\ FileInv /\ Rooted /\ db' = db
  BY DEF Running, Working, At, HistoryInv, Sound, Stop
<1>2. /\ WellFormed(db) /\ Len(db) \in Nat /\ run.tip \in 1..Len(db) /\ run \in Runs(db)
      /\ run.old \in 0..Len(db)
      /\ Progress(db, run.tip, run.todo, run.old)
      /\ run.old = 0 => ref["history"] = 0
      /\ state # <<>> => state \in Files(db) /\ Filed(db, state) /\ Resumes(db, run, state)
      /\ \A root : RootAt(root) => root \in db[run.tip].anc
  BY <1>1, RunFacts
<1>3. run.todo = {} /\ OfBase(db, base)
  BY <1>1, <1>2 DEF RunInv, Related
<1>4. PICK s : s = Step("base_fold", base, NoBranch, 0)
  OBVIOUS
<1>5. s.kind = "base_fold" /\ s.sha = base /\ s.for = 0 /\ {s} \in SUBSET StepsIn(db)
  BY <1>2, <1>4 DEF Step, StepsIn
<1>6. First({s}) = s
  BY OneStep
<1>7. Progress(db, run.tip, {s}, run.old)
  <2>1. Shaped(db, {s})
    BY <1>3, <1>5 DEF Shaped, Ordered
  <2>2. \A kind : Replays(db, {s}, kind) = {}
    BY <1>5 DEF Replays
  <2>3. Due(db, {}) = {} /\ Left({s}) = {} /\ Left({}) = {}
    BY <1>5 DEF Due, Replays, Left
  <2>4. Past(db, run.tip, "merged") \subseteq Past(db, run.tip, "marker")
    BY <1>2, <1>3, <2>3 DEF Progress
  <2> QED BY <1>2, <1>3, <2>1, <2>2, <2>3, <2>4 DEF Progress
<1>8. /\ StoreTyped' /\ CheckoutTyped' /\ Sound'
      /\ ref'["scratch"] = run.tip /\ op'.kind = "merge" /\ op'.sha = base
      /\ ref'["master"] = ref["master"] /\ ref'["origin"] = ref["origin"]
      /\ ref'["history"] = ref["history"] /\ ref'["base"] = ref["base"]
  BY <1>1, StopTyped
<1>9. /\ run' \in Runs(db) /\ run'.pc = "save" /\ run'.tip = run.tip /\ run'.old = run.old
      /\ run'.todo = {s} /\ run'.from = run.from
  <2>1. run' = [run EXCEPT !.pc = "save", !.todo = {s}]
    BY <1>4
  <2> QED BY <1>2, <1>5, <2>1 DEF Runs, Places
<1>10. RunTyped' /\ FileTyped'
  BY <1>1, <1>8, <1>9 DEF RunTyped, FileTyped, Typed
<1>11. Running' /\ ~At("idle")'
  BY <1>9 DEF Running, Working, At
<1>12. RunInv'
  <2>1. state # <<>> => Resumes(db, run', state)
    <3>1. Replays(db, {s}, "merged") = {}
      BY <1>5 DEF Replays
    <3> QED BY <1>2, <1>9, <3>1 DEF Resumes
  <2> QED BY <1>1, <1>2, <1>5, <1>6, <1>7, <1>8, <1>9, <2>1 DEF RunInv, At
<1>13. FileInv'
  <2>2. state # <<>> /\ state.old = 0 => ref["history"] = 0
    BY <1>2 DEF Resumes
  <2> QED BY <1>1, <1>2, <1>8, <1>11, <2>2 DEF FileInv, Pends
<1>14. Rooted'
  <2>1. ASSUME NEW root, RootAt(root) PROVE RootAt(root)'
    BY <1>1, <1>2, <1>8, <1>9, <1>11, <2>1 DEF RootAt, Pends
  <2> QED BY <1>1, <2>1 DEF Rooted, Commits
<1> QED BY <1>8, <1>10, <1>12, <1>13, <1>14 DEF HistoryInv, Typed

\* Base folded in, or a conflict, or a dirty tree.
LEMMA FoldBaseKeeps == ASSUME HistoryInv, FitInv, FoldBase PROVE HistoryInv'
<1>1. At("fold") /\ UNCHANGED <<side, dirty, state, odd>>
  BY DEF FoldBase
<1>2. PICK base \in 1..Len(db) : base = ref["base"]
  BY <1>1, RefFacts DEF HistoryInv, RunInv, RefNames
<1>3. CASE Refuse
  BY <1>1, <1>3, RefuseKeeps
<1>4. CASE /\ Made(Commit(run.tip, base, "base", base, NoBranch))
           /\ run' = [run EXCEPT !.tip = New, !.pc = "move"]
  BY <1>1, <1>2, <1>4, FoldCommits
<1>5. CASE /\ Stop("merge", base)
           /\ run' = [run EXCEPT !.pc = "save", !.todo = {Step("base_fold", base, NoBranch, 0)}]
  BY <1>1, <1>2, <1>5, FoldStops
<1> QED BY <1>2, <1>3, <1>4, <1>5 DEF FoldBase

\* The file says what the run was at.
LEMMA SaveStateKeeps == ASSUME HistoryInv, SaveState PROVE HistoryInv'
<1>1. /\ At("save") /\ run' = Idle /\ UNCHANGED <<db, ref, side, head, dirty, op, open, odd>>
      /\ Running /\ Typed /\ Sound /\ RunInv /\ Rooted
  BY DEF SaveState, Running, Working, At, HistoryInv
<1>2. /\ run \in Runs(db) /\ Len(db) \in Nat /\ run.tip \in 1..Len(db)
      /\ Progress(db, run.tip, run.todo, run.old)
      /\ run.old = 0 => ref["history"] = 0
      /\ \A root : RootAt(root) => root \in db[run.tip].anc
  BY <1>1, RunFacts
<1>3. PICK kind : kind = op.kind
  OBVIOUS
<1>4. state' = [tip |-> run.tip, todo |-> run.todo, old |-> run.old, from |-> run.from,
                op |-> kind]
  BY <1>3 DEF SaveState
<1>5. /\ run.todo # {} /\ ref["scratch"] = run.tip /\ op.sha = First(run.todo).sha
      /\ \/ kind = "cherry-pick" /\ First(run.todo).kind = "commit"
         \/ kind = "merge" /\ First(run.todo).kind = "base_fold"
  BY <1>1, <1>3 DEF RunInv
<1>6. /\ state'.tip = run.tip /\ state'.todo = run.todo /\ state'.old = run.old
      /\ state'.from = run.from /\ state'.op = kind /\ state' \in Files(db)
  BY <1>2, <1>4, <1>5 DEF Runs, Files
<1>7. run' \in Runs(db) /\ run'.pc = "idle" /\ run'.from = "detached"
  BY <1>1, <1>2, IdleTyped
<1>8. StoreTyped' /\ CheckoutTyped' /\ Sound' /\ RunTyped' /\ FileTyped'
  BY <1>1, <1>6, <1>7 DEF Typed, StoreTyped, CheckoutTyped, Sound, RunTyped, FileTyped
<1>9. RunInv'
  BY <1>7 DEF RunInv, Running, Working, At
<1>10. Filed(db, state')
  BY <1>2, <1>5, <1>6 DEF Filed
<1>11. FileInv'
  BY <1>1, <1>2, <1>5, <1>6, <1>10 DEF FileInv
<1>12. Rooted'
  <2>1. ASSUME NEW root, RootAt(root) PROVE RootAt(root)'
    BY <1>1, <1>2, <1>5, <1>6, <1>7, <2>1 DEF RootAt, Running, Working
  <2> QED BY <1>1, <2>1 DEF Rooted, Commits
<1> QED BY <1>8, <1>9, <1>11, <1>12 DEF HistoryInv, Typed

-----------------------------------------------------------------------------
(* The ref moves, and what comes after.                                    *)

\* What of an old line is kept by a new one.
LEMMA Embedded ==
  ASSUME NEW d, WellFormed(d), NEW old, NEW tip \in 1..Len(d), Embeds(d, old, tip, {}),
         OnLine(d, old)
  PROVE  /\ Past(d, old, "marker") \subseteq Past(d, tip, "marker")
         /\ Bases(d, old) \subseteq Bases(d, tip)
<1>1. PICK place \in [Own(d, old) \ {} -> Own(d, tip)] :
         \A i, j \in Own(d, old) \ {} :
            /\ StandsFor(d, place[i]) = StandsFor(d, i)
            /\ i < j => place[i] < place[j]
  BY DEF Embeds
<1>2. ASSUME NEW i \in Own(d, old)
      PROVE  \E j \in d[tip].line : d[j].kind = d[i].kind /\ d[j].of = d[i].of
  <2>1. place[i] \in Own(d, tip) /\ StandsFor(d, place[i]) = StandsFor(d, i)
    BY <1>1
  <2>2. /\ place[i] \in d[tip].line /\ d[place[i]].kind = d[i].kind
        /\ d[place[i]].of = d[i].of
    BY <2>1 DEF Own, StandsFor
  <2> QED BY <2>2
<1>3. Bases(d, old) \subseteq Bases(d, tip)
  <2>1. \A i \in d[old].line : d[i].kind = "base" => i \in Own(d, old)
    BY DEF Own
  <2> QED BY <1>2, <2>1 DEF Bases
<1>4. Past(d, old, "marker") \subseteq Past(d, tip, "marker")
  <2>1. \A i \in d[old].anc : d[i].kind = "marker" => i \in Own(d, old)
    BY DEF Own, OnLine
  <2>2. d[tip].line \subseteq d[tip].anc
    BY LineFacts
  <2> QED BY <1>2, <2>1, <2>2 DEF Past
<1> QED BY <1>3, <1>4

\* The ref moves to a line that has its markers and its bases, and all of the old one.
LEMMA MoveHistoryKeeps == ASSUME HistoryInv, FitInv, MoveHistory PROVE HistoryInv'
<1>1. /\ At("move") /\ UNCHANGED <<db, side, head, dirty, op, open, state, odd>>
      /\ Running /\ Typed /\ Related(db, ref, side) /\ RunInv /\ FileInv /\ Rooted /\ Sound
      /\ DOMAIN ref = RefNames
  BY RefFacts DEF MoveHistory, Running, Working, At, HistoryInv, Sound
<1>2. /\ WellFormed(db) /\ Len(db) \in Nat /\ run.tip \in 1..Len(db) /\ run \in Runs(db)
      /\ run.old \in 0..Len(db)
      /\ Progress(db, run.tip, run.todo, run.old)
      /\ run.old = 0 => ref["history"] = 0
      /\ \A root : RootAt(root) => root \in db[run.tip].anc
  BY <1>1, RunFacts
<1>3. run.todo = {}
  BY <1>1 DEF RunInv
<1>4. state # <<>> => op = NoOp
  BY <1>1 DEF FitInv, Resuming, At
<1>5. CASE run' = Idle /\ UNCHANGED ref
  <2>1. StoreTyped' /\ CheckoutTyped' /\ Sound'
    BY <1>1, <1>5 DEF Typed, StoreTyped, CheckoutTyped, Sound
  <2> QED BY <1>1, <1>4, <1>5, <2>1, Ended
<1>6. CASE /\ ref["history"] = run.old
           /\ ref' = [ref EXCEPT !["history"] = run.tip]
           /\ run' = [run EXCEPT !.pc = "restore"]
  <2>1. /\ ref' \in RefsOf(db) /\ ref'["history"] = run.tip /\ run.tip # 0
        /\ \A r \in RefNames \ {"history"} : ref'[r] = ref[r]
    BY <1>1, <1>2, <1>6 DEF RefsOf, Typed, StoreTyped, RefNames
  <2>2. /\ ref'["master"] = ref["master"] /\ ref'["origin"] = ref["origin"]
        /\ ref'["base"] = ref["base"] /\ ref'["baseRemote"] = ref["baseRemote"]
        /\ ref'["scratch"] = ref["scratch"]
    BY <2>1 DEF RefNames
  <2>3. StoreTyped'
    BY <1>1, <2>1, <2>2 DEF Typed, StoreTyped
  <2>4. CheckoutTyped'
    <3>1. CheckoutTyped
      BY <1>1 DEF Typed
    <3>2. head \in RefNames => ref'[head] # 0
      BY <2>1, <3>1 DEF CheckoutTyped
    <3> QED BY <1>1, <2>2, <3>1, <3>2 DEF CheckoutTyped
  <2>5. /\ run' \in Runs(db) /\ run'.pc = "restore" /\ run'.from = run.from
    BY <1>2, <1>6 DEF Runs, Places
  <2>6. RunTyped' /\ FileTyped'
    BY <1>1, <2>1, <2>5 DEF RunTyped, FileTyped, Typed
  <2>7. RunInv'
    BY <2>5 DEF RunInv, Running, Working, At
  <2>8. FileInv'
    BY <1>1, <1>4, <2>5 DEF FileInv, Pends, At
  <2>9. /\ Whole(db, run.tip)
        /\ Past(db, run.tip, "merged") \subseteq Past(db, run.tip, "marker")
    <3>1. Due(db, {}) = {}
      BY DEF Due, Replays
    <3> QED BY <1>2, <1>3, <3>1 DEF Progress, Whole
  <2>10. ref["history"] # 0 =>
           /\ Past(db, ref["history"], "marker") \subseteq Past(db, run.tip, "marker")
           /\ Bases(db, ref["history"]) \subseteq Bases(db, run.tip)
    <3>1. SUFFICES ASSUME ref["history"] # 0
                   PROVE  /\ Past(db, ref["history"], "marker") \subseteq Past(db, run.tip, "marker")
                          /\ Bases(db, ref["history"]) \subseteq Bases(db, run.tip)
      OBVIOUS
    <3>2. Left({}) = {}
      BY DEF Left
    <3>3. Embeds(db, ref["history"], run.tip, {}) /\ OnLine(db, ref["history"])
      BY <1>1, <1>2, <1>3, <1>6, <3>1, <3>2 DEF Progress, Related, Whole
    <3> QED BY <1>2, <3>3, Embedded
  <2>11. Related(db, ref', side)
    <3>1. ASSUME NEW b \in Branches, side[b].tip # 0
          PROVE  /\ Past(db, side[b].tip, "merged") \subseteq Past(db, run.tip, "marker")
                 /\ Past(db, side[b].tip, "base") \subseteq Bases(db, run.tip)
      BY <1>1, <2>10, <3>1 DEF Related
    <3> QED BY <1>1, <2>1, <2>2, <2>9, <3>1 DEF Related
  <2>12. Rooted'
    <3>1. ASSUME NEW root, RootAt(root) PROVE RootAt(root)'
      BY <1>1, <1>2, <2>1, <2>2, <2>5, <3>1 DEF RootAt, Running, Working, Pends, At
    <3> QED BY <1>1, <3>1 DEF Rooted, Commits
  <2> QED BY <1>1, <2>3, <2>4, <2>6, <2>7, <2>8, <2>11, <2>12 DEF HistoryInv, Typed, Sound
<1> QED BY <1>2, <1>5, <1>6 DEF MoveHistory

\* After that nothing is said of the run but where it is.
LEMMA Closes ==
  ASSUME HistoryInv, run' \in Runs(db), run'.pc \in {"idle", "restore", "clear"},
         run'.from = "history" => ref["history"] # 0, UNCHANGED <<db, ref, side>>,
         CheckoutTyped', state' = <<>> \/ (state' = state /\ op' = NoOp)
  PROVE  HistoryInv'
<1>1. Typed /\ Sound /\ FileInv /\ Rooted
  BY DEF HistoryInv
<1>2. StoreTyped' /\ Sound' /\ RunTyped' /\ FileTyped'
  BY <1>1 DEF Typed, StoreTyped, Sound, RunTyped, FileTyped
<1>3. RunInv' /\ ~Running'
  BY DEF RunInv, Running, Working, At
<1>4. ~Pends'
  BY <1>1 DEF Pends, NoOp, Typed, FileTyped, Files
<1>5. FileInv'
  BY <1>1, <1>4 DEF FileInv
<1>6. Rooted'
  <2>1. ASSUME NEW root, RootAt(root) PROVE RootAt(root)'
    BY <1>3, <1>4, <2>1 DEF RootAt
  <2> QED BY <1>1, <2>1 DEF Rooted, Commits
<1> QED BY <1>2, <1>3, <1>5, <1>6 DEF HistoryInv, Typed

\* What is checked out again exists.
LEMMA RestoreCheckoutKeeps == ASSUME HistoryInv, FitInv, RestoreCheckout PROVE HistoryInv'
<1>1. /\ At("restore") /\ UNCHANGED <<db, ref, side, dirty, op, open, state, odd>>
      /\ head' = Restored(run.from, head) /\ Typed
  BY DEF RestoreCheckout, HistoryInv
<1>2. run \in Runs(db) /\ (run.from = "history" => ref["history"] # 0) /\ Len(db) \in Nat
  BY <1>1, RefFacts DEF Typed, RunTyped
<1>3. state = <<>> \/ op = NoOp
  BY <1>1 DEF FitInv, Resuming, At
<1>4. CheckoutTyped'
  <2>1. CheckoutTyped /\ run.from \in Heads
    BY <1>1, <1>2 DEF Typed, Runs
  <2>2. head' = head \/ (head' = run.from /\ (run.from \in RefNames => ref[run.from] # 0))
    BY <1>1 DEF Restored
  <2> QED BY <1>1, <2>1, <2>2 DEF CheckoutTyped
<1>5. /\ run' \in Runs(db) /\ run'.pc \in {"idle", "restore", "clear"}
      /\ run'.from = "history" => ref["history"] # 0
  <2>1. CASE run' = Idle
    BY <1>2, <2>1, IdleTyped
  <2>2. CASE run' = [run EXCEPT !.pc = "clear"]
    BY <1>2, <2>2 DEF Runs, Places
  <2> QED BY <2>1, <2>2 DEF RestoreCheckout
<1> QED BY <1>1, <1>3, <1>4, <1>5, Closes

\* A finished run removes its file.
LEMMA ClearStateKeeps == ASSUME HistoryInv, ClearState PROVE HistoryInv'
<1>1. /\ UNCHANGED <<db, ref, side, head, dirty, op, open, odd>> /\ state' = <<>>
      /\ run' = Idle /\ Typed /\ Len(db) \in Nat
  BY RefFacts DEF ClearState, HistoryInv
<1>2. run' \in Runs(db) /\ run'.pc = "idle" /\ run'.from = "detached"
  BY <1>1, IdleTyped
<1>3. CheckoutTyped'
  BY <1>1 DEF Typed, CheckoutTyped
<1> QED BY <1>1, <1>2, <1>3, Closes

\* --abort leaves no operation, no scratch branch and no file.
LEMMA AbortKeeps == ASSUME HistoryInv, Abort PROVE HistoryInv'
<1>1. /\ At("idle") /\ state # <<>> /\ op' = NoOp /\ open' = FALSE
      /\ ref' = [ref EXCEPT !["scratch"] = 0]
      /\ head' = IF state.from \in {"detached", "scratch"} THEN "detached" ELSE state.from
      /\ odd' \in {odd, odd \cup {"lost"}} /\ dirty' = FALSE /\ state' = <<>>
      /\ UNCHANGED <<db, side, run>>
  BY DEF Abort
<1>2. /\ Typed /\ Related(db, ref, side) /\ Rooted /\ DOMAIN ref = RefNames /\ Len(db) \in Nat
      /\ ref \in RefsOf(db)
  BY RefFacts DEF HistoryInv, Sound, Typed, StoreTyped
<1>3. /\ ref' \in RefsOf(db) /\ \A r \in RefNames \ {"scratch"} : ref'[r] = ref[r]
  <2>1. 0 \in 0..Len(db) /\ ref' = [ref EXCEPT !["scratch"] = 0]
    BY <1>1, <1>2
  <2> QED BY <1>2, <2>1 DEF RefsOf
<1>4. /\ ref'["master"] = ref["master"] /\ ref'["origin"] = ref["origin"]
      /\ ref'["base"] = ref["base"] /\ ref'["baseRemote"] = ref["baseRemote"]
      /\ ref'["history"] = ref["history"]
  BY <1>3 DEF RefNames
<1>5. StoreTyped'
  BY <1>1, <1>2, <1>3, <1>4 DEF Typed, StoreTyped
<1>6. CheckoutTyped'
  <2>1. /\ state.from \in Heads /\ (state.from = "history" => ref["history"] # 0)
        /\ ref["master"] # 0 /\ odd \subseteq {"lost", "cut"}
    BY <1>1, <1>2 DEF Typed, FileTyped, Files, StoreTyped, CheckoutTyped
  <2>2. head' \in Heads /\ (head' \in RefNames => ref'[head'] # 0)
    BY <1>1, <1>4, <2>1 DEF Heads, RefNames
  <2>3. NoOp \in Operations(db')
    BY DEF Operations
  <2>4. odd' \subseteq {"lost", "cut"} /\ dirty' \in BOOLEAN /\ open' \in BOOLEAN
    BY <1>1, <2>1
  <2> QED BY <1>1, <2>2, <2>3, <2>4 DEF CheckoutTyped
<1>7. Sound'
  <2>1. /\ OfMaster(db, ref'["master"]) /\ OfMaster(db, ref'["origin"])
        /\ OfBase(db, ref'["baseRemote"]) /\ (ref'["base"] # 0 => OfBase(db, ref'["base"]))
    BY <1>2, <1>4 DEF Related
  <2>2. Related(db, ref', side)
    BY <1>2, <1>4, <2>1, SameRefs
  <2> QED BY <1>1, <2>2 DEF Sound
<1>8. RunTyped' /\ FileTyped'
  BY <1>1, <1>2, <1>4 DEF Typed, RunTyped, FileTyped
<1>9. RunInv' /\ FileInv' /\ ~Running' /\ ~Pends'
  BY <1>1 DEF RunInv, FileInv, Running, Working, At, Pends
<1>10. Rooted'
  <2>1. ASSUME NEW root, RootAt(root) PROVE RootAt(root)'
    BY <1>1, <1>4, <1>9, <2>1 DEF RootAt
  <2> QED BY <1>1, <1>2, <2>1 DEF Rooted, Commits
<1> QED BY <1>5, <1>6, <1>7, <1>8, <1>9, <1>10 DEF HistoryInv, Typed

\* A killed run leaves the scratch branch at most; what was in progress is then Later.
LEMMA CrashKeeps == ASSUME HistoryInv, FitInv, Crash PROVE HistoryInv'
<1>1. /\ ~At("idle") /\ run' = Idle /\ UNCHANGED <<db, side, dirty, op, open, state>>
      /\ odd' \in {odd, odd \cup {"cut"}} /\ Typed /\ Related(db, ref, side) /\ RunInv /\ FileInv
  BY DEF Crash, HistoryInv, Sound
<1>2. CheckoutTyped /\ odd' \subseteq {"lost", "cut"} /\ ref \in RefsOf(db) /\ DOMAIN ref = RefNames
  BY <1>1, RefFacts DEF Typed, CheckoutTyped, StoreTyped
<1>3. CASE UNCHANGED <<ref, head>>
  <2>1. StoreTyped' /\ CheckoutTyped' /\ Sound'
    BY <1>1, <1>2, <1>3 DEF Typed, StoreTyped, CheckoutTyped, Sound
  <2>2. ASSUME state # <<>>, op # NoOp
        PROVE  /\ state.old = 0 => ref["history"] = 0
               /\ \/ op.kind # state.op
                  \/ /\ Later(db, ref["scratch"], op, state)
                     /\ Running /\ ref["scratch"] = run.tip
    <3>1. At("save")
      BY <1>1, <2>2 DEF FitInv, Resuming
    <3>2. Running
      BY <3>1 DEF Running, Working, At
    <3>3. /\ WellFormed(db) /\ run.tip \in 1..Len(db)
          /\ run.todo \in SUBSET StepsIn(db)
          /\ Progress(db, run.tip, run.todo, run.old) /\ Shaped(db, run.todo)
          /\ run.old = 0 => ref["history"] = 0
          /\ Filed(db, state) /\ Resumes(db, run, state)
      BY <2>2, <3>2, RunFacts
    <3>4. PICK s : s = First(run.todo)
      OBVIOUS
    <3>5. /\ run.todo # {} /\ ref["scratch"] = run.tip /\ op.sha = s.sha
          /\ \/ op.kind = "cherry-pick" /\ s.kind = "commit"
             \/ op.kind = "merge" /\ s.kind = "base_fold"
      BY <1>1, <3>1, <3>4 DEF RunInv
    <3>6. s \in run.todo
      BY <3>3, <3>4, <3>5, Lead
    <3>7. /\ run.old = state.old /\ Progress(db, run.tip, Rest(state.todo), state.old)
          /\ state.op = "merge" => First(state.todo).sha \in db[run.tip].anc
          /\ Replays(db, run.todo, "merged")
                \subseteq Past(db, run.tip, "marker") \cup Due(db, Rest(state.todo))
      BY <3>3 DEF Resumes
    <3>8. s.kind = "base_fold" => OfBase(db, s.sha)
      BY <3>3, <3>6 DEF Shaped
    <3>9. s.kind = "commit" /\ db[s.sha].kind = "base" => db[s.sha].of \in Bases(db, run.tip)
      BY <3>3, <3>4, <3>5, PickFits
    <3>10. s.kind = "commit" /\ db[s.sha].kind = "merged"
             => db[s.sha].of \in Replays(db, run.todo, "merged")
      BY <3>6 DEF Replays
    <3>11. op.kind = state.op => Later(db, run.tip, op, state)
      BY <3>5, <3>7, <3>8, <3>9, <3>10 DEF Later
    <3> QED BY <3>2, <3>3, <3>5, <3>7, <3>11
  <2> QED BY <1>1, <1>3, <2>1, <2>2, Ended
<1>4. CASE /\ At("step") \/ At("fold")
           /\ op = NoOp /\ ref' = [ref EXCEPT !["scratch"] = run.tip] /\ head' = "scratch"
  <2>1. run.tip \in 1..Len(db) /\ Len(db) \in Nat
    BY <1>4, RunFacts DEF Running, Working, At
  <2>2. /\ ref' \in RefsOf(db) /\ ref'["scratch"] = run.tip /\ run.tip # 0
        /\ \A r \in RefNames \ {"scratch"} : ref'[r] = ref[r]
    BY <1>2, <1>4, <2>1 DEF RefsOf, RefNames
  <2>3. /\ ref'["master"] = ref["master"] /\ ref'["origin"] = ref["origin"]
        /\ ref'["base"] = ref["base"] /\ ref'["baseRemote"] = ref["baseRemote"]
        /\ ref'["history"] = ref["history"]
    BY <2>2 DEF RefNames
  <2>4. StoreTyped'
    BY <1>1, <2>2, <2>3 DEF Typed, StoreTyped
  <2>5. CheckoutTyped'
    BY <1>1, <1>2, <1>4, <2>2 DEF CheckoutTyped, Heads
  <2>6. Sound'
    <3>1. /\ OfMaster(db, ref'["master"]) /\ OfMaster(db, ref'["origin"])
          /\ OfBase(db, ref'["baseRemote"]) /\ (ref'["base"] # 0 => OfBase(db, ref'["base"]))
      BY <1>1, <2>3 DEF Related
    <3>2. Related(db, ref', side)
      BY <1>1, <2>3, <3>1, SameRefs
    <3> QED BY <1>1, <3>2 DEF Sound
  <2> QED BY <1>1, <1>4, <2>3, <2>4, <2>5, <2>6, Ended
<1> QED BY <1>3, <1>4 DEF Crash, Stepping, Dirty

\* Master is pulled from its remote, base from upstream.
LEMMA BeginKeeps == ASSUME HistoryInv, Begin PROVE HistoryInv'
<1>1. /\ At("idle") /\ state = <<>> /\ state' = <<>>
      /\ UNCHANGED <<db, side, head, dirty, op, open, odd>>
      /\ Typed /\ Related(db, ref, side) /\ Rooted
  BY DEF Begin, NonePending, HistoryInv, Sound
<1>2. /\ ref \in RefsOf(db) /\ DOMAIN ref = RefNames /\ Len(db) \in Nat
      /\ ref["master"] # 0 /\ ref["origin"] # 0 /\ ref["baseRemote"] # 0
      /\ ref["origin"] \in 1..Len(db) /\ run \in Runs(db)
  BY <1>1, RefFacts DEF Typed, StoreTyped, RunTyped
<1>3. PICK pullMaster \in BOOLEAN, pullBase \in BOOLEAN,
           registered \in SUBSET (Branches \X {ref["origin"]}) :
         \/ UNCHANGED <<ref, run>>
         \/ /\ ref' = [ref EXCEPT
                 !["master"] = IF pullMaster /\ PullsMaster THEN ref["origin"] ELSE @,
                 !["base"] = IF pullBase THEN ref["baseRemote"] ELSE @]
            /\ run' = [Idle EXCEPT !.pc = "plan", !.from = head, !.merges = registered]
  BY DEF Begin
<1>4. CASE UNCHANGED <<ref, run>>
  BY <1>1, <1>4
  DEF HistoryInv, Typed, StoreTyped, RunTyped, FileTyped, CheckoutTyped, Sound, RunInv, FileInv,
      Rooted, RootAt, Running, Pends, At, Commits
<1>5. CASE /\ ref' = [ref EXCEPT
                 !["master"] = IF pullMaster /\ PullsMaster THEN ref["origin"] ELSE @,
                 !["base"] = IF pullBase THEN ref["baseRemote"] ELSE @]
           /\ run' = [Idle EXCEPT !.pc = "plan", !.from = head, !.merges = registered]
  <2>1. /\ ref'["master"] \in {ref["master"], ref["origin"]}
        /\ ref'["base"] \in {ref["base"], ref["baseRemote"]}
        /\ \A r \in RefNames \ {"master", "base"} : ref'[r] = ref[r]
        /\ ref' \in RefsOf(db)
    BY <1>2, <1>5 DEF RefsOf, RefNames
  <2>2. /\ ref'["origin"] = ref["origin"] /\ ref'["baseRemote"] = ref["baseRemote"]
        /\ ref'["history"] = ref["history"] /\ ref'["scratch"] = ref["scratch"]
    BY <2>1 DEF RefNames
  <2>3. StoreTyped'
    BY <1>1, <1>2, <2>1, <2>2 DEF Typed, StoreTyped
  <2>4. CheckoutTyped'
    <3>1. CheckoutTyped
      BY <1>1 DEF Typed
    <3>2. head \in RefNames => ref'[head] # 0
      <4>1. head \in {"master", "history", "scratch"} \/ head \notin RefNames
        BY <3>1 DEF CheckoutTyped, Heads, RefNames
      <4> QED BY <1>2, <2>1, <2>2, <3>1, <4>1 DEF CheckoutTyped
    <3> QED BY <1>1, <2>2, <3>1, <3>2 DEF CheckoutTyped
  <2>5. Sound'
    <3>1. /\ OfMaster(db, ref'["master"]) /\ OfMaster(db, ref'["origin"])
          /\ OfBase(db, ref'["baseRemote"]) /\ (ref'["base"] # 0 => OfBase(db, ref'["base"]))
      BY <1>1, <1>2, <2>1, <2>2 DEF Related
    <3>2. Related(db, ref', side)
      BY <1>1, <2>2, <3>1, SameRefs
    <3> QED BY <1>1, <3>2 DEF Sound
  <2>6. run' \in Runs(db) /\ run'.pc = "plan" /\ run'.from = head
    <3>1. registered \in SUBSET (Branches \X (1..Len(db)))
      BY <1>2
    <3>2. Idle \in Runs(db) /\ head \in Heads
      BY <1>1, <1>2, IdleTyped DEF Typed, CheckoutTyped
    <3> QED BY <1>5, <3>1, <3>2 DEF Runs, Places
  <2>7. RunTyped' /\ FileTyped'
    <3>1. head = "history" => ref["history"] # 0
      BY <1>1 DEF Typed, CheckoutTyped, RefNames
    <3> QED BY <1>1, <2>2, <2>6, <3>1 DEF RunTyped, FileTyped
  <2>8. RunInv' /\ FileInv' /\ ~Running' /\ ~Pends'
    BY <1>1, <2>6 DEF RunInv, FileInv, Running, Working, At, Pends
  <2>9. Rooted'
    <3>1. ASSUME NEW root, RootAt(root) PROVE RootAt(root)'
      BY <1>1, <2>1, <2>2, <2>8, <3>1 DEF RootAt
    <3> QED BY <1>1, <3>1 DEF Rooted, Commits
  <2> QED BY <2>3, <2>4, <2>5, <2>7, <2>8, <2>9 DEF HistoryInv, Typed
<1> QED BY <1>3, <1>4, <1>5

-----------------------------------------------------------------------------
(* --continue.                                                             *)

\* What git has in progress is committed on the scratch branch: the file's first step, or,
\* if a resumed run was killed, what was then at hand.
LEMMA Continues ==
  ASSUME HistoryInv, Pends, NEW tip \in 1..Len(db), tip = ref["scratch"], NEW s,
         s = First(state.todo), NEW second \in 0..Len(db), second = 0 \/ OfBase(db, second),
         OnTop(db, db', tip, second), New = NewIn(db), db'[New].kind \in Kinds,
         db'[New].kind = "base" => OfBase(db, db'[New].of) /\ db'[New].of \in 1..Len(db),
         \/ tip = state.tip /\ Does(db, db', New, second, s)
         \/ /\ Progress(db, tip, Rest(state.todo), state.old)
            /\ db'[New].kind = "merged" =>
                  db'[New].of \in Past(db, tip, "marker") \cup Due(db, Rest(state.todo))
            /\ db'[New].kind = "base" => db'[New].of \in db[tip].anc \cup Parent(db, second),
         state.op = "merge" => s.sha \in db[tip].anc \cup Parent(db, second),
         run' = [Idle EXCEPT !.pc = "step", !.tip = New, !.todo = Rest(state.todo),
                             !.old = state.old, !.from = state.from, !.resumed = TRUE],
         UNCHANGED <<side, dirty, state, odd>>, Released
  PROVE  HistoryInv'
<1>1. /\ Typed /\ FileInv /\ WellFormed(db) /\ Len(db) \in Nat /\ state # <<>>
  BY RefFacts DEF HistoryInv, Pends
<1>2. /\ state \in Files(db) /\ Filed(db, state)
      /\ state.from = "history" => ref["history"] # 0
  BY <1>1 DEF Typed, FileTyped, FileInv
<1>3. /\ state.todo \in SUBSET StepsIn(db) /\ state.old \in 0..Len(db) /\ state.from \in Heads
      /\ state.todo # {} /\ Progress(db, state.tip, state.todo, state.old)
      /\ Shaped(db, state.todo)
  BY <1>2 DEF Files, Filed, Progress
<1>4. PICK later : later = Rest(state.todo)
  OBVIOUS
<1>5. later \in SUBSET StepsIn(db)
  BY <1>1, <1>3, <1>4, Lead
<1>6. PICK e, n : e = db' /\ n = New
  OBVIOUS
<1>7. OnTop(db, e, tip, second) /\ n = NewIn(db) /\ e[n].kind \in Kinds
  BY <1>6
<1>8. Progress(e, n, later, state.old)
  <2>1. CASE tip = state.tip /\ Does(db, e, n, second, s)
    BY <1>1, <1>3, <1>4, <1>7, <2>1, Laid
  <2>2. CASE /\ Progress(db, tip, later, state.old)
             /\ e[n].kind = "merged" => e[n].of \in Past(db, tip, "marker") \cup Due(db, later)
             /\ e[n].kind = "base" => e[n].of \in db[tip].anc \cup Parent(db, second)
    BY <1>1, <1>3, <1>5, <1>7, <2>2, Beside
  <2> QED BY <1>4, <1>6, <2>1, <2>2
<1>9. /\ run' \in Runs(e)
      /\ run'.tip = n /\ run'.todo = later /\ run'.old = state.old /\ run'.from = state.from
      /\ run'.pc = "step"
  <2>1. PICK old, from : old = state.old /\ from = state.from
    OBVIOUS
  <2>2. run' = [Idle EXCEPT !.pc = "step", !.tip = n, !.todo = later, !.old = old,
                            !.from = from, !.resumed = TRUE]
    BY <1>4, <1>6, <2>1
  <2>3. /\ n \in 0..Len(e) /\ later \in SUBSET StepsIn(e) /\ old \in 0..Len(e) /\ from \in Heads
    BY <1>1, <1>3, <1>5, <1>7, <2>1, MoreTyped, Tip DEF OnTop
  <2>4. Idle \in Runs(e)
    <3>1. Len(e) \in Nat
      BY <1>7, RecordsTyped DEF OnTop
    <3> QED BY <3>1, IdleTyped
  <2> QED BY <2>1, <2>2, <2>3, <2>4 DEF Runs, Places
<1>10. PICK r : /\ r = run'
                /\ r.tip = n /\ r.todo = later /\ r.old = state.old /\ r.from = state.from
                /\ r.pc = "step"
  BY <1>9
<1>11. Resumes(e, r, state)
  <2>1. Replays(e, later, "merged") \subseteq Past(e, n, "marker") \cup Due(e, later)
    BY <1>8 DEF Progress
  <2>2. db[tip].anc \subseteq e[n].anc /\ Parent(db, second) \subseteq e[n].anc
    BY <1>1, <1>7, Tip
  <2>3. state.op = "merge" => First(state.todo).sha \in e[n].anc
    BY <2>2
  <2> QED BY <1>4, <1>8, <1>10, <2>1, <2>3 DEF Resumes
<1>12. state.old = 0 => ref["history"] = 0
  <2>1. op # NoOp
    BY <1>2 DEF Pends, Files, NoOp
  <2> QED BY <1>1, <2>1 DEF FileInv
<1>13. \A root \in 1..Len(db) : RootAt(root) => root \in db[tip].anc
  BY DEF RootAt
<1>14. /\ ref' \in RefsOf(db) /\ DOMAIN ref' = RefNames
       /\ \A q \in RefNames \ {"scratch"} : ref'[q] = ref[q]
       /\ \/ head' = "detached" /\ op' = NoOp /\ open' = FALSE
          \/ UNCHANGED <<ref, head, op, open>>
  BY <1>1, ReleasedRefs
<1> QED
  BY <1>2, <1>6, <1>7, <1>8, <1>9, <1>10, <1>11, <1>12, <1>13, <1>14, CommitKeeps

\* --continue commits what is in progress: the file's first step, or one beside the steps.
LEMMA ContinueKeeps == ASSUME HistoryInv, Continue PROVE HistoryInv'
<1>1. /\ Pends /\ Typed /\ FileInv /\ Related(db, ref, side) /\ WellFormed(db) /\ Len(db) \in Nat
      /\ state # <<>> /\ UNCHANGED <<side, dirty, state, odd>>
  BY RefFacts DEF Continue, Pends, HistoryInv, Sound
<1>2. /\ state \in Files(db) /\ Filed(db, state) /\ op.kind = state.op /\ op # NoOp
  BY <1>1 DEF Typed, FileTyped, FileInv, Pends, Files, NoOp
<1>3. PICK tip, sha, s :
        /\ tip \in 1..Len(db) /\ sha \in 1..Len(db)
        /\ tip = ref["scratch"] /\ sha = op.sha /\ s = First(state.todo)
  <2>1. ref["scratch"] \in 1..Len(db)
    BY <1>1, <1>2, RefFacts DEF Typed, CheckoutTyped, RefNames
  <2>2. op.sha \in 1..Len(db)
    BY <1>1, <1>2 DEF Typed, CheckoutTyped, Operations
  <2> QED BY <2>1, <2>2
<1>4. /\ state.todo \in SUBSET StepsIn(db) /\ state.todo # {} /\ Shaped(db, state.todo)
  BY <1>2 DEF Files, Filed, Progress
<1>5. s \in state.todo /\ s.sha \in 1..Len(db)
  BY <1>1, <1>3, <1>4, Lead
<1>6. \/ tip = state.tip /\ sha = s.sha
      \/ Later(db, tip, op, state)
  BY <1>1, <1>3 DEF FileInv
<1>7. /\ Released
      /\ run' = [Idle EXCEPT !.pc = "step", !.tip = New, !.todo = Rest(state.todo),
                             !.old = state.old, !.from = state.from, !.resumed = TRUE]
  BY DEF Continue, Made, Released
<1>8. CASE state.op = "cherry-pick"
  <2> DEFINE kind == db[sha].kind
             of == db[sha].of
             branch == db[sha].branch
  <2>1. /\ kind \in Kinds /\ branch \in Branches \cup {NoBranch} /\ of \in 1..Len(db)
        /\ kind = "merged" => branch \in Branches
    BY <1>1, <1>3, RecordsTyped, LineFacts
  <2>2. PICK e : e = db' /\ e = Append(db, Commit(tip, 0, kind, of, branch))
    BY <1>2, <1>3, <1>8 DEF Continue, Made
  <2>b. kind = "base" => OfBase(db, of)
    BY <1>1, <1>3 DEF Related
  <2>l. Later(db, tip, op, state) =>
          /\ Progress(db, tip, Rest(state.todo), state.old)
          /\ kind = "merged" => of \in Past(db, tip, "marker") \cup Due(db, Rest(state.todo))
          /\ kind = "base" => of \in db[tip].anc
    BY <1>2, <1>3, <1>8 DEF Later, Progress
  <2>d. sha = s.sha => kind = db[s.sha].kind /\ of = db[s.sha].of
    OBVIOUS
  <2> HIDE DEF kind, of, branch
  <2>3. of \in 0..Len(db) /\ of # 0 /\ 0 \in 0..Len(db)
    BY <1>1, <2>1
  <2>4. New = NewIn(db) /\ CommitOn(db, e, tip, 0, kind, of, branch)
    BY <1>1, <1>3, <2>1, <2>2, <2>3, CommitMade, Zenon
  <2>5. OnTop(db, e, tip, 0) /\ e[New].kind = kind /\ e[New].of = of
    BY <2>3, <2>4 DEF CommitOn
  <2>6. s.kind = "commit" /\ state.op # "merge"
    BY <1>2, <1>3, <1>8 DEF Filed
  <2>7. \/ tip = state.tip /\ Does(db, e, New, 0, s)
        \/ /\ Progress(db, tip, Rest(state.todo), state.old)
           /\ e[New].kind = "merged" =>
                 e[New].of \in Past(db, tip, "marker") \cup Due(db, Rest(state.todo))
           /\ e[New].kind = "base" => e[New].of \in db[tip].anc \cup Parent(db, 0)
    BY <1>6, <2>l, <2>d, <2>5, <2>6 DEF Does
  <2> QED
    BY <1>1, <1>3, <1>7, <2>1, <2>2, <2>b, <2>3, <2>4, <2>5, <2>6, <2>7, Continues
<1>9. CASE state.op = "merge"
  <2>1. s.kind = "base_fold" /\ OfBase(db, s.sha)
    BY <1>2, <1>3, <1>4, <1>5, <1>9 DEF Filed, Shaped
  <2>2. OfBase(db, sha)
    BY <1>2, <1>3, <1>6, <1>9, <2>1 DEF Later
  <2>3. PICK kind \in Kinds, branch \in Branches \cup {NoBranch}, of \in 0..Len(db),
             second \in 0..Len(db) :
          /\ kind = "base" /\ branch = NoBranch /\ of = s.sha /\ second = sha /\ of # 0
          /\ kind = "merged" => branch \in Branches
    <3>1. PICK kind \in Kinds : kind = "base" /\ kind # "merged"
      BY DEF Kinds
    <3>2. s.sha \in 0..Len(db) /\ s.sha # 0 /\ sha \in 0..Len(db)
      BY <1>1, <1>3, <1>5
    <3> QED BY <3>1, <3>2
  <2>4. PICK e : e = db' /\ e = Append(db, Commit(tip, second, kind, of, branch))
    BY <1>2, <1>3, <1>9, <2>3 DEF Continue, Made
  <2>5. New = NewIn(db) /\ CommitOn(db, e, tip, second, kind, of, branch)
    BY <1>1, <1>3, <2>3, <2>4, CommitMade, Zenon
  <2>6. OnTop(db, e, tip, second) /\ e[New].kind = "base" /\ e[New].of = s.sha
    BY <2>3, <2>5 DEF CommitOn
  <2>7. sha \in Parent(db, second)
    BY <1>1, <1>3, <2>3, LineFacts DEF Parent
  <2>8. \/ tip = state.tip /\ Does(db, e, New, second, s)
        \/ /\ Progress(db, tip, Rest(state.todo), state.old)
           /\ e[New].of \in db[tip].anc
    <3>1. CASE tip = state.tip /\ sha = s.sha
      BY <2>1, <2>3, <2>6, <3>1 DEF Does
    <3>2. CASE Later(db, tip, op, state)
      BY <1>2, <1>3, <1>9, <2>6, <3>2 DEF Later
    <3> QED BY <1>6, <3>1, <3>2
  <2>9. s.sha \in db[tip].anc \cup Parent(db, second)
    BY <1>2, <1>3, <1>6, <1>9, <2>7 DEF Later
  <2>10. "base" # "merged" /\ "base" \in Kinds
    BY DEF Kinds
  <2> QED
    BY <1>1, <1>3, <1>5, <1>7, <2>1, <2>2, <2>3, <2>4, <2>5, <2>6, <2>8, <2>9, <2>10, Continues
<1> QED BY <1>2, <1>8, <1>9 DEF Files

-----------------------------------------------------------------------------
(* The plan.                                                               *)

\* Two lines with a root in common have a commit where they part.
LEMMA MergeBaseIs ==
  ASSUME WellFormed(db), NEW i \in 1..Len(db), NEW j \in 1..Len(db),
         NEW root, root \in db[i].anc, root \in db[j].anc
  PROVE  MergeBase(i, j) \in db[i].anc /\ MergeBase(i, j) \in db[j].anc
<1> DEFINE common == db[i].anc \cap db[j].anc
<1>1. common \in SUBSET Nat /\ common # {} /\ i \in Nat /\ \A n \in common : n <= i
  BY LineFacts
<1>2. PICK n \in common : \A m \in common : m <= n
  <2> HIDE DEF common
  <2> QED BY <1>1, Greatest
<1>3. ASSUME NEW m \in common, Ancestor(n, m) PROVE m = n
  <2>1. m \in 1..Len(db)
    BY LineFacts
  <2>2. n <= m /\ m <= n /\ n \in Nat /\ m \in Nat
    BY <1>1, <1>2, <1>3, <2>1, LineFacts DEF Ancestor
  <2> QED BY <2>2
<1>4. MergeBase(i, j) \in common
  BY <1>2, <1>3 DEF MergeBase
<1> QED BY <1>4

\* The steps of a plan: what history has of its own, what a merged branch has, and the
\* markers.
FromHistory(s) ==
  /\ ref["history"] # 0 /\ OldMaster # ref["master"]
  /\ s.sha \in db[ref["history"]].line /\ s.sha \notin db[OldMaster].anc
  /\ s = Step(IF db[s.sha].kind = "base" THEN "base_merge" ELSE "commit", s.sha, NoBranch, 0)
\* ... a commit of a branch that was merged, ...
FromBranch(s) ==
  \E i \in 1..Len(db), b \in Branches :
     /\ b = BranchOf(i) /\ side[b].tip # 0 /\ s.sha \in db[side[b].tip].anc
     /\ s = Step("commit", s.sha, b, i)
\* ... or the marker of that merge.
FromMerge(s) ==
  \E i \in 1..Len(db) : BranchOf(i) \in Branches /\ s = Step("marker", i, BranchOf(i), i)

\* The merges without a marker.
Anew == {i \in NewlyMerged : FirstRun \/ ~HasMarker(ref["history"], i)}

\* What new steps are about.
LEMMA Planned ==
  ASSUME HistoryInv, NEW todo, todo = OwnSteps \cup UNION {BranchSteps(i) : i \in Anew}
  PROVE  /\ \A s \in todo : FromHistory(s) \/ FromBranch(s) \/ FromMerge(s)
         /\ \A i \in Anew : Step("marker", i, BranchOf(i), i) \in todo
         /\ \A s : FromHistory(s) => s \in todo
<1>1. /\ WellFormed(db) /\ Len(db) \in Nat /\ Typed /\ ref["master"] \in 1..Len(db)
      /\ run \in Runs(db)
  BY RefFacts DEF HistoryInv, Typed, RunTyped
<1>2. run.merges \in SUBSET (Branches \X (1..Len(db)))
  BY <1>1 DEF Runs
<1>3. ASSUME NEW i \in Anew PROVE i \in 1..Len(db) /\ BranchOf(i) \in Branches
  <2>1. CASE \E r \in run.merges : r[2] = i
    <3>1. PICK r \in run.merges : r[2] = i /\ BranchOf(i) = r[1]
      BY <2>1 DEF BranchOf
    <3> QED BY <1>2, <3>1
  <2>2. CASE ~ \E r \in run.merges : r[2] = i
    <3>1. i \in db[ref["master"]].anc /\ db[i].kind = "merged" /\ BranchOf(i) = db[i].branch
      BY <2>2 DEF Anew, NewlyMerged, NewOnMaster, BranchOf
    <3> QED BY <1>1, <3>1, LineFacts
  <2> QED BY <2>1, <2>2
<1>4. ASSUME NEW s \in OwnSteps PROVE FromHistory(s)
  <2>1. /\ ref["history"] # 0 /\ OldMaster # ref["master"]
        /\ \E j \in db[ref["history"]].line \ db[OldMaster].anc :
              s = Step(IF db[j].kind = "base" THEN "base_merge" ELSE "commit", j, NoBranch, 0)
    BY <1>4 DEF OwnSteps, FirstRun
  <2>2. PICK j \in db[ref["history"]].line \ db[OldMaster].anc :
           s = Step(IF db[j].kind = "base" THEN "base_merge" ELSE "commit", j, NoBranch, 0)
    BY <2>1
  <2>3. s.sha = j
    BY <2>2 DEF Step
  <2> QED BY <2>1, <2>2, <2>3 DEF FromHistory
<1>5. ASSUME NEW i \in Anew, NEW s \in BranchSteps(i) PROVE FromBranch(s) \/ FromMerge(s)
  <2> DEFINE b == BranchOf(i)
  <2>1. CASE s = Step("marker", i, b, i)
    BY <1>3, <2>1 DEF FromMerge
  <2>2. CASE s # Step("marker", i, b, i)
    <3>1. PICK j : /\ side[b].tip # 0 /\ j \in db[side[b].tip].anc /\ s = Step("commit", j, b, i)
      BY <1>5, <2>2 DEF BranchSteps
    <3>2. s.sha = j
      BY <3>1 DEF Step
    <3>3. i \in 1..Len(db) /\ b \in Branches
      BY <1>3
    <3> QED BY <3>1, <3>2, <3>3 DEF FromBranch
  <2> QED BY <2>1, <2>2
<1>6. \A i \in Anew : Step("marker", i, BranchOf(i), i) \in BranchSteps(i)
  BY DEF BranchSteps
<1>7. \A s : FromHistory(s) => s \in OwnSteps
  BY DEF FromHistory, OwnSteps, FirstRun
<1> HIDE DEF Anew
<1> QED BY <1>4, <1>5, <1>6, <1>7

\* A step has the fields it is made of.
LEMMA StepFields ==
  ASSUME NEW kind, NEW i, NEW b, NEW for, NEW s, s = Step(kind, i, b, for)
  PROVE  s.kind = kind /\ s.sha = i /\ s.branch = b /\ s.for = for
BY DEF Step

\* The steps are in order, and each is what its kind is.
LEMMA PlanShaped ==
  ASSUME HistoryInv, NEW todo, \A s \in todo : FromHistory(s) \/ FromBranch(s) \/ FromMerge(s)
  PROVE  todo \in SUBSET StepsIn(db) /\ Shaped(db, todo)
<1>1. /\ WellFormed(db) /\ Len(db) \in Nat /\ Typed
      /\ \A b \in Branches : side[b].tip # 0 => side[b].tip \in 1..Len(db)
      /\ ref["history"] # 0 => ref["history"] \in 1..Len(db)
  BY RefFacts DEF HistoryInv, RefNames
<1>2. ASSUME NEW s, FromHistory(s)
      PROVE  /\ s \in StepsIn(db) /\ s.for = 0 /\ s.kind \in {"base_merge", "commit"}
             /\ s.kind = "base_merge" <=> db[s.sha].kind = "base"
             /\ s = Step(s.kind, s.sha, NoBranch, 0)
  <2>1. PICK kind \in {"base_merge", "commit"} :
          /\ kind = "base_merge" <=> db[s.sha].kind = "base"
          /\ s = Step(kind, s.sha, NoBranch, 0)
    BY <1>2 DEF FromHistory
  <2>2. s.sha \in 1..Len(db)
    BY <1>1, <1>2, LineFacts DEF FromHistory
  <2>3. s.kind = kind /\ s.for = 0
    BY <2>1, StepFields
  <2>4. s \in StepsIn(db)
    BY <1>1, <2>1, <2>2 DEF Step, StepsIn
  <2> QED BY <2>1, <2>3, <2>4
<1>3. ASSUME NEW s, FromBranch(s)
      PROVE  /\ s \in StepsIn(db) /\ s.for \in 1..Len(db) /\ s.for # 0 /\ s.kind = "commit"
             /\ s = Step("commit", s.sha, BranchOf(s.for), s.for)
  <2>1. PICK i \in 1..Len(db), b \in Branches :
          /\ b = BranchOf(i) /\ side[b].tip # 0 /\ s.sha \in db[side[b].tip].anc
          /\ s = Step("commit", s.sha, b, i)
    BY <1>3 DEF FromBranch
  <2>2. s.sha \in 1..Len(db)
    BY <1>1, <2>1, LineFacts
  <2>3. s.kind = "commit" /\ s.for = i
    BY <2>1, StepFields
  <2>4. s \in StepsIn(db)
    BY <1>1, <2>1, <2>2 DEF Step, StepsIn
  <2>5. i # 0
    BY <1>1
  <2> QED BY <2>1, <2>3, <2>4, <2>5
<1>4. ASSUME NEW s, FromMerge(s)
      PROVE  /\ s \in StepsIn(db) /\ s.for \in 1..Len(db) /\ s.for # 0 /\ s.kind = "marker"
             /\ s = Step("marker", s.for, BranchOf(s.for), s.for)
  <2>1. PICK i \in 1..Len(db) : BranchOf(i) \in Branches /\ s = Step("marker", i, BranchOf(i), i)
    BY <1>4 DEF FromMerge
  <2>3. s.kind = "marker" /\ s.for = i
    BY <2>1, StepFields
  <2>4. s \in StepsIn(db)
    BY <1>1, <2>1 DEF Step, StepsIn
  <2>5. i # 0
    BY <1>1
  <2> QED BY <2>1, <2>3, <2>4, <2>5
<1>5. \A s \in todo : s \in StepsIn(db) /\ s.sha \in Nat /\ s.for \in Nat
  <2>1. \A s \in todo : s \in StepsIn(db)
    BY <1>2, <1>3, <1>4
  <2>2. \A s \in StepsIn(db) : s.sha \in Nat /\ s.for \in Nat
    BY <1>1 DEF StepsIn
  <2> QED BY <2>1, <2>2
<1>6. ASSUME NEW s \in todo, NEW t \in todo PROVE s = t \/ Sooner(s, t) \/ Sooner(t, s)
  <2>1. s.for \in Nat /\ t.for \in Nat /\ s.sha \in Nat /\ t.sha \in Nat
    BY <1>5
  <2>2. CASE s.for # t.for
    BY <2>1, <2>2 DEF Sooner
  <2>3. CASE s.for = t.for /\ s.for = 0
    <3>1. FromHistory(s) /\ FromHistory(t)
      BY <1>3, <1>4, <2>3
    <3>2. /\ s.kind \in {"base_merge", "commit"} /\ t.kind \in {"base_merge", "commit"}
          /\ s = Step(s.kind, s.sha, NoBranch, 0) /\ t = Step(t.kind, t.sha, NoBranch, 0)
          /\ s.kind = "base_merge" <=> db[s.sha].kind = "base"
          /\ t.kind = "base_merge" <=> db[t.sha].kind = "base"
      BY <1>2, <3>1
    <3>3. s.sha = t.sha => s = t
      BY <3>2
    <3> QED BY <2>1, <2>3, <3>2, <3>3 DEF Sooner
  <2>4. CASE s.for = t.for /\ s.for # 0
    <3>1. /\ FromBranch(s) \/ FromMerge(s)
          /\ FromBranch(t) \/ FromMerge(t)
      BY <1>2, <2>4
    <3>2. /\ \/ s.kind = "commit" /\ s = Step("commit", s.sha, BranchOf(s.for), s.for)
             \/ s.kind = "marker" /\ s = Step("marker", s.for, BranchOf(s.for), s.for)
          /\ \/ t.kind = "commit" /\ t = Step("commit", t.sha, BranchOf(t.for), t.for)
             \/ t.kind = "marker" /\ t = Step("marker", t.for, BranchOf(t.for), t.for)
      BY <1>3, <1>4, <3>1
    <3> QED BY <2>1, <2>4, <3>2 DEF Sooner
  <2> QED BY <2>2, <2>3, <2>4
<1>7. ASSUME NEW s \in todo
      PROVE  /\ s.kind = "marker" => s.for # 0
             /\ s.kind = "commit" /\ s.for = 0 => db[s.sha].kind # "base"
             /\ s.kind = "base_merge" => s.for = 0 /\ db[s.sha].kind = "base"
             /\ s.kind # "base_fold"
  <2>1. CASE FromHistory(s)
    BY <1>2, <2>1
  <2>2. CASE FromBranch(s)
    BY <1>3, <2>2
  <2>3. CASE FromMerge(s)
    BY <1>4, <2>3
  <2> QED BY <2>1, <2>2, <2>3
<1> QED BY <1>5, <1>6, <1>7 DEF Shaped, Ordered

\* What the steps bring: of each merge there is a marker, on history's line or among the
\* steps; of each base commit a merge.
LEMMA PlanBrings ==
  ASSUME HistoryInv, NEW todo, \A s \in todo : FromHistory(s) \/ FromBranch(s) \/ FromMerge(s)
  PROVE  /\ ref["history"] = 0 => \A kind : Replays(db, todo, kind) = {}
         /\ ref["history"] # 0 =>
              /\ Replays(db, todo, "merged") \subseteq Past(db, ref["history"], "marker")
              /\ Replays(db, todo, "base") \subseteq Bases(db, ref["history"])
<1>1. WellFormed(db) /\ Related(db, ref, side)
  BY RefFacts DEF HistoryInv, Sound
<1>2. ASSUME NEW s \in todo, s.kind = "commit"
      PROVE  /\ ref["history"] # 0
             /\ db[s.sha].kind = "merged" => db[s.sha].of \in Past(db, ref["history"], "marker")
             /\ db[s.sha].kind = "base" => db[s.sha].of \in Bases(db, ref["history"])
  <2>1. CASE FromHistory(s)
    <3>1. /\ ref["history"] # 0 /\ s.sha \in db[ref["history"]].line
          /\ s = Step(IF db[s.sha].kind = "base" THEN "base_merge" ELSE "commit", s.sha, NoBranch, 0)
      BY <2>1 DEF FromHistory
    <3>2. db[s.sha].kind # "base"
      BY <1>2, <3>1 DEF Step
    <3>3. s.sha \in db[ref["history"]].anc
      <4>1. ref["history"] \in 1..Len(db)
        BY <3>1, RefFacts DEF HistoryInv, RefNames
      <4> QED BY <1>1, <3>1, <4>1, LineFacts
    <3>4. db[s.sha].kind = "merged" => db[s.sha].of \in Past(db, ref["history"], "merged")
      BY <3>3 DEF Past
    <3> QED BY <1>1, <3>1, <3>2, <3>4 DEF Related
  <2>2. CASE FromBranch(s)
    <3>1. PICK b \in Branches : side[b].tip # 0 /\ s.sha \in db[side[b].tip].anc
      BY <2>2 DEF FromBranch
    <3>2. \A kind : db[s.sha].kind = kind => db[s.sha].of \in Past(db, side[b].tip, kind)
      BY <3>1 DEF Past
    <3>3. /\ ref["history"] # 0
          /\ Past(db, side[b].tip, "merged") \subseteq Past(db, ref["history"], "marker")
          /\ Past(db, side[b].tip, "base") \subseteq Bases(db, ref["history"])
      BY <1>1, <3>1 DEF Related
    <3> QED BY <3>2, <3>3
  <2>3. CASE FromMerge(s)
    <3>1. s.kind = "marker"
      BY <2>3 DEF FromMerge, Step
    <3> QED BY <1>2, <3>1
  <2> QED BY <2>1, <2>2, <2>3
<1> QED BY <1>2 DEF Replays

\* Master's line has nothing that only history has.
LEMMA MasterBare ==
  ASSUME HistoryInv
  PROVE  /\ ref["master"] \in 1..Len(db) /\ OnLine(db, ref["master"])
         /\ Bases(db, ref["master"]) = {} /\ Past(db, ref["master"], "marker") = {}
         /\ \A i \in db[ref["master"]].anc : db[i].kind \in {"master", "merged"} /\ db[i].of = i
<1>1. ref["master"] \in 1..Len(db) /\ OfMaster(db, ref["master"]) /\ WellFormed(db)
  BY RefFacts DEF HistoryInv, Sound, Related
<1>2. \A i \in db[ref["master"]].anc : db[i].kind \in {"master", "merged"} /\ db[i].of = i
  BY <1>1 DEF OfMaster
<1>3. db[ref["master"]].line \subseteq db[ref["master"]].anc
  BY <1>1, LineFacts
<1> QED BY <1>1, <1>2, <1>3 DEF OnLine, Bases, Past

\* A line has all that it has.
LEMMA EmbedsItself ==
  ASSUME NEW d, NEW old PROVE Embeds(d, old, old, {})
<1> DEFINE place == [i \in Own(d, old) \ {} |-> i]
<1>1. place \in [Own(d, old) \ {} -> Own(d, old)]
  OBVIOUS
<1>2. \A i, j \in Own(d, old) \ {} :
         /\ StandsFor(d, place[i]) = StandsFor(d, i)
         /\ i < j => place[i] < place[j]
  OBVIOUS
<1> HIDE DEF place
<1>3. \E p \in [Own(d, old) \ {} -> Own(d, old)] :
         \A i, j \in Own(d, old) \ {} :
            /\ StandsFor(d, p[i]) = StandsFor(d, i)
            /\ i < j => p[i] < p[j]
  BY <1>1, <1>2
<1> QED BY <1>3 DEF Embeds

\* Nothing is not hard to keep.
LEMMA EmbedsNothing ==
  ASSUME NEW d, NEW old, NEW tip, NEW rest, Own(d, old) \ rest = {}
  PROVE  Embeds(d, old, tip, rest)
<1>1. [i \in {} |-> i] \in [Own(d, old) \ rest -> Own(d, tip)]
  OBVIOUS
<1>2. \E p \in [Own(d, old) \ rest -> Own(d, tip)] :
         \A i, j \in Own(d, old) \ rest :
            /\ StandsFor(d, p[i]) = StandsFor(d, i)
            /\ i < j => p[i] < p[j]
  BY <1>1
<1> QED BY <1>2 DEF Embeds

\* The first run, or history is where it should be, or it is to be made anew on master.
LEMMA PlanProgress ==
  ASSUME HistoryInv, NEW todo, NEW tip,
         todo = OwnSteps \cup UNION {BranchSteps(i) : i \in Anew},
         tip = IF ~FirstRun /\ OldMaster = ref["master"] THEN ref["history"] ELSE ref["master"]
  PROVE  /\ todo \in SUBSET StepsIn(db) /\ Progress(db, tip, todo, ref["history"])
         /\ \A root : RootAt(root) => root \in db[tip].anc
<1>1. /\ WellFormed(db) /\ Len(db) \in Nat /\ Related(db, ref, side) /\ Rooted
      /\ ref["master"] \in 1..Len(db)
      /\ ref["history"] # 0 => ref["history"] \in 1..Len(db)
  BY RefFacts DEF HistoryInv, Sound, RefNames
<1>2. /\ \A s \in todo : FromHistory(s) \/ FromBranch(s) \/ FromMerge(s)
      /\ \A i \in Anew : Step("marker", i, BranchOf(i), i) \in todo
      /\ \A s : FromHistory(s) => s \in todo
  BY Planned, Zenon
<1>3. todo \in SUBSET StepsIn(db) /\ Shaped(db, todo)
  BY <1>2, PlanShaped
<1>4. /\ ref["history"] = 0 => \A kind : Replays(db, todo, kind) = {}
      /\ ref["history"] # 0 =>
           /\ Replays(db, todo, "merged") \subseteq Past(db, ref["history"], "marker")
           /\ Replays(db, todo, "base") \subseteq Bases(db, ref["history"])
  BY <1>2, PlanBrings
<1>5. /\ OnLine(db, ref["master"])
      /\ Bases(db, ref["master"]) = {} /\ Past(db, ref["master"], "marker") = {}
      /\ \A i \in db[ref["master"]].anc : db[i].kind \in {"master", "merged"} /\ db[i].of = i
  BY MasterBare
<1>6. ASSUME NEW i \in Anew PROVE i \in Due(db, todo)
  <2>1. PICK s \in todo : s = Step("marker", i, BranchOf(i), i)
    BY <1>2
  <2>2. s.kind = "marker" /\ s.sha = i
    BY <2>1 DEF Step
  <2> QED BY <2>2 DEF Due
<1>7. \A root : RootAt(root) =>
        /\ root \in db[ref["master"]].anc
        /\ ref["history"] # 0 => root \in db[ref["history"]].anc
  <2>1. db[ref["master"]].line \subseteq db[ref["master"]].anc
    BY <1>1, LineFacts
  <2> QED BY <2>1 DEF RootAt
<1>8. CASE ref["history"] = 0
  <2>1. tip = ref["master"]
    BY <1>8 DEF FirstRun
  <2>2. Past(db, tip, "merged") \subseteq Due(db, todo)
    <3>1. ASSUME NEW i \in db[tip].anc, db[i].kind = "merged" PROVE db[i].of \in Due(db, todo)
      <4>1. db[i].of = i
        BY <1>5, <2>1, <3>1
      <4>2. i \in Anew
        BY <1>8, <2>1, <3>1 DEF Anew, NewlyMerged, NewOnMaster, FirstRun
      <4> QED BY <1>6, <4>1, <4>2
    <3> QED BY <3>1 DEF Past
  <2> QED BY <1>1, <1>3, <1>4, <1>5, <1>7, <1>8, <2>1, <2>2 DEF Progress
<1>9. CASE ref["history"] # 0 /\ OldMaster = ref["master"]
  <2>1. tip = ref["history"]
    BY <1>9 DEF FirstRun
  <2>2. /\ Whole(db, tip) /\ Past(db, tip, "merged") \subseteq Past(db, tip, "marker")
    BY <1>1, <1>9, <2>1 DEF Related
  <2>3. \A s \in todo : s.for # 0
    <3>1. ASSUME NEW s \in todo PROVE s.for # 0
      <4>1. FromBranch(s) \/ FromMerge(s)
        BY <1>2, <1>9 DEF FromHistory
      <4>2. \A i \in 1..Len(db) : i # 0
        BY <1>1
      <4> QED BY <4>1, <4>2, StepFields DEF FromBranch, FromMerge
    <3> QED BY <3>1
  <2>4. Left(todo) = {}
    BY <2>3 DEF Left
  <2>5. Embeds(db, ref["history"], tip, Left(todo))
    BY <2>1, <2>4, EmbedsItself
  <2> QED BY <1>1, <1>3, <1>4, <1>7, <1>9, <2>1, <2>2, <2>5 DEF Progress, Whole
<1>10. CASE ref["history"] # 0 /\ OldMaster # ref["master"]
  <2>1. tip = ref["master"]
    BY <1>10 DEF FirstRun
  <2>2. /\ OnLine(db, ref["history"])
        /\ Past(db, ref["history"], "merged") \subseteq Past(db, ref["history"], "marker")
    BY <1>1, <1>10 DEF Related, Whole
  <2>3. OldMaster \in db[ref["history"]].anc /\ OldMaster \in db[ref["master"]].anc
    <3>1. PICK root : RootAt(root)
      BY <1>1 DEF Rooted
    <3>2. root \in db[ref["history"]].anc /\ root \in db[ref["master"]].anc
      BY <1>7, <1>10, <3>1
    <3> QED BY <1>1, <1>10, <3>2, MergeBaseIs DEF OldMaster
  <2>4. /\ db[OldMaster].anc \subseteq db[ref["history"]].anc
        /\ db[OldMaster].anc \subseteq db[ref["master"]].anc
    BY <1>1, <1>10, <2>3, LineFacts
  <2>5. ASSUME NEW j \in db[ref["history"]].line, db[j].kind \notin {"master", "merged"}
        PROVE  /\ j \notin db[OldMaster].anc
               /\ \E s \in todo : /\ s.sha = j /\ s.for = 0
                                  /\ s.kind = IF db[j].kind = "base" THEN "base_merge" ELSE "commit"
    <3>1. j \notin db[OldMaster].anc
      BY <1>5, <2>4, <2>5
    <3>2. PICK s : s = Step(IF db[j].kind = "base" THEN "base_merge" ELSE "commit", j, NoBranch, 0)
      OBVIOUS
    <3>3. /\ s.sha = j /\ s.for = 0
          /\ s.kind = IF db[j].kind = "base" THEN "base_merge" ELSE "commit"
      BY <3>2 DEF Step
    <3>4. FromHistory(s)
      BY <1>10, <3>1, <3>2, <3>3 DEF FromHistory
    <3> QED BY <1>2, <3>1, <3>3, <3>4
  <2>6. Past(db, ref["history"], "marker") \subseteq Due(db, todo)
    <3>1. ASSUME NEW k \in db[ref["history"]].anc, db[k].kind = "marker"
          PROVE  db[k].of \in Due(db, todo)
      <4>1. k \in db[ref["history"]].line
        BY <2>2, <3>1 DEF OnLine
      <4>2. PICK s \in todo : s.sha = k /\ s.kind = "commit"
        BY <2>5, <3>1, <4>1
      <4> QED BY <3>1, <4>2 DEF Due, Replays
    <3> QED BY <3>1 DEF Past
  <2>7. Past(db, tip, "merged") \subseteq Due(db, todo)
    <3>1. ASSUME NEW i \in db[tip].anc, db[i].kind = "merged" PROVE db[i].of \in Due(db, todo)
      <4>1. db[i].of = i
        BY <1>5, <2>1, <3>1
      <4>2. CASE i \in db[OldMaster].anc
        <5>1. i \in Past(db, ref["history"], "merged")
          BY <2>4, <3>1, <4>1, <4>2 DEF Past
        <5> QED BY <2>2, <2>6, <4>1, <5>1
      <4>3. CASE i \notin db[OldMaster].anc
        <5>1. i \in NewlyMerged
          BY <1>10, <2>1, <3>1, <4>3 DEF NewlyMerged, NewOnMaster, FirstRun
        <5>2. CASE i \in Past(db, ref["history"], "marker")
          BY <2>6, <4>1, <5>2
        <5>3. CASE i \notin Past(db, ref["history"], "marker")
          <6>1. i \in Anew
            BY <5>1, <5>3 DEF Anew, HasMarker
          <6> QED BY <1>6, <4>1, <6>1
        <5> QED BY <5>2, <5>3
      <4> QED BY <4>2, <4>3
    <3> QED BY <3>1 DEF Past
  <2>8. Bases(db, ref["history"]) \subseteq DueBases(db, todo)
    <3>1. ASSUME NEW k \in db[ref["history"]].line, db[k].kind = "base"
          PROVE  db[k].of \in DueBases(db, todo)
      <4>1. PICK s \in todo : s.sha = k /\ s.kind = "base_merge"
        BY <2>5, <3>1
      <4> QED BY <4>1 DEF DueBases
    <3> QED BY <3>1 DEF Bases
  <2>9. Embeds(db, ref["history"], tip, Left(todo))
    <3>1. ASSUME NEW j \in Own(db, ref["history"]) PROVE j \in Left(todo)
      <4>1. j \in db[ref["history"]].line /\ db[j].kind \notin {"master", "merged"}
        BY <3>1 DEF Own
      <4>2. PICK s \in todo : s.sha = j /\ s.for = 0 /\ s.kind \in {"base_merge", "commit"}
        BY <2>5, <4>1
      <4> QED BY <4>2 DEF Left
    <3>2. Own(db, ref["history"]) \ Left(todo) = {}
      BY <3>1
    <3> QED BY <3>2, EmbedsNothing
  <2>10. Replays(db, todo, "merged") \subseteq Due(db, todo)
    BY <1>4, <1>10, <2>6
  <2>11. Replays(db, todo, "base") \subseteq DueBases(db, todo)
    BY <1>4, <1>10, <2>8
  <2>12. Bases(db, tip) \subseteq db[tip].anc
    BY <1>5, <2>1
  <2> QED
    BY <1>1, <1>3, <1>5, <1>7, <2>1, <2>7, <2>9, <2>10, <2>11, <2>12 DEF Progress
<1> QED BY <1>8, <1>9, <1>10

\* A plan brings every marker, base commit and commit that the new line will need.
LEMMA PlanKeeps == ASSUME HistoryInv, FitInv, Plan PROVE HistoryInv'
<1>1. /\ At("plan") /\ UNCHANGED <<db, ref, side, head, dirty, op, open, state, odd>>
      /\ state = <<>> /\ Typed /\ Sound /\ Rooted /\ Len(db) \in Nat /\ run \in Runs(db)
  BY RefFacts DEF Plan, HistoryInv, FitInv, Resuming, At, Typed, RunTyped
<1>2. StoreTyped' /\ CheckoutTyped' /\ Sound'
  BY <1>1 DEF Typed, StoreTyped, CheckoutTyped, Sound
<1>3. CASE run' = Idle
  BY <1>1, <1>2, <1>3, Ended
<1>4. CASE run' # Idle
  <2>1. PICK todo, tip :
          /\ todo = OwnSteps \cup UNION {BranchSteps(i) : i \in Anew}
          /\ tip = IF ~FirstRun /\ OldMaster = ref["master"] THEN ref["history"]
                                                            ELSE ref["master"]
    OBVIOUS
  <2>2. run' = [run EXCEPT !.pc = "step", !.old = ref["history"], !.tip = tip, !.todo = todo]
    BY <1>4, <2>1 DEF Plan, Anew
  <2>3. /\ todo \in SUBSET StepsIn(db) /\ Progress(db, tip, todo, ref["history"])
        /\ \A root : RootAt(root) => root \in db[tip].anc
    BY <2>1, PlanProgress, Zenon
  <2>4. tip \in 0..Len(db) /\ ref["history"] \in 0..Len(db)
    <3>1. tip \in 1..Len(db)
      BY <2>3 DEF Progress
    <3> QED BY <1>1, <3>1, RefFacts DEF RefNames
  <2>5. /\ run' \in Runs(db) /\ run'.pc = "step" /\ run'.old = ref["history"] /\ run'.tip = tip
        /\ run'.todo = todo /\ run'.from = run.from
    BY <1>1, <2>2, <2>3, <2>4 DEF Runs, Places
  <2>6. RunTyped' /\ FileTyped'
    BY <1>1, <2>5 DEF RunTyped, FileTyped, Typed
  <2>7. RunInv' /\ FileInv' /\ Running' /\ ~Pends'
    BY <1>1, <2>3, <2>5 DEF RunInv, FileInv, Running, Working, At, Pends
  <2>8. Rooted'
    <3>1. ASSUME NEW root, RootAt(root) PROVE RootAt(root)'
      BY <1>1, <2>3, <2>5, <2>7, <3>1 DEF RootAt
    <3> QED BY <1>1, <3>1 DEF Rooted, Commits
  <2> QED BY <1>2, <2>6, <2>7, <2>8 DEF HistoryInv, Typed
<1> QED BY <1>3, <1>4

-----------------------------------------------------------------------------
(* The theorems.                                                           *)

\* Whatever happens, what holds of refs, run and state file goes on to hold.
LEMMA ProcessKeeps == ASSUME HistoryInv, FitInv, Process PROVE HistoryInv'
<1>1. CASE Begin \/ Plan
  BY <1>1, BeginKeeps, PlanKeeps
<1>2. CASE ReplayCommit \/ RecreateBaseMerge \/ CreateMergeMarker \/ StepsDone
  BY <1>2, ReplayCommitKeeps, RecreateBaseMergeKeeps, CreateMergeMarkerKeeps, StepsDoneKeeps
<1>3. CASE FoldBase \/ SaveState \/ MoveHistory \/ RestoreCheckout \/ ClearState
  BY <1>3, FoldBaseKeeps, SaveStateKeeps, MoveHistoryKeeps, RestoreCheckoutKeeps, ClearStateKeeps
<1>4. CASE Continue \/ Abort \/ Crash
  BY <1>4, ContinueKeeps, AbortKeeps, CrashKeeps
<1> QED BY <1>1, <1>2, <1>3, <1>4 DEF Process

\* Others: commits and refs outside the run.
LEMMA OthersKeep == ASSUME HistoryInv, Others PROVE HistoryInv'
BY MasterMovesKeeps, MasterIsRewrittenKeeps, BaseMovesKeeps, HistoryMovesKeeps,
   BranchGrowsKeeps, BranchIsRebasedKeeps DEF Others

\* The invariant is inductive.
LEMMA HistoryKeeps ==
  FitInv /\ HistoryInv /\ [Next]_vars => FitInv' /\ HistoryInv'
<1> SUFFICES ASSUME FitInv, HistoryInv, [Next]_vars PROVE FitInv' /\ HistoryInv'
  OBVIOUS
<1>1. CASE Process
  BY <1>1, ProcessFits, ProcessKeeps
<1>2. CASE Others
  BY <1>2, OthersFit, OthersKeep
<1>3. CASE Author \/ UNCHANGED vars
  BY <1>3, OthersFit, AuthorKeeps
<1> QED BY <1>1, <1>2, <1>3 DEF Next

\* So it always holds.
LEMMA HistoryHolds == Spec => [](FitInv /\ HistoryInv)
<1>1. Init => FitInv /\ HistoryInv
  BY InitFits, HistoryInit
<1> QED BY <1>1, HistoryKeeps, PTL DEF Spec

\* The store, the refs, the checkout, the state file and the run have their types;
\* no commit reaches what is younger, and what is checked out exists
\* (_restore_checkout, _cleanup_scratch).
THEOREM HistoryTyped == Spec => []TypeOK
<1>1. HistoryInv => TypeOK
  <2> SUFFICES ASSUME HistoryInv PROVE TypeOK
    OBVIOUS
  <2>1. Typed /\ FileInv /\ Len(db) \in Nat
    BY RefFacts DEF HistoryInv
  <2>2. StepsIn(db) = Steps /\ 1..Len(db) = Commits
    BY DEF StepsIn, Steps, Commits
  <2>3. state # <<>> =>
          /\ state.tip \in Commits /\ state.todo \subseteq Steps
          /\ state.old \in 0..Len(db) /\ state.from \in Heads
    BY <2>1, <2>2 DEF Typed, FileTyped, Files, FileInv, Filed, Progress
  <2>4. run.pc \in Places /\ run.tip \in 0..Len(db) /\ run.todo \subseteq Steps
    BY <2>1, <2>2 DEF Typed, RunTyped, Runs
  <2>5. StoreTyped /\ CheckoutTyped
    BY <2>1 DEF Typed
  <2>6. op \in [kind : {"cherry-pick", "merge"}, sha : Commits] \cup {NoOp}
    BY <2>2, <2>5 DEF CheckoutTyped, Operations
  <2> QED BY <2>3, <2>4, <2>5, <2>6
          DEF TypeOK, StoreTyped, CheckoutTyped, RefsOf, SidesOf, Places
<1> QED BY <1>1, HistoryHolds, PTL

\* Every merge of a branch that ai/history/master reaches has its marker there, after
\* any sequence of runs, conflicts, kills, rewrites of master and rebases of branches
\* (find_newly_merged_clean_branches, has_merge_marker, _build_plan).
THEOREM MarkersSafe == Spec => []MarkersComplete
<1>1. HistoryInv => MarkersComplete
  BY DEF HistoryInv, Sound, Related, MarkersComplete, HasMarker, Past
<1> QED BY <1>1, HistoryHolds, PTL

\* What a line keeps of another one, said of one store and the one that follows.
LEMMA KeptIf ==
  ASSUME NEW old \in 1..Len(db), NEW new, WellFormed(db), Grown(db, db'), Embeds(db', old, new, {})
  PROVE  KeptBy(old, new)
<1>1. PICK e : e = db'
  OBVIOUS
<1>2. Own(e, old) = Own(db, old) /\ \A j \in Own(db, old) : StandsFor(e, j) = StandsFor(db, j)
  BY <1>1, Same
<1>3. PICK place \in [Own(e, old) \ {} -> Own(e, new)] :
         \A i, j \in Own(e, old) \ {} :
            /\ StandsFor(e, place[i]) = StandsFor(e, i)
            /\ i < j => place[i] < place[j]
  BY <1>1 DEF Embeds
<1>4. place \in [Own(db, old) -> Own(e, new)]
  BY <1>2, <1>3
<1>5. \A i, j \in Own(db, old) :
         /\ StandsFor(e, place[i]) = StandsFor(db, i)
         /\ i < j => place[i] < place[j]
  BY <1>2, <1>3
<1> QED BY <1>1, <1>4, <1>5 DEF KeptBy

\* While a run is about to move the ref, only it and a commit on ai/history/master do.
LEMMA HistoryMovedBy ==
  ASSUME HistoryInv, [Next]_vars, At("move"), ref'["history"] # ref["history"]
  PROVE  MoveHistory \/ HistoryMoves
<1>1. DOMAIN ref = RefNames /\ run.pc = "move"
  BY RefFacts DEF HistoryInv, At
<1>2. ref' # ref
  OBVIOUS
<1>3. CASE Process
  BY <1>1, <1>2, <1>3
  DEF Process, Begin, Plan, ReplayCommit, RecreateBaseMerge, CreateMergeMarker, StepsDone, FoldBase,
      SaveState, RestoreCheckout, ClearState, Continue, Abort, Crash, Stepping, At
<1>4. CASE Author
  BY <1>2, <1>4 DEF Author, Resolve, RawAbort, Checkout, Edit, Stash
<1>5. CASE Others
  <2>1. CASE MasterMoves \/ BaseMoves
    BY <1>1, <2>1 DEF MasterMoves, BaseMoves, RefNames
  <2>2. CASE MasterIsRewritten \/ BranchGrows \/ BranchIsRebased
    BY <1>1, <1>2, <2>2 DEF MasterIsRewritten, BranchGrows, BranchIsRebased, Quiet, At
  <2> QED BY <1>5, <2>1, <2>2 DEF Others
<1>6. CASE UNCHANGED vars
  BY <1>2, <1>6 DEF vars
<1> QED BY <1>3, <1>4, <1>5, <1>6 DEF Next

\* A commit that is pulled comes on top of what was there.
LEMMA PulledKeeps ==
  ASSUME HistoryInv, HistoryMoves
  PROVE  /\ KeptBy(ref["history"], ref'["history"])
         /\ Bases(db, ref["history"]) \subseteq db'[ref'["history"]].anc
<1>1. /\ db' = Append(db, Commit(ref["history"], 0, "work", 0, NoBranch))
      /\ ref' = [ref EXCEPT !["history"] = New] /\ ref["history"] # 0
  BY DEF HistoryMoves
<1>2. /\ Typed /\ Related(db, ref, side) /\ ref["history"] \in 1..Len(db)
      /\ ref'["history"] = New
  BY <1>1, RefFacts DEF HistoryInv, Sound, RefNames
<1>3. PICK kind \in Kinds \ {"base"} : kind = "work" /\ (kind = "merged" => NoBranch \in Branches)
  BY DEF Kinds
<1>4. /\ WellFormed(db) /\ WellFormed(db') /\ Grown(db, db') /\ OnTop(db, db', ref["history"], 0)
      /\ New = NewIn(db)
  <2>1. db' = Append(db, Commit(ref["history"], 0, kind, 0, NoBranch))
    BY <1>1, <1>3
  <2> QED BY <1>2, <1>3, <2>1, OneCommit
<1>5. Embeds(db', ref["history"], New, {})
  BY <1>2, <1>4, EmbedsItself, EmbedsOn
<1>6. KeptBy(ref["history"], New)
  BY <1>2, <1>4, <1>5, KeptIf
<1>7. Bases(db, ref["history"]) \subseteq db[ref["history"]].anc
  BY <1>1, <1>2 DEF Related, Whole
<1>8. db[ref["history"]].anc \subseteq db'[New].anc
  BY <1>4 DEF OnTop
<1> QED BY <1>2, <1>6, <1>7, <1>8

\* A run moves the ref only if it is where the plan found it, and by then has laid all
\* that was on the line on its own.
LEMMA MovedKeeps ==
  ASSUME HistoryInv, MoveHistory, ref'["history"] # ref["history"], ref["history"] # 0
  PROVE  /\ KeptBy(ref["history"], ref'["history"])
         /\ Bases(db, ref["history"]) \subseteq db'[ref'["history"]].anc
<1>1. At("move") /\ db' = db /\ Running /\ Typed /\ Sound /\ RunInv
  BY DEF MoveHistory, HistoryInv, Running, Working, At
<1>2. /\ WellFormed(db) /\ Len(db) \in Nat /\ run.tip \in 1..Len(db)
      /\ Progress(db, run.tip, run.todo, run.old)
      /\ run.old = 0 => ref["history"] = 0
  BY <1>1, RunFacts
<1>3. run.todo = {} /\ Left({}) = {}
  BY <1>1 DEF RunInv, Left
<1>4. ref["history"] = run.old /\ ref'["history"] = run.tip
  BY <1>1, <1>2, RefFacts DEF MoveHistory, RefNames
<1>5. ref["history"] \in 1..Len(db) /\ OnLine(db, ref["history"])
  BY <1>1, RefFacts DEF Sound, Related, Whole, RefNames
<1>6. /\ Embeds(db, ref["history"], run.tip, {})
      /\ Bases(db, run.tip) \subseteq db[run.tip].anc
  BY <1>2, <1>3, <1>4 DEF Progress
<1>7. Bases(db, ref["history"]) \subseteq Bases(db, run.tip)
  BY <1>2, <1>5, <1>6, Embedded
<1>8. KeptBy(ref["history"], run.tip)
  <2>1. Grown(db, db') /\ Embeds(db', ref["history"], run.tip, {})
    BY <1>1, <1>2, <1>6 DEF Grown
  <2> QED BY <1>2, <1>5, <2>1, KeptIf
<1> QED BY <1>1, <1>4, <1>6, <1>7, <1>8

\* When a run moves ai/history/master, every commit and marker that was on it is on the
\* new line, in the same order, and every base commit once merged is still reached,
\* whatever conflicts, kills, pulls and aborts came between (_build_plan, the steps, the
\* guard of _move_history_ref).
THEOREM HistoryKept == Spec => NothingDropped
<1>1. HistoryInv /\ [Next]_vars =>
        [At("move") /\ ref'["history"] # ref["history"] /\ ref["history"] # 0
          => /\ KeptBy(ref["history"], ref'["history"])
             /\ Bases(db, ref["history"]) \subseteq db[ref["history"]].anc']_vars
  <2> SUFFICES ASSUME HistoryInv, [Next]_vars, At("move"), ref'["history"] # ref["history"],
                      ref["history"] # 0
               PROVE  /\ KeptBy(ref["history"], ref'["history"])
                      /\ Bases(db, ref["history"]) \subseteq db[ref["history"]].anc'
    OBVIOUS
  <2>1. /\ KeptBy(ref["history"], ref'["history"])
        /\ Bases(db, ref["history"]) \subseteq db'[ref'["history"]].anc
    BY HistoryMovedBy, PulledKeeps, MovedKeeps
  <2> QED BY <2>1
<1> QED BY <1>1, HistoryHolds, PTL DEF Spec, NothingDropped
=============================================================================
