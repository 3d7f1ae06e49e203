------------------------------ MODULE PlanLog ------------------------------
(***************************************************************************)
(* scripts/°base/ai/hooks/save-plan: every version of a session's plan is  *)
(* saved as ai/plans/NNN_slug.md and committed.  Which file belongs to a   *)
(* session is kept in one JSON file in the temp directory, which every     *)
(* hook loads as a whole and writes back as a whole; todo and task events  *)
(* put a list into the saved plan.  Hooks of different sessions overlap; a *)
(* session raises its next event after the hook of its last one has ended. *)
(***************************************************************************)
EXTENDS Integers, FiniteSets, FiniteSetsExt

CONSTANTS
    Sessions,   \* AI sessions in one checkout
    Titles,     \* [Sessions -> the slugs their plans' first lines give]
    Scenarios   \* records [present |-> numbers of plans saved before,
                \* left |-> how often each kind of event may happen]

\* 0 is nobody's session; numbers begin with 1, and the directory is finite.
ASSUME PlanLogAssumption ==
    /\ 0 \notin Sessions
    /\ \A c \in Scenarios :
         /\ c.left \in [{"plan", "revise", "exit", "task", "refuse"} -> Nat]
         /\ c.present \subseteq Nat \ {0} /\ IsFiniteSet(c.present)

VARIABLES
    disk, kept,  \* plan files: on disk, and as committed
    state,       \* the JSON state file: what each session has saved
    plan,        \* the plan each session works on
    hook,        \* the hook process of each session
    approved,    \* plans that were shown to the user with ExitPlanMode
    finished,    \* last versions of approved plans a session has left behind
    overlapped,  \* a hook has started while one of another session ran
    refused,     \* git has refused a command
    left         \* the events still to come

shown == <<approved, finished>>
vars  == <<disk, kept, state, plan, hook, shown, overlapped, refused, left>>

\* A version of a plan: whose, of which /plan command, its slug, its revision,
\* and the todo list (a number, 0: none) the saved copy carries.
Version(s, p, slug, rev) == [by |-> s, p |-> p, slug |-> slug, rev |-> rev, todos |-> 0]
File(n, v) == [n |-> n, slug |-> v.slug, v |-> v]
Named(fs, n, slug) == {f \in fs : f.n = n /\ f.slug = slug}

Unknown == [n |-> 0, slug |-> "", done |-> FALSE, tasks |-> 0]
Idle == [pc |-> "idle", tool |-> "", v |-> Version(0, 0, "", 0), mem |-> <<>>, to |-> 0]
Nobody == \A s \in Sessions : hook[s].pc = "idle"

Init ==
    /\ \E c \in Scenarios :
         /\ left = c.left
         /\ disk = {File(n, Version(0, 0, "online_query", n)) : n \in c.present}
    /\ kept = disk /\ approved = {} /\ finished = {} /\ overlapped = FALSE /\ refused = FALSE
    /\ state = [s \in Sessions |-> Unknown]
    /\ plan = [s \in Sessions |-> Version(s, 0, "", 0)]
    /\ hook = [s \in Sessions |-> Idle]

(***************************************************************************)
(* Events of a session, each with the hook it starts.                      *)
(***************************************************************************)
Uses(what) == left[what] > 0 /\ left' = [left EXCEPT ![what] = @ - 1]

Starts(s, pc, tool, v) ==
    /\ hook[s].pc = "idle"
    /\ hook' = [hook EXCEPT ![s] = [Idle EXCEPT !.pc = pc, !.tool = tool, !.v = v]]
    /\ overlapped' = (overlapped \/ ~ Nobody)

Submits(s, tool, v) ==
    /\ Starts(s, "load", tool, v) /\ plan' = [plan EXCEPT ![s] = v]
    /\ UNCHANGED <<disk, kept, state, refused>>

\* The /plan command's first Write, a rewrite and an edit of the plan file;
\* the title may change with both.
NewPlan(s) ==
    /\ Uses("plan")
    /\ finished' = IF <<s, plan[s].p>> \in approved THEN finished \cup {plan[s]} ELSE finished
    /\ UNCHANGED approved
    /\ \E t \in Titles[s] : Submits(s, "Write", Version(s, left["plan"], t, left["plan"] * 10))

Revises(s, tool) ==
    /\ Uses("revise") /\ plan[s].p # 0 /\ UNCHANGED shown
    /\ \E t \in Titles[s] :
         Submits(s, tool, [plan[s] EXCEPT !.slug = t, !.rev = left["revise"]])

\* ExitPlanMode shows the plan to the user as it is.
ExitPlanMode(s) ==
    /\ Uses("exit") /\ plan[s].p # 0 /\ UNCHANGED finished
    /\ approved' = approved \cup {<<s, plan[s].p>>}
    /\ Submits(s, "ExitPlanMode", plan[s])

\* TaskCreate or TaskUpdate change the tracked list, TodoWrite sends all of it.
Task(s) ==
    /\ Uses("task") /\ Starts(s, "loadtasks", "Task", [plan[s] EXCEPT !.todos = left["task"]])
    /\ UNCHANGED <<disk, kept, state, plan, shown, refused>>

Todo(s) ==
    /\ Uses("task") /\ Starts(s, "apply", "Todo", [plan[s] EXCEPT !.todos = left["task"]])
    /\ UNCHANGED <<disk, kept, state, plan, shown, refused>>

(***************************************************************************)
(* Saving a plan.                                                          *)
(***************************************************************************)
At(s, pc) == hook[s].pc = pc
Goto(s, pc) == hook' = [hook EXCEPT ![s].pc = pc]
Rest == <<plan, shown, overlapped, refused, left>>

\* Mutant: "done" is not looked at.
KnownWhenDone(s, mem) == mem[s].n # 0

\* The session has a saved plan this event belongs to: a Write after the
\* approval is a new plan.
Known(s, mem) == mem[s].n # 0 /\ ~ (hook[s].tool = "Write" /\ mem[s].done)

\* An approval that brings nothing new only marks the plan as done.
Load(s) ==
    /\ At(s, "load")
    /\ LET mem  == state
           same == Known(s, mem) /\ \E f \in Named(disk, mem[s].n, mem[s].slug) : f.v = hook[s].v
       IN  hook' = [hook EXCEPT ![s].mem = mem, ![s].to = IF Known(s, mem) THEN mem[s].n ELSE 0,
               ![s].pc = IF ~ same THEN IF Known(s, mem) THEN "remove" ELSE "number"
                         ELSE IF hook[s].tool = "ExitPlanMode" THEN "done" ELSE "end"]
    /\ UNCHANGED <<disk, kept, state, Rest>>

\* Mutant: the number of files.
NextPrefixCount(files) == Cardinality(files) + 1

NextPrefix(files) == Max({0} \cup {f.n : f \in files}) + 1

Allocate(s) ==
    /\ At(s, "number")
    /\ hook' = [hook EXCEPT ![s].to = NextPrefix(disk), ![s].pc = "write"]
    /\ UNCHANGED <<disk, kept, state, Rest>>

\* Mutant: the old file is looked for by its number.
OldNameNumber(s) == {f \in disk \cup kept : f.n = hook[s].mem[s].n}

\* The name the session's plan had: git rm takes the file away when the title
\* has changed.
OldName(s) == IF Known(s, hook[s].mem) THEN Named(disk \cup kept, hook[s].mem[s].n, hook[s].mem[s].slug)
              ELSE {}
Renames(s) == Known(s, hook[s].mem) /\ hook[s].mem[s].slug # hook[s].v.slug

RemoveOld(s) ==
    /\ At(s, "remove")
    /\ disk' = IF Renames(s) THEN disk \ OldName(s) ELSE disk
    /\ Goto(s, "write")
    /\ UNCHANGED <<kept, state, Rest>>

Write(s) ==
    /\ At(s, "write")
    /\ disk' = (disk \ Named(disk, hook[s].to, hook[s].v.slug)) \cup {File(hook[s].to, hook[s].v)}
    /\ Goto(s, "commit")
    /\ UNCHANGED <<kept, state, Rest>>

\* git commit --only: all of the paths or none.  A path it has never heard of
\* (the old name, if nobody committed it) makes it fail.
Paths(s) ==
    {<<hook[s].to, hook[s].v.slug>>} \cup
      IF Renames(s) THEN {<<hook[s].to, hook[s].mem[s].slug>>} ELSE {}
PathKnown(p) == Named(disk \cup kept, p[1], p[2]) # {}
OnPaths(fs, ps) == {f \in fs : <<f.n, f.slug>> \in ps}

\* Mutant: the commit names the old path only.
CommittedOldOnly(ps) ==
    IF Cardinality(ps) = 1 THEN (kept \ OnPaths(kept, ps)) \cup OnPaths(disk, ps)
    ELSE kept \ OnPaths(kept, ps)

Committed(ps) ==
    IF \A p \in ps : PathKnown(p) THEN (kept \ OnPaths(kept, ps)) \cup OnPaths(disk, ps)
    ELSE kept

Commit(s) ==
    /\ At(s, "commit")
    /\ kept' = Committed(Paths(s))
    /\ Goto(s, "save")
    /\ UNCHANGED <<disk, state, Rest>>

\* The whole state as it was loaded, with this session's entry updated.
Save(s) ==
    /\ At(s, "save")
    /\ LET mem == [hook[s].mem EXCEPT ![s].n = hook[s].to, ![s].slug = hook[s].v.slug]
       IN  /\ state' = mem
           /\ hook' = [hook EXCEPT ![s].mem = mem,
                 ![s].pc = IF hook[s].tool = "ExitPlanMode" THEN "done" ELSE "end"]
    /\ UNCHANGED <<disk, kept, Rest>>

SaveDone(s) ==
    /\ At(s, "done")
    /\ state' = [hook[s].mem EXCEPT ![s].done = TRUE]
    /\ Goto(s, "end")
    /\ UNCHANGED <<disk, kept, Rest>>

End(s) ==
    /\ At(s, "end") /\ hook' = [hook EXCEPT ![s] = Idle]
    /\ UNCHANGED <<disk, kept, state, Rest>>

(***************************************************************************)
(* Putting the list of todos or tasks into the saved plan.                 *)
(***************************************************************************)
LoadTasks(s) ==
    /\ At(s, "loadtasks")
    /\ hook' = [hook EXCEPT ![s].pc = "savetasks",
                            ![s].mem = [state EXCEPT ![s].tasks = hook[s].v.todos]]
    /\ UNCHANGED <<disk, kept, state, Rest>>

SaveTasks(s) ==
    /\ At(s, "savetasks") /\ state' = hook[s].mem /\ Goto(s, "apply")
    /\ UNCHANGED <<disk, kept, Rest>>

\* The saved plan as read, with the list in its place; no plan, no list.
Apply(s) ==
    /\ At(s, "apply")
    /\ LET saved == Named(disk, state[s].n, state[s].slug)
       IN  IF saved = {} THEN hook' = [hook EXCEPT ![s] = Idle]
           ELSE hook' = [hook EXCEPT ![s].pc = "writelist", ![s].to = state[s].n,
                  ![s].v = [(CHOOSE f \in saved : TRUE).v EXCEPT !.todos = hook[s].v.todos]]
    /\ UNCHANGED <<disk, kept, state, Rest>>

WriteList(s) ==
    /\ At(s, "writelist")
    /\ disk' = (disk \ Named(disk, hook[s].to, hook[s].v.slug)) \cup {File(hook[s].to, hook[s].v)}
    /\ Goto(s, "commitlist")
    /\ UNCHANGED <<kept, state, Rest>>

CommitList(s) ==
    /\ At(s, "commitlist")
    /\ kept' = Committed({<<hook[s].to, hook[s].v.slug>>})
    /\ Goto(s, "end")
    /\ UNCHANGED <<disk, state, Rest>>

\* git refuses (another git process holds the index), and nobody notices.
GitRefuses(s) ==
    /\ Uses("refuse") /\ refused' = TRUE
    /\ \/ At(s, "commit") /\ Goto(s, "save")
       \/ At(s, "commitlist") /\ Goto(s, "end")
       \/ At(s, "remove") /\ Renames(s) /\ Goto(s, "write")
    /\ UNCHANGED <<disk, kept, state, plan, shown, overlapped>>

Step(s) ==
    \/ Load(s) \/ Allocate(s) \/ RemoveOld(s) \/ Write(s) \/ Commit(s) \/ Save(s)
    \/ SaveDone(s) \/ End(s) \/ LoadTasks(s) \/ SaveTasks(s) \/ Apply(s) \/ WriteList(s)
    \/ CommitList(s)

Next == \E s \in Sessions :
    \/ Step(s) \/ GitRefuses(s)
    \/ NewPlan(s) \/ Revises(s, "Write") \/ Revises(s, "Edit") \/ ExitPlanMode(s)
    \/ Task(s) \/ Todo(s)

Spec == Init /\ [][Next]_vars

(***************************************************************************)
(* Properties                                                              *)
(***************************************************************************)
Lucky == ~ overlapped /\ ~ refused
Sequential == Nobody /\ Lucky
Plain(v) == [v EXCEPT !.todos = 0]

\* An approved plan stays, on disk and committed, with its final text, whatever
\* plans the session makes later (each of which begins with a Write).
FinishedPlansStay ==
    Sequential => \A v \in finished : \E f \in disk \cap kept : Plain(f.v) = v

\* The newest version a session submitted is on disk and committed once its
\* hook has ended, and nothing of the older names is left behind.
NewestSaved ==
    Sequential => \A s \in Sessions : plan[s].p # 0 =>
        /\ \E f \in disk \cap kept : Plain(f.v) = plan[s]
        /\ disk = kept

\* A number stands for one plan file.
NumbersDistinct ==
    Lucky => \A f, g \in disk : f.n = g.n => f = g

\* Even when hooks overlap, and git refuses, a session's hook never removes or
\* changes the plan file of another session.
OthersStay ==
    [][\A f \in disk \ disk' : \E s \in Sessions : f.v.by = s /\ hook[s] # hook'[s]]_vars

=============================================================================
