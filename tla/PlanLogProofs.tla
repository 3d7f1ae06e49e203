--------------------------- MODULE PlanLogProofs ---------------------------
(***************************************************************************)
(* Safety of the plan log for any number of sessions, whatever titles they *)
(* give their plans, and however many events they raise.                   *)
(***************************************************************************)
EXTENDS PlanLog, NaturalBounds

-----------------------------------------------------------------------------
(* Types.                                                                  *)

Kinds == {"plan", "revise", "exit", "task", "refuse"}
Slugs == {"", "online_query"} \cup UNION {Titles[s] : s \in Sessions}
Versions == [by : Sessions \cup {0}, p : Nat, slug : Slugs, rev : Nat, todos : Nat]
Files == {f \in [n : Nat \ {0}, slug : Slugs, v : Versions] : f.slug = f.v.slug}
Entries == [n : Nat, slug : Slugs, done : BOOLEAN, tasks : Nat]
States == [Sessions -> Entries]

\* Where a hook is that saves a plan, and one that puts a list into it.
Saving == {"load", "number", "remove", "write", "commit", "save", "done"}
Listing == {"loadtasks", "savetasks", "apply", "writelist", "commitlist"}
Hooks == [pc : {"idle", "end"} \cup Saving \cup Listing,
          tool : {"", "Write", "Edit", "ExitPlanMode", "Task", "Todo"},
          v : Versions, mem : States \cup {<<>>}, to : Nat]

\* What a hook has in hand, by where it is.
Loaded == {"number", "remove", "write", "commit", "save", "done", "savetasks"}
Named0(h) == h.pc \in {"remove", "write", "commit", "save", "writelist", "commitlist"}
InHand(h) ==
    /\ h.pc \in Loaded => h.mem \in States
    /\ Named0(h) => h.to # 0

Typed ==
    /\ disk \subseteq Files /\ kept \subseteq Files
    /\ \E top \in Nat : \A f \in disk : f.n <= top
    /\ state \in States
    /\ plan \in [Sessions -> Versions]
    /\ hook \in [Sessions -> Hooks] /\ \A s \in Sessions : InHand(hook[s])
    /\ approved \subseteq Sessions \X Nat
    /\ finished \subseteq Versions
    /\ overlapped \in BOOLEAN /\ refused \in BOOLEAN
    /\ left \in [Kinds -> Nat]

LEMMA IdleTyped == Idle \in Hooks /\ Idle.pc = "idle"
<1>1. Version(0, 0, "", 0) \in Versions
  BY DEF Version, Versions, Slugs
<1> QED BY <1>1 DEF Idle, Hooks

LEMMA InitTyped == Init => Typed
<1> SUFFICES ASSUME Init PROVE Typed
  OBVIOUS
<1>1. PICK c \in Scenarios :
        /\ left = c.left
        /\ disk = {File(n, Version(0, 0, "online_query", n)) : n \in c.present}
  BY DEF Init
<1>2. left \in [Kinds -> Nat]
  BY <1>1, PlanLogAssumption DEF Kinds
<1>3. \A n \in Nat \ {0} : File(n, Version(0, 0, "online_query", n)) \in Files
  BY DEF File, Version, Files, Versions, Slugs
<1>4. disk \subseteq Files /\ kept = disk
  BY <1>1, <1>3, PlanLogAssumption DEF Init
<1>5. \E top \in Nat : \A f \in disk : f.n <= top
  <2>1. PICK top \in Nat : \A n \in c.present : n <= top
    BY PlanLogAssumption, Bounded
  <2>2. \A f \in disk : f.n \in c.present
    BY <1>1 DEF File
  <2> QED BY <2>1, <2>2
<1>6. state \in States
  BY DEF Init, Unknown, States, Entries, Slugs
<1>7. plan \in [Sessions -> Versions]
  BY DEF Init, Version, Versions, Slugs
<1>8. hook \in [Sessions -> Hooks] /\ \A s \in Sessions : InHand(hook[s])
  BY IdleTyped DEF Init, InHand, Named0, Loaded
<1> QED BY <1>2, <1>4, <1>5, <1>6, <1>7, <1>8 DEF Init, Typed

-----------------------------------------------------------------------------
(* What each step does to the hooks.                                       *)

Places == {"idle", "end"} \cup Saving \cup Listing

\* The hook of one session moves on, and has now these fields.
Becomes(s, pc, tool, v, mem, to) ==
    /\ hook' \in [Sessions -> Hooks]
    /\ \A t \in Sessions : t # s => hook'[t] = hook[t]
    /\ hook'[s].pc = pc /\ hook'[s].tool = tool /\ hook'[s].v = v
    /\ hook'[s].mem = mem /\ hook'[s].to = to

LEMMA OneMoves ==
  ASSUME Typed, NEW s \in Sessions, NEW h \in Hooks, hook' = [hook EXCEPT ![s] = h]
  PROVE  Becomes(s, h.pc, h.tool, h.v, h.mem, h.to)
BY DEF Typed, Becomes

LEMMA Goes ==
  ASSUME Typed, NEW s \in Sessions, NEW pc \in Places, Goto(s, pc)
  PROVE  Becomes(s, pc, hook[s].tool, hook[s].v, hook[s].mem, hook[s].to)
<1> DEFINE h == [hook[s] EXCEPT !.pc = pc]
<1>1. /\ h \in Hooks /\ h.pc = pc /\ h.tool = hook[s].tool /\ h.v = hook[s].v
      /\ h.mem = hook[s].mem /\ h.to = hook[s].to
  BY DEF Typed, Hooks, Places
<1>2. hook' = [hook EXCEPT ![s] = h]
  BY DEF Goto
<1> HIDE DEF h
<1>3. Becomes(s, h.pc, h.tool, h.v, h.mem, h.to)
  BY <1>1, <1>2, OneMoves
<1> QED BY <1>1, <1>3

LEMMA Begins ==
  ASSUME Typed, NEW s \in Sessions, NEW pc \in Places, NEW v \in Versions,
         NEW tool \in {"", "Write", "Edit", "ExitPlanMode", "Task", "Todo"},
         Starts(s, pc, tool, v)
  PROVE  Becomes(s, pc, tool, v, <<>>, 0) /\ hook[s].pc = "idle" /\ overlapped' \in BOOLEAN
<1> DEFINE h == [Idle EXCEPT !.pc = pc, !.tool = tool, !.v = v]
<1>1. /\ h \in Hooks /\ h.pc = pc /\ h.tool = tool /\ h.v = v /\ h.mem = <<>> /\ h.to = 0
  BY DEF Idle, Hooks, Places
<1>2. hook' = [hook EXCEPT ![s] = h] /\ hook[s].pc = "idle"
  BY DEF Starts
<1>3. overlapped' \in BOOLEAN
  BY DEF Starts, Typed
<1> HIDE DEF h
<1>4. Becomes(s, h.pc, h.tool, h.v, h.mem, h.to)
  BY <1>1, <1>2, OneMoves
<1> QED BY <1>1, <1>2, <1>3, <1>4

LEMMA Stops ==
  ASSUME Typed, NEW s \in Sessions, hook' = [hook EXCEPT ![s] = Idle]
  PROVE  Becomes(s, "idle", "", Version(0, 0, "", 0), <<>>, 0)
<1>1. Becomes(s, Idle.pc, Idle.tool, Idle.v, Idle.mem, Idle.to)
  BY IdleTyped, OneMoves
<1> QED BY <1>1 DEF Idle

\* The plan that is saved already is the one the hook is about.
Unchanged(s) ==
    Known(s, state) /\ \E f \in Named(disk, state[s].n, state[s].slug) : f.v = hook[s].v

LEMMA LoadMoves ==
  ASSUME Typed, NEW s \in Sessions, Load(s)
  PROVE  Becomes(s, IF ~ Unchanged(s) THEN IF Known(s, state) THEN "remove" ELSE "number"
                    ELSE IF hook[s].tool = "ExitPlanMode" THEN "done" ELSE "end",
                 hook[s].tool, hook[s].v, state, IF Known(s, state) THEN state[s].n ELSE 0)
<1> DEFINE pc == IF ~ Unchanged(s) THEN IF Known(s, state) THEN "remove" ELSE "number"
                 ELSE IF hook[s].tool = "ExitPlanMode" THEN "done" ELSE "end"
           to == IF Known(s, state) THEN state[s].n ELSE 0
           h == [hook[s] EXCEPT !.mem = state, !.to = to, !.pc = pc]
<1>1. hook' = [hook EXCEPT ![s].mem = state, ![s].to = to, ![s].pc = pc]
  BY DEF Load, Unchanged
<1>2. pc \in Places /\ to \in Nat /\ hook[s] \in Hooks /\ state \in States
  BY DEF Typed, States, Entries, Saving, Places
<1> HIDE DEF pc, to
<1>3. /\ h \in Hooks /\ h.pc = pc /\ h.to = to /\ h.mem = state /\ h.tool = hook[s].tool
      /\ h.v = hook[s].v
  BY <1>2 DEF Hooks, Places
<1>4. hook' = [hook EXCEPT ![s] = h]
  BY <1>1, <1>2 DEF Typed, Hooks
<1> HIDE DEF h
<1>5. Becomes(s, h.pc, h.tool, h.v, h.mem, h.to)
  BY <1>3, <1>4, OneMoves
<1> QED BY <1>3, <1>5 DEF pc, to

LEMMA AllocateMoves ==
  ASSUME Typed, NEW s \in Sessions, Allocate(s)
  PROVE  /\ NextPrefix(disk) \in Nat \ {0} /\ \A f \in disk : f.n # NextPrefix(disk)
         /\ Becomes(s, "write", hook[s].tool, hook[s].v, hook[s].mem, NextPrefix(disk))
<1> DEFINE S == {0} \cup {f.n : f \in disk}
<1>1. S \in SUBSET Nat /\ S # {}
  BY DEF Typed, Files
<1>2. PICK top \in Nat : \A n \in S : n <= top
  <2>1. PICK top \in Nat : \A f \in disk : f.n <= top
    BY DEF Typed
  <2> QED BY <2>1
<1>3. Max(S) \in S /\ \A n \in S : n <= Max(S)
  <2> HIDE DEF S
  <2>1. \E u \in S : \A n \in S : n <= u
    BY <1>1, <1>2, Greatest
  <2>2. \E u \in S : \A n \in S : u >= n
    BY <1>1, <2>1
  <2>3. Max(S) = CHOOSE u \in S : \A n \in S : u >= n
    BY DEF Max
  <2>4. Max(S) \in S /\ \A n \in S : Max(S) >= n
    BY <2>2, <2>3
  <2> QED BY <1>1, <2>4
<1>4. NextPrefix(disk) = Max(S) + 1
  BY DEF NextPrefix
<1>5. NextPrefix(disk) \in Nat \ {0} /\ \A n \in S : n # NextPrefix(disk)
  <2> HIDE DEF S
  <2>1. PICK m \in Nat : m = Max(S)
    BY <1>1, <1>3
  <2>2. \A n \in S : n \in Nat /\ n <= m
    BY <1>1, <1>3, <2>1
  <2>3. m + 1 \in Nat \ {0} /\ \A n \in S : n # m + 1
    BY <2>2
  <2> QED BY <1>4, <2>1, <2>3
<1>6. \A f \in disk : f.n # NextPrefix(disk)
  BY <1>5
<1> DEFINE to == NextPrefix(disk)
           h == [hook[s] EXCEPT !.to = to, !.pc = "write"]
<1>7. hook' = [hook EXCEPT ![s].to = to, ![s].pc = "write"]
  BY DEF Allocate
<1>8. to \in Nat /\ hook[s] \in Hooks
  BY <1>5 DEF Typed
<1> HIDE DEF to
<1>9. /\ h \in Hooks /\ h.pc = "write" /\ h.to = to /\ h.mem = hook[s].mem
      /\ h.tool = hook[s].tool /\ h.v = hook[s].v
  BY <1>8 DEF Hooks, Saving
<1>10. hook' = [hook EXCEPT ![s] = h]
  BY <1>7, <1>8 DEF Typed, Hooks
<1> HIDE DEF h
<1>11. Becomes(s, h.pc, h.tool, h.v, h.mem, h.to)
  BY <1>9, <1>10, OneMoves
<1> QED BY <1>5, <1>6, <1>9, <1>11 DEF to

\* The entry of the session itself, with the plan's name; the others' as loaded.
LEMMA SaveMoves ==
  ASSUME Typed, NEW s \in Sessions, Save(s)
  PROVE  /\ Becomes(s, IF hook[s].tool = "ExitPlanMode" THEN "done" ELSE "end",
                    hook[s].tool, hook[s].v, state', hook[s].to)
         /\ state' \in States /\ \A t \in Sessions : t # s => state'[t] = hook[s].mem[t]
         /\ state'[s].n = hook[s].to /\ state'[s].slug = hook[s].v.slug
         /\ state'[s].done = hook[s].mem[s].done
<1> DEFINE mem == [hook[s].mem EXCEPT ![s].n = hook[s].to, ![s].slug = hook[s].v.slug]
           pc == IF hook[s].tool = "ExitPlanMode" THEN "done" ELSE "end"
           h == [hook[s] EXCEPT !.mem = mem, !.pc = pc]
           entry == [hook[s].mem[s] EXCEPT !.n = hook[s].to, !.slug = hook[s].v.slug]
<1>1. state' = mem /\ hook' = [hook EXCEPT ![s].mem = mem, ![s].pc = pc]
  BY DEF Save
<1>2. /\ hook[s] \in Hooks /\ hook[s].mem \in States /\ hook[s].to \in Nat
      /\ hook[s].v.slug \in Slugs
  BY DEF Typed, InHand, Loaded, Save, At, Hooks, Versions
<1>3. /\ entry \in Entries /\ entry.n = hook[s].to /\ entry.slug = hook[s].v.slug
      /\ entry.done = hook[s].mem[s].done
  BY <1>2 DEF States, Entries
<1>4. mem = [hook[s].mem EXCEPT ![s] = entry]
  BY <1>2 DEF States, Entries
<1> HIDE DEF mem, entry
<1>5. mem \in States /\ mem[s] = entry /\ \A t \in Sessions : t # s => mem[t] = hook[s].mem[t]
  BY <1>2, <1>3, <1>4 DEF States
<1>6. pc \in Places
  BY DEF Places, Saving
<1> HIDE DEF pc
<1>7. /\ h \in Hooks /\ h.pc = pc /\ h.to = hook[s].to /\ h.mem = mem
      /\ h.tool = hook[s].tool /\ h.v = hook[s].v
  BY <1>2, <1>5, <1>6 DEF Hooks, Places
<1>8. hook' = [hook EXCEPT ![s] = h]
  BY <1>1, <1>2 DEF Typed, Hooks
<1> HIDE DEF h
<1>9. Becomes(s, h.pc, h.tool, h.v, h.mem, h.to)
  BY <1>7, <1>8, OneMoves
<1> QED BY <1>1, <1>3, <1>5, <1>7, <1>9 DEF pc

LEMMA SaveDoneMoves ==
  ASSUME Typed, NEW s \in Sessions, SaveDone(s)
  PROVE  /\ Becomes(s, "end", hook[s].tool, hook[s].v, hook[s].mem, hook[s].to)
         /\ state' \in States /\ \A t \in Sessions : t # s => state'[t] = hook[s].mem[t]
         /\ state'[s].n = hook[s].mem[s].n /\ state'[s].slug = hook[s].mem[s].slug
         /\ state'[s].done
<1> DEFINE entry == [hook[s].mem[s] EXCEPT !.done = TRUE]
<1>1. hook[s].mem \in States
  BY DEF Typed, InHand, Loaded, SaveDone, At
<1>2. /\ entry \in Entries /\ entry.n = hook[s].mem[s].n /\ entry.slug = hook[s].mem[s].slug
      /\ entry.done = TRUE
  BY <1>1 DEF States, Entries
<1>3. state' = [hook[s].mem EXCEPT ![s] = entry]
  BY DEF SaveDone
<1> HIDE DEF entry
<1>4. /\ state' \in States /\ state'[s] = entry
      /\ \A t \in Sessions : t # s => state'[t] = hook[s].mem[t]
  BY <1>1, <1>2, <1>3 DEF States
<1>5. Becomes(s, "end", hook[s].tool, hook[s].v, hook[s].mem, hook[s].to)
  BY Goes DEF SaveDone, Places
<1> QED BY <1>2, <1>4, <1>5

LEMMA LoadTasksMoves ==
  ASSUME Typed, NEW s \in Sessions, LoadTasks(s)
  PROVE  LET mem == [state EXCEPT ![s].tasks = hook[s].v.todos]
         IN  /\ Becomes(s, "savetasks", hook[s].tool, hook[s].v, mem, hook[s].to)
             /\ mem \in States
             /\ \A t \in Sessions : /\ mem[t].n = state[t].n /\ mem[t].slug = state[t].slug
                                    /\ mem[t].done = state[t].done
<1> DEFINE mem == [state EXCEPT ![s].tasks = hook[s].v.todos]
           entry == [state[s] EXCEPT !.tasks = hook[s].v.todos]
           h == [hook[s] EXCEPT !.pc = "savetasks", !.mem = mem]
<1>1. hook[s] \in Hooks /\ state \in States /\ hook[s].v.todos \in Nat
  BY DEF Typed, Hooks, Versions
<1>2. /\ entry \in Entries /\ entry.n = state[s].n /\ entry.slug = state[s].slug
      /\ entry.done = state[s].done
  BY <1>1 DEF States, Entries
<1>3. mem = [state EXCEPT ![s] = entry] /\ hook' = [hook EXCEPT ![s].pc = "savetasks", ![s].mem = mem]
  BY DEF LoadTasks
<1> HIDE DEF entry, mem
<1>4. mem \in States /\ mem[s] = entry /\ \A t \in Sessions : t # s => mem[t] = state[t]
  BY <1>1, <1>2, <1>3 DEF States
<1>5. /\ h \in Hooks /\ h.pc = "savetasks" /\ h.to = hook[s].to /\ h.mem = mem
      /\ h.tool = hook[s].tool /\ h.v = hook[s].v
  BY <1>1, <1>4 DEF Hooks, Listing
<1>6. hook' = [hook EXCEPT ![s] = h]
  BY <1>1, <1>3 DEF Typed, Hooks
<1> HIDE DEF h
<1>7. Becomes(s, h.pc, h.tool, h.v, h.mem, h.to)
  BY <1>5, <1>6, OneMoves
<1>8. /\ Becomes(s, "savetasks", hook[s].tool, hook[s].v, mem, hook[s].to)
      /\ mem \in States
      /\ \A t \in Sessions : /\ mem[t].n = state[t].n /\ mem[t].slug = state[t].slug
                             /\ mem[t].done = state[t].done
  BY <1>2, <1>4, <1>5, <1>7
<1> QED BY <1>8 DEF mem

\* With a saved plan on disk, the hook is about that plan with the list in it.
LEMMA ApplyMoves ==
  ASSUME Typed, NEW s \in Sessions, Apply(s)
  PROVE  \/ Becomes(s, "idle", "", Version(0, 0, "", 0), <<>>, 0)
         \/ \E f \in Named(disk, state[s].n, state[s].slug), v \in Versions :
              /\ v.by = f.v.by /\ v.slug = f.v.slug /\ Plain(v) = Plain(f.v)
              /\ Becomes(s, "writelist", hook[s].tool, v, hook[s].mem, state[s].n)
<1> DEFINE saved == Named(disk, state[s].n, state[s].slug)
<1>1. CASE saved = {}
  BY <1>1, Stops DEF Apply
<1>2. CASE saved # {}
  <2> DEFINE f == CHOOSE g \in saved : TRUE
             v == [f.v EXCEPT !.todos = hook[s].v.todos]
             h == [hook[s] EXCEPT !.pc = "writelist", !.to = state[s].n, !.v = v]
  <2>1. f \in saved
    BY <1>2
  <2>2. hook' = [hook EXCEPT ![s].pc = "writelist", ![s].to = state[s].n, ![s].v = v]
    BY <1>2 DEF Apply
  <2> HIDE DEF f
  <2>3. f.v \in Versions /\ hook[s].v.todos \in Nat /\ hook[s] \in Hooks /\ state[s].n \in Nat
    BY <2>1 DEF Typed, Named, Files, Hooks, Versions, States, Entries
  <2>4. v \in Versions /\ v.by = f.v.by /\ v.slug = f.v.slug /\ Plain(v) = Plain(f.v)
    BY <2>3 DEF Versions, Plain
  <2> HIDE DEF v
  <2>5. /\ h \in Hooks /\ h.pc = "writelist" /\ h.to = state[s].n /\ h.mem = hook[s].mem
        /\ h.tool = hook[s].tool /\ h.v = v
    BY <2>3, <2>4 DEF Hooks, Listing
  <2>6. hook' = [hook EXCEPT ![s] = h]
    BY <2>2, <2>3 DEF Typed, Hooks
  <2> HIDE DEF h, saved
  <2>7. Becomes(s, h.pc, h.tool, h.v, h.mem, h.to)
    BY <2>5, <2>6, OneMoves
  <2>8. Becomes(s, "writelist", hook[s].tool, v, hook[s].mem, state[s].n)
    BY <2>5, <2>7
  <2>9. f \in Named(disk, state[s].n, state[s].slug)
    BY <2>1 DEF saved
  <2> QED BY <2>4, <2>8, <2>9
<1> QED BY <1>1, <1>2

-----------------------------------------------------------------------------
(* What the events do.                                                     *)

LEMMA Used ==
  ASSUME Typed, NEW what \in Kinds, Uses(what)
  PROVE  /\ left' \in [Kinds -> Nat] /\ left[what] \in Nat \ {0}
         /\ left["plan"] \in Nat /\ left'["plan"] \in Nat
         /\ left'["plan"] = IF what = "plan" THEN left["plan"] - 1 ELSE left["plan"]
BY DEF Typed, Uses, Kinds

\* A session with no hook at work submits a version of its plan.
Submitted(s, tool, v) ==
    /\ v \in Versions /\ v.by = plan'[s].by /\ v.p # 0
    /\ hook[s].pc = "idle" /\ Becomes(s, "load", tool, v, <<>>, 0)
    /\ plan' = [plan EXCEPT ![s] = v] /\ overlapped' = (overlapped \/ ~ Nobody)
    /\ UNCHANGED <<disk, kept, state, refused>>

LEMMA SubmitMoves ==
  ASSUME Typed, NEW s \in Sessions, NEW v \in Versions, v.p # 0,
         NEW tool \in {"Write", "Edit", "ExitPlanMode"}, Submits(s, tool, v)
  PROVE  Submitted(s, tool, v)
<1>1. Becomes(s, "load", tool, v, <<>>, 0) /\ hook[s].pc = "idle"
  BY Begins DEF Submits, Places, Saving
<1> QED BY <1>1 DEF Submits, Starts, Submitted, Typed

LEMMA NewPlanMoves ==
  ASSUME Typed, NEW s \in Sessions, NewPlan(s)
  PROVE  \E v : /\ Submitted(s, "Write", v)
                /\ v.by = s /\ v.todos = 0 /\ v.slug \in Titles[s] /\ v.p = left["plan"]
                /\ left' \in [Kinds -> Nat] /\ left["plan"] \in Nat /\ left["plan"] # 0
                /\ left'["plan"] = left["plan"] - 1 /\ approved' = approved
                /\ finished' = IF <<s, plan[s].p>> \in approved THEN finished \cup {plan[s]}
                               ELSE finished
<1>1. /\ left' \in [Kinds -> Nat] /\ left["plan"] \in Nat \ {0}
      /\ left'["plan"] = left["plan"] - 1
  BY Used DEF NewPlan, Kinds
<1>2. PICK t \in Titles[s] : Submits(s, "Write", Version(s, left["plan"], t, left["plan"] * 10))
  BY DEF NewPlan
<1> DEFINE v == Version(s, left["plan"], t, left["plan"] * 10)
<1>3. left["plan"] * 10 \in Nat
  BY <1>1
<1>4. v \in Versions /\ v.by = s /\ v.todos = 0 /\ v.slug = t /\ v.p = left["plan"]
  BY <1>1, <1>3 DEF Version, Versions, Slugs
<1> HIDE DEF v
<1>5. Submitted(s, "Write", v)
  BY <1>1, <1>2, <1>4, SubmitMoves DEF v
<1> QED BY <1>1, <1>4, <1>5 DEF NewPlan

LEMMA RevisesMoves ==
  ASSUME Typed, NEW s \in Sessions, NEW tool \in {"Write", "Edit"}, Revises(s, tool)
  PROVE  \E v : /\ Submitted(s, tool, v)
                /\ v.by = plan[s].by /\ v.todos = plan[s].todos /\ v.slug \in Titles[s]
                /\ v.p = plan[s].p /\ UNCHANGED <<approved, finished>>
                /\ left' \in [Kinds -> Nat] /\ left'["plan"] = left["plan"]
<1>1. left' \in [Kinds -> Nat] /\ left["revise"] \in Nat /\ left'["plan"] = left["plan"]
  BY Used DEF Revises, Kinds
<1>2. PICK t \in Titles[s] :
        Submits(s, tool, [plan[s] EXCEPT !.slug = t, !.rev = left["revise"]])
  BY DEF Revises
<1> DEFINE v == [plan[s] EXCEPT !.slug = t, !.rev = left["revise"]]
<1>3. /\ v \in Versions /\ v.by = plan[s].by /\ v.todos = plan[s].todos /\ v.slug = t
      /\ v.p = plan[s].p
  BY <1>1 DEF Typed, Versions, Slugs
<1> HIDE DEF v
<1>4. Submitted(s, tool, v)
  BY <1>2, <1>3, SubmitMoves DEF v, Revises
<1> QED BY <1>1, <1>3, <1>4 DEF Revises, shown

LEMMA ExitMoves ==
  ASSUME Typed, NEW s \in Sessions, ExitPlanMode(s)
  PROVE  /\ Submitted(s, "ExitPlanMode", plan[s]) /\ plan' = plan
         /\ approved' = approved \cup {<<s, plan[s].p>>} /\ finished' = finished
         /\ left' \in [Kinds -> Nat] /\ left'["plan"] = left["plan"]
<1>1. left' \in [Kinds -> Nat] /\ left'["plan"] = left["plan"]
  BY Used DEF ExitPlanMode, Kinds
<1>2. plan[s] \in Versions
  BY DEF Typed
<1>3. Submitted(s, "ExitPlanMode", plan[s])
  BY <1>2, SubmitMoves DEF ExitPlanMode
<1>4. plan' = plan
  BY <1>3 DEF Typed, Submitted
<1> QED BY <1>1, <1>3, <1>4 DEF ExitPlanMode

\* A list comes: the hook is about the plan with the list in it.
LEMMA ListMoves ==
  ASSUME Typed, NEW s \in Sessions, Task(s) \/ Todo(s)
  PROVE  \E v \in Versions, tool \in {"Task", "Todo"}, pc \in {"loadtasks", "apply"} :
           /\ hook[s].pc = "idle" /\ Becomes(s, pc, tool, v, <<>>, 0)
           /\ overlapped' = (overlapped \/ ~ Nobody)
           /\ UNCHANGED <<disk, kept, state, plan, approved, finished, refused>>
           /\ left' \in [Kinds -> Nat] /\ left'["plan"] = left["plan"]
<1>1. left' \in [Kinds -> Nat] /\ left["task"] \in Nat /\ left'["plan"] = left["plan"]
  BY Used DEF Task, Todo, Kinds
<1> DEFINE v == [plan[s] EXCEPT !.todos = left["task"]]
<1>2. v \in Versions
  BY <1>1 DEF Typed, Versions
<1>3. PICK tool \in {"Task", "Todo"}, pc \in {"loadtasks", "apply"} : Starts(s, pc, tool, v)
  BY DEF Task, Todo
<1> HIDE DEF v
<1>4. Becomes(s, pc, tool, v, <<>>, 0) /\ hook[s].pc = "idle"
  BY <1>2, <1>3, Begins DEF Places, Listing
<1> QED BY <1>1, <1>2, <1>3, <1>4 DEF Task, Todo, Starts, shown

-----------------------------------------------------------------------------
(* Types are kept.                                                         *)

\* A plan file is written in the place of the one of its name.
Written(s) ==
    (disk \ Named(disk, hook[s].to, hook[s].v.slug)) \cup {File(hook[s].to, hook[s].v)}

LEMMA WrittenTyped ==
  ASSUME Typed, NEW s \in Sessions, hook[s].to # 0
  PROVE  /\ File(hook[s].to, hook[s].v) \in Files /\ Written(s) \subseteq Files
         /\ File(hook[s].to, hook[s].v).n = hook[s].to
         /\ File(hook[s].to, hook[s].v).slug = hook[s].v.slug
         /\ File(hook[s].to, hook[s].v).v = hook[s].v
         /\ \E top \in Nat : \A f \in Written(s) : f.n <= top
<1>1. hook[s].to \in Nat \ {0} /\ hook[s].v \in Versions /\ hook[s].v.slug \in Slugs
  BY DEF Typed, Hooks, Versions
<1> DEFINE g == File(hook[s].to, hook[s].v)
<1>2. g \in Files /\ g.n = hook[s].to /\ g.slug = hook[s].v.slug /\ g.v = hook[s].v
  BY <1>1 DEF File, Files
<1> HIDE DEF g
<1>3. PICK top \in Nat : \A f \in disk : f.n <= top
  BY DEF Typed
<1>4. \A f \in disk : f.n \in Nat
  BY DEF Typed, Files
<1>5. PICK high \in Nat : top <= high /\ hook[s].to <= high
  BY <1>1
<1>6. \A f \in Written(s) : f \in disk \/ f = g
  BY DEF Written, g
<1>7. \A f \in Written(s) : f.n <= high
  BY <1>1, <1>2, <1>3, <1>4, <1>5, <1>6
<1>8. Written(s) \subseteq Files
  BY <1>2, <1>6 DEF Typed
<1> QED BY <1>2, <1>7, <1>8 DEF g

LEMMA CommittedTyped == Typed => \A ps : Committed(ps) \subseteq Files
BY DEF Typed, Committed, OnPaths

\* A step that changes one hook, with its type, and nothing else but the disk.
LEMMA HookTyped ==
  ASSUME Typed, NEW s \in Sessions, NEW pc, NEW tool, NEW v, NEW mem, NEW to,
         Becomes(s, pc, tool, v, mem, to),
         pc \in Loaded => mem \in States,
         pc \in {"remove", "write", "commit", "save", "writelist", "commitlist"} => to # 0
  PROVE  hook' \in [Sessions -> Hooks] /\ \A t \in Sessions : InHand(hook'[t])
BY DEF Typed, Becomes, InHand, Named0

LEMMA StepTyped ==
  ASSUME Typed, NEW s \in Sessions, Step(s) \/ GitRefuses(s)
  PROVE  Typed'
<1>0. InHand(hook[s]) /\ hook[s] \in Hooks
  BY DEF Typed
<1>1. CASE Load(s)
  <2>1. state \in States
    BY DEF Typed
  <2>2. Known(s, state) => state[s].n # 0
    BY DEF Known
  <2>3. hook' \in [Sessions -> Hooks] /\ \A t \in Sessions : InHand(hook'[t])
    BY <1>1, <2>1, <2>2, LoadMoves, HookTyped
  <2> QED BY <1>1, <2>3 DEF Load, Rest, shown, Typed
<1>2. CASE Allocate(s)
  <2>1. hook' \in [Sessions -> Hooks] /\ \A t \in Sessions : InHand(hook'[t])
    BY <1>0, <1>2, AllocateMoves, HookTyped DEF Allocate, At, InHand, Loaded
  <2> QED BY <1>2, <2>1 DEF Allocate, Rest, shown, Typed
<1>3. CASE RemoveOld(s)
  <2>1. Goto(s, "write") /\ "write" \in Places /\ hook[s].pc = "remove"
    BY <1>3 DEF RemoveOld, At, Places, Saving
  <2>2. hook' \in [Sessions -> Hooks] /\ \A t \in Sessions : InHand(hook'[t])
    BY <1>0, <2>1, Goes, HookTyped DEF InHand, Loaded, Named0
  <2>3. disk' \subseteq disk
    BY <1>3 DEF RemoveOld
  <2> QED BY <1>3, <2>2, <2>3 DEF RemoveOld, Rest, shown, Typed
<1>4. CASE Write(s)
  <2>1. Goto(s, "commit") /\ "commit" \in Places /\ hook[s].pc = "write" /\ hook[s].to # 0
    BY <1>0, <1>4 DEF Write, At, Places, Saving, InHand, Named0
  <2>2. hook' \in [Sessions -> Hooks] /\ \A t \in Sessions : InHand(hook'[t])
    BY <1>0, <2>1, Goes, HookTyped DEF InHand, Loaded, Named0
  <2>3. disk' = Written(s)
    BY <1>4 DEF Write, Written
  <2> QED BY <1>4, <2>1, <2>2, <2>3, WrittenTyped DEF Write, Rest, shown, Typed
<1>5. CASE Commit(s)
  <2>1. Goto(s, "save") /\ "save" \in Places /\ hook[s].pc = "commit"
    BY <1>5 DEF Commit, At, Places, Saving
  <2>2. hook' \in [Sessions -> Hooks] /\ \A t \in Sessions : InHand(hook'[t])
    BY <1>0, <2>1, Goes, HookTyped DEF InHand, Loaded, Named0
  <2> QED BY <1>5, <2>2, CommittedTyped DEF Commit, Rest, shown, Typed
<1>6. CASE Save(s)
  <2>1. hook' \in [Sessions -> Hooks] /\ \A t \in Sessions : InHand(hook'[t])
    BY <1>6, SaveMoves, HookTyped
  <2> QED BY <1>6, <2>1, SaveMoves DEF Save, Rest, shown, Typed
<1>7. CASE SaveDone(s)
  <2>1. hook' \in [Sessions -> Hooks] /\ \A t \in Sessions : InHand(hook'[t])
    BY <1>7, SaveDoneMoves, HookTyped DEF Loaded
  <2> QED BY <1>7, <2>1, SaveDoneMoves DEF SaveDone, Rest, shown, Typed
<1>8. CASE End(s)
  <2>1. hook' \in [Sessions -> Hooks] /\ \A t \in Sessions : InHand(hook'[t])
    BY <1>8, Stops, HookTyped DEF End, Loaded
  <2> QED BY <1>8, <2>1 DEF End, Rest, shown, Typed
<1>9. CASE LoadTasks(s)
  <2> DEFINE mem == [state EXCEPT ![s].tasks = hook[s].v.todos]
  <2>2. Becomes(s, "savetasks", hook[s].tool, hook[s].v, mem, hook[s].to) /\ mem \in States
    BY <1>9, LoadTasksMoves
  <2> HIDE DEF mem
  <2>1. hook' \in [Sessions -> Hooks] /\ \A t \in Sessions : InHand(hook'[t])
    BY <2>2, HookTyped
  <2> QED BY <1>9, <2>1 DEF LoadTasks, Rest, shown, Typed
<1>10. CASE SaveTasks(s)
  <2>1. Goto(s, "apply") /\ "apply" \in Places /\ hook[s].pc = "savetasks"
    BY <1>10 DEF SaveTasks, At, Places, Listing
  <2>2. hook' \in [Sessions -> Hooks] /\ \A t \in Sessions : InHand(hook'[t])
    BY <2>1, Goes, HookTyped DEF Loaded
  <2>3. state' \in States
    BY <1>0, <1>10, <2>1 DEF SaveTasks, InHand, Loaded
  <2> QED BY <1>10, <2>2, <2>3 DEF SaveTasks, Rest, shown, Typed
<1>11. CASE Apply(s)
  <2>1. \A f \in Named(disk, state[s].n, state[s].slug) : state[s].n # 0
    BY DEF Typed, Files, Named
  <2>2. hook' \in [Sessions -> Hooks] /\ \A t \in Sessions : InHand(hook'[t])
    BY <1>11, <2>1, ApplyMoves, HookTyped DEF Loaded
  <2> QED BY <1>11, <2>2 DEF Apply, Rest, shown, Typed
<1>12. CASE WriteList(s)
  <2>1. /\ Goto(s, "commitlist") /\ "commitlist" \in Places /\ hook[s].pc = "writelist"
        /\ hook[s].to # 0
    BY <1>0, <1>12 DEF WriteList, At, Places, Listing, InHand, Named0
  <2>2. hook' \in [Sessions -> Hooks] /\ \A t \in Sessions : InHand(hook'[t])
    BY <2>1, Goes, HookTyped DEF Loaded
  <2>3. disk' = Written(s)
    BY <1>12 DEF WriteList, Written
  <2> QED BY <1>12, <2>1, <2>2, <2>3, WrittenTyped DEF WriteList, Rest, shown, Typed
<1>13. CASE CommitList(s)
  <2>1. Goto(s, "end") /\ "end" \in Places
    BY <1>13 DEF CommitList, Places
  <2>2. hook' \in [Sessions -> Hooks] /\ \A t \in Sessions : InHand(hook'[t])
    BY <2>1, Goes, HookTyped DEF Loaded
  <2> QED BY <1>13, <2>2, CommittedTyped DEF CommitList, Rest, shown, Typed
<1>14. CASE GitRefuses(s)
  <2>1. /\ left' \in [Kinds -> Nat] /\ refused' = TRUE
        /\ UNCHANGED <<disk, kept, state, plan, approved, finished, overlapped>>
    BY <1>14, Used DEF GitRefuses, shown, Kinds
  <2>2. \/ hook[s].pc = "commit" /\ Goto(s, "save")
        \/ hook[s].pc = "commitlist" /\ Goto(s, "end")
        \/ hook[s].pc = "remove" /\ Goto(s, "write")
    BY <1>14 DEF GitRefuses, At
  <2>3. {"save", "end", "write"} \subseteq Places
    BY DEF Places, Saving
  <2>4. hook' \in [Sessions -> Hooks] /\ \A t \in Sessions : InHand(hook'[t])
    <3>1. CASE hook[s].pc = "commit" /\ Goto(s, "save")
      BY <1>0, <2>3, <3>1, Goes, HookTyped DEF InHand, Loaded, Named0
    <3>2. CASE hook[s].pc = "commitlist" /\ Goto(s, "end")
      BY <2>3, <3>2, Goes, HookTyped DEF Loaded
    <3>3. CASE hook[s].pc = "remove" /\ Goto(s, "write")
      BY <1>0, <2>3, <3>3, Goes, HookTyped DEF InHand, Loaded, Named0
    <3> QED BY <2>2, <3>1, <3>2, <3>3
  <2> QED BY <2>1, <2>4 DEF Typed
<1> QED
  BY <1>1, <1>2, <1>3, <1>4, <1>5, <1>6, <1>7, <1>8, <1>9, <1>10, <1>11, <1>12, <1>13, <1>14
  DEF Step

LEMMA EventTyped ==
  ASSUME Typed, NEW s \in Sessions,
         NewPlan(s) \/ Revises(s, "Write") \/ Revises(s, "Edit") \/ ExitPlanMode(s)
           \/ Task(s) \/ Todo(s)
  PROVE  Typed'
<1>1. ASSUME NEW tool, NEW v, Submitted(s, tool, v), left' \in [Kinds -> Nat],
             approved' \subseteq Sessions \X Nat, finished' \subseteq Versions
      PROVE  Typed'
  <2>1. hook' \in [Sessions -> Hooks] /\ \A t \in Sessions : InHand(hook'[t])
    BY <1>1, HookTyped DEF Submitted, Loaded
  <2> QED BY <1>1, <2>1 DEF Submitted, Typed
<1>2. plan[s] \in Versions /\ plan[s].p \in Nat
  BY DEF Typed, Versions
<1>3. CASE NewPlan(s)
  <2>1. PICK v : /\ Submitted(s, "Write", v) /\ left' \in [Kinds -> Nat] /\ approved' = approved
                 /\ finished' = IF <<s, plan[s].p>> \in approved THEN finished \cup {plan[s]}
                                ELSE finished
    BY <1>3, NewPlanMoves
  <2>2. approved' \subseteq Sessions \X Nat /\ finished' \subseteq Versions
    BY <1>2, <2>1 DEF Typed
  <2> QED BY <1>1, <2>1, <2>2
<1>4. CASE Revises(s, "Write") \/ Revises(s, "Edit")
  BY <1>1, <1>4, RevisesMoves DEF Typed
<1>5. CASE ExitPlanMode(s)
  <2>1. approved' \subseteq Sessions \X Nat
    BY <1>2, <1>5, ExitMoves DEF Typed
  <2> QED BY <1>1, <1>5, <2>1, ExitMoves DEF Typed
<1>6. CASE Task(s) \/ Todo(s)
  <2>1. hook' \in [Sessions -> Hooks] /\ \A t \in Sessions : InHand(hook'[t])
    BY <1>6, ListMoves, HookTyped DEF Loaded
  <2> QED BY <1>6, <2>1, ListMoves DEF Typed
<1> QED BY <1>3, <1>4, <1>5, <1>6

LEMMA NextTyped == Typed /\ [Next]_vars => Typed'
<1> SUFFICES ASSUME Typed, [Next]_vars PROVE Typed'
  OBVIOUS
<1>1. CASE UNCHANGED vars
  BY <1>1 DEF vars, shown, Typed
<1>2. CASE Next
  BY <1>2, StepTyped, EventTyped DEF Next
<1> QED BY <1>1, <1>2

\* Files, numbers, entries of the state file and hooks have the types the code
\* gives them: a file has a number and the slug of its version, a hook that
\* writes has a number to write under.
THEOREM PlansTyped == Spec => []Typed
BY InitTyped, NextTyped, PTL DEF Spec

-----------------------------------------------------------------------------
(* Whose each plan is.                                                     *)

\* The plans of a session have titles that it gives; those saved before, by
\* nobody's session, have the one of plans without a title.
Owned(v) == IF v.by = 0 THEN v.slug = "online_query" ELSE v.slug \in Titles[v.by]
OwnEntries(mem) == \A t \in Sessions : mem[t].n # 0 => mem[t].slug \in Titles[t]

OwnPlan(s) ==
    /\ plan[s].by = s /\ plan[s].todos = 0
    /\ plan[s].p # 0 => plan[s].slug \in Titles[s] /\ plan[s].p > left["plan"]

\* A hook writes under the name of the saved plan if the event belongs to it.
OwnHook(s) ==
    LET h == hook[s]
    IN  /\ h.pc \in Loaded => OwnEntries(h.mem)
        /\ h.pc \in Saving => /\ h.v = plan[s] /\ plan[s].p # 0
                              /\ h.tool \in {"Write", "Edit", "ExitPlanMode"}
        /\ h.pc = "number" => ~ Known(s, h.mem)
        /\ h.pc = "remove" => Known(s, h.mem)
        /\ h.pc \in {"remove", "write", "commit", "save"} /\ Known(s, h.mem) => h.to = h.mem[s].n
        /\ h.pc \in Listing => h.tool \in {"Task", "Todo"}
        /\ h.pc \in {"writelist", "commitlist"} => Owned(h.v) /\ h.v.slug \in Titles[s]

Own ==
    /\ \A f \in disk \cup kept : Owned(f.v)
    /\ OwnEntries(state)
    /\ \A s \in Sessions : OwnPlan(s) /\ OwnHook(s)
    /\ \A a \in approved : a[2] > left["plan"]

LEMMA InitOwn == Init => Own
<1> SUFFICES ASSUME Init PROVE Own
  OBVIOUS
<1>1. \A f \in disk \cup kept : Owned(f.v)
  <2>1. PICK c \in Scenarios :
          disk = {File(n, Version(0, 0, "online_query", n)) : n \in c.present}
    BY DEF Init
  <2>2. \A n : Owned(File(n, Version(0, 0, "online_query", n)).v)
    BY DEF File, Version, Owned
  <2>3. kept = disk
    BY DEF Init
  <2> QED BY <2>1, <2>2, <2>3
<1>2. OwnEntries(state) /\ approved = {}
  BY DEF Init, OwnEntries, Unknown
<1>3. ASSUME NEW s \in Sessions PROVE OwnPlan(s) /\ OwnHook(s)
  <2>1. plan[s].by = s /\ plan[s].todos = 0 /\ plan[s].p = 0 /\ hook[s].pc = "idle"
    BY DEF Init, Version, Idle
  <2> QED BY <2>1 DEF OwnPlan, OwnHook, Loaded, Saving, Listing
<1> QED BY <1>1, <1>2, <1>3 DEF Own

\* A step of one session's hook, and no event.
LEMMA OwnKept ==
  ASSUME Typed, Own, NEW s \in Sessions, NEW pc, NEW tool, NEW v, NEW mem, NEW to,
         Becomes(s, pc, tool, v, mem, to),
         UNCHANGED <<plan, approved>>, left'["plan"] = left["plan"],
         \A f \in disk' \cup kept' : Owned(f.v), OwnEntries(state)', OwnHook(s)'
  PROVE  Own'
<1>1. ASSUME NEW t \in Sessions PROVE OwnPlan(t)' /\ OwnHook(t)'
  <2>1. OwnPlan(t)'
    BY DEF Own, OwnPlan
  <2>2. CASE t = s
    BY <2>1, <2>2
  <2>3. CASE t # s
    <3>1. hook'[t] = hook[t] /\ plan' = plan
      BY <2>3 DEF Becomes
    <3>2. OwnHook(t)
      BY DEF Own
    <3> QED BY <2>1, <3>1, <3>2 DEF OwnHook, Known
  <2> QED BY <2>2, <2>3
<1> QED BY <1>1 DEF Own

LEMMA StepOwn ==
  ASSUME Typed, Own, NEW s \in Sessions, Step(s) \/ GitRefuses(s)
  PROVE  Own'
<1>0. OwnHook(s) /\ OwnPlan(s) /\ OwnEntries(state) /\ \A f \in disk \cup kept : Owned(f.v)
  BY DEF Own
<1>same. ASSUME NEW pc, NEW tool, NEW v, NEW mem, NEW to, Becomes(s, pc, tool, v, mem, to),
                UNCHANGED <<plan, approved>>, left'["plan"] = left["plan"],
                disk' \subseteq disk, kept' \subseteq disk \cup kept, UNCHANGED state, OwnHook(s)'
         PROVE  Own'
  <2>1. \A f \in disk' \cup kept' : Owned(f.v)
    BY <1>0, <1>same
  <2>2. OwnEntries(state)'
    BY <1>0, <1>same DEF OwnEntries
  <2> QED BY <1>same, <2>1, <2>2, OwnKept
<1>com. \A ps : Committed(ps) \subseteq disk \cup kept
  BY DEF Committed, OnPaths
<1>1. CASE Load(s)
  <2>1. hook[s].pc = "load" /\ UNCHANGED <<disk, kept, state, plan, approved, left>>
    BY <1>1 DEF Load, At, Rest, shown
  <2>2. CASE Unchanged(s)
    <3> DEFINE pc == IF hook[s].tool = "ExitPlanMode" THEN "done" ELSE "end"
               to == IF Known(s, state) THEN state[s].n ELSE 0
    <3>1. Becomes(s, pc, hook[s].tool, hook[s].v, state, to)
      BY <1>1, <2>2, LoadMoves
    <3>2. pc \in {"done", "end"}
      OBVIOUS
    <3> HIDE DEF pc, to
    <3>3. OwnHook(s)'
      BY <1>0, <2>1, <3>1, <3>2 DEF Becomes, OwnHook, Loaded, Saving, Listing, Known, OwnEntries
    <3> QED BY <1>same, <2>1, <3>1, <3>3
  <2>3. CASE ~ Unchanged(s) /\ Known(s, state)
    <3>1. Becomes(s, "remove", hook[s].tool, hook[s].v, state, state[s].n)
      BY <1>1, <2>3, LoadMoves
    <3>2. OwnHook(s)'
      BY <1>0, <2>1, <2>3, <3>1 DEF Becomes, OwnHook, Loaded, Saving, Listing, Known, OwnEntries
    <3> QED BY <1>same, <2>1, <3>1, <3>2
  <2>4. CASE ~ Known(s, state)
    <3>1. Becomes(s, "number", hook[s].tool, hook[s].v, state, 0)
      BY <1>1, <2>4, LoadMoves DEF Unchanged
    <3>2. OwnHook(s)'
      BY <1>0, <2>1, <2>4, <3>1 DEF Becomes, OwnHook, Loaded, Saving, Listing, Known, OwnEntries
    <3> QED BY <1>same, <2>1, <3>1, <3>2
  <2> QED BY <2>2, <2>3, <2>4
<1>2. CASE Allocate(s)
  <2>1. hook[s].pc = "number" /\ UNCHANGED <<disk, kept, state, plan, approved, left>>
    BY <1>2 DEF Allocate, At, Rest, shown
  <2>2. PICK to : Becomes(s, "write", hook[s].tool, hook[s].v, hook[s].mem, to)
    BY <1>2, AllocateMoves
  <2>3. OwnHook(s)'
    BY <1>0, <2>1, <2>2 DEF Becomes, OwnHook, Loaded, Saving, Listing, Known, OwnEntries
  <2> QED BY <1>same, <2>1, <2>2, <2>3
<1>3. CASE RemoveOld(s)
  <2>1. /\ hook[s].pc = "remove" /\ disk' \subseteq disk
        /\ UNCHANGED <<kept, state, plan, approved, left>>
    BY <1>3 DEF RemoveOld, At, Rest, shown
  <2>2. Becomes(s, "write", hook[s].tool, hook[s].v, hook[s].mem, hook[s].to)
    BY <1>3, Goes DEF RemoveOld, Places, Saving
  <2>3. OwnHook(s)'
    BY <1>0, <2>1, <2>2 DEF Becomes, OwnHook, Loaded, Saving, Listing, Known, OwnEntries
  <2> QED BY <1>same, <2>1, <2>2, <2>3
<1>4. CASE Write(s)
  <2>1. /\ hook[s].pc = "write" /\ disk' = Written(s)
        /\ UNCHANGED <<kept, state, plan, approved, left>>
    BY <1>4 DEF Write, At, Rest, shown, Written
  <2>2. Becomes(s, "commit", hook[s].tool, hook[s].v, hook[s].mem, hook[s].to)
    BY <1>4, Goes DEF Write, Places, Saving
  <2>3. OwnHook(s)'
    BY <1>0, <2>1, <2>2 DEF Becomes, OwnHook, Loaded, Saving, Listing, Known, OwnEntries
  <2>4. Owned(hook[s].v)
    BY <1>0, <2>1, PlanLogAssumption DEF OwnHook, OwnPlan, Owned, Saving
  <2>5. \A f \in disk' : Owned(f.v)
    BY <1>0, <2>1, <2>4 DEF Written, File
  <2>6. OwnEntries(state)'
    BY <1>0, <2>1 DEF OwnEntries
  <2> QED BY <1>0, <2>1, <2>2, <2>3, <2>5, <2>6, OwnKept
<1>5. CASE Commit(s)
  <2>1. /\ hook[s].pc = "commit" /\ kept' \subseteq disk \cup kept
        /\ UNCHANGED <<disk, state, plan, approved, left>>
    BY <1>5, <1>com DEF Commit, At, Rest, shown
  <2>2. Becomes(s, "save", hook[s].tool, hook[s].v, hook[s].mem, hook[s].to)
    BY <1>5, Goes DEF Commit, Places, Saving
  <2>3. OwnHook(s)'
    BY <1>0, <2>1, <2>2 DEF Becomes, OwnHook, Loaded, Saving, Listing, Known, OwnEntries
  <2> QED BY <1>same, <2>1, <2>2, <2>3
<1>6. CASE Save(s)
  <2>1. hook[s].pc = "save" /\ UNCHANGED <<disk, kept, plan, approved, left>>
    BY <1>6 DEF Save, At, Rest, shown
  <2> DEFINE pc == IF hook[s].tool = "ExitPlanMode" THEN "done" ELSE "end"
  <2>2. /\ Becomes(s, pc, hook[s].tool, hook[s].v, state', hook[s].to)
        /\ \A t \in Sessions : t # s => state'[t] = hook[s].mem[t]
        /\ state'[s].n = hook[s].to /\ state'[s].slug = hook[s].v.slug
    BY <1>6, SaveMoves
  <2>3. pc \in {"done", "end"}
    OBVIOUS
  <2> HIDE DEF pc
  <2>4. OwnEntries(state)'
    BY <1>0, <2>1, <2>2 DEF OwnHook, OwnPlan, OwnEntries, Loaded, Saving
  <2>5. OwnHook(s)'
    BY <1>0, <2>1, <2>2, <2>3, <2>4
    DEF Becomes, OwnHook, Loaded, Saving, Listing, Known, OwnEntries
  <2> QED BY <1>0, <2>1, <2>2, <2>4, <2>5, OwnKept
<1>7. CASE SaveDone(s)
  <2>1. hook[s].pc = "done" /\ UNCHANGED <<disk, kept, plan, approved, left>>
    BY <1>7 DEF SaveDone, At, Rest, shown
  <2>2. /\ Becomes(s, "end", hook[s].tool, hook[s].v, hook[s].mem, hook[s].to)
        /\ \A t \in Sessions : t # s => state'[t] = hook[s].mem[t]
        /\ state'[s].n = hook[s].mem[s].n /\ state'[s].slug = hook[s].mem[s].slug
    BY <1>7, SaveDoneMoves
  <2>3. OwnEntries(state)'
    BY <1>0, <2>1, <2>2 DEF OwnHook, OwnEntries, Loaded
  <2>4. OwnHook(s)'
    BY <2>2 DEF Becomes, OwnHook, Loaded, Saving, Listing
  <2> QED BY <1>0, <2>1, <2>2, <2>3, <2>4, OwnKept
<1>8. CASE End(s)
  <2>1. UNCHANGED <<disk, kept, state, plan, approved, left>>
    BY <1>8 DEF End, Rest, shown
  <2>2. Becomes(s, "idle", "", Version(0, 0, "", 0), <<>>, 0)
    BY <1>8, Stops DEF End
  <2>3. OwnHook(s)'
    BY <2>2 DEF Becomes, OwnHook, Loaded, Saving, Listing
  <2> QED BY <1>same, <2>1, <2>2, <2>3
<1>9. CASE LoadTasks(s)
  <2>1. hook[s].pc = "loadtasks" /\ UNCHANGED <<disk, kept, state, plan, approved, left>>
    BY <1>9 DEF LoadTasks, At, Rest, shown
  <2> DEFINE mem == [state EXCEPT ![s].tasks = hook[s].v.todos]
  <2>2. /\ Becomes(s, "savetasks", hook[s].tool, hook[s].v, mem, hook[s].to)
        /\ \A t \in Sessions : mem[t].n = state[t].n /\ mem[t].slug = state[t].slug
    BY <1>9, LoadTasksMoves
  <2> HIDE DEF mem
  <2>3. OwnHook(s)'
    BY <1>0, <2>1, <2>2 DEF Becomes, OwnHook, Loaded, Saving, Listing, OwnEntries
  <2> QED BY <1>same, <2>1, <2>2, <2>3
<1>10. CASE SaveTasks(s)
  <2>1. /\ hook[s].pc = "savetasks" /\ state' = hook[s].mem
        /\ UNCHANGED <<disk, kept, plan, approved, left>>
    BY <1>10 DEF SaveTasks, At, Rest, shown
  <2>2. Becomes(s, "apply", hook[s].tool, hook[s].v, hook[s].mem, hook[s].to)
    BY <1>10, Goes DEF SaveTasks, Places, Listing
  <2>3. OwnEntries(state)'
    BY <1>0, <2>1 DEF OwnHook, OwnEntries, Loaded
  <2>4. OwnHook(s)'
    BY <1>0, <2>1, <2>2 DEF Becomes, OwnHook, Loaded, Saving, Listing
  <2> QED BY <1>0, <2>1, <2>2, <2>3, <2>4, OwnKept
<1>11. CASE Apply(s)
  <2>1. hook[s].pc = "apply" /\ UNCHANGED <<disk, kept, state, plan, approved, left>>
    BY <1>11 DEF Apply, At, Rest, shown
  <2>2. CASE Becomes(s, "idle", "", Version(0, 0, "", 0), <<>>, 0)
    <3>1. OwnHook(s)'
      BY <2>2 DEF Becomes, OwnHook, Loaded, Saving, Listing
    <3> QED BY <1>same, <2>1, <2>2, <3>1
  <2>3. ASSUME NEW f \in Named(disk, state[s].n, state[s].slug), NEW v,
               v.by = f.v.by, v.slug = f.v.slug,
               Becomes(s, "writelist", hook[s].tool, v, hook[s].mem, state[s].n)
        PROVE  Own'
    <3>1. f \in disk /\ f.n = state[s].n /\ f.slug = state[s].slug
      BY DEF Named
    <3>2. f.n # 0 /\ f.slug = f.v.slug
      BY <3>1 DEF Typed, Files
    <3>3. v.slug \in Titles[s]
      BY <1>0, <2>3, <3>1, <3>2 DEF OwnEntries
    <3>4. Owned(v)
      BY <1>0, <2>3, <3>1 DEF Owned
    <3>5. OwnHook(s)'
      BY <1>0, <2>1, <2>3, <3>3, <3>4 DEF Becomes, OwnHook, Loaded, Saving, Listing, Owned
    <3> QED BY <1>same, <2>1, <2>3, <3>5
  <2> QED BY <1>11, <2>2, <2>3, ApplyMoves
<1>12. CASE WriteList(s)
  <2>1. /\ hook[s].pc = "writelist" /\ disk' = Written(s)
        /\ UNCHANGED <<kept, state, plan, approved, left>>
    BY <1>12 DEF WriteList, At, Rest, shown, Written
  <2>2. Becomes(s, "commitlist", hook[s].tool, hook[s].v, hook[s].mem, hook[s].to)
    BY <1>12, Goes DEF WriteList, Places, Listing
  <2>3. OwnHook(s)'
    BY <1>0, <2>1, <2>2 DEF Becomes, OwnHook, Loaded, Saving, Listing, Owned
  <2>4. \A f \in disk' : Owned(f.v)
    BY <1>0, <2>1 DEF Written, File, OwnHook
  <2>5. OwnEntries(state)'
    BY <1>0, <2>1 DEF OwnEntries
  <2> QED BY <1>0, <2>1, <2>2, <2>3, <2>4, <2>5, OwnKept
<1>13. CASE CommitList(s)
  <2>1. kept' \subseteq disk \cup kept /\ UNCHANGED <<disk, state, plan, approved, left>>
    BY <1>13, <1>com DEF CommitList, Rest, shown
  <2>2. Becomes(s, "end", hook[s].tool, hook[s].v, hook[s].mem, hook[s].to)
    BY <1>13, Goes DEF CommitList, Places
  <2>3. OwnHook(s)'
    BY <2>2 DEF Becomes, OwnHook, Loaded, Saving, Listing
  <2> QED BY <1>same, <2>1, <2>2, <2>3
<1>14. CASE GitRefuses(s)
  <2>1. UNCHANGED <<disk, kept, state, plan, approved>> /\ left'["plan"] = left["plan"]
    BY <1>14, Used DEF GitRefuses, shown, Kinds
  <2>2. PICK pc \in {"save", "end", "write"} :
          /\ pc = "save" => hook[s].pc = "commit"
          /\ pc = "write" => hook[s].pc = "remove"
          /\ Goto(s, pc)
    BY <1>14 DEF GitRefuses, At
  <2>3. Becomes(s, pc, hook[s].tool, hook[s].v, hook[s].mem, hook[s].to)
    BY <2>2, Goes DEF Places, Saving
  <2>4. OwnHook(s)'
    BY <1>0, <2>1, <2>2, <2>3 DEF Becomes, OwnHook, Loaded, Saving, Listing, Known, OwnEntries
  <2> QED BY <1>same, <2>1, <2>3, <2>4
<1> QED
  BY <1>1, <1>2, <1>3, <1>4, <1>5, <1>6, <1>7, <1>8, <1>9, <1>10, <1>11, <1>12, <1>13, <1>14
  DEF Step

LEMMA EventOwn ==
  ASSUME Typed, Own, NEW s \in Sessions,
         NewPlan(s) \/ Revises(s, "Write") \/ Revises(s, "Edit") \/ ExitPlanMode(s)
           \/ Task(s) \/ Todo(s)
  PROVE  Own'
<1>0. OwnPlan(s) /\ left["plan"] \in Nat
  BY DEF Own, Typed, Kinds
<1>1. ASSUME NEW tool \in {"Write", "Edit", "ExitPlanMode"}, NEW v, Submitted(s, tool, v),
             v.by = s, v.todos = 0, v.slug \in Titles[s], v.p > left'["plan"],
             left'["plan"] \in Nat, left'["plan"] <= left["plan"],
             \A a \in approved' : a[2] > left'["plan"]
      PROVE  Own'
  <2>1. /\ hook'[s].pc = "load" /\ hook'[s].tool = tool /\ hook'[s].v = v
        /\ \A t \in Sessions : t # s => hook'[t] = hook[t]
    BY <1>1 DEF Submitted, Becomes
  <2>2. plan'[s] = v /\ \A t \in Sessions : t # s => plan'[t] = plan[t]
    BY <1>1 DEF Submitted, Typed
  <2>3. ASSUME NEW t \in Sessions PROVE OwnPlan(t)' /\ OwnHook(t)'
    <3>1. CASE t = s
      BY <1>1, <2>1, <2>2, <3>1 DEF OwnPlan, OwnHook, Submitted, Loaded, Saving, Listing
    <3>2. CASE t # s
      <4>1. hook'[t] = hook[t] /\ plan'[t] = plan[t] /\ OwnPlan(t) /\ OwnHook(t)
        BY <2>1, <2>2, <3>2 DEF Own
      <4>2. plan[t].p \in Nat
        BY DEF Typed, Versions
      <4>3. OwnPlan(t)'
        BY <1>0, <1>1, <4>1, <4>2 DEF OwnPlan
      <4> QED BY <4>1, <4>3 DEF OwnHook, Known
    <3> QED BY <3>1, <3>2
  <2> QED BY <1>1, <2>3 DEF Own, OwnEntries, Submitted
<1>2. \A a \in approved : a[2] \in Nat /\ a[2] > left["plan"]
  BY DEF Own, Typed
<1>3. CASE NewPlan(s)
  <2>1. PICK v : /\ Submitted(s, "Write", v)
                 /\ v.by = s /\ v.todos = 0 /\ v.slug \in Titles[s] /\ v.p = left["plan"]
                 /\ left["plan"] # 0 /\ left'["plan"] = left["plan"] - 1 /\ approved' = approved
    BY <1>3, NewPlanMoves
  <2>2. PICK n \in Nat : n = left["plan"]
    BY <1>0
  <2>3. v.p > left'["plan"] /\ left'["plan"] \in Nat /\ left'["plan"] <= left["plan"]
    BY <2>1, <2>2
  <2>4. \A a \in approved' : a[2] > left'["plan"]
    BY <1>2, <2>1, <2>2
  <2> QED BY <1>1, <2>1, <2>3, <2>4
<1>4. ASSUME NEW tool \in {"Write", "Edit"}, Revises(s, tool)
      PROVE  Own'
  <2>1. PICK v : /\ Submitted(s, tool, v)
                 /\ v.by = plan[s].by /\ v.todos = plan[s].todos /\ v.slug \in Titles[s]
                 /\ v.p = plan[s].p /\ approved' = approved /\ left'["plan"] = left["plan"]
    BY <1>4, RevisesMoves
  <2>2. v.p # 0
    BY <2>1 DEF Submitted
  <2>3. v.p > left'["plan"] /\ left'["plan"] \in Nat /\ left'["plan"] <= left["plan"]
    BY <1>0, <2>1, <2>2 DEF OwnPlan
  <2> QED BY <1>0, <1>1, <1>2, <2>1, <2>3 DEF OwnPlan
<1>5. CASE ExitPlanMode(s)
  <2>1. /\ Submitted(s, "ExitPlanMode", plan[s])
        /\ approved' = approved \cup {<<s, plan[s].p>>} /\ left'["plan"] = left["plan"]
    BY <1>5, ExitMoves
  <2>2. plan[s].p # 0
    BY <2>1 DEF Submitted
  <2>3. plan[s].p > left'["plan"] /\ left'["plan"] \in Nat /\ left'["plan"] <= left["plan"]
    BY <1>0, <2>1, <2>2 DEF OwnPlan
  <2> QED BY <1>0, <1>1, <1>2, <2>1, <2>2, <2>3 DEF OwnPlan
<1>6. CASE Task(s) \/ Todo(s)
  <2>1. PICK v \in Versions, tool \in {"Task", "Todo"}, pc \in {"loadtasks", "apply"} :
           /\ Becomes(s, pc, tool, v, <<>>, 0) /\ left'["plan"] = left["plan"]
           /\ UNCHANGED <<disk, kept, state, plan, approved, finished, refused>>
    BY <1>6, ListMoves
  <2>2. OwnHook(s)'
    BY <2>1 DEF Becomes, OwnHook, Loaded, Saving, Listing
  <2>3. OwnEntries(state)' /\ \A f \in disk' \cup kept' : Owned(f.v)
    BY <2>1 DEF Own, OwnEntries
  <2> QED BY <2>1, <2>2, <2>3, OwnKept
<1> QED BY <1>3, <1>4, <1>5, <1>6

LEMMA OwnHolds == Spec => [](Typed /\ Own)
<1>1. Typed /\ Own /\ [Next]_vars => Own'
  <2> SUFFICES ASSUME Typed, Own, [Next]_vars PROVE Own'
    OBVIOUS
  <2>1. CASE UNCHANGED vars
    BY <2>1 DEF vars, shown, Own, OwnPlan, OwnHook, OwnEntries, Known
  <2>2. CASE Next
    BY <2>2, StepOwn, EventOwn DEF Next
  <2> QED BY <2>1, <2>2
<1> QED BY <1>1, InitOwn, PlansTyped, PTL DEF Spec

-----------------------------------------------------------------------------
(* No hook touches the plan of another session, as long as no two sessions *)
(* choose the same title, or that of a plan without one: the name of a     *)
(* file is all that tells whose it is.                                     *)

TitlesDiffer ==
    /\ \A s, t \in Sessions : s # t => Titles[s] \cap Titles[t] = {}
    /\ \A s \in Sessions : "online_query" \notin Titles[s]

LEMMA OwnName ==
  ASSUME Typed, Own, TitlesDiffer, NEW s \in Sessions, NEW f \in disk, f.slug \in Titles[s]
  PROVE  f.v.by = s
<1>1. Owned(f.v) /\ f.v.slug = f.slug /\ f.v.by \in Sessions \cup {0}
  BY DEF Typed, Files, Versions, Own
<1>2. f.v.by # 0
  BY <1>1 DEF Owned, TitlesDiffer
<1> QED BY <1>1, <1>2 DEF Owned, TitlesDiffer

LEMMA DiskKept ==
  ASSUME Typed, Own, TitlesDiffer, NEW s \in Sessions, Step(s) \/ GitRefuses(s),
         NEW f \in disk \ disk'
  PROVE  f.v.by = s /\ hook[s] # hook'[s]
<1>0. OwnHook(s) /\ OwnPlan(s)
  BY DEF Own
<1>1. disk' # disk
  OBVIOUS
<1>2. RemoveOld(s) \/ Write(s) \/ WriteList(s)
  BY <1>1 DEF Step, GitRefuses, Load, Allocate, Commit, Save, SaveDone, End, LoadTasks, SaveTasks,
              Apply, CommitList
<1>3. CASE RemoveOld(s)
  <2>1. hook[s].pc = "remove"
    BY <1>3 DEF RemoveOld, At
  <2>2. Becomes(s, "write", hook[s].tool, hook[s].v, hook[s].mem, hook[s].to)
    BY <1>3, Goes DEF RemoveOld, Places, Saving
  <2>3. f \in OldName(s)
    BY <1>3 DEF RemoveOld
  <2>4. f.slug = hook[s].mem[s].slug /\ hook[s].mem[s].n # 0
    BY <2>3 DEF OldName, Known, Named
  <2>5. f.slug \in Titles[s]
    BY <1>0, <2>1, <2>4 DEF OwnHook, OwnEntries, Loaded
  <2> QED BY <2>1, <2>2, <2>5, OwnName DEF Becomes
<1>4. CASE Write(s)
  <2>1. hook[s].pc = "write"
    BY <1>4 DEF Write, At
  <2>2. Becomes(s, "commit", hook[s].tool, hook[s].v, hook[s].mem, hook[s].to)
    BY <1>4, Goes DEF Write, Places, Saving
  <2>3. f \in Named(disk, hook[s].to, hook[s].v.slug)
    BY <1>4 DEF Write
  <2>4. f.slug \in Titles[s]
    BY <1>0, <2>1, <2>3 DEF OwnHook, OwnPlan, Saving, Named
  <2> QED BY <2>1, <2>2, <2>4, OwnName DEF Becomes
<1>5. CASE WriteList(s)
  <2>1. hook[s].pc = "writelist"
    BY <1>5 DEF WriteList, At
  <2>2. Becomes(s, "commitlist", hook[s].tool, hook[s].v, hook[s].mem, hook[s].to)
    BY <1>5, Goes DEF WriteList, Places, Listing
  <2>3. f \in Named(disk, hook[s].to, hook[s].v.slug)
    BY <1>5 DEF WriteList
  <2>4. f.slug \in Titles[s]
    BY <1>0, <2>1, <2>3 DEF OwnHook, Named
  <2> QED BY <2>1, <2>2, <2>4, OwnName DEF Becomes
<1> QED BY <1>2, <1>3, <1>4, <1>5

\* Even when hooks overlap, and git refuses, a hook removes or changes only the
\* plan files of its own session (RemoveOld's git rm, the writes of save_plan).
THEOREM OthersSafe ==
  ASSUME TitlesDiffer PROVE Spec => OthersStay
<1> DEFINE Stays == \A f \in disk \ disk' : \E s \in Sessions : f.v.by = s /\ hook[s] # hook'[s]
<1>1. Typed /\ Own /\ [Next]_vars => [Stays]_vars
  <2> SUFFICES ASSUME Typed, Own, Next, NEW f \in disk \ disk'
               PROVE  \E s \in Sessions : f.v.by = s /\ hook[s] # hook'[s]
    OBVIOUS
  <2>1. PICK s \in Sessions :
          \/ Step(s) \/ GitRefuses(s)
          \/ NewPlan(s) \/ Revises(s, "Write") \/ Revises(s, "Edit") \/ ExitPlanMode(s)
          \/ Task(s) \/ Todo(s)
    BY DEF Next
  <2>2. Step(s) \/ GitRefuses(s)
    BY <2>1 DEF NewPlan, Revises, ExitPlanMode, Submits, Task, Todo
  <2> QED BY <2>2, DiskKept
<1> QED BY <1>1, OwnHolds, PTL DEF Spec, OthersStay

-----------------------------------------------------------------------------
(* As long as no hooks overlap and git does not refuse.                    *)

\* One hook works at a time; a number stands for one file.
Active(s) == hook[s].pc # "idle"
Solo == \A s, t \in Sessions : Active(s) /\ Active(t) => s = t
Distinct == \A f, g \in disk : f.n = g.n => f = g

\* While a hook has something to commit, the disk and what is committed differ on
\* its paths only, and git knows the old name; else they are the same.
ToCommit(s) == IF hook[s].pc = "commitlist" THEN {<<hook[s].to, hook[s].v.slug>>} ELSE Paths(s)
Agreed(s) ==
    IF hook[s].pc \in {"write", "commit", "commitlist"}
    THEN /\ \A f \in disk \cup kept : <<f.n, f.slug>> \notin ToCommit(s) => f \in disk \cap kept
         /\ hook[s].pc \in {"write", "commit"} /\ Renames(s) =>
              Named(kept, hook[s].mem[s].n, hook[s].mem[s].slug) # {}
    ELSE kept = disk

\* The plan file that the state file says a session has, and that it is the newest.
Has(s) == state[s].n # 0 =>
    \E f \in disk : f.n = state[s].n /\ f.slug = state[s].slug /\ f.v.by = s
Newest(s) == plan[s].p # 0 =>
    state[s].n # 0 /\ \E f \in disk : f.n = state[s].n /\ Plain(f.v) = plan[s]

\* The state file as a hook has it is the state file as it is.
InMem(s) == \A t \in Sessions : /\ hook[s].mem[t].n = state[t].n
                                /\ hook[s].mem[t].slug = state[t].slug
                                /\ hook[s].mem[t].done = state[t].done

\* Where a hook is, and what holds there.
AtPlace(s) ==
    LET h == hook[s]
    IN  /\ h.pc \notin {"write", "commit", "save"} => Has(s)
        /\ h.pc \notin Saving \ {"done"} => Newest(s)
        /\ h.pc \in Loaded => InMem(s)
        /\ h.pc = "write" => \A f \in disk : f.n = h.to => f.slug = h.v.slug /\ f.v.by = s
        /\ h.pc \in {"commit", "save", "commitlist"} => File(h.to, h.v) \in disk
        /\ h.pc = "writelist" =>
             /\ h.to = state[s].n /\ h.v.by = s
             /\ \E f \in disk : f.n = h.to /\ f.slug = h.v.slug /\ Plain(f.v) = Plain(h.v)
        /\ <<s, plan[s].p>> \in approved =>
             state[s].done \/ (h.tool = "ExitPlanMode" /\ h.pc \in Saving)

\* A number that a session's hook leaves alone: not that of its saved plan, unless
\* a new one is about to take its place, and not what the hook writes under.
Replacing(s) == /\ hook[s].tool = "Write" /\ state[s].done
                /\ hook[s].pc \in {"load", "number", "write", "commit", "save"}
Clear(s, n) ==
    /\ n # state[s].n \/ Replacing(s)
    /\ hook[s].pc \in {"write", "commit", "save"} => n # hook[s].to
Behind(v) == v.by \in Sessions /\ \E f \in disk : Plain(f.v) = v /\ Clear(v.by, f.n)

Ordered ==
    /\ Solo /\ Distinct
    /\ Nobody => kept = disk
    /\ \A s \in Sessions : Active(s) => Agreed(s)
    /\ \A s \in Sessions : AtPlace(s)
    /\ \A v \in finished : Behind(v)

LEMMA InitOrdered == Init => Ordered
<1> SUFFICES ASSUME Init PROVE Ordered
  OBVIOUS
<1>1. kept = disk /\ finished = {} /\ approved = {}
  BY DEF Init
<1>2. \A s \in Sessions : hook[s].pc = "idle" /\ state[s].n = 0 /\ plan[s].p = 0
  BY DEF Init, Idle, Unknown, Version
<1>3. Distinct
  <2>1. PICK c \in Scenarios :
          disk = {File(n, Version(0, 0, "online_query", n)) : n \in c.present}
    BY DEF Init
  <2>2. \A n : File(n, Version(0, 0, "online_query", n)).n = n
    BY DEF File
  <2> QED BY <2>1, <2>2 DEF Distinct
<1> QED
  BY <1>1, <1>2, <1>3
  DEF Ordered, Solo, Active, AtPlace, Has, Newest, Loaded, Saving

\* A plan that differs in its list only is of the same session.
LEMMA PlainOf ==
  ASSUME NEW v \in Versions
  PROVE  Plain(v).by = v.by /\ Plain(v).slug = v.slug /\ (v.todos = 0 => Plain(v) = v)
<1>1. Plain(v).by = v.by /\ Plain(v).slug = v.slug
  BY DEF Plain, Versions
<1>2. ASSUME v.todos = 0 PROVE Plain(v) = v
  BY <1>2 DEF Plain, Versions
<1> QED BY <1>1, <1>2

\* A step of one hook leaves everything of the others in order: they are idle, and
\* keep their files.
LEMMA Assemble ==
  ASSUME Typed, Typed', Own, Ordered, NEW s \in Sessions, Active(s),
         \A t \in Sessions : t # s => hook'[t] = hook[t],
         UNCHANGED <<plan, approved, finished>>,
         \A t \in Sessions : t # s => /\ state'[t].n = state[t].n /\ state'[t].slug = state[t].slug
                                      /\ state'[t].done = state[t].done,
         \A f \in disk : f.v.by # s => f \in disk',
         \A f \in disk : f.v.by = s /\ Clear(s, f.n) => f \in disk' /\ Clear(s, f.n)',
         Distinct', Agreed(s)', AtPlace(s)'
  PROVE  Ordered'
<1>1. \A t \in Sessions : t # s => hook[t].pc = "idle" /\ hook'[t] = hook[t]
  BY DEF Ordered, Solo, Active
<1>2. Solo'
  BY <1>1 DEF Solo, Active
<1>3. (Nobody => kept = disk)'
  <2> SUFFICES ASSUME Nobody' PROVE kept' = disk'
    OBVIOUS
  <2>1. hook'[s].pc = "idle"
    BY DEF Nobody
  <2> QED BY <2>1 DEF Agreed
<1>4. \A t \in Sessions : (Active(t) => Agreed(t))'
  BY <1>1 DEF Active
<1>5. ASSUME NEW t \in Sessions PROVE AtPlace(t)'
  <2>1. CASE t = s
    BY <2>1
  <2>2. CASE t # s
    <3>1. AtPlace(t) /\ hook[t].pc = "idle" /\ hook'[t] = hook[t]
      BY <1>1, <2>2 DEF Ordered
    <3>2. Has(t) /\ Newest(t) /\ (<<t, plan[t].p>> \in approved => state[t].done)
      BY <3>1 DEF AtPlace, Saving
    <3>3. Has(t)'
      BY <2>2, <3>2 DEF Has
    <3>4. Newest(t)'
      <4> SUFFICES ASSUME plan[t].p # 0 PROVE Newest(t)'
        BY DEF Newest
      <4>1. PICK f \in disk : f.n = state[t].n /\ Plain(f.v) = plan[t]
        BY <3>2 DEF Newest
      <4>2. f.v.by = t
        BY <4>1, PlainOf DEF Typed, Files, Own, OwnPlan
      <4> QED BY <2>2, <3>2, <4>1, <4>2 DEF Newest
    <3> QED BY <2>2, <3>1, <3>2, <3>3, <3>4 DEF AtPlace, Saving, Loaded
  <2> QED BY <2>1, <2>2
<1>6. ASSUME NEW v \in finished PROVE Behind(v)'
  <2>1. PICK f \in disk : v.by \in Sessions /\ Plain(f.v) = v /\ Clear(v.by, f.n)
    BY DEF Ordered, Behind
  <2>2. f.v.by = v.by
    BY <2>1, PlainOf DEF Typed, Files
  <2>3. CASE v.by = s
    BY <2>1, <2>2, <2>3 DEF Behind
  <2>4. CASE v.by # s
    <3>1. f \in disk' /\ Clear(v.by, f.n)'
      BY <1>1, <2>1, <2>2, <2>4 DEF Clear, Replacing
    <3> QED BY <2>1, <3>1 DEF Behind
  <2> QED BY <2>3, <2>4
<1> QED BY <1>2, <1>3, <1>4, <1>5, <1>6 DEF Ordered

\* What is in the place of a session's saved plan is that plan.
LEMMA HasFile ==
  ASSUME Typed, Ordered, NEW s \in Sessions, Has(s), NEW f \in disk, f.n = state[s].n
  PROVE  f.slug = state[s].slug /\ f.v.by = s /\ f.n # 0
<1>1. f.n # 0
  BY DEF Typed, Files
<1>2. PICK g \in disk : g.n = state[s].n /\ g.slug = state[s].slug /\ g.v.by = s
  BY <1>1 DEF Has
<1>3. f = g
  BY <1>2 DEF Ordered, Distinct
<1> QED BY <1>1, <1>2, <1>3

\* A step that leaves the files alone.
LEMMA Quiet ==
  ASSUME Typed, Typed', Own, Ordered, NEW s \in Sessions, Active(s),
         \A t \in Sessions : t # s => hook'[t] = hook[t],
         UNCHANGED <<disk, kept, plan, approved, finished>>,
         \A t \in Sessions : t # s => /\ state'[t].n = state[t].n /\ state'[t].slug = state[t].slug
                                      /\ state'[t].done = state[t].done,
         \A f \in disk : f.v.by = s /\ Clear(s, f.n) => Clear(s, f.n)',
         Agreed(s)', AtPlace(s)'
  PROVE  Ordered'
<1>1. Distinct'
  BY DEF Ordered, Distinct
<1> QED BY <1>1, Assemble

LEMMA LoadOrdered ==
  ASSUME Typed, Typed', Own, Ordered, NEW s \in Sessions, Load(s)
  PROVE  Ordered'
<1>1. /\ hook[s].pc = "load" /\ UNCHANGED <<disk, kept, state, plan, approved, finished>>
  BY DEF Load, At, Rest, shown
<1>2. Active(s) /\ Agreed(s) /\ AtPlace(s) /\ OwnHook(s) /\ OwnPlan(s) /\ plan[s] \in Versions
  BY <1>1 DEF Active, Ordered, Own, Typed
<1>3. /\ kept = disk /\ Has(s) /\ hook[s].v = plan[s] /\ Plain(plan[s]) = plan[s]
      /\ hook[s].tool \in {"Write", "Edit", "ExitPlanMode"}
      /\ <<s, plan[s].p>> \in approved => state[s].done \/ hook[s].tool = "ExitPlanMode"
  BY <1>1, <1>2, PlainOf DEF Agreed, AtPlace, OwnHook, OwnPlan, Saving
<1>4. ASSUME NEW pc \in {"done", "end", "remove", "number"}, NEW to,
             Becomes(s, pc, hook[s].tool, hook[s].v, state, to),
             pc = "end" => hook[s].tool # "ExitPlanMode",
             pc \in {"done", "end"} => Newest(s), Known(s, state) \/ pc = "number"
      PROVE  Ordered'
  <2>1. /\ hook'[s].pc = pc /\ hook'[s].tool = hook[s].tool /\ hook'[s].mem = state
        /\ hook'[s].v = hook[s].v /\ \A t \in Sessions : t # s => hook'[t] = hook[t]
    BY <1>4 DEF Becomes
  <2>2. Agreed(s)'
    BY <1>1, <1>3, <2>1 DEF Agreed
  <2>3. Has(s)' /\ InMem(s)' /\ (pc \in {"done", "end"} => Newest(s)')
    BY <1>1, <1>3, <1>4, <2>1 DEF Has, InMem, Newest
  <2>4. AtPlace(s)'
    BY <1>1, <1>3, <1>4, <2>1, <2>3 DEF AtPlace, Saving, Loaded
  <2>5. \A n : Clear(s, n) /\ n # 0 => Clear(s, n)'
    BY <1>1, <1>4, <2>1 DEF Clear, Replacing, Known
  <2>6. \A f \in disk : f.n # 0
    BY DEF Typed, Files
  <2> QED BY <1>1, <1>2, <2>1, <2>2, <2>4, <2>5, <2>6, Quiet
<1>5. CASE Unchanged(s)
  <2> DEFINE pc == IF hook[s].tool = "ExitPlanMode" THEN "done" ELSE "end"
             to == IF Known(s, state) THEN state[s].n ELSE 0
  <2>1. Becomes(s, pc, hook[s].tool, hook[s].v, state, to)
    BY <1>5, LoadMoves
  <2>2. pc \in {"done", "end"} /\ (pc = "end" => hook[s].tool # "ExitPlanMode")
    OBVIOUS
  <2> HIDE DEF pc, to
  <2>3. Known(s, state) /\ Newest(s)
    BY <1>3, <1>5 DEF Unchanged, Newest, Named, Known
  <2> QED BY <1>4, <2>1, <2>2, <2>3
<1>6. CASE ~ Unchanged(s) /\ Known(s, state)
  BY <1>4, <1>6, LoadMoves
<1>7. CASE ~ Known(s, state)
  <2>1. Becomes(s, "number", hook[s].tool, hook[s].v, state, 0)
    BY <1>7, LoadMoves DEF Unchanged
  <2> QED BY <1>4, <2>1
<1> QED BY <1>5, <1>6, <1>7

LEMMA AllocateOrdered ==
  ASSUME Typed, Typed', Own, Ordered, NEW s \in Sessions, Allocate(s)
  PROVE  Ordered'
<1>1. /\ hook[s].pc = "number" /\ UNCHANGED <<disk, kept, state, plan, approved, finished>>
  BY DEF Allocate, At, Rest, shown
<1>2. Active(s) /\ Agreed(s) /\ AtPlace(s) /\ OwnHook(s)
  BY <1>1 DEF Active, Ordered, Own
<1>3. /\ kept = disk /\ InMem(s) /\ ~ Known(s, hook[s].mem)
      /\ <<s, plan[s].p>> \in approved => state[s].done \/ hook[s].tool = "ExitPlanMode"
  BY <1>1, <1>2 DEF Agreed, AtPlace, OwnHook, Saving, Loaded
<1>4. PICK to : /\ \A f \in disk : f.n # to
                /\ Becomes(s, "write", hook[s].tool, hook[s].v, hook[s].mem, to)
  BY AllocateMoves
<1>5. /\ hook'[s].pc = "write" /\ hook'[s].tool = hook[s].tool /\ hook'[s].mem = hook[s].mem
      /\ hook'[s].to = to /\ \A t \in Sessions : t # s => hook'[t] = hook[t]
  BY <1>4 DEF Becomes
<1>6. ~ Renames(s)'
  BY <1>3, <1>5 DEF Renames, Known
<1>7. Agreed(s)'
  BY <1>1, <1>3, <1>5, <1>6 DEF Agreed
<1>8. InMem(s)'
  BY <1>1, <1>3, <1>5 DEF InMem
<1>9. AtPlace(s)'
  BY <1>1, <1>3, <1>4, <1>5, <1>8 DEF AtPlace, Saving, Loaded
<1>10. \A f \in disk : Clear(s, f.n) => Clear(s, f.n)'
  BY <1>1, <1>4, <1>5 DEF Clear, Replacing
<1> QED BY <1>1, <1>2, <1>5, <1>7, <1>9, <1>10, Quiet

LEMMA RemoveOldOrdered ==
  ASSUME Typed, Typed', Own, Ordered, NEW s \in Sessions, RemoveOld(s)
  PROVE  Ordered'
<1>1. /\ hook[s].pc = "remove" /\ UNCHANGED <<kept, state, plan, approved, finished>>
      /\ disk' = IF Renames(s) THEN disk \ OldName(s) ELSE disk
  BY DEF RemoveOld, At, Rest, shown
<1>2. Active(s) /\ Agreed(s) /\ AtPlace(s) /\ OwnHook(s)
  BY <1>1 DEF Active, Ordered, Own
<1>3. /\ kept = disk /\ Has(s) /\ InMem(s) /\ Known(s, hook[s].mem)
      /\ hook[s].to = hook[s].mem[s].n /\ hook[s].to # 0
      /\ <<s, plan[s].p>> \in approved => state[s].done \/ hook[s].tool = "ExitPlanMode"
  BY <1>1, <1>2 DEF Agreed, AtPlace, OwnHook, Saving, Loaded, Typed, InHand, Named0
<1>4. hook[s].to = state[s].n /\ hook[s].mem[s].slug = state[s].slug
  BY <1>3 DEF InMem
<1>5. /\ hook'[s].pc = "write" /\ hook'[s].tool = hook[s].tool /\ hook'[s].mem = hook[s].mem
      /\ hook'[s].v = hook[s].v /\ hook'[s].to = hook[s].to
      /\ \A t \in Sessions : t # s => hook'[t] = hook[t]
  BY Goes DEF RemoveOld, Places, Saving, Becomes
<1>6. disk' \subseteq disk /\ \A f \in disk : f.n # hook[s].to => f \in disk'
  BY <1>1, <1>3 DEF OldName, Named
<1>7. \A f \in disk : f.n = hook[s].to => f.slug = hook[s].mem[s].slug /\ f.v.by = s
  BY <1>3, <1>4, HasFile
<1>8. \A f \in disk' : f.n = hook[s].to => f.slug = hook[s].v.slug /\ f.v.by = s
  BY <1>1, <1>3, <1>6, <1>7 DEF OldName, Named, Renames
<1>9. InMem(s)'
  BY <1>1, <1>3, <1>5 DEF InMem
<1>10. AtPlace(s)'
  BY <1>1, <1>3, <1>5, <1>8, <1>9 DEF AtPlace, Saving, Loaded
<1>11. ToCommit(s)' = Paths(s) /\ (Renames(s)' <=> Renames(s))
  BY <1>5 DEF ToCommit, Paths, Renames, Known
<1>12. Agreed(s)'
  <2>1. ASSUME NEW f \in disk' \cup kept', <<f.n, f.slug>> \notin Paths(s)
        PROVE  f \in disk' \cap kept'
    <3>1. f \in disk /\ f \in kept'
      BY <1>1, <1>3, <1>6
    <3>2. CASE Renames(s)
      <4>1. <<f.n, f.slug>> # <<hook[s].to, hook[s].mem[s].slug>>
        BY <2>1, <3>2 DEF Paths
      <4>2. f \notin OldName(s)
        BY <1>3, <4>1 DEF OldName, Named
      <4> QED BY <1>1, <3>1, <4>2
    <3>3. CASE ~ Renames(s)
      BY <1>1, <3>1, <3>3
    <3> QED BY <3>2, <3>3
  <2>2. Named(kept', hook[s].mem[s].n, hook[s].mem[s].slug) # {}
    BY <1>1, <1>3, <1>4 DEF Has, Named
  <2> QED BY <1>5, <1>11, <2>1, <2>2 DEF Agreed
<1>13. Distinct'
  BY <1>6 DEF Ordered, Distinct
<1>14. \A f \in disk : Clear(s, f.n) => f \in disk' /\ Clear(s, f.n)'
  BY <1>1, <1>4, <1>5, <1>6 DEF Clear, Replacing
<1>15. \A f \in disk : f.v.by # s => f \in disk'
  BY <1>6, <1>7
<1> QED BY <1>1, <1>2, <1>5, <1>10, <1>12, <1>13, <1>14, <1>15, Assemble

\* Written under a number that only a file of the same name has.
LEMMA WrittenPlace ==
  ASSUME Typed, Ordered, NEW s \in Sessions, hook[s].to # 0, disk' = Written(s),
         \A f \in disk : f.n = hook[s].to => f.slug = hook[s].v.slug
  PROVE  LET g == File(hook[s].to, hook[s].v)
         IN  /\ g \in disk' /\ g.n = hook[s].to /\ g.slug = hook[s].v.slug /\ g.v = hook[s].v
             /\ \A f \in disk : f.n # hook[s].to <=> f \in disk' /\ f # g
             /\ \A f \in disk' : f \in disk \/ f = g
             /\ Distinct'
<1> DEFINE g == File(hook[s].to, hook[s].v)
<1>1. g.n = hook[s].to /\ g.slug = hook[s].v.slug /\ g.v = hook[s].v
  BY DEF File
<1>2. g \in disk' /\ \A f \in disk' : f \in disk \/ f = g
  BY DEF Written
<1>3. \A f \in disk : f.n # hook[s].to => f \in disk' /\ f # g
  BY <1>1 DEF Written, Named
<1>4. \A f \in disk : f.n = hook[s].to => f \notin disk' \/ f = g
  BY DEF Written, Named
<1> HIDE DEF g
<1>5. ASSUME NEW f \in disk', NEW e \in disk', f.n = e.n PROVE f = e
  <2>1. \A h \in disk' : h.n = hook[s].to => h = g
    BY <1>2, <1>4
  <2>2. CASE f.n = hook[s].to
    BY <1>5, <2>1, <2>2
  <2>3. CASE f.n # hook[s].to
    BY <1>1, <1>2, <1>5, <2>3 DEF Ordered, Distinct
  <2> QED BY <2>2, <2>3
<1> QED BY <1>1, <1>2, <1>3, <1>4, <1>5 DEF Distinct, g

LEMMA WriteOrdered ==
  ASSUME Typed, Typed', Own, Ordered, NEW s \in Sessions, Write(s)
  PROVE  Ordered'
<1> DEFINE g == File(hook[s].to, hook[s].v)
<1>1. /\ hook[s].pc = "write" /\ UNCHANGED <<kept, state, plan, approved, finished>>
      /\ disk' = Written(s)
  BY DEF Write, At, Rest, shown, Written
<1>2. Active(s) /\ Agreed(s) /\ AtPlace(s)
  BY <1>1 DEF Active, Ordered
<1>3. /\ \A f \in disk : f.n = hook[s].to => f.slug = hook[s].v.slug /\ f.v.by = s
      /\ InMem(s) /\ hook[s].to # 0
      /\ <<s, plan[s].p>> \in approved => state[s].done \/ hook[s].tool = "ExitPlanMode"
      /\ \A f \in disk \cup kept : <<f.n, f.slug>> \notin Paths(s) => f \in disk \cap kept
      /\ Renames(s) => Named(kept, hook[s].mem[s].n, hook[s].mem[s].slug) # {}
  BY <1>1, <1>2 DEF Agreed, ToCommit, AtPlace, Saving, Loaded, Typed, InHand, Named0
<1>4. /\ hook'[s].pc = "commit" /\ hook'[s].tool = hook[s].tool /\ hook'[s].mem = hook[s].mem
      /\ hook'[s].v = hook[s].v /\ hook'[s].to = hook[s].to
      /\ \A t \in Sessions : t # s => hook'[t] = hook[t]
  BY Goes DEF Write, Places, Saving, Becomes
<1>5. /\ g \in disk' /\ g.n = hook[s].to /\ g.slug = hook[s].v.slug
      /\ \A f \in disk : f.n # hook[s].to => f \in disk'
      /\ \A f \in disk' : f \in disk \/ f = g
      /\ Distinct'
  BY <1>1, <1>3, WrittenPlace
<1>6. ToCommit(s)' = Paths(s) /\ (Renames(s)' <=> Renames(s)) /\ <<g.n, g.slug>> \in Paths(s)
  BY <1>4, <1>5 DEF ToCommit, Paths, Renames, Known
<1> HIDE DEF g
<1>7. Agreed(s)'
  <2>1. ASSUME NEW f \in disk' \cup kept', <<f.n, f.slug>> \notin Paths(s)
        PROVE  f \in disk' \cap kept'
    <3>1. f \in disk \cap kept
      BY <1>1, <1>3, <1>5, <1>6, <2>1
    <3>2. f.n # hook[s].to
      <4>1. <<hook[s].to, hook[s].v.slug>> \in Paths(s)
        BY DEF Paths
      <4> QED BY <1>3, <2>1, <3>1, <4>1
    <3> QED BY <1>1, <1>5, <3>1, <3>2
  <2> QED BY <1>1, <1>3, <1>4, <1>6, <2>1 DEF Agreed
<1>8. InMem(s)'
  BY <1>1, <1>3, <1>4 DEF InMem
<1>9. AtPlace(s)'
  BY <1>1, <1>3, <1>4, <1>5, <1>8 DEF AtPlace, Saving, Loaded, g
<1>10. \A f \in disk : Clear(s, f.n) => f \in disk' /\ Clear(s, f.n)'
  BY <1>1, <1>4, <1>5 DEF Clear, Replacing
<1>11. \A f \in disk : f.v.by # s => f \in disk'
  BY <1>3, <1>5
<1> QED BY <1>1, <1>2, <1>4, <1>5, <1>7, <1>9, <1>10, <1>11, Assemble

\* git commit --only leaves nothing to commit: the other files agreed before.
LEMMA AllCommitted ==
  ASSUME NEW ps, \A p \in ps : PathKnown(p),
         \A f \in disk \cup kept : <<f.n, f.slug>> \notin ps => f \in disk \cap kept
  PROVE  Committed(ps) = disk
BY DEF Committed, OnPaths

LEMMA CommitOrdered ==
  ASSUME Typed, Typed', Own, Ordered, NEW s \in Sessions, Commit(s)
  PROVE  Ordered'
<1>1. /\ hook[s].pc = "commit" /\ UNCHANGED <<disk, state, plan, approved, finished>>
      /\ kept' = Committed(Paths(s))
  BY DEF Commit, At, Rest, shown
<1>2. Active(s) /\ Agreed(s) /\ AtPlace(s) /\ OwnHook(s)
  BY <1>1 DEF Active, Ordered, Own
<1>3. /\ File(hook[s].to, hook[s].v) \in disk
      /\ InMem(s)
      /\ <<s, plan[s].p>> \in approved => state[s].done \/ hook[s].tool = "ExitPlanMode"
      /\ \A f \in disk \cup kept : <<f.n, f.slug>> \notin Paths(s) => f \in disk \cap kept
      /\ Renames(s) => Named(kept, hook[s].mem[s].n, hook[s].mem[s].slug) # {}
  BY <1>1, <1>2 DEF Agreed, ToCommit, AtPlace, Saving, Loaded
<1>4. /\ hook'[s].pc = "save" /\ hook'[s].tool = hook[s].tool /\ hook'[s].mem = hook[s].mem
      /\ hook'[s].v = hook[s].v /\ hook'[s].to = hook[s].to
      /\ \A t \in Sessions : t # s => hook'[t] = hook[t]
  BY Goes DEF Commit, Places, Saving, Becomes
<1>5. \A p \in Paths(s) : PathKnown(p)
  <2>1. PathKnown(<<hook[s].to, hook[s].v.slug>>)
    BY <1>3 DEF PathKnown, Named, File
  <2>2. Renames(s) => PathKnown(<<hook[s].to, hook[s].mem[s].slug>>)
    BY <1>1, <1>2, <1>3 DEF PathKnown, Named, OwnHook, Renames
  <2> QED BY <2>1, <2>2 DEF Paths
<1>6. kept' = disk'
  BY <1>1, <1>3, <1>5, AllCommitted
<1>7. Agreed(s)'
  BY <1>4, <1>6 DEF Agreed
<1>8. InMem(s)'
  BY <1>1, <1>3, <1>4 DEF InMem
<1>9. AtPlace(s)'
  BY <1>1, <1>3, <1>4, <1>8 DEF AtPlace, Saving, Loaded
<1>10. \A f \in disk : Clear(s, f.n) => Clear(s, f.n)'
  BY <1>1, <1>4 DEF Clear, Replacing
<1>11. Distinct'
  BY <1>1 DEF Ordered, Distinct
<1> QED BY <1>1, <1>2, <1>4, <1>7, <1>9, <1>10, <1>11, Assemble

LEMMA SaveOrdered ==
  ASSUME Typed, Typed', Own, Ordered, NEW s \in Sessions, Save(s)
  PROVE  Ordered'
<1>1. /\ hook[s].pc = "save" /\ UNCHANGED <<disk, kept, plan, approved, finished>>
  BY DEF Save, At, Rest, shown
<1>2. /\ Active(s) /\ Agreed(s) /\ AtPlace(s) /\ OwnHook(s) /\ OwnPlan(s)
      /\ plan[s] \in Versions /\ hook[s].to # 0
  BY <1>1 DEF Active, Ordered, Own, Typed, InHand, Named0
<1>3. /\ File(hook[s].to, hook[s].v) \in disk /\ kept = disk /\ InMem(s)
      /\ hook[s].v = plan[s] /\ plan[s].by = s /\ Plain(plan[s]) = plan[s]
      /\ <<s, plan[s].p>> \in approved => state[s].done \/ hook[s].tool = "ExitPlanMode"
  BY <1>1, <1>2, PlainOf DEF Agreed, AtPlace, Saving, Loaded, OwnHook, OwnPlan
<1> DEFINE pc == IF hook[s].tool = "ExitPlanMode" THEN "done" ELSE "end"
           g == File(hook[s].to, hook[s].v)
<1>4. /\ Becomes(s, pc, hook[s].tool, hook[s].v, state', hook[s].to)
      /\ \A t \in Sessions : t # s => state'[t] = hook[s].mem[t]
      /\ state'[s].n = hook[s].to /\ state'[s].slug = hook[s].v.slug
      /\ state'[s].done = hook[s].mem[s].done
  BY SaveMoves
<1>5. /\ hook'[s].pc = pc /\ hook'[s].tool = hook[s].tool /\ hook'[s].mem = state'
      /\ hook'[s].v = hook[s].v /\ \A t \in Sessions : t # s => hook'[t] = hook[t]
  BY <1>4 DEF Becomes
<1>6. pc \in {"done", "end"} /\ (pc = "end" => hook[s].tool # "ExitPlanMode")
  OBVIOUS
<1>7. g \in disk /\ g.n = hook[s].to /\ g.slug = hook[s].v.slug /\ g.v = plan[s]
  BY <1>3 DEF File
<1> HIDE DEF pc, g
<1>8. \A t \in Sessions : t # s => /\ state'[t].n = state[t].n /\ state'[t].slug = state[t].slug
                                   /\ state'[t].done = state[t].done
  BY <1>3, <1>4 DEF InMem
<1>9. state'[s].done = state[s].done
  BY <1>3, <1>4 DEF InMem
<1>10. Agreed(s)'
  BY <1>1, <1>3, <1>5, <1>6 DEF Agreed
<1>11. Has(s)' /\ Newest(s)' /\ InMem(s)'
  <2>1. Has(s)'
    BY <1>1, <1>3, <1>4, <1>7 DEF Has
  <2>2. Newest(s)'
    BY <1>1, <1>2, <1>3, <1>4, <1>7 DEF Newest
  <2>3. InMem(s)'
    BY <1>5 DEF InMem
  <2> QED BY <2>1, <2>2, <2>3
<1>12. AtPlace(s)'
  BY <1>1, <1>3, <1>5, <1>6, <1>9, <1>11 DEF AtPlace, Saving, Loaded
<1>13. \A f \in disk : Clear(s, f.n) => Clear(s, f.n)'
  BY <1>1, <1>4, <1>5, <1>6 DEF Clear, Replacing
<1> QED BY <1>1, <1>2, <1>5, <1>8, <1>10, <1>12, <1>13, Quiet

LEMMA SaveDoneOrdered ==
  ASSUME Typed, Typed', Own, Ordered, NEW s \in Sessions, SaveDone(s)
  PROVE  Ordered'
<1>1. /\ hook[s].pc = "done" /\ UNCHANGED <<disk, kept, plan, approved, finished>>
  BY DEF SaveDone, At, Rest, shown
<1>2. Active(s) /\ Agreed(s) /\ AtPlace(s)
  BY <1>1 DEF Active, Ordered
<1>3. kept = disk /\ Has(s) /\ Newest(s) /\ InMem(s)
  BY <1>1, <1>2 DEF Agreed, AtPlace, Saving, Loaded
<1>4. /\ Becomes(s, "end", hook[s].tool, hook[s].v, hook[s].mem, hook[s].to)
      /\ \A t \in Sessions : t # s => state'[t] = hook[s].mem[t]
      /\ state'[s].n = hook[s].mem[s].n /\ state'[s].slug = hook[s].mem[s].slug
      /\ state'[s].done
  BY SaveDoneMoves
<1>5. hook'[s].pc = "end" /\ \A t \in Sessions : t # s => hook'[t] = hook[t]
  BY <1>4 DEF Becomes
<1>6. /\ state'[s].n = state[s].n /\ state'[s].slug = state[s].slug
      /\ \A t \in Sessions : t # s => /\ state'[t].n = state[t].n /\ state'[t].slug = state[t].slug
                                      /\ state'[t].done = state[t].done
  BY <1>3, <1>4 DEF InMem
<1>7. Agreed(s)'
  BY <1>1, <1>3, <1>5 DEF Agreed
<1>8. Has(s)' /\ Newest(s)'
  BY <1>1, <1>3, <1>6 DEF Has, Newest
<1>9. AtPlace(s)'
  BY <1>4, <1>5, <1>8 DEF AtPlace, Saving, Loaded
<1>10. \A f \in disk : Clear(s, f.n) => Clear(s, f.n)'
  BY <1>1, <1>5, <1>6 DEF Clear, Replacing
<1> QED BY <1>1, <1>2, <1>5, <1>6, <1>7, <1>9, <1>10, Quiet

LEMMA EndOrdered ==
  ASSUME Typed, Typed', Own, Ordered, NEW s \in Sessions, End(s)
  PROVE  Ordered'
<1>1. hook[s].pc = "end" /\ UNCHANGED <<disk, kept, state, plan, approved, finished>>
  BY DEF End, At, Rest, shown
<1>2. Active(s) /\ Agreed(s) /\ AtPlace(s)
  BY <1>1 DEF Active, Ordered
<1>3. kept = disk /\ Has(s) /\ Newest(s) /\ (<<s, plan[s].p>> \in approved => state[s].done)
  BY <1>1, <1>2 DEF Agreed, AtPlace, Saving, Loaded
<1>4. hook'[s].pc = "idle" /\ \A t \in Sessions : t # s => hook'[t] = hook[t]
  BY Stops DEF End, Becomes
<1>5. Agreed(s)'
  BY <1>1, <1>3, <1>4 DEF Agreed
<1>6. Has(s)' /\ Newest(s)'
  BY <1>1, <1>3 DEF Has, Newest
<1>7. AtPlace(s)'
  BY <1>1, <1>3, <1>4, <1>6 DEF AtPlace, Saving, Loaded
<1>8. \A f \in disk : Clear(s, f.n) => Clear(s, f.n)'
  BY <1>1, <1>4 DEF Clear, Replacing
<1> QED BY <1>1, <1>2, <1>4, <1>5, <1>7, <1>8, Quiet

LEMMA LoadTasksOrdered ==
  ASSUME Typed, Typed', Own, Ordered, NEW s \in Sessions, LoadTasks(s)
  PROVE  Ordered'
<1>1. hook[s].pc = "loadtasks" /\ UNCHANGED <<disk, kept, state, plan, approved, finished>>
  BY DEF LoadTasks, At, Rest, shown
<1>2. Active(s) /\ Agreed(s) /\ AtPlace(s)
  BY <1>1 DEF Active, Ordered
<1>3. kept = disk /\ Has(s) /\ Newest(s) /\ (<<s, plan[s].p>> \in approved => state[s].done)
  BY <1>1, <1>2 DEF Agreed, AtPlace, Saving, Loaded
<1> DEFINE mem == [state EXCEPT ![s].tasks = hook[s].v.todos]
<1>4. /\ Becomes(s, "savetasks", hook[s].tool, hook[s].v, mem, hook[s].to)
      /\ \A t \in Sessions : /\ mem[t].n = state[t].n /\ mem[t].slug = state[t].slug
                             /\ mem[t].done = state[t].done
  BY LoadTasksMoves
<1> HIDE DEF mem
<1>5. /\ hook'[s].pc = "savetasks" /\ hook'[s].mem = mem
      /\ \A t \in Sessions : t # s => hook'[t] = hook[t]
  BY <1>4 DEF Becomes
<1>6. Agreed(s)'
  BY <1>1, <1>3, <1>5 DEF Agreed
<1>7. Has(s)' /\ Newest(s)' /\ InMem(s)'
  BY <1>1, <1>3, <1>4, <1>5 DEF Has, Newest, InMem
<1>8. AtPlace(s)'
  BY <1>1, <1>3, <1>5, <1>7 DEF AtPlace, Saving, Loaded
<1>9. \A f \in disk : Clear(s, f.n) => Clear(s, f.n)'
  BY <1>1, <1>5 DEF Clear, Replacing
<1> QED BY <1>1, <1>2, <1>5, <1>6, <1>8, <1>9, Quiet

LEMMA SaveTasksOrdered ==
  ASSUME Typed, Typed', Own, Ordered, NEW s \in Sessions, SaveTasks(s)
  PROVE  Ordered'
<1>1. /\ hook[s].pc = "savetasks" /\ state' = hook[s].mem
      /\ UNCHANGED <<disk, kept, plan, approved, finished>>
  BY DEF SaveTasks, At, Rest, shown
<1>2. Active(s) /\ Agreed(s) /\ AtPlace(s)
  BY <1>1 DEF Active, Ordered
<1>3. /\ kept = disk /\ Has(s) /\ Newest(s) /\ InMem(s)
      /\ <<s, plan[s].p>> \in approved => state[s].done
  BY <1>1, <1>2 DEF Agreed, AtPlace, Saving, Loaded
<1>4. hook'[s].pc = "apply" /\ \A t \in Sessions : t # s => hook'[t] = hook[t]
  BY Goes DEF SaveTasks, Places, Listing, Becomes
<1>5. \A t \in Sessions : /\ state'[t].n = state[t].n /\ state'[t].slug = state[t].slug
                          /\ state'[t].done = state[t].done
  BY <1>1, <1>3 DEF InMem
<1>6. Agreed(s)'
  BY <1>1, <1>3, <1>4 DEF Agreed
<1>7. Has(s)' /\ Newest(s)'
  BY <1>1, <1>3, <1>5 DEF Has, Newest
<1>8. AtPlace(s)'
  BY <1>1, <1>3, <1>4, <1>5, <1>7 DEF AtPlace, Saving, Loaded
<1>9. \A f \in disk : Clear(s, f.n) => Clear(s, f.n)'
  BY <1>1, <1>4, <1>5 DEF Clear, Replacing
<1> QED BY <1>1, <1>2, <1>4, <1>5, <1>6, <1>8, <1>9, Quiet

LEMMA ApplyOrdered ==
  ASSUME Typed, Typed', Own, Ordered, NEW s \in Sessions, Apply(s)
  PROVE  Ordered'
<1>1. hook[s].pc = "apply" /\ UNCHANGED <<disk, kept, state, plan, approved, finished>>
  BY DEF Apply, At, Rest, shown
<1>2. Active(s) /\ Agreed(s) /\ AtPlace(s)
  BY <1>1 DEF Active, Ordered
<1>3. kept = disk /\ Has(s) /\ Newest(s) /\ (<<s, plan[s].p>> \in approved => state[s].done)
  BY <1>1, <1>2 DEF Agreed, AtPlace, Saving, Loaded
<1>4. ASSUME NEW pc \in {"idle", "writelist"}, hook'[s].pc = pc,
             \A t \in Sessions : t # s => hook'[t] = hook[t],
             pc = "writelist" =>
               /\ hook'[s].to = state[s].n /\ hook'[s].v.by = s
               /\ \E f \in disk : /\ f.n = hook'[s].to /\ f.slug = hook'[s].v.slug
                                  /\ Plain(f.v) = Plain(hook'[s].v)
      PROVE  Ordered'
  <2>1. Agreed(s)'
    BY <1>1, <1>3, <1>4 DEF Agreed
  <2>2. Has(s)' /\ Newest(s)'
    BY <1>1, <1>3 DEF Has, Newest
  <2>3. AtPlace(s)'
    BY <1>1, <1>3, <1>4, <2>2 DEF AtPlace, Saving, Loaded
  <2>4. \A f \in disk : Clear(s, f.n) => Clear(s, f.n)'
    BY <1>1, <1>4 DEF Clear, Replacing
  <2> QED BY <1>1, <1>2, <1>4, <2>1, <2>3, <2>4, Quiet
<1>5. CASE Becomes(s, "idle", "", Version(0, 0, "", 0), <<>>, 0)
  BY <1>4, <1>5 DEF Becomes
<1>6. ASSUME NEW f \in Named(disk, state[s].n, state[s].slug), NEW v \in Versions,
             v.by = f.v.by, v.slug = f.v.slug, Plain(v) = Plain(f.v),
             Becomes(s, "writelist", hook[s].tool, v, hook[s].mem, state[s].n)
      PROVE  Ordered'
  <2>1. f \in disk /\ f.n = state[s].n /\ f.slug = f.v.slug
    BY DEF Named, Typed, Files
  <2>2. f.v.by = s
    BY <1>3, <2>1, HasFile
  <2>3. /\ hook'[s].pc = "writelist" /\ hook'[s].to = state[s].n /\ hook'[s].v = v
        /\ \A t \in Sessions : t # s => hook'[t] = hook[t]
    BY <1>6 DEF Becomes
  <2> QED BY <1>4, <1>6, <2>1, <2>2, <2>3
<1> QED BY <1>5, <1>6, ApplyMoves

LEMMA WriteListOrdered ==
  ASSUME Typed, Typed', Own, Ordered, NEW s \in Sessions, WriteList(s)
  PROVE  Ordered'
<1> DEFINE g == File(hook[s].to, hook[s].v)
<1>1. /\ hook[s].pc = "writelist" /\ UNCHANGED <<kept, state, plan, approved, finished>>
      /\ disk' = Written(s)
  BY DEF WriteList, At, Rest, shown, Written
<1>2. Active(s) /\ Agreed(s) /\ AtPlace(s)
  BY <1>1 DEF Active, Ordered
<1>3. /\ kept = disk /\ Has(s) /\ Newest(s) /\ hook[s].to = state[s].n /\ hook[s].to # 0
      /\ hook[s].v.by = s
      /\ <<s, plan[s].p>> \in approved => state[s].done
  BY <1>1, <1>2 DEF Agreed, AtPlace, Saving, Loaded, Typed, InHand, Named0
<1>4. PICK f \in disk : /\ f.n = hook[s].to /\ f.slug = hook[s].v.slug
                        /\ Plain(f.v) = Plain(hook[s].v)
  BY <1>1, <1>2 DEF AtPlace
<1>5. f.slug = state[s].slug /\ \A h \in disk : h.n = hook[s].to => h = f
  BY <1>3, <1>4, HasFile DEF Ordered, Distinct
<1>6. /\ hook'[s].pc = "commitlist" /\ hook'[s].tool = hook[s].tool
      /\ hook'[s].v = hook[s].v /\ hook'[s].to = hook[s].to
      /\ \A t \in Sessions : t # s => hook'[t] = hook[t]
  BY Goes DEF WriteList, Places, Listing, Becomes
<1>7. /\ g \in disk' /\ g.n = hook[s].to /\ g.slug = hook[s].v.slug /\ g.v = hook[s].v
      /\ \A h \in disk : h.n # hook[s].to => h \in disk'
      /\ \A h \in disk' : h \in disk \/ h = g
      /\ Distinct'
  BY <1>1, <1>3, <1>4, <1>5, WrittenPlace
<1>8. ToCommit(s)' = {<<g.n, g.slug>>}
  BY <1>6, <1>7 DEF ToCommit
<1> HIDE DEF g
<1>9. Agreed(s)'
  <2>1. ASSUME NEW h \in disk' \cup kept', <<h.n, h.slug>> # <<g.n, g.slug>>
        PROVE  h \in disk' \cap kept'
    <3>1. h \in disk /\ h \in kept'
      BY <1>1, <1>3, <1>7, <2>1
    <3>2. h.n # hook[s].to
      BY <1>4, <1>5, <1>7, <2>1, <3>1
    <3> QED BY <1>7, <3>1, <3>2
  <2> QED BY <1>6, <1>8, <2>1 DEF Agreed
<1>10. Has(s)'
  BY <1>1, <1>3, <1>4, <1>5, <1>7 DEF Has
<1>11. Newest(s)'
  <2> SUFFICES ASSUME plan[s].p # 0 PROVE Newest(s)'
    BY <1>1 DEF Newest
  <2>1. PICK e \in disk : e.n = state[s].n /\ Plain(e.v) = plan[s]
    BY <1>3 DEF Newest
  <2>2. Plain(g.v) = plan[s]
    BY <1>3, <1>4, <1>5, <1>7, <2>1
  <2> QED BY <1>1, <1>3, <1>7, <2>2 DEF Newest
<1>12. AtPlace(s)'
  BY <1>1, <1>3, <1>6, <1>7, <1>10, <1>11 DEF AtPlace, Saving, Loaded, g
<1>13. \A h \in disk : Clear(s, h.n) => h \in disk' /\ Clear(s, h.n)'
  BY <1>1, <1>3, <1>6, <1>7 DEF Clear, Replacing
<1>14. \A h \in disk : h.v.by # s => h \in disk'
  BY <1>3, <1>7, HasFile
<1> QED BY <1>1, <1>2, <1>6, <1>7, <1>9, <1>12, <1>13, <1>14, Assemble

LEMMA CommitListOrdered ==
  ASSUME Typed, Typed', Own, Ordered, NEW s \in Sessions, CommitList(s)
  PROVE  Ordered'
<1>1. /\ hook[s].pc = "commitlist" /\ UNCHANGED <<disk, state, plan, approved, finished>>
      /\ kept' = Committed({<<hook[s].to, hook[s].v.slug>>})
  BY DEF CommitList, At, Rest, shown
<1>2. Active(s) /\ Agreed(s) /\ AtPlace(s)
  BY <1>1 DEF Active, Ordered
<1>3. /\ File(hook[s].to, hook[s].v) \in disk /\ Has(s) /\ Newest(s)
      /\ <<s, plan[s].p>> \in approved => state[s].done
      /\ \A f \in disk \cup kept :
           <<f.n, f.slug>> \notin {<<hook[s].to, hook[s].v.slug>>} => f \in disk \cap kept
  BY <1>1, <1>2 DEF Agreed, ToCommit, AtPlace, Saving, Loaded
<1>4. hook'[s].pc = "end" /\ \A t \in Sessions : t # s => hook'[t] = hook[t]
  BY Goes DEF CommitList, Places, Becomes
<1>5. PathKnown(<<hook[s].to, hook[s].v.slug>>)
  BY <1>3 DEF PathKnown, Named, File
<1>6. kept' = disk'
  BY <1>1, <1>3, <1>5, AllCommitted
<1>7. Agreed(s)'
  BY <1>4, <1>6 DEF Agreed
<1>8. Has(s)' /\ Newest(s)'
  BY <1>1, <1>3 DEF Has, Newest
<1>9. AtPlace(s)'
  BY <1>1, <1>3, <1>4, <1>8 DEF AtPlace, Saving, Loaded
<1>10. \A f \in disk : Clear(s, f.n) => Clear(s, f.n)'
  BY <1>1, <1>4 DEF Clear, Replacing
<1>11. Distinct'
  BY <1>1 DEF Ordered, Distinct
<1> QED BY <1>1, <1>2, <1>4, <1>7, <1>9, <1>10, <1>11, Assemble

LEMMA StepOrdered ==
  ASSUME Typed, Typed', Own, Ordered, NEW s \in Sessions, Step(s)
  PROVE  Ordered'
BY LoadOrdered, AllocateOrdered, RemoveOldOrdered, WriteOrdered, CommitOrdered, SaveOrdered,
   SaveDoneOrdered, EndOrdered, LoadTasksOrdered, SaveTasksOrdered, ApplyOrdered,
   WriteListOrdered, CommitListOrdered DEF Step

\* An event finds all hooks at rest, and starts one.
LEMMA BeginOrdered ==
  ASSUME Typed, Own, Ordered, Nobody, NEW s \in Sessions,
         NEW pc \in {"load", "loadtasks", "apply"}, hook'[s].pc = pc,
         \A t \in Sessions : t # s => hook'[t] = hook[t] /\ plan'[t] = plan[t],
         UNCHANGED <<disk, kept, state>>, pc # "load" => plan'[s] = plan[s],
         \A t \in Sessions : t # s => (<<t, plan[t].p>> \in approved' => <<t, plan[t].p>> \in approved),
         <<s, plan'[s].p>> \in approved' =>
           state[s].done \/ (hook'[s].tool = "ExitPlanMode" /\ pc = "load"),
         \/ finished' = finished
         \/ /\ finished' = finished \cup {plan[s]} /\ <<s, plan[s].p>> \in approved
            /\ hook'[s].tool = "Write" /\ pc = "load"
  PROVE  Ordered'
<1>1. kept = disk /\ \A t \in Sessions : hook[t].pc = "idle"
  BY DEF Ordered, Nobody
<1>2. ASSUME NEW t \in Sessions
      PROVE  Has(t) /\ Newest(t) /\ (<<t, plan[t].p>> \in approved => state[t].done)
  <2>1. AtPlace(t) /\ hook[t].pc = "idle"
    BY <1>1 DEF Ordered
  <2> QED BY <2>1 DEF AtPlace, Saving
<1>3. Solo' /\ Distinct'
  BY <1>1 DEF Ordered, Distinct, Solo, Active
<1>4. \A t \in Sessions : Agreed(t)'
  BY <1>1 DEF Agreed
<1>5. ASSUME NEW t \in Sessions PROVE AtPlace(t)'
  <2>1. Has(t)'
    BY <1>2 DEF Has
  <2>2. hook'[t].pc # "load" => Newest(t)'
    BY ZenonT(60), <1>2 DEF Newest
  <2>3. hook'[t].pc \in {"idle", "load", "loadtasks", "apply"}
    BY <1>1
  <2>4. CASE t = s
    BY <2>1, <2>2, <2>3, <2>4 DEF AtPlace, Saving, Loaded
  <2>5. CASE t # s
    <3>1. <<t, plan'[t].p>> \in approved' => state'[t].done
      BY <1>2, <2>5
    <3> QED BY <2>1, <2>2, <2>3, <2>5, <3>1, <1>1 DEF AtPlace, Saving, Loaded
  <2> QED BY <2>4, <2>5
<1>6. ASSUME NEW v \in finished PROVE Behind(v)'
  <2>1. PICK f \in disk : v.by \in Sessions /\ Plain(f.v) = v /\ Clear(v.by, f.n)
    BY DEF Ordered, Behind
  <2>2. f.n # state[v.by].n
    BY <1>1, <2>1 DEF Clear, Replacing
  <2>3. Clear(v.by, f.n)'
    <3>1. hook'[v.by].pc \notin {"write", "commit", "save"}
      BY <1>1, <2>1
    <3> QED BY <2>2, <3>1 DEF Clear
  <2> QED BY <2>1, <2>3 DEF Behind
<1>7. ASSUME NEW v, v = plan[s], <<s, v.p>> \in approved, hook'[s].tool = "Write", pc = "load"
      PROVE  Behind(v)'
  <2>1. plan[s].p # 0 /\ plan[s].by = s
    <3>1. plan[s].p \in Nat /\ plan[s].p > left["plan"] /\ left["plan"] \in Nat
      BY <1>7 DEF Own, Typed, Versions, Kinds
    <3> QED BY <3>1 DEF Own, OwnPlan
  <2>2. PICK f \in disk : f.n = state[s].n /\ Plain(f.v) = v
    BY <1>2, <1>7, <2>1 DEF Newest
  <2>3. state[s].done
    BY <1>2, <1>7
  <2>4. Clear(s, f.n)'
    BY <1>7, <2>3 DEF Clear, Replacing
  <2> QED BY <1>7, <2>1, <2>2, <2>4 DEF Behind
<1>8. \A v \in finished' : Behind(v)'
  BY <1>6, <1>7
<1> QED BY <1>1, <1>3, <1>4, <1>5, <1>8 DEF Ordered

LEMMA SubmitOrdered ==
  ASSUME Typed, Own, Ordered, Nobody, NEW s \in Sessions, NEW tool, NEW v, Submitted(s, tool, v),
         \A a \in approved' : a \in approved \/ a[1] = s,
         <<s, v.p>> \in approved' => state[s].done \/ tool = "ExitPlanMode",
         \/ finished' = finished
         \/ finished' = finished \cup {plan[s]} /\ <<s, plan[s].p>> \in approved /\ tool = "Write"
  PROVE  Ordered'
<1>1. /\ hook'[s].pc = "load" /\ hook'[s].tool = tool
      /\ \A t \in Sessions : t # s => hook'[t] = hook[t]
  BY DEF Submitted, Becomes
<1>2. /\ plan'[s] = v /\ \A t \in Sessions : t # s => plan'[t] = plan[t]
      /\ UNCHANGED <<disk, kept, state>>
  BY DEF Submitted, Typed
<1>3. \A t \in Sessions : t # s => (<<t, plan[t].p>> \in approved' => <<t, plan[t].p>> \in approved)
  OBVIOUS
<1> QED BY <1>1, <1>2, <1>3, BeginOrdered

LEMMA EventOrdered ==
  ASSUME Typed, Own, Ordered, Nobody, NEW s \in Sessions,
         NewPlan(s) \/ Revises(s, "Write") \/ Revises(s, "Edit") \/ ExitPlanMode(s)
           \/ Task(s) \/ Todo(s)
  PROVE  Ordered'
<1>1. <<s, plan[s].p>> \in approved => state[s].done
  <2>1. AtPlace(s) /\ hook[s].pc = "idle"
    BY DEF Ordered, Nobody
  <2> QED BY <2>1 DEF AtPlace, Saving
<1>2. CASE NewPlan(s)
  <2>1. PICK v : /\ Submitted(s, "Write", v) /\ v.p = left["plan"] /\ left["plan"] \in Nat
                 /\ approved' = approved
                 /\ finished' = IF <<s, plan[s].p>> \in approved THEN finished \cup {plan[s]}
                                ELSE finished
    BY <1>2, NewPlanMoves
  <2>2. <<s, v.p>> \notin approved'
    <3> SUFFICES ASSUME <<s, v.p>> \in approved PROVE FALSE
      BY <2>1
    <3>1. <<s, v.p>>[2] > left["plan"]
      BY DEF Own
    <3> QED BY <2>1, <3>1
  <2> QED BY <2>1, <2>2, SubmitOrdered
<1>3. ASSUME NEW tool \in {"Write", "Edit"}, Revises(s, tool)
      PROVE  Ordered'
  <2>1. PICK v : /\ Submitted(s, tool, v) /\ v.p = plan[s].p
                 /\ UNCHANGED <<approved, finished>>
    BY <1>3, RevisesMoves
  <2> QED BY <1>1, <2>1, SubmitOrdered
<1>4. CASE ExitPlanMode(s)
  <2>1. /\ Submitted(s, "ExitPlanMode", plan[s])
        /\ approved' = approved \cup {<<s, plan[s].p>>} /\ finished' = finished
    BY <1>4, ExitMoves
  <2>2. \A a \in approved' : a \in approved \/ a[1] = s
    BY <2>1
  <2> QED BY <2>1, <2>2, SubmitOrdered
<1>5. CASE Task(s) \/ Todo(s)
  <2>1. PICK v \in Versions, tool \in {"Task", "Todo"}, pc \in {"loadtasks", "apply"} :
           /\ hook[s].pc = "idle" /\ Becomes(s, pc, tool, v, <<>>, 0)
           /\ overlapped' = (overlapped \/ ~ Nobody)
           /\ UNCHANGED <<disk, kept, state, plan, approved, finished, refused>>
           /\ left' \in [Kinds -> Nat] /\ left'["plan"] = left["plan"]
    BY <1>5, ListMoves
  <2>2. hook'[s].pc = pc /\ \A t \in Sessions : t # s => hook'[t] = hook[t]
    BY <2>1 DEF Becomes
  <2> QED BY <1>1, <2>1, <2>2, BeginOrdered
<1> QED BY <1>2, <1>3, <1>4, <1>5

\* An event while a hook is at work, and git refusing, are remembered.
LEMMA LuckyNext ==
  ASSUME Typed, [Next]_vars, Lucky'
  PROVE  /\ Lucky
         /\ \/ UNCHANGED vars
            \/ \E s \in Sessions : Step(s)
            \/ Nobody /\ \E s \in Sessions :
                 NewPlan(s) \/ Revises(s, "Write") \/ Revises(s, "Edit") \/ ExitPlanMode(s)
                   \/ Task(s) \/ Todo(s)
<1>0. ~ overlapped' /\ ~ refused' /\ overlapped \in BOOLEAN /\ refused \in BOOLEAN
  BY DEF Lucky, Typed
<1>1. CASE UNCHANGED vars
  BY <1>0, <1>1 DEF vars, Lucky
<1>2. ASSUME NEW s \in Sessions, Step(s) PROVE Lucky
  <2>1. overlapped' = overlapped /\ refused' = refused
    BY <1>2 DEF Step, Rest, Load, Allocate, RemoveOld, Write, Commit, Save, SaveDone, End,
                LoadTasks, SaveTasks, Apply, WriteList, CommitList
  <2> QED BY <1>0, <2>1 DEF Lucky
<1>3. ASSUME NEW s \in Sessions, GitRefuses(s) PROVE FALSE
  BY <1>0, <1>3 DEF GitRefuses
<1>4. ASSUME NEW s \in Sessions,
             NewPlan(s) \/ Revises(s, "Write") \/ Revises(s, "Edit") \/ ExitPlanMode(s)
               \/ Task(s) \/ Todo(s)
      PROVE  Lucky /\ Nobody
  <2>1. overlapped' = (overlapped \/ ~ Nobody) /\ refused' = refused
    BY <1>4 DEF NewPlan, Revises, ExitPlanMode, Submits, Starts, Task, Todo
  <2> QED BY <1>0, <2>1 DEF Lucky
<1> QED BY <1>1, <1>2, <1>3, <1>4 DEF Next

LEMMA OrderHolds == Spec => [](Typed /\ Own /\ (Lucky => Ordered))
<1>1. Typed /\ Typed' /\ Own /\ (Lucky => Ordered) /\ [Next]_vars => (Lucky => Ordered)'
  <2> SUFFICES ASSUME Typed, Typed', Own, Lucky => Ordered, [Next]_vars, Lucky'
               PROVE  Ordered'
    OBVIOUS
  <2>1. Ordered
    BY LuckyNext
  <2>2. CASE UNCHANGED vars
    BY <2>1, <2>2
    DEF vars, shown, Ordered, Solo, Active, Distinct, Nobody, Agreed, ToCommit, Paths, Renames,
        Known, AtPlace, Has, Newest, InMem, Behind, Clear, Replacing
  <2>3. ASSUME NEW s \in Sessions, Step(s) PROVE Ordered'
    BY <2>1, <2>3, StepOrdered
  <2>4. ASSUME Nobody, NEW s \in Sessions,
               NewPlan(s) \/ Revises(s, "Write") \/ Revises(s, "Edit") \/ ExitPlanMode(s)
                 \/ Task(s) \/ Todo(s)
        PROVE  Ordered'
    BY <2>1, <2>4, EventOrdered
  <2> QED BY <2>2, <2>3, <2>4, LuckyNext
<1>2. Init => (Lucky => Ordered)
  BY InitOrdered
<1> QED BY <1>1, <1>2, OwnHolds, PTL DEF Spec

\* One number, one plan file (next_prefix, and git rm of the old name), as long
\* as no hooks overlap and git does not refuse.
THEOREM NumbersSafe == Spec => []NumbersDistinct
<1>1. (Lucky => Ordered) => NumbersDistinct
  BY DEF Ordered, Distinct, NumbersDistinct
<1> QED BY <1>1, OrderHolds, PTL

\* Once its hook has ended, the newest version of a session's plan is on disk and
\* committed (save_plan and commit_paths), and so is everything else.
THEOREM NewestSafe == Spec => []NewestSaved
<1>1. (Lucky => Ordered) => NewestSaved
  <2> SUFFICES ASSUME Ordered, Nobody, NEW s \in Sessions, plan[s].p # 0
               PROVE  /\ \E f \in disk \cap kept : Plain(f.v) = plan[s]
                      /\ disk = kept
    BY DEF NewestSaved, Sequential
  <2>1. kept = disk /\ AtPlace(s) /\ hook[s].pc = "idle"
    BY DEF Ordered, Nobody
  <2>2. Newest(s)
    BY <2>1 DEF AtPlace, Saving
  <2> QED BY <2>1, <2>2 DEF Newest
<1> QED BY <1>1, OrderHolds, PTL

\* A plan the user approved keeps its file and its final text, whatever plans the
\* session makes later (the done mark of the state file, and save_plan's new number).
THEOREM FinishedSafe == Spec => []FinishedPlansStay
<1>1. (Lucky => Ordered) => FinishedPlansStay
  BY DEF Ordered, Behind, FinishedPlansStay, Sequential
<1> QED BY <1>1, OrderHolds, PTL
=============================================================================
