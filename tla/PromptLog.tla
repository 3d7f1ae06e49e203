----------------------------- MODULE PromptLog -----------------------------
(***************************************************************************)
(* The prompt log of scripts/°base/ai/hooks: every prompt, queued text,    *)
(* shell command, agent result, compaction, question and answer of the AI  *)
(* sessions of one checkout becomes an entry of ai/query.md, and every     *)
(* entry is committed on its own.  The hooks (save-prompt, save-decision,  *)
(* save-compact-prompt and the compact part of record-memory) are separate *)
(* processes without a lock between them: two sessions in one checkout     *)
(* interleave at every read of a file and at every git command, and the    *)
(* user edits, stages and commits the same file beside them.               *)
(*                                                                         *)
(* A session raises its next event once the hook of its earlier event has  *)
(* ended (a human or a model turn lies between them); hooks of different   *)
(* sessions overlap freely.  Rendering is abstracted to what an entry is   *)
(* about, and a line of the log to an entry.                               *)
(***************************************************************************)
EXTENDS Integers, SequencesExt, FiniteSetsExt

CONSTANTS
    Sessions,      \* numbers of the AI sessions that share the checkout
    Scenarios      \* records [tool |-> the tool of each session, or "none",
                   \* left |-> how often each kind of event may happen]

VARIABLES
    log, index, head,  \* query.md: working copy, staged, committed
    files, kept,       \* artifacts on disk, and as committed
    markers, aged,     \* pending decisions, and those past the threshold
    session,           \* alive, question on the screen, transcript
    hook,              \* the hook process of each session
    given, unlucky,    \* what hooks were told; what a fault may have cost
    lingered,          \* questions that stood open past the threshold
    tool, left         \* the scenario: tools, and the events still to come

git   == <<log, index, head, files, kept>>
ghost == <<given, unlucky, lingered>>
vars  == <<git, markers, aged, session, hook, ghost, tool, left>>

Numbered == {"command", "agent", "result", "autoload", "instructions"}
Alone    == {"autoload", "instructions"}   \* whose artifact gets its own commit

\* An entry: its kind, its content, the task or prompt id its artifact is
\* named after (for a marker: the session), and the artifact's number.
Entry(k, of, id) == [k |-> k, of |-> of, id |-> id, at |-> 0]

\* What an entry tells of: a question is told once, however it ended.
Key(e) == <<IF e.k \in {"answered", "canceled", "orphaned"} THEN "question" ELSE e.k, e.of>>
Told(es) == {Key(es[i]) : i \in DOMAIN es}

Free   == [pc |-> "idle", arg |-> Entry("none", 0, 0), todo |-> <<>>,
           block |-> <<>>, snap |-> <<>>, seen |-> <<>>]
Nobody == \A s \in Sessions : hook[s].pc = "idle"

(***************************************************************************)
(* Numbered artifacts: agents/NNN.task, commands/NNN.log, compact/NNN.id   *)
(* with a result and an autoload list, compacted/NNN.md.                   *)
(***************************************************************************)
DirOf(k) == IF k \in {"result", "autoload"} THEN "compact" ELSE k
File(e)  == [k |-> e.k, n |-> e.at, id |-> e.id, of |-> e.of]
SameName(f, g) == f.k = g.k /\ f.n = g.n /\ f.id = g.id
Put(fs, new) == {f \in fs : ~ \E g \in new : SameName(f, g)} \cup new

NextNumber(k) ==
    Max({0} \cup {f.n : f \in {g \in files : DirOf(g.k) = DirOf(k)}}) + 1

\* Mutant: whatever the prompt id has stored before counts as this content.
ReserveOncePerPrompt(e) ==
    IF \E f \in files : f.k = e.k /\ f.id = e.id THEN 0 ELSE NextNumber(e.k)

\* A directory of the same prompt id that misses the artifact or holds this
\* very content settles the matter, the latest first; without a prompt id
\* nothing is looked up.  0: stored already, the event is a repetition.
Reserve(e) ==
    LET mine     == {f \in files : DirOf(f.k) = "compact" /\ f.id = e.id /\ e.id # 0}
        Has(n)   == {f \in mine : f.n = n /\ f.k = e.k}
        settling == {n \in {f.n : f \in mine} : \A f \in Has(n) : f.of = e.of}
    IN  IF settling = {} THEN NextNumber(e.k)
        ELSE IF Has(Max(settling)) = {} THEN Max(settling) ELSE 0

\* The artifacts of one job get consecutive numbers.
Numbers(es) ==
    LET first == IF DirOf(es[1].k) = "compact" THEN Reserve(es[1]) ELSE NextNumber(es[1].k)
    IN  [i \in DOMAIN es |-> [es[i] EXCEPT !.at = first + i - 1]]

(***************************************************************************)
(* What the transcript holds between the previous prompt and prompt p:     *)
(* Claude's queued texts are appended one by one, Codex' commands together.*)
(***************************************************************************)
Before(t, p) ==
    LET here  == CHOOSE i \in DOMAIN t : t[i] = Entry("prompt", p, 0)
        since == Max({0} \cup {i \in 1..(here - 1) : t[i].k = "prompt"})
    IN  SubSeq(t, since + 1, here - 1)

Captured(s, p) ==
    LET texts == Before(session[s].transcript, p)
    IN  IF texts = <<>> THEN <<>>
        ELSE IF tool[s] = "codex" THEN <<texts>>
        ELSE [i \in DOMAIN texts |-> <<texts[i]>>]

(***************************************************************************)
(* merge_staged.merge: the edits that lead from base to staged, applied to *)
(* the new head.  What the two share at both ends is kept; an insertion    *)
(* behind the last line of base goes behind everything.                    *)
(***************************************************************************)
SharedEnd(a, b) ==
    Max({n \in 0..Min({Len(a), Len(b)}) :
            \A i \in 0..(n - 1) : a[Len(a) - i] = b[Len(b) - i]})

Merge(base, staged, new) ==
    LET front == Len(LongestCommonPrefix({base, staged}))
        back  == SharedEnd(SubSeq(base, front + 1, Len(base)),
                           SubSeq(staged, front + 1, Len(staged)))
        ins   == SubSeq(staged, front + 1, Len(staged) - back)
    IN  IF front = Len(base) THEN new \o ins
        ELSE SubSeq(new, 1, front) \o ins \o SubSeq(new, Len(base) - back + 1, Len(new))

(***************************************************************************)
(* Events of the harness and the humans.                                   *)
(***************************************************************************)
Init ==
    /\ \E c \in Scenarios : tool = c.tool /\ left = c.left
    /\ log = <<>> /\ index = <<>> /\ head = <<>> /\ files = {} /\ kept = {}
    /\ markers = {} /\ aged = {} /\ given = {} /\ unlucky = {} /\ lingered = {}
    /\ session = [s \in Sessions |->
                    [alive |-> tool[s] # "none", asks |-> 0, transcript |-> <<>>]]
    /\ hook = [s \in Sessions |-> Free]

Uses(what) == left[what] > 0 /\ left' = [left EXCEPT ![what] = @ - 1]
Quiet(s)   == session[s].alive /\ hook[s].pc = "idle"
Ready(s)   == Quiet(s) /\ session[s].asks = 0

Starts(s, pc, e, todo) ==
    hook' = [hook EXCEPT ![s] = [Free EXCEPT !.pc = pc, !.arg = e, !.todo = todo]]
Gives(es) == given' = given \cup Told(es) /\ UNCHANGED <<unlucky, lingered>>

\* PreToolUse of a question, which the user sees from now on.
Ask(s) ==
    /\ Ready(s) /\ Uses("ask")
    /\ LET q == Entry("canceled", left["ask"], s)
       IN  /\ session' = [session EXCEPT ![s].asks = q.of]
           /\ Starts(s, "mark", q, <<>>) /\ Gives(<<q>>)
    /\ UNCHANGED <<git, markers, aged, tool>>

\* PostToolUse: the user has answered.
Answer(s) ==
    /\ Quiet(s) /\ session[s].asks # 0
    /\ session' = [session EXCEPT ![s].asks = 0]
    /\ Starts(s, "unmark", Entry("answered", session[s].asks, s), <<>>)
    /\ UNCHANGED <<git, markers, aged, ghost, tool, left>>

\* "Chat about this": the harness runs no hook.
Decline(s) ==
    /\ Quiet(s) /\ session[s].asks # 0
    /\ session' = [session EXCEPT ![s].asks = 0]
    /\ UNCHANGED <<git, markers, aged, hook, ghost, tool, left>>

EndTurn(s) ==
    /\ Ready(s) /\ Starts(s, "list", Entry("none", 0, s), <<>>)
    /\ UNCHANGED <<git, markers, aged, session, ghost, tool, left>>

\* A text typed ahead (Claude) or a shell command (Codex): until the next
\* prompt it is only a record of the transcript.
TypeAhead(s) ==
    /\ Quiet(s) /\ Uses("queue")
    /\ session' = [session EXCEPT ![s].transcript = Append(@,
         Entry(IF tool[s] = "codex" THEN "command" ELSE "queued", left["queue"], 0))]
    /\ UNCHANGED <<git, markers, aged, hook, ghost, tool>>

\* What save-prompt logs for the prompt itself: nothing for one it skips, for
\* a task notification the agent's result and the text behind it.
Bodies(p) ==
    LET text  == <<Entry("prompt", p, 0)>>
        agent == <<Entry("agent", p, p)>>
    IN  {<<>>, <<text>>, <<agent>>, <<agent, text>>}

Submit(s) ==
    /\ Ready(s) /\ Uses("prompt")
    /\ LET p == left["prompt"]
           t == Append(session[s].transcript, Entry("prompt", p, 0))
       IN  \E body \in Bodies(p) :
             /\ session' = [session EXCEPT ![s].transcript = t]
             /\ Starts(s, "capture", Entry("prompt", p, 0), body)
             /\ Gives(FlattenSeq(body) \o Before(t, p))
    /\ UNCHANGED <<git, markers, aged, tool>>

Results == {f \in files : f.k = "result"}

\* PostCompact of a new summary, under its own prompt id or one in use.
Compact(s) ==
    /\ Ready(s) /\ Uses("compact")
    /\ \E id \in {left["compact"]} \cup {f.id : f \in Results} :
         LET e == Entry("result", left["compact"], id)
         IN  Starts(s, "job", Entry("none", 0, s), <<<<e>>>>) /\ Gives(<<e>>)
    /\ UNCHANGED <<git, markers, aged, session, tool>>

\* SessionStart reports a compaction that PostCompact reported before.
CompactAgain(s) ==
    /\ Ready(s) /\ Uses("again")
    /\ \E f \in Results :
         Starts(s, "job", Entry("none", 0, s), <<<<Entry("result", f.of, f.id)>>>>)
    /\ UNCHANGED <<git, markers, aged, session, ghost, tool>>

\* A "/compact" prompt with autoloads (no prompt id: 0), and PreCompact of a
\* manual compaction with instructions.
CompactPrompt(s) ==
    /\ Ready(s) /\ Uses("autoload")
    /\ \E e \in {Entry("instructions", left["autoload"], 0)} \cup
                {Entry("autoload", left["autoload"], id) : id \in {0} \cup {f.id : f \in Results}} :
         Starts(s, "job", Entry("none", 0, s), <<<<e>>>>) /\ Gives(<<e>>)
    /\ UNCHANGED <<git, markers, aged, session, tool>>

\* The session is gone; a hook it started runs on.
Die(s) ==
    /\ session[s].alive /\ Uses("die") /\ \E t \in Sessions \ {s} : session[t].alive
    /\ session' = [session EXCEPT ![s].alive = FALSE]
    /\ UNCHANGED <<git, markers, aged, hook, ghost, tool>>

\* Thirty minutes pass: for the question of a session that is gone with its
\* hooks, or ("linger") for one whose user takes that long.
Age(m) ==
    /\ m \in markers \ aged /\ aged' = aged \cup {m} /\ hook[m.id].pc = "idle"
    /\ \/ ~ session[m.id].alive /\ UNCHANGED <<left, lingered>>
       \/ session[m.id].alive /\ Uses("linger") /\ lingered' = lingered \cup {Key(m)}
    /\ UNCHANGED <<git, markers, session, hook, given, unlucky, tool>>

\* The user writes into the log by hand, stages it, commits what is staged.
UserWrites ==
    /\ Uses("write") /\ log' = Append(log, Entry("user", left["write"], 0))
    /\ UNCHANGED <<index, head, files, kept, markers, aged, session, hook, ghost, tool>>

UserStages ==
    /\ index # log /\ Uses("stage") /\ index' = log
    /\ UNCHANGED <<log, head, files, kept, markers, aged, session, hook, ghost, tool>>

UserCommits ==
    /\ index # head /\ Uses("commit") /\ head' = index
    /\ UNCHANGED <<log, index, files, kept, markers, aged, session, hook, ghost, tool>>

(***************************************************************************)
(* Steps of a hook.                                                        *)
(***************************************************************************)
At(s, pc) == hook[s].pc = pc
Goto(s, pc) == hook' = [hook EXCEPT ![s].pc = pc]
Outside == <<session, given, lingered, tool, left>>

\* save-decision: PreToolUse leaves the question as canceled, PostToolUse
\* takes it back and logs the answer.
Mark(s) ==
    /\ At(s, "mark") /\ markers' = markers \cup {hook[s].arg}
    /\ hook' = [hook EXCEPT ![s] = Free]
    /\ UNCHANGED <<git, aged, unlucky, Outside>>

Unmark(s) ==
    /\ At(s, "unmark")
    /\ markers' = {m \in markers : Key(m) # Key(hook[s].arg)}
    /\ aged' = aged \cap markers'
    /\ hook' = [hook EXCEPT ![s].pc = "snap", ![s].block = <<hook[s].arg>>]
    /\ UNCHANGED <<git, unlucky, Outside>>

\* The sweep at the end of a turn: the session's own markers and old ones.
\* Mutants: every session's markers; only the session's own.
SweepableAll(s) == markers
SweepableOwn(s) == {m \in markers : m.id = s}

Sweepable(s) == {m \in markers : m.id = s \/ m \in aged}

ListMarkers(s) ==
    /\ At(s, "list")
    /\ hook' = [hook EXCEPT ![s].pc = "read", ![s].todo = SetToSeq(Sweepable(s))]
    /\ UNCHANGED <<git, markers, aged, unlucky, Outside>>

ReadMarker(s) ==
    /\ At(s, "read") /\ hook[s].todo # <<>>
    /\ LET m == Head(hook[s].todo)
           e == IF m.id = s THEN m ELSE [m EXCEPT !.k = "orphaned"]
       IN  IF m \in markers
           THEN hook' = [hook EXCEPT ![s].pc = "drop", ![s].block = Append(@, e)]
           ELSE hook' = [hook EXCEPT ![s].todo = Tail(@)]
    /\ UNCHANGED <<git, markers, aged, unlucky, Outside>>

DropMarker(s) ==
    /\ At(s, "drop")
    /\ markers' = markers \ {Head(hook[s].todo)} /\ aged' = aged \cap markers'
    /\ hook' = [hook EXCEPT ![s].pc = "read", ![s].todo = Tail(@)]
    /\ UNCHANGED <<git, unlucky, Outside>>

Swept(s) ==
    /\ At(s, "read") /\ hook[s].todo = <<>>
    /\ Goto(s, IF hook[s].block = <<>> THEN "job" ELSE "snap")
    /\ UNCHANGED <<git, markers, aged, unlucky, Outside>>

\* save-prompt: first what was typed or run since the previous prompt.
Capture(s) ==
    /\ At(s, "capture")
    /\ hook' = [hook EXCEPT ![s].pc = "job",
                            ![s].todo = Captured(s, hook[s].arg.of) \o @]
    /\ UNCHANGED <<git, markers, aged, unlucky, Outside>>

NextJob(s) ==
    /\ At(s, "job")
    /\ IF hook[s].todo = <<>> THEN hook' = [hook EXCEPT ![s] = Free]
       ELSE LET es == Head(hook[s].todo)
            IN  hook' = [hook EXCEPT ![s].todo = Tail(@), ![s].block = es,
                           ![s].pc = IF es[1].k \in Numbered THEN "look" ELSE "snap"]
    /\ UNCHANGED <<git, markers, aged, unlucky, Outside>>

LookForNumber(s) ==
    /\ At(s, "look")
    /\ LET es == Numbers(hook[s].block)
       IN  hook' = [hook EXCEPT ![s].block = es,
                                ![s].pc = IF es[1].at = 0 THEN "job" ELSE "write"]
    /\ UNCHANGED <<git, markers, aged, unlucky, Outside>>

Artifacts(es) == {File(es[i]) : i \in {j \in DOMAIN es : es[j].at # 0}}

WriteArtifacts(s) ==
    /\ At(s, "write")
    /\ files' = Put(files, Artifacts(hook[s].block))
    /\ Goto(s, IF hook[s].block[1].k \in Alone THEN "alone" ELSE "snap")
    /\ UNCHANGED <<log, index, head, kept, markers, aged, unlucky, Outside>>

\* What a commit of the entries' artifacts takes: their state on disk.
OnDisk(es) == {f \in files : \E g \in Artifacts(es) : SameName(f, g)}

CommitAlone(s) ==
    /\ At(s, "alone") /\ kept' = Put(kept, OnDisk(hook[s].block))
    /\ Goto(s, "snap")
    /\ UNCHANGED <<log, index, head, files, markers, aged, unlucky, Outside>>

\* append_and_commit.
\* Mutant: the commit names the log alone.
ExtraNone(es) == <<>>

Extra(es) == IF es[1].k \in Alone THEN <<>> ELSE es

Snapshot(s) ==
    /\ At(s, "snap")
    /\ hook' = [hook EXCEPT ![s].pc = "append",
                            ![s].snap = IF index = head THEN <<>> ELSE <<head, index>>]
    /\ UNCHANGED <<git, markers, aged, unlucky, Outside>>

AppendEntries(s) ==
    /\ At(s, "append") /\ log' = log \o hook[s].block /\ Goto(s, "add")
    /\ UNCHANGED <<index, head, files, kept, markers, aged, unlucky, Outside>>

GitAdd(s) ==
    /\ At(s, "add") /\ index' = log /\ Goto(s, "commit")
    /\ UNCHANGED <<log, head, files, kept, markers, aged, unlucky, Outside>>

Committed(s) == Goto(s, IF hook[s].snap = <<>> THEN "job" ELSE "show")

\* --only takes the files as they are on disk, whoever wrote into them.
GitCommit(s) ==
    /\ At(s, "commit")
    /\ head' = log /\ index' = log
    /\ kept' = Put(kept, OnDisk(Extra(hook[s].block)))
    /\ Committed(s)
    /\ UNCHANGED <<log, files, markers, aged, unlucky, Outside>>

ShowHead(s) ==
    /\ At(s, "show")
    /\ hook' = [hook EXCEPT ![s].pc = "restore", ![s].seen = head]
    /\ UNCHANGED <<git, markers, aged, unlucky, Outside>>

RestoreStaged(s) ==
    /\ At(s, "restore")
    /\ index' = Merge(hook[s].snap[1], hook[s].snap[2], hook[s].seen)
    /\ Goto(s, "job")
    /\ UNCHANGED <<log, head, files, kept, markers, aged, unlucky, Outside>>

(***************************************************************************)
(* Faults: git refuses (another git process holds the index), unnoticed;   *)
(* a hook is killed.                                                       *)
(***************************************************************************)
Costs(ks) == unlucky' = unlucky \cup ks

\* A commit of files git does not know yet fails with the add.
GitRefuses(s) ==
    /\ Uses("refuse")
    /\ \/ At(s, "alone") /\ Goto(s, "snap")
       \/ At(s, "add") /\ (IF Artifacts(Extra(hook[s].block)) = {} /\ index # <<>>
                           THEN Goto(s, "commit") ELSE Committed(s))
       \/ At(s, "commit") /\ Committed(s)
    /\ Costs(Told(hook[s].block))
    /\ UNCHANGED <<git, markers, aged, session, given, lingered, tool>>

Carries(s) ==
    Told(<<hook[s].arg>> \o hook[s].block)
      \cup CASE hook[s].pc \in {"list", "read", "drop"} -> {}
             [] hook[s].pc = "capture" ->
                  Told(FlattenSeq(Captured(s, hook[s].arg.of) \o hook[s].todo))
             [] OTHER -> Told(FlattenSeq(hook[s].todo))

Kill(s) ==
    /\ hook[s].pc # "idle" /\ Uses("kill") /\ Costs(Carries(s))
    /\ hook' = [hook EXCEPT ![s] = Free]
    /\ UNCHANGED <<git, markers, aged, session, given, lingered, tool>>

Step(s) ==
    \/ Mark(s) \/ Unmark(s) \/ ListMarkers(s) \/ ReadMarker(s) \/ DropMarker(s) \/ Swept(s)
    \/ Capture(s) \/ NextJob(s) \/ LookForNumber(s) \/ WriteArtifacts(s) \/ CommitAlone(s)
    \/ Snapshot(s) \/ AppendEntries(s) \/ GitAdd(s) \/ GitCommit(s)
    \/ ShowHead(s) \/ RestoreStaged(s)

Decides(s) == Answer(s) \/ Decline(s)

Next ==
    \/ \E s \in Sessions :
         \/ Step(s) \/ Decides(s) \/ Ask(s) \/ EndTurn(s) \/ TypeAhead(s) \/ Submit(s)
         \/ Compact(s) \/ CompactAgain(s) \/ CompactPrompt(s) \/ Die(s)
         \/ GitRefuses(s) \/ Kill(s)
    \/ \E m \in markers : Age(m)
    \/ UserWrites \/ UserStages \/ UserCommits

Spec == Init /\ [][Next]_vars

\* The system runs every process; a living session's turns end, its user
\* decides; and time passes.
FairSpec ==
    /\ Spec
    /\ \A s \in Sessions : WF_vars(Step(s)) /\ WF_vars(Decides(s)) /\ WF_vars(EndTurn(s))
    /\ WF_vars(\E m \in markers : Age(m))

(***************************************************************************)
(* Properties                                                              *)
(***************************************************************************)
\* No event is logged twice: a question is never told as answered and as
\* canceled (_lib.py sweep_pending_decisions), a queued text or command is
\* picked up by one prompt only, a compaction reported twice is stored once.
\* The exception is a question that stood open for longer than the threshold.
LogTellsOnce ==
    \A i, j \in DOMAIN log :
        i < j => Key(log[i]) # Key(log[j]) \/ Key(log[i]) \in lingered

\* Once the hooks have ended, everything they were given is in the log, or is
\* a question on the screen or with a marker for the next sweep; unless git
\* refused or the hook that carried it was killed.
NothingMissing ==
    Nobody => \A k \in given \ unlucky :
        \/ k \in Told(log)
        \/ \E s \in Sessions : k = <<"question", session[s].asks>>
        \/ \E m \in markers : Key(m) = k

\* Once the hooks have ended, every logged entry is committed, and a committed
\* entry that links an artifact has it committed with its own content.
EntriesCommitted ==
    Nobody => \A i \in DOMAIN log :
        LET e == log[i] IN
        e.k # "user" /\ Key(e) \notin unlucky =>
            /\ \E j \in DOMAIN head : head[j] = e
            /\ e.at # 0 => File(e) \in files /\ File(e) \in kept

\* Every question is recorded in the end, also one that was declined and one
\* of a session that died while it was on the screen.
QuestionsRecorded ==
    \A q \in 1..2 : <<"question", q>> \in given ~>
                        <<"question", q>> \in Told(log) \cup unlucky

=============================================================================
