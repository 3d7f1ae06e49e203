----------------------------- MODULE MemorySync -----------------------------
(***************************************************************************)
(* A memory is a small file that the AI tools keep about a project.  It    *)
(* lives in up to four places: where Claude keeps it, in the project's     *)
(* repository, in the project's resource below Codex's own repository,     *)
(* and, if Codex wrote it, as a note there that no project owns yet.  Two  *)
(* hooks and two commands keep the places the same by linking the files    *)
(* to one another, and commit the project's copy.  The hooks are started   *)
(* after every tool call, at the start of a session and at its end; they   *)
(* run beside the tools and beside each other, and may be killed.          *)
(*                                                                         *)
(* link_file looks, unlinks the destination and links it, in three steps.  *)
(* A file is an inode and what it holds, so that writing in place changes  *)
(* every place that is a hard link to it.                                  *)
(***************************************************************************)
EXTENDS Naturals, FiniteSets, FiniteSetsExt

CONSTANTS
    Names,        \* names of memories
    Recorders,    \* record-memory hooks that may run at the same time
    Scenarios     \* where the memories are at first, and how much of what happens

VARIABLES
    scene,        \* what does not change: whether the project is on the disk of the
                  \* home directory, whether Codex has a memory repository, and the
                  \* memories that something happens to
    fs,           \* the directory entry at each path
    head,         \* what the project's HEAD holds of each memory
    tracked,      \* the memories in the project's git index
    deletion,     \* how the last commit that deleted a memory was marked
    listed,       \* the memories the project's MEMORY.md has a line for
    meta,         \* .codex-sync.json of the project and of the resource
    proc,         \* the processes
    kept,         \* history: memories written or there at first, and not removed
    gone,         \* history: deleted with a marker, and not written since
    clean,        \* history: of those, the ones of which nothing was left
    left          \* how much of each kind of thing may still happen

vars == <<scene, fs, head, tracked, deletion, listed, meta, proc, kept, gone, clean, left>>

Places == {"claude", "project", "resource", "native"}
Paths == Names \X Places
C(n) == <<n, "claude">>
P(n) == <<n, "project">>
R(n) == <<n, "resource">>
N(n) == <<n, "native">>

\* With an inode for each path there is always one more for a new file.
Inodes == 1..(Cardinality(Paths) + 1)
Kinds == {"write", "edit", "pull", "rm", "remove", "delete", "import", "commit", "kill", "overlap"}
Nothing == [is |-> "nothing"]
Blobs == {Nothing, [is |-> "link"]} \cup [is : {"file"}, ver : Nat]

\* The hooks begin with what was there before them: files, no links.
ASSUME MemoryAssumption ==
    /\ IsFiniteSet(Names) /\ Recorders \cap {"codex", "cli"} = {}
    /\ \A s \in Scenarios :
          /\ s.fs \in [Paths -> {Nothing} \cup [is : {"file"}, ino : Inodes, ver : Nat]]
          /\ s.head \in [Names -> Blobs] /\ s.deletion \in [Names -> {"none", "unmarked", "marked"}]
          /\ s.tracked \subseteq Names /\ s.names \subseteq Names
          /\ s.disk \in BOOLEAN /\ s.codex \in BOOLEAN /\ s.left \in [Kinds -> Nat]

File(i, v) == [is |-> "file", ino |-> i, ver |-> v]
SymLink(q) == [is |-> "link", to |-> q]

NoMeta == [sources |-> {}, ignored |-> {}]
Processes == Recorders \cup {"codex", "cli"}
Off == [at |-> "off", event |-> "", name |-> {}, todo |-> {}, seen |-> {}, notes |-> {},
        link |-> <<>>, held |-> NoMeta, new |-> FALSE, alone |-> FALSE]

\* What a path leads to, by way of symbolic links.
Hop(q) == IF fs[q].is = "link" THEN fs[q].to ELSE q
Target(q) == Hop(Hop(Hop(Hop(q))))
IsFile(q) == fs[Target(q)].is = "file"
SameInode(p, q) == IsFile(p) /\ IsFile(q) /\ fs[Target(p)].ino = fs[Target(q)].ino
Holds(q) == IF IsFile(q) THEN {fs[Target(q)].ver} ELSE {}
Present(place) == {n \in Names : fs[<<n, place>>] # Nothing}
FreeInode == CHOOSE i \in Inodes :
                 ~\E q \in Paths : fs[q].is = "file" /\ fs[q].ino = i

Spend(kind) == left[kind] > 0 /\ left' = [left EXCEPT ![kind] = @ - 1]

Goes(p, rec) == proc' = [proc EXCEPT ![p] = rec]
At(p, pc) == proc[p].at = pc /\ proc[p].link = <<>>
Ends(p) == Goes(p, Off)
\* What a process does is no longer done alone once anything else has happened.
Disturbed == proc' = [p \in Processes |-> [proc[p] EXCEPT !.alone = FALSE]]
AllOff == \A p \in Processes : proc[p] = Off
Starts(p, rec) ==
    proc' = [q \in Processes |->
        IF q = p THEN [rec EXCEPT !.alone = AllOff] ELSE [proc[q] EXCEPT !.alone = FALSE]]
Init ==
    \E s \in Scenarios :
        /\ scene = [disk |-> s.disk, codex |-> s.codex, names |-> s.names]
        /\ fs = s.fs /\ head = s.head /\ tracked = s.tracked /\ deletion = s.deletion
        /\ listed = s.tracked
        /\ meta = [side \in {"project", "resource"} |-> NoMeta]
        /\ proc = [p \in Processes |-> Off]
        /\ kept = {n \in Names : \/ fs[P(n)] # Nothing
                                 \/ fs[C(n)] # Nothing /\ deletion[n] # "marked"}
        /\ gone = {} /\ clean = {}
        /\ left = s.left

-----------------------------------------------------------------------------
(* link_file, and what git commits.                                        *)

\* As it would be if a destination were replaced by a source that is not there.
NeedsLinkAlways(s, d) ==
    IF fs[d].is = "link" THEN Target(d) # Target(s) ELSE ~SameInode(s, d)
NeedsLink(s, d) ==
    /\ IsFile(s)
    /\ IF fs[d].is = "link" THEN Target(d) # Target(s) ELSE ~SameInode(s, d)


\* link_file(s, d) looks, and will link; rec is how the process goes on after it.
LinkFile(p, s, d, rec) ==
    Goes(p, IF NeedsLink(s, d) THEN [rec EXCEPT !.link = <<s, d, FALSE>>] ELSE rec)

\* It removes what is at the destination ...
OsUnlink(p) ==
    /\ proc[p].link # <<>> /\ ~proc[p].link[3]
    /\ fs' = [fs EXCEPT ![proc[p].link[2]] = Nothing]
    /\ Goes(p, [proc[p] EXCEPT !.link = <<@[1], @[2], TRUE>>])
    /\ UNCHANGED <<scene, head, tracked, deletion, listed, meta, kept, gone, clean, left>>
\* ... and links.  What took the destination in the meantime makes it raise, and the
\* process ends; a source that has gone leaves a link to nothing.
HardLinkable(s, d) == scene.disk \/ (s[2] = "project") = (d[2] = "project")
OsLink(p) ==
    /\ proc[p].link # <<>>
    /\ LET s == proc[p].link[1]
           d == proc[p].link[2]
       IN  /\ proc[p].link[3] \/ fs[d] = Nothing
           /\ IF fs[d] # Nothing
              THEN Ends(p) /\ UNCHANGED <<fs, listed>>
              ELSE /\ fs' = [fs EXCEPT ![d] = IF fs[s] # Nothing /\ HardLinkable(s, d)
                                              THEN fs[s] ELSE SymLink(s)]
                   /\ listed' = IF p \in Recorders \/ d[2] # "project" THEN listed
                                ELSE listed \cup {d[1]}
                   /\ Goes(p, [proc[p] EXCEPT !.link = <<>>])
    /\ UNCHANGED <<scene, head, tracked, deletion, meta, kept, gone, clean, left>>

Unlink(Q) == fs' = [q \in Paths |-> IF q \in Q THEN Nothing ELSE fs[q]]
Blob(q) == IF fs[q].is = "file" THEN [is |-> "file", ver |-> fs[q].ver]
           ELSE [is |-> fs[q].is]

\* git add of the memory directory and commit --no-verify --only of it: what is
\* there is committed, and so is what is not.
CommitDirectory ==
    /\ head' = [n \in Names |-> Blob(P(n))]
    /\ tracked' = Present("project")
    /\ deletion' = [n \in Names |->
           IF head[n] # Nothing /\ fs[P(n)] = Nothing THEN "unmarked" ELSE deletion[n]]
\* At the end of a hook.  Should git refuse, the hook ends here all the same.
Record(p) ==
    /\ At(p, "record")
    /\ CommitDirectory
    /\ Ends(p)
    /\ UNCHANGED <<scene, fs, listed, meta, kept, gone, clean, left>>

-----------------------------------------------------------------------------
(* The record-memory hook.                                                 *)

\* After a Write or an Edit of Claude's file.
Written(r) ==
    /\ At(r, "written")
    /\ \E n \in proc[r].name :
          LinkFile(r, C(n), P(n),
              IF NeedsLink(C(n), P(n)) THEN [proc[r] EXCEPT !.at = "record"] ELSE Off)
    /\ UNCHANGED <<scene, fs, head, tracked, deletion, listed, meta, kept, gone, clean, left>>

\* How often a session's hook starts while another process runs is bounded, too.
Overlaps == IF AllOff THEN UNCHANGED left ELSE Spend("overlap")

\* At the start of a session: first what Claude has ...
StartSession(r) ==
    /\ At(r, "off")
    /\ Overlaps
    /\ Starts(r, [Off EXCEPT !.at = "sources", !.todo = Present("claude"),
                             !.seen = Present("claude")])
    /\ UNCHANGED <<scene, fs, head, tracked, deletion, listed, meta, kept, gone, clean>>
\* As it would be if Claude's side won, or neither.
ReconcileNeither(r, n, rest) == Goes(r, rest)
ReconcileClaudeWins(r, n, rest) == LinkFile(r, C(n), P(n), rest)
Reconcile(r, n, rest) == LinkFile(r, P(n), C(n), rest)
\* As it would be if how a memory went did not matter.
MarkedDeletedNever(n) == FALSE
MarkedDeleted(n) == deletion[n] = "marked"
SyncSource(r) ==
    /\ At(r, "sources")
    /\ \E n \in proc[r].todo :
          LET rest == [proc[r] EXCEPT !.todo = @ \ {n}]
              stale == ~IsFile(P(n)) /\ MarkedDeleted(n)
          IN  /\ fs' = IF stale THEN [fs EXCEPT ![C(n)] = Nothing] ELSE fs
              /\ IF stale THEN Goes(r, rest)
                 ELSE IF IsFile(P(n)) THEN Reconcile(r, n, rest)
                 ELSE LinkFile(r, C(n), P(n),
                          [rest EXCEPT !.new = @ \/ NeedsLink(C(n), P(n))])
    /\ UNCHANGED <<scene, head, tracked, deletion, listed, meta, kept, gone, clean, left>>
\* ... then what only the project has.
SourcesDone(r) ==
    /\ At(r, "sources") /\ proc[r].todo = {}
    /\ Goes(r, [proc[r] EXCEPT !.at = "mirrors", !.todo = Present("project") \ proc[r].seen])
    /\ UNCHANGED <<scene, fs, head, tracked, deletion, listed, meta, kept, gone, clean, left>>
SyncMirror(r) ==
    /\ At(r, "mirrors")
    /\ \E n \in proc[r].todo :
          LinkFile(r, P(n), C(n), [proc[r] EXCEPT !.todo = @ \ {n}])
    /\ UNCHANGED <<scene, fs, head, tracked, deletion, listed, meta, kept, gone, clean, left>>
MirrorsDone(r) ==
    /\ At(r, "mirrors") /\ proc[r].todo = {}
    /\ Goes(r, IF proc[r].new THEN [Off EXCEPT !.at = "record"] ELSE Off)
    /\ UNCHANGED <<scene, fs, head, tracked, deletion, listed, meta, kept, gone, clean, left>>

-----------------------------------------------------------------------------
(* delete_memory: for the hook, after an rm of Claude's file; for          *)
(* delete.py, before delete_scoped_memory.                                 *)

\* The hook does nothing if the file is there again.
Removable(p, n) == n \in tracked /\ (p \in Recorders => ~IsFile(C(n)))
RemoveProject(p) ==
    /\ At(p, "remove")
    /\ \E n \in proc[p].name :
          IF Removable(p, n)
          THEN Unlink({P(n)}) /\ Goes(p, [proc[p] EXCEPT !.at = "remove source"])
          ELSE UNCHANGED fs /\ Ends(p)
    /\ UNCHANGED <<scene, head, tracked, deletion, listed, meta, kept, gone, clean, left>>
RemoveSource(p) ==
    /\ At(p, "remove source")
    /\ \E n \in proc[p].name : Unlink({C(n)})
    /\ Goes(p, [proc[p] EXCEPT !.at = "stage"])
    /\ UNCHANGED <<scene, head, tracked, deletion, listed, meta, kept, gone, clean, left>>
\* git add raises if the path is neither there nor known.
Stage(p) ==
    /\ At(p, "stage")
    /\ \E n \in proc[p].name :
          IF n \in tracked \/ fs[P(n)] # Nothing
          THEN /\ tracked' = IF fs[P(n)] = Nothing THEN tracked \ {n} ELSE tracked \cup {n}
               /\ Goes(p, [proc[p] EXCEPT !.at = "mark"])
          ELSE UNCHANGED tracked /\ Ends(p)
    /\ UNCHANGED <<scene, fs, head, deletion, listed, meta, kept, gone, clean, left>>
\* The commit with the marker.  Should the file be there again, the commit is of
\* that, or fails if that is what HEAD has.
Marked(n) ==
    /\ head' = [head EXCEPT ![n] = Blob(P(n))]
    /\ tracked' = IF fs[P(n)] = Nothing THEN tracked \ {n} ELSE tracked \cup {n}
    /\ deletion' = [deletion EXCEPT ![n] = IF fs[P(n)] = Nothing THEN "marked" ELSE @]
Buried(p, n) ==
    /\ gone' = IF fs[P(n)] = Nothing THEN gone \cup {n} ELSE gone
    /\ clean' = IF fs[P(n)] = Nothing /\ proc[p].alone /\ ~scene.codex
                THEN clean \cup {n} ELSE clean
Mark(p) ==
    /\ At(p, "mark")
    /\ \E n \in proc[p].name :
          IF Blob(P(n)) = head[n]
          THEN UNCHANGED <<head, tracked, deletion, gone, clean>> /\ Ends(p)
          ELSE /\ Marked(n)
               /\ Buried(p, n)
               /\ Goes(p, IF p = "cli" /\ scene.codex
                          THEN [proc[p] EXCEPT !.at = "scoped"] ELSE Off)
    /\ UNCHANGED <<scene, fs, listed, meta, kept, left>>

-----------------------------------------------------------------------------
(* The record-codex-memory hook, import-codex.py and delete.py with Codex. *)

Assigned(m) == {e[1] : e \in m.sources}
Merged(project, resource) ==
    [sources |-> project.sources \cup {e \in resource.sources : e[1] \notin Assigned(project)},
     ignored |-> project.ignored \cup resource.ignored]
WriteMeta(m) == meta' = [side \in {"project", "resource"} |-> m]
Unassigned(m) == Present("native") \ (Assigned(m) \cup m.ignored)

\* The hook, unless another one has the lock.
StartCodex(event) ==
    /\ scene.codex /\ At("codex", "off")
    /\ Overlaps
    /\ Starts("codex", [Off EXCEPT !.at = "meta", !.event = event])
    /\ UNCHANGED <<scene, fs, head, tracked, deletion, listed, meta, kept, gone, clean>>

\* synchronize_shared_memory: the metadata, the project's memories into the
\* resource, what only the resource has into the project.
MergeMeta(p) ==
    /\ At(p, "meta")
    /\ LET m == Merged(meta["project"], meta["resource"])
       IN  /\ WriteMeta(m)
           /\ Goes(p, [proc[p] EXCEPT !.at = "push", !.todo = Present("project"), !.held = m,
                                      !.new = @ \/ m # meta["project"]])
    /\ UNCHANGED <<scene, fs, head, tracked, deletion, listed, kept, gone, clean, left>>
Push(p) ==
    /\ At(p, "push")
    /\ \E n \in proc[p].todo :
          LinkFile(p, P(n), R(n), [proc[p] EXCEPT !.todo = @ \ {n}])
    /\ UNCHANGED <<scene, fs, head, tracked, deletion, listed, meta, kept, gone, clean, left>>
PushDone(p) ==
    /\ At(p, "push") /\ proc[p].todo = {}
    /\ Goes(p, [proc[p] EXCEPT !.at = "pull", !.todo = Present("resource")])
    /\ UNCHANGED <<scene, fs, head, tracked, deletion, listed, meta, kept, gone, clean, left>>
Pull(p) ==
    /\ At(p, "pull")
    /\ \E n \in proc[p].todo :
          LET rest == [proc[p] EXCEPT !.todo = @ \ {n}]
          IN  IF IsFile(P(n)) THEN LinkFile(p, P(n), R(n), rest)
              ELSE LinkFile(p, R(n), P(n), [rest EXCEPT !.new = @ \/ NeedsLink(R(n), P(n))])
    /\ UNCHANGED <<scene, fs, head, tracked, deletion, listed, meta, kept, gone, clean, left>>
\* Then the note that is being imported, if any; the hook takes up, after a tool
\* call, each note that was unassigned after its first pass.
PullDone(p) ==
    /\ At(p, "pull") /\ proc[p].todo = {}
    /\ LET notes == IF proc[p].event = "post" THEN Unassigned(proc[p].held) ELSE {}
       IN  Goes(p, [proc[p] EXCEPT
               !.at = IF proc[p].name # {} THEN "import" ELSE "notes",
               !.notes = IF proc[p].name # {} THEN @ ELSE notes])
    /\ UNCHANGED <<scene, fs, head, tracked, deletion, listed, meta, kept, gone, clean, left>>
NextNote(p) ==
    /\ At(p, "notes")
    /\ IF proc[p].notes = {} THEN Goes(p, [proc[p] EXCEPT !.at = "save"])
       ELSE \E n \in proc[p].notes :
                Goes(p, IF IsFile(N(n))
                        THEN [proc[p] EXCEPT !.at = "meta", !.name = {<<n, n>>},
                                             !.notes = @ \ {n}]
                        ELSE Off)
    /\ UNCHANGED <<scene, fs, head, tracked, deletion, listed, meta, kept, gone, clean, left>>

\* import_native_note(n, as t), after its synchronize_shared_memory.
Ignore(p) ==
    /\ At(p, "import") /\ proc[p].event = "ignore"
    /\ \E e \in proc[p].name :
          LET m == [proc[p].held EXCEPT !.ignored = @ \cup {e[1]}]
          IN  /\ WriteMeta(m)
              /\ Goes(p, [proc[p] EXCEPT !.at = "save", !.new = @ \/ m # meta["project"]])
    /\ UNCHANGED <<scene, fs, head, tracked, deletion, listed, kept, gone, clean, left>>
Collides(n, t) == IsFile(P(t)) /\ Holds(P(t)) # Holds(N(n))
ImportNote(p) ==
    /\ At(p, "import") /\ proc[p].event # "ignore"
    /\ \E e \in proc[p].name :
          IF Collides(e[1], e[2]) \/ ~IsFile(N(e[1])) THEN Ends(p)
          ELSE LinkFile(p, N(e[1]), R(e[2]), [proc[p] EXCEPT !.at = "import project"])
    /\ UNCHANGED <<scene, fs, head, tracked, deletion, listed, meta, kept, gone, clean, left>>
ImportProject(p) ==
    /\ At(p, "import project")
    /\ \E e \in proc[p].name :
          LinkFile(p, R(e[2]), P(e[2]),
              [proc[p] EXCEPT !.at = "assign", !.new = @ \/ NeedsLink(R(e[2]), P(e[2]))])
    /\ UNCHANGED <<scene, fs, head, tracked, deletion, listed, meta, kept, gone, clean, left>>
\* As it would be if what the note was before were not replaced.
ReassignedAsWell(m, e) == [m EXCEPT !.sources = @ \cup {e}, !.ignored = @ \ {e[1]}]
Reassigned(m, e) ==
    [sources |-> {f \in m.sources : f[1] # e[1]} \cup {e}, ignored |-> m.ignored \ {e[1]}]
Assign(p) ==
    /\ At(p, "assign")
    /\ \E e \in proc[p].name :
          LET m == Reassigned(proc[p].held, e)
          IN  /\ WriteMeta(m)
              /\ listed' = listed \cup {e[2]}
              /\ Goes(p, [proc[p] EXCEPT !.at = IF p = "codex" THEN "notes" ELSE "save",
                                         !.name = {}, !.held = m,
                                         !.new = @ \/ m # meta["project"]])
    /\ UNCHANGED <<scene, fs, head, tracked, deletion, kept, gone, clean, left>>

\* commit_pending; should it fail, the hook ends here.
Save(p) ==
    /\ At(p, "save")
    /\ Goes(p, IF proc[p].new THEN [Off EXCEPT !.at = "record"] ELSE Off)
    /\ UNCHANGED <<scene, fs, head, tracked, deletion, listed, meta, kept, gone, clean, left>>

\* delete_scoped_memory
ScopedPaths(n, m) == {R(n)} \cup {N(e[1]) : e \in {f \in m.sources : f[2] = n}}
RemoveScoped(p) ==
    /\ At(p, "scoped")
    /\ \E n \in proc[p].name :
          LET m == Merged(meta["project"], meta["resource"])
              rest == [m EXCEPT !.sources = {e \in @ : e[2] # n}]
          IN  /\ Unlink(ScopedPaths(n, m))
              /\ listed' = listed \ {n}
              /\ Goes(p, [proc[p] EXCEPT !.at = "scoped meta", !.held = rest,
                                         !.new = n \in listed \/ rest # meta["project"]])
    /\ UNCHANGED <<scene, head, tracked, deletion, meta, kept, gone, clean, left>>
WriteScopedMeta(p) ==
    /\ At(p, "scoped meta")
    /\ WriteMeta(proc[p].held)
    /\ Goes(p, [proc[p] EXCEPT !.at = "save"])
    /\ clean' = IF proc[p].alone
                THEN clean \cup (proc[p].name \ Unassigned(meta["project"])) ELSE clean
    /\ UNCHANGED <<scene, fs, head, tracked, deletion, listed, kept, gone, left>>

-----------------------------------------------------------------------------
(* The commands, as they are started.                                      *)

DeletePy(n) ==
    /\ At("cli", "off") /\ n \in tracked
    /\ Spend("delete")
    /\ kept' = kept \ {n}
    /\ Starts("cli", [Off EXCEPT !.at = "remove", !.event = "delete", !.name = {n}])
    /\ UNCHANGED <<scene, fs, head, tracked, deletion, listed, meta, gone, clean>>
ImportPy(n, t, event) ==
    /\ scene.codex /\ At("cli", "off") /\ IsFile(N(n))
    /\ Spend("import")
    /\ gone' = gone \ {t} /\ clean' = clean \ {t}
    /\ Starts("cli", [Off EXCEPT !.at = "meta", !.event = event, !.name = {<<n, t>>}])
    /\ UNCHANGED <<scene, fs, head, tracked, deletion, listed, meta, kept>>

-----------------------------------------------------------------------------
(* What the tools, the user and git do to the files.                       *)

\* An editor writes in place, or a new file in place of the old one.
WrittenTo(q, v) ==
    \/ /\ IsFile(q)
       /\ fs' = [r \in Paths |->
              IF fs[r].is = "file" /\ fs[r].ino = fs[Target(q)].ino
              THEN [fs[r] EXCEPT !.ver = v] ELSE fs[r]]
    \/ fs' = [fs EXCEPT ![q] = File(FreeInode, v)]
\* Each content is new.
Version == left["write"] + left["edit"] + left["pull"]
Writes(kind, n, place) ==
    /\ Spend(kind)
    /\ WrittenTo(<<n, place>>, Version)
    /\ gone' = gone \ {n} /\ clean' = clean \ {n}
    /\ kept' = IF AllOff /\ deletion[n] # "marked" /\ place \in {"claude", "project"}
               THEN kept \cup {n} ELSE kept
    /\ UNCHANGED <<scene, head, tracked, deletion, meta>>
\* Claude writes a memory, and a line for it; the hook follows.
ClaudeWrites(r, n) ==
    /\ At(r, "off")
    /\ Writes("write", n, "claude")
    /\ listed' = listed \cup {n}
    /\ Starts(r, [Off EXCEPT !.at = "written", !.event = "written", !.name = {n}])
\* An edit that no hook sees; a note that Codex writes.
OtherWrites(n, place) ==
    /\ place = "native" => scene.codex
    /\ Writes("edit", n, place)
    /\ Disturbed
    /\ UNCHANGED listed
Removes(kind, n, place) ==
    /\ fs[<<n, place>>] # Nothing
    /\ Spend(kind)
    /\ Unlink({<<n, place>>})
    /\ kept' = kept \ {n}
    /\ UNCHANGED <<scene, head, tracked, deletion, listed, meta, gone, clean>>
\* Claude removes a memory of its own with rm; the hook follows.
ClaudeRemoves(r, n) ==
    /\ At(r, "off")
    /\ Removes("rm", n, "claude")
    /\ Starts(r, [Off EXCEPT !.at = "remove", !.event = "remove", !.name = {n}])
OtherRemoves(n, place) == Removes("remove", n, place) /\ Disturbed
\* The user commits all there is; the hook of git asks for a marker of each memory
\* that goes.
Missing(markers) == {n \in Names : head[n] # Nothing /\ fs[P(n)] = Nothing} \ markers
UserCommits(markers) ==
    /\ Missing(markers) = {}
    /\ head' = [n \in Names |-> IF n \in tracked THEN Blob(P(n)) ELSE head[n]]
    /\ head' # head
    /\ Spend("commit")
    /\ tracked' = tracked \cap Present("project")
    /\ LET dropped == {n \in Names : head[n] # Nothing /\ head'[n] = Nothing}
       IN  /\ deletion' = [n \in Names |-> IF n \in dropped THEN "marked" ELSE deletion[n]]
           /\ gone' = gone \cup dropped
           /\ clean' = IF AllOff /\ ~scene.codex THEN clean \cup dropped ELSE clean
    /\ Disturbed
    /\ UNCHANGED <<scene, fs, listed, meta, kept>>
\* A pull brings an edit or a deletion made elsewhere.
PullsEdit(n) ==
    /\ Blob(P(n)) = head[n] /\ head[n].is # "link"
    /\ Spend("pull")
    /\ fs' = [fs EXCEPT ![P(n)] = File(FreeInode, Version)]
    /\ head' = [head EXCEPT ![n] = [is |-> "file", ver |-> Version]]
    /\ tracked' = tracked \cup {n} /\ listed' = listed \cup {n}
    /\ gone' = gone \ {n} /\ clean' = clean \ {n}
    /\ Disturbed
    /\ UNCHANGED <<scene, deletion, meta, kept>>
PullsDeletion(n) ==
    /\ fs[P(n)] # Nothing /\ Blob(P(n)) = head[n]
    /\ Spend("pull")
    /\ Unlink({P(n)})
    /\ head' = [head EXCEPT ![n] = Nothing]
    /\ tracked' = tracked \ {n} /\ listed' = listed \ {n}
    /\ deletion' = [deletion EXCEPT ![n] = "marked"]
    /\ kept' = kept \ {n} /\ gone' = gone \cup {n}
    /\ clean' = IF AllOff /\ ~scene.codex THEN clean \cup {n} ELSE clean
    /\ Disturbed
    /\ UNCHANGED <<scene, meta>>
\* A process is killed, or git refuses what it asks for.
Kill(p) ==
    /\ proc[p] # Off
    /\ Spend("kill")
    /\ Ends(p)
    /\ UNCHANGED <<scene, fs, head, tracked, deletion, listed, meta, kept, gone, clean>>

-----------------------------------------------------------------------------
Recording(r) ==
    \/ Written(r) \/ SyncSource(r) \/ SourcesDone(r) \/ SyncMirror(r) \/ MirrorsDone(r)
Deleting(p) ==
    \/ RemoveProject(p) \/ RemoveSource(p) \/ Stage(p) \/ Mark(p)
    \/ RemoveScoped(p) \/ WriteScopedMeta(p)
Sharing(p) ==
    \/ MergeMeta(p) \/ Push(p) \/ PushDone(p) \/ Pull(p) \/ PullDone(p) \/ NextNote(p)
    \/ Ignore(p) \/ ImportNote(p) \/ ImportProject(p) \/ Assign(p) \/ Save(p)
Working(p) ==
    \/ OsUnlink(p) \/ OsLink(p) \/ Record(p) \/ Deleting(p)
    \/ p \in Recorders /\ Recording(p)
    \/ p \notin Recorders /\ Sharing(p)
Session == (\E r \in Recorders : StartSession(r)) \/ \E e \in {"post", "stop"} : StartCodex(e)
Commanding ==
    \E n \in scene.names :
        \/ DeletePy(n)
        \/ \E t \in scene.names : ImportPy(n, t, "import")
        \/ ImportPy(n, n, "ignore")
Outside ==
    \/ \E n \in scene.names :
          \/ \E r \in Recorders : ClaudeWrites(r, n) \/ ClaudeRemoves(r, n)
          \/ \E place \in {"claude", "project", "native"} : OtherWrites(n, place)
          \/ \E place \in {"claude", "project", "resource"} : OtherRemoves(n, place)
          \/ PullsEdit(n) \/ PullsDeletion(n)
    \/ \E markers \in SUBSET (scene.names \ kept) : UserCommits(markers)
    \/ \E p \in Processes : Kill(p)
Next == (\E p \in Processes : Working(p)) \/ Session \/ Commanding \/ Outside

Spec == Init /\ [][Next]_vars

\* A process that is not killed goes on; a session starts and ends again and
\* again.
FairSpec ==
    /\ Spec
    /\ \A p \in Processes : WF_vars(Working(p))
    /\ \A r \in Recorders : SF_vars(StartSession(r))
    /\ SF_vars(StartCodex("stop"))

-----------------------------------------------------------------------------
\* Types.  A note has one target; what was deleted is not what has to be kept.
TypeOK ==
    /\ \A q \in Paths :
          \/ fs[q] = Nothing
          \/ fs[q].is = "file" /\ fs[q].ino \in Inodes
          \/ fs[q].is = "link" /\ fs[q].to \in Paths
    /\ tracked \subseteq Names /\ listed \subseteq Names
    /\ \A side \in DOMAIN meta :
          /\ meta[side].sources \subseteq Names \X Names /\ meta[side].ignored \subseteq Names
          /\ Cardinality(Assigned(meta[side])) = Cardinality(meta[side].sources)
    /\ \A p \in Processes : Cardinality(proc[p].name) <= 1
    /\ clean \subseteq gone /\ gone \cap kept = {}

\* A memory that nobody has removed is there in one of its places at every moment,
\* whichever process is between the unlink and the link of which file, or is
\* killed there.
NothingLost == \A n \in kept : \E q \in {C(n), P(n), R(n)} : IsFile(q)

\* Where a deletion leaves nothing behind - delete.py did all of it undisturbed, or
\* there is no Codex and the deletion is marked - no hook brings the memory back:
\* not from the copy Claude still has, nor from the resource, nor from the note.
DeletedStaysDeleted ==
    \A n \in clean :
        /\ head[n] = Nothing /\ ~IsFile(P(n))
        /\ scene.codex => ~IsFile(R(n)) /\ n \notin listed

\* Where the places differ the project's file wins: a hook that reconciles them, and
\* runs alone, leaves it as it is, at every step of its way.
Reconciles(p) ==
    /\ proc[p].event \in {"", "post", "stop"} /\ proc[p].name = {}
    /\ proc'[p] # proc[p]
RepoWinsAlone ==
    [][\A p \in Processes : proc[p].alone /\ Reconciles(p) /\ left' = left =>
          \A n \in Names : IsFile(P(n)) => Holds(P(n))' = Holds(P(n))]_vars

\* When nobody edits any more and the hooks no longer start in each other's way, the
\* places come to agree, whatever was killed or raced before.
Agree(n) == Holds(C(n)) = Holds(P(n)) /\ (scene.codex => Holds(R(n)) = Holds(P(n)))
Converges == <>[](\A n \in Names : Agree(n))
=============================================================================
