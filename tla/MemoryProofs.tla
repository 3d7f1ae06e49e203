---------------------------- MODULE MemoryProofs ----------------------------
(***************************************************************************)
(* Safety of the memory hooks for any number of memories and of hooks that *)
(* run at the same time, and whatever is left to happen.                   *)
(***************************************************************************)
EXTENDS MemorySync, FiniteSetTheorems, TLAPS

-----------------------------------------------------------------------------
(* Types.                                                                  *)

\* A file, a link to a place of the same memory or to a note, or nothing.
FileEntries == [is : {"file"}, ino : Inodes, ver : Nat]
LinkEntries == [is : {"link"}, to : Paths]
Entries == {Nothing} \cup FileEntries \cup LinkEntries
Follows(d, s) == s[2] = "native" \/ s[1] = d[1]
Tidy == \A q \in Paths : fs[q].is = "link" => q[2] # "native" /\ Follows(q, fs[q].to)

\* What the metadata assigns and ignores; a note has one target.
Pairs == Names \X Names
OneTarget(S) == \A e, f \in S : e[1] = f[1] => e = f
Metas == {m \in [sources : SUBSET Pairs, ignored : SUBSET Names] : OneTarget(m.sources)}

\* Where a process is: what it is about is the memory it deletes or follows, the
\* note it imports, or nothing.
About == {"written", "remove", "remove source", "stage", "mark", "scoped", "scoped meta"}
Imports == {"import", "import project", "assign"}
Syncs == {"meta", "push", "pull"}
Others == {"off", "sources", "mirrors", "record", "notes", "save"}
Singles == {{}} \cup {{n} : n \in Names} \cup {{e} : e \in Pairs}
Links == Paths \X Paths \X BOOLEAN
Procs == [at : About \cup Imports \cup Syncs \cup Others,
          event : {"", "post", "stop", "delete", "import", "ignore", "written", "remove"},
          name : Singles, todo : SUBSET Names, seen : SUBSET Names, notes : SUBSET Names,
          link : {<<>>} \cup Links, held : Metas, new : BOOLEAN, alone : BOOLEAN]
Fits(r) ==
    /\ r.at \in About => \E n \in Names : r.name = {n}
    /\ r.at \in Imports => \E e \in Pairs : r.name = {e}
    /\ r.at \in Syncs => r.name = {} \/ \E e \in Pairs : r.name = {e}
    /\ r.at = "notes" => r.name = {}

\* A process links a place of a memory from another one of it, or from a note.
Linkable(s, d) == s # d /\ d[2] # "native" /\ Follows(d, s)
LinkFits(r) == r.link # <<>> => Linkable(r.link[1], r.link[2])

Typed ==
    /\ scene.disk \in BOOLEAN /\ scene.codex \in BOOLEAN /\ scene.names \subseteq Names
    /\ fs \in [Paths -> Entries] /\ Tidy
    /\ head \in [Names -> Blobs] /\ deletion \in [Names -> {"none", "unmarked", "marked"}]
    /\ tracked \subseteq Names /\ listed \subseteq Names
    /\ meta \in [{"project", "resource"} -> Metas]
    /\ proc \in [Processes -> Procs]
    /\ \A p \in Processes : Fits(proc[p]) /\ LinkFits(proc[p])
    /\ kept \subseteq Names /\ gone \subseteq Names /\ clean \subseteq Names
    /\ left \in [Kinds -> Nat]

-----------------------------------------------------------------------------
(* A process alone.                                                        *)

\* The others rest while a process is alone.
Alone == \A p, q \in Processes : proc[p].alone /\ q # p => proc[q] = Off

\* What a hook that reconciles, alone, is about to unlink is not the project's
\* file, and not what the project's file leads to.
Fresh(s, d) ==
    /\ NeedsLink(s, d)
    /\ \E n \in Names : (d = P(n) /\ ~ IsFile(d)) \/ (s = P(n) /\ d \in {C(n), R(n)})
Looked == \A p \in Processes :
    LET l == proc[p].link
    IN  proc[p].alone /\ proc[p].name = {} /\ l # <<>> /\ ~ l[3] =>
            \E s, d : s = l[1] /\ d = l[2] /\ Fresh(s, d)

\* A memory is not kept while its deletion is under way.
Deletes == {"remove", "remove source", "stage", "mark", "scoped", "scoped meta"}
Dropped == \A p \in Processes : proc[p].at \in Deletes => proc[p].name \cap kept = {}
\* A deletion that is alone has taken the project's file away, and is marked in the end.
Undone == \A p \in Processes : proc[p].alone =>
    /\ proc[p].at \in {"remove source", "stage", "mark"} =>
         \A n \in proc[p].name : fs[P(n)] = Nothing
    /\ proc[p].at \in {"scoped", "scoped meta"} => proc[p].name \subseteq gone
\* A deletion links nothing.
Quiet == \A p \in Processes : proc[p].at \in Deletes => proc[p].link = <<>>
Ghosts == Dropped /\ Undone /\ Quiet /\ gone \cap kept = {} /\ clean \subseteq gone

-----------------------------------------------------------------------------
(* Without Codex.                                                          *)

NoCodex == \A s \in Scenarios : ~ s.codex

\* Then the hooks know two places, and a command only deletes.
Two(s, d) == \E n \in Names : <<s, d>> \in {<<C(n), P(n)>>, <<P(n), C(n)>>}
Bare ==
    /\ ~ scene.codex
    /\ \A p \in Processes :
          /\ proc[p].at \in {"off", "remove", "remove source", "stage", "mark"} \cup
                IF p \in Recorders THEN {"written", "sources", "mirrors", "record"} ELSE {}
          /\ proc[p].link # <<>> => p \in Recorders /\ Two(proc[p].link[1], proc[p].link[2])

\* Nothing is left of a memory that was deleted for good, and no hook is about to
\* bring it back.
Buries == \A n \in clean :
    /\ fs[P(n)] = Nothing /\ head[n] = Nothing /\ deletion[n] = "marked"
    /\ \A p \in Processes :
          /\ proc[p].link # <<>> => proc[p].link[2] # P(n)
          /\ proc[p].at = "written" => n \notin proc[p].name

\* A memory that is kept was not deleted, or not marked; it is in one of the two
\* places, and while a hook links one of them it is in the other.
Keeps ==
    /\ \A n \in kept : deletion[n] # "marked" /\ \E q \in {C(n), P(n)} : fs[q].is = "file"
    /\ \A q \in Paths : fs[q].is = "link" => Two(fs[q].to, q)
    /\ \A p \in Processes : LET l == proc[p].link IN l # <<>> =>
          /\ fs[l[1]].is # "link"
          /\ l[1][1] \in kept => fs[l[1]].is = "file"

LEMMA PlacesOf ==
  ASSUME NEW n \in Names
  PROVE  /\ C(n) \in Paths /\ P(n) \in Paths /\ R(n) \in Paths /\ N(n) \in Paths
         /\ C(n)[1] = n /\ P(n)[1] = n /\ R(n)[1] = n /\ N(n)[1] = n
         /\ C(n)[2] = "claude" /\ P(n)[2] = "project" /\ R(n)[2] = "resource"
         /\ N(n)[2] = "native"
BY DEF Paths, Places, C, P, R, N

LEMMA PathOf ==
  ASSUME NEW q \in Paths
  PROVE  q[1] \in Names /\ q = <<q[1], q[2]>> /\ q \in {C(q[1]), P(q[1]), R(q[1]), N(q[1])}
BY DEF Paths, Places, C, P, R, N

\* There are fewer paths than inodes.
LEMMA FreeInodeIs ==
  ASSUME Typed
  PROVE  FreeInode \in Inodes /\ ~ \E q \in Paths : fs[q].is = "file" /\ fs[q].ino = FreeInode
<1>1. IsFiniteSet(Paths) /\ Cardinality(Paths) \in Nat
  <2>1. IsFiniteSet(Places)
    <3>1. IsFiniteSet({"claude"}) /\ IsFiniteSet({"project"}) /\ IsFiniteSet({"resource"})
          /\ IsFiniteSet({"native"})
      BY FS_Singleton
    <3>2. IsFiniteSet(({"claude"} \cup {"project"}) \cup ({"resource"} \cup {"native"}))
      BY <3>1, FS_Union
    <3>3. Places = ({"claude"} \cup {"project"}) \cup ({"resource"} \cup {"native"})
      BY DEF Places
    <3> QED BY <3>2, <3>3
  <2> QED BY <2>1, MemoryAssumption, FS_Product, FS_CardinalityType DEF Paths
<1> DEFINE k == Cardinality(Paths)
           used == {fs[q].ino : q \in Paths}
<1>2. IsFiniteSet(used) /\ Cardinality(used) <= k /\ Cardinality(used) \in Nat
  <2> DEFINE f == [q \in Paths |-> fs[q].ino]
  <2>1. f \in Surjection(Paths, used)
    BY DEF Surjection
  <2> HIDE DEF f, used
  <2> QED BY <1>1, <2>1, FS_Surjection, FS_CardinalityType
<1>3. Cardinality(Inodes) = k + 1
  BY <1>1, FS_Interval DEF Inodes
<1>4. ~ (Inodes \subseteq used)
  <2> SUFFICES ASSUME Inodes \subseteq used PROVE FALSE
    OBVIOUS
  <2>1. Cardinality(Inodes) <= Cardinality(used)
    BY <1>2, FS_Subset
  <2> QED BY <1>1, <1>2, <1>3, <2>1
<1>5. PICK i \in Inodes : i \notin used
  BY <1>4
<1>6. ~ \E q \in Paths : fs[q].is = "file" /\ fs[q].ino = i
  BY <1>5
<1> QED BY <1>6 DEF FreeInode

LEMMA OffTyped == Off \in Procs /\ Fits(Off) /\ LinkFits(Off) /\ NoMeta \in Metas
<1>1. NoMeta \in Metas
  BY DEF NoMeta, Metas, OneTarget
<1> QED BY <1>1 DEF Off, Procs, Fits, LinkFits, Others, About, Imports, Syncs, Singles

LEMMA InitTyped == Init => Typed
<1> SUFFICES ASSUME Init PROVE Typed
  OBVIOUS
<1>1. PICK s \in Scenarios :
        /\ scene = [disk |-> s.disk, codex |-> s.codex, names |-> s.names]
        /\ fs = s.fs /\ head = s.head /\ tracked = s.tracked /\ deletion = s.deletion
        /\ listed = s.tracked
        /\ meta = [side \in {"project", "resource"} |-> NoMeta]
        /\ proc = [p \in Processes |-> Off]
        /\ kept \subseteq Names /\ gone = {} /\ clean = {} /\ left = s.left
  BY DEF Init
<1>2. fs \in [Paths -> {Nothing} \cup FileEntries]
  BY <1>1, MemoryAssumption DEF FileEntries
<1>3. fs \in [Paths -> Entries] /\ Tidy
  BY <1>2 DEF Entries, Tidy, FileEntries, Nothing
<1>4. meta \in [{"project", "resource"} -> Metas] /\ proc \in [Processes -> Procs]
  BY <1>1, OffTyped
<1>5. \A p \in Processes : Fits(proc[p]) /\ LinkFits(proc[p])
  BY <1>1, OffTyped
<1>6. /\ scene.disk \in BOOLEAN /\ scene.codex \in BOOLEAN /\ scene.names \subseteq Names
      /\ head \in [Names -> Blobs] /\ deletion \in [Names -> {"none", "unmarked", "marked"}]
      /\ tracked \subseteq Names /\ listed \subseteq Names /\ left \in [Kinds -> Nat]
  BY <1>1, MemoryAssumption
<1> QED BY <1>1, <1>3, <1>4, <1>5, <1>6 DEF Typed

-----------------------------------------------------------------------------
(* The metadata: a note keeps one target.                                  *)

LEMMA MergedMeta ==
  ASSUME NEW a \in Metas, NEW b \in Metas
  PROVE  Merged(a, b) \in Metas
<1>1. OneTarget(Merged(a, b).sources)
  BY DEF Merged, Metas, OneTarget, Assigned
<1>2. Merged(a, b) \in [sources : SUBSET Pairs, ignored : SUBSET Names]
  BY DEF Merged, Metas
<1> QED BY <1>1, <1>2 DEF Metas

LEMMA ReassignedMeta ==
  ASSUME NEW m \in Metas, NEW e \in Pairs
  PROVE  Reassigned(m, e) \in Metas
<1>1. OneTarget(Reassigned(m, e).sources)
  BY DEF Reassigned, Metas, OneTarget
<1>2. Reassigned(m, e) \in [sources : SUBSET Pairs, ignored : SUBSET Names]
  BY DEF Reassigned, Metas
<1> QED BY <1>1, <1>2 DEF Metas

LEMMA IgnoredMeta ==
  ASSUME NEW m \in Metas, NEW n \in Names
  PROVE  [m EXCEPT !.ignored = @ \cup {n}] \in Metas
BY DEF Metas

LEMMA RestMeta ==
  ASSUME NEW m \in Metas, NEW n
  PROVE  [m EXCEPT !.sources = {e \in @ : e[2] # n}] \in Metas
<1> DEFINE rest == [m EXCEPT !.sources = {e \in @ : e[2] # n}]
<1>1. rest \in [sources : SUBSET Pairs, ignored : SUBSET Names] /\ rest.sources \subseteq m.sources
  BY DEF Metas
<1>2. OneTarget(rest.sources)
  BY <1>1 DEF Metas, OneTarget
<1> QED BY <1>1, <1>2 DEF Metas

\* What the type invariant says of it by counting.
LEMMA CountedOnce ==
  ASSUME NEW m \in Metas
  PROVE  Cardinality(Assigned(m)) = Cardinality(m.sources)
<1>1. IsFiniteSet(m.sources)
  BY MemoryAssumption, FS_Product, FS_Subset DEF Metas, Pairs
<1>2. [e \in m.sources |-> e[1]] \in Bijection(m.sources, Assigned(m))
  <2> DEFINE f == [e \in m.sources |-> e[1]]
  <2>1. f \in [m.sources -> Assigned(m)]
    BY DEF Assigned
  <2>2. \A e, g \in m.sources : f[e] = f[g] => e = g
    BY DEF Metas, OneTarget
  <2>3. \A n \in Assigned(m) : \E e \in m.sources : f[e] = n
    BY DEF Assigned
  <2>4. f \in Bijection(m.sources, Assigned(m))
    <3> HIDE DEF f
    <3> QED BY <2>1, <2>2, <2>3 DEF Bijection, Injection, Surjection, IsInjective
  <2> QED BY <2>4 DEF f
<1> QED BY <1>1, <1>2, FS_Bijection DEF ExistsBijection

-----------------------------------------------------------------------------
(* How a process goes on.                                                  *)

Becomes(p, r) ==
    /\ r \in Procs /\ Fits(r) /\ LinkFits(r)
    /\ proc' = [proc EXCEPT ![p] = r]

\* After a look, a process links or not.
LEMMA LinkGoes ==
  ASSUME NEW p, NEW s \in Paths, NEW d \in Paths, Linkable(s, d),
         NEW r \in Procs, Fits(r), r.link = <<>>, LinkFile(p, s, d, r)
  PROVE  \/ ~ NeedsLink(s, d) /\ Becomes(p, r)
         \/ /\ NeedsLink(s, d)
            /\ \E q \in Procs : /\ Becomes(p, q) /\ q.link = <<s, d, FALSE>>
                                /\ q.at = r.at /\ q.name = r.name /\ q.alone = r.alone
<1>1. CASE ~ NeedsLink(s, d)
  BY <1>1 DEF LinkFile, Goes, Becomes, LinkFits
<1>2. CASE NeedsLink(s, d)
  <2> DEFINE q == [r EXCEPT !.link = <<s, d, FALSE>>]
  <2>1. /\ q \in Procs /\ q.link = <<s, d, FALSE>> /\ q.at = r.at /\ q.name = r.name
        /\ q.alone = r.alone
    BY DEF Procs, Links
  <2>2. proc' = [proc EXCEPT ![p] = q]
    BY <1>2 DEF LinkFile, Goes
  <2> HIDE DEF q
  <2>3. Fits(q)
    BY <2>1 DEF Fits
  <2>4. LinkFits(q)
    BY <2>1 DEF LinkFits
  <2> QED BY <1>2, <2>1, <2>2, <2>3, <2>4 DEF Becomes
<1> QED BY <1>1, <1>2

\* What every step of a process keeps of it, if it goes on as r.
Keeping(p, r) ==
    /\ Becomes(p, r)
    /\ r.alone => proc[p].alone
    /\ r.at \in Deletes => proc[p].at \in Deletes /\ r.name = proc[p].name
    /\ r.at # "written" \/ (proc[p].at = "written" /\ r.name = proc[p].name)

\* A step without a look leaves nothing to link; a look finds a link that is
\* wanted: a hook that reconciles takes the project's file if there is one.
Looks(p, r) ==
    LET s == r.link[1]
        d == r.link[2]
    IN  /\ proc[p].link = <<>> /\ fs' = fs /\ ~ r.link[3]
        /\ r.at \notin Deletes /\ proc[p].at \notin Deletes
        /\ NeedsLink(s, d) /\ (r.name = {} => Fresh(s, d))
        /\ p \in Recorders => \E n \in Names :
             \/ s = P(n) /\ d = C(n)
             \/ s = C(n) /\ d = P(n) /\
                  \/ proc[p].at = "written" /\ proc[p].name = {n}
                  \/ ~ IsFile(P(n)) /\ ~ MarkedDeleted(n)

LEMMA EditedFits ==
  ASSUME NEW r \in Procs, Fits(r), r.link = <<>>
  PROVE  /\ \A x \in {"remove source", "stage", "mark", "scoped", "scoped meta"} :
              r.at \in About => /\ [r EXCEPT !.at = x] \in Procs /\ Fits([r EXCEPT !.at = x])
         /\ \A x \in {"record", "save"} : [r EXCEPT !.at = x] \in Procs /\ Fits([r EXCEPT !.at = x])
         /\ \A n : /\ [r EXCEPT !.todo = @ \ {n}] \in Procs
                   /\ Fits([r EXCEPT !.todo = @ \ {n}])
<1>1. ASSUME NEW x \in {"remove source", "stage", "mark", "scoped", "scoped meta"}, r.at \in About
      PROVE  [r EXCEPT !.at = x] \in Procs /\ Fits([r EXCEPT !.at = x])
  BY <1>1 DEF Procs, Fits, About, Imports, Syncs
<1>2. ASSUME NEW x \in {"record", "save"}
      PROVE  [r EXCEPT !.at = x] \in Procs /\ Fits([r EXCEPT !.at = x])
  BY DEF Procs, Fits, About, Imports, Syncs, Others
<1>3. ASSUME NEW n
      PROVE  [r EXCEPT !.todo = @ \ {n}] \in Procs /\ Fits([r EXCEPT !.todo = @ \ {n}])
  BY DEF Procs, Fits
<1> QED BY <1>1, <1>2, <1>3

LEMMA TakenFits ==
  ASSUME NEW r \in Procs, Fits(r), NEW n, NEW b \in BOOLEAN
  PROVE  LET q == [r EXCEPT !.todo = @ \ {n}, !.new = b]
         IN  /\ q \in Procs /\ Fits(q) /\ q.link = r.link /\ q.alone = r.alone
             /\ q.at = r.at /\ q.name = r.name
BY ZenonT(60) DEF Procs, Fits

Moves(p) == \E r \in Procs :
    /\ Keeping(p, r)
    /\ \/ r.link = <<>>
       \/ Looks(p, r)
       \/ /\ proc[p].link # <<>> /\ r.link[1] = proc[p].link[1]
          /\ r.link[2] = proc[p].link[2] /\ r.link[3]
          /\ OsUnlink(p) /\ r.name = proc[p].name /\ r.at = proc[p].at

LEMMA EndsMoves ==
  ASSUME NEW p, Ends(p)
  PROVE  Moves(p)
<1>1. Becomes(p, Off)
  BY OffTyped DEF Becomes, Ends, Goes
<1>2. Off.link = <<>> /\ Off.alone = FALSE /\ Off.at = "off"
  BY DEF Off
<1>3. Keeping(p, Off)
  BY <1>1, <1>2 DEF Keeping, Deletes
<1> QED BY <1>2, <1>3, OffTyped DEF Moves

LEMMA GoesMoves ==
  ASSUME NEW p, NEW r \in Procs, Fits(r), r.link = <<>>, Goes(p, r),
         r.alone => proc[p].alone,
         r.at \in Deletes => proc[p].at \in Deletes /\ r.name = proc[p].name,
         r.at # "written"
  PROVE  Moves(p)
<1>1. Becomes(p, r)
  BY DEF Becomes, Goes, LinkFits
<1> QED BY <1>1 DEF Keeping, Moves

LEMMA LooksMoves ==
  ASSUME NEW p, NEW s \in Paths, NEW d \in Paths, Linkable(s, d),
         NEW r \in Procs, Fits(r), r.link = <<>>, LinkFile(p, s, d, r),
         proc[p].link = <<>>, fs' = fs, r.alone => proc[p].alone,
         r.at \notin Deletes, proc[p].at \notin Deletes, r.at # "written",
         NeedsLink(s, d) /\ r.name = {} => Fresh(s, d),
         p \in Recorders => \E n \in Names :
             \/ s = P(n) /\ d = C(n)
             \/ s = C(n) /\ d = P(n) /\
                  \/ proc[p].at = "written" /\ proc[p].name = {n}
                  \/ ~ IsFile(P(n)) /\ ~ MarkedDeleted(n)
  PROVE  Moves(p)
<1>1. CASE ~ NeedsLink(s, d) /\ Becomes(p, r)
  BY <1>1 DEF Keeping, Moves
<1>2. CASE /\ NeedsLink(s, d)
           /\ \E q \in Procs : /\ Becomes(p, q) /\ q.link = <<s, d, FALSE>>
                               /\ q.at = r.at /\ q.name = r.name /\ q.alone = r.alone
  <2>1. PICK q \in Procs : /\ Becomes(p, q) /\ q.link = <<s, d, FALSE>>
                           /\ q.at = r.at /\ q.name = r.name /\ q.alone = r.alone
    BY <1>2
  <2>2. Keeping(p, q)
    BY <2>1 DEF Keeping
  <2>3. q.link[1] = s /\ q.link[2] = d /\ ~ q.link[3]
    BY <2>1
  <2>4. Looks(p, q)
    BY <1>2, <2>1, <2>3 DEF Looks
  <2> QED BY <2>2, <2>4 DEF Moves
<1> QED BY ZenonT(60), <1>1, <1>2, LinkGoes

\* The pairs of places that are linked.
LEMMA PlacesLink ==
  ASSUME NEW n \in Names
  PROVE  /\ Linkable(C(n), P(n)) /\ Linkable(P(n), C(n))
         /\ Linkable(P(n), R(n)) /\ Linkable(R(n), P(n))
         /\ \A m \in Names : Linkable(N(m), R(n))
BY DEF Linkable, Follows, C, P, R, N

LEMMA RecordingMoves ==
  ASSUME Typed, NEW p \in Recorders, Recording(p)
  PROVE  Moves(p)
<1> DEFINE o == proc[p]
<1>1. p \in Processes /\ o \in Procs /\ Fits(o)
  BY DEF Typed, Processes
<1>2. CASE Written(p)
  <2>1. o.at = "written" /\ o.link = <<>> /\ fs' = fs
    BY <1>2 DEF Written, At
  <2>2. PICK n \in o.name :
          LinkFile(p, C(n), P(n),
              IF NeedsLink(C(n), P(n)) THEN [o EXCEPT !.at = "record"] ELSE Off)
    BY <1>2 DEF Written
  <2>3. n \in Names /\ o.name = {n}
    BY <1>1, <2>1 DEF Fits, About
  <2>4. CASE NeedsLink(C(n), P(n))
    <3> DEFINE r == [o EXCEPT !.at = "record"]
    <3>1. r \in Procs /\ Fits(r)
      BY <1>1, <2>1, EditedFits
    <3>2. r.link = <<>> /\ r.alone = o.alone /\ r.at = "record" /\ r.name = {n}
      BY <1>1, <2>1, <2>3 DEF Procs
    <3>3. LinkFile(p, C(n), P(n), r)
      BY <2>2, <2>4
    <3> HIDE DEF r, o
    <3>4. C(n) \in Paths /\ P(n) \in Paths /\ Linkable(C(n), P(n))
      BY <2>3, PlacesOf, PlacesLink
    <3>5. r.at \notin Deletes /\ r.at # "written" /\ o.at \notin Deletes /\ r.name # {}
      BY <2>1, <3>2 DEF Deletes
    <3> QED BY <2>1, <2>3, <3>1, <3>2, <3>3, <3>4, <3>5, LooksMoves DEF o
  <2>5. CASE ~ NeedsLink(C(n), P(n))
    BY <2>2, <2>5, EndsMoves DEF LinkFile, Ends
  <2> QED BY <2>4, <2>5
<1>3. CASE SyncSource(p)
  <2>1. o.at = "sources" /\ o.link = <<>>
    BY <1>3 DEF SyncSource, At
  <2>2. PICK n \in o.todo :
          LET rest == [o EXCEPT !.todo = @ \ {n}]
              stale == ~ IsFile(P(n)) /\ MarkedDeleted(n)
          IN  /\ fs' = IF stale THEN [fs EXCEPT ![C(n)] = Nothing] ELSE fs
              /\ IF stale THEN Goes(p, rest)
                 ELSE IF IsFile(P(n)) THEN Reconcile(p, n, rest)
                 ELSE LinkFile(p, C(n), P(n),
                          [rest EXCEPT !.new = @ \/ NeedsLink(C(n), P(n))])
    BY <1>3 DEF SyncSource
  <2>3. n \in Names
    BY <1>1 DEF Procs
  <2> DEFINE rest == [o EXCEPT !.todo = @ \ {n}]
             b == o.new \/ NeedsLink(C(n), P(n))
             both == [o EXCEPT !.todo = @ \ {n}, !.new = b]
  <2>4. /\ rest \in Procs /\ Fits(rest) /\ rest.link = <<>> /\ rest.alone = o.alone
        /\ rest.at = "sources" /\ rest.name = o.name
    BY <1>1, <2>1, EditedFits DEF Procs
  <2>5. CASE ~ IsFile(P(n)) /\ MarkedDeleted(n)
    <3>1. Goes(p, rest)
      BY <2>2, <2>5
    <3> HIDE DEF rest
    <3> QED BY <2>4, <3>1, GoesMoves DEF Deletes
  <2>6. CASE IsFile(P(n))
    <3>1. LinkFile(p, P(n), C(n), rest) /\ fs' = fs
      BY <2>2, <2>6 DEF Reconcile
    <3>2. NeedsLink(P(n), C(n)) => Fresh(P(n), C(n))
      BY <2>3 DEF Fresh
    <3> HIDE DEF rest, o
    <3> QED BY ZenonT(60), <2>1, <2>3, <2>4, <3>1, <3>2, LooksMoves, PlacesOf, PlacesLink DEF Deletes, o
  <2>7. CASE ~ IsFile(P(n)) /\ ~ MarkedDeleted(n)
    <3>1. LinkFile(p, C(n), P(n), [rest EXCEPT !.new = @ \/ NeedsLink(C(n), P(n))]) /\ fs' = fs
      BY <2>2, <2>7
    <3>2. [rest EXCEPT !.new = @ \/ NeedsLink(C(n), P(n))] = both
      BY <1>1 DEF Procs
    <3>3. b \in BOOLEAN
      BY <1>1 DEF Procs
    <3>4. /\ both \in Procs /\ Fits(both) /\ both.link = <<>> /\ both.alone = o.alone
          /\ both.at = "sources"
      <4> HIDE DEF b, o
      <4> QED BY ZenonT(60), <1>1, <2>1, <3>3, TakenFits DEF o
    <3>5. NeedsLink(C(n), P(n)) => Fresh(C(n), P(n))
      BY <2>3, <2>7 DEF Fresh
    <3>6. LinkFile(p, C(n), P(n), both) /\ fs' = fs
      BY <3>1, <3>2
    <3> HIDE DEF rest, both, o
    <3> QED BY ZenonT(60), <2>1, <2>3, <2>7, <3>4, <3>5, <3>6, LooksMoves, PlacesOf, PlacesLink DEF Deletes, o
  <2> QED BY <2>5, <2>6, <2>7
<1>4. CASE SourcesDone(p)
  <2> DEFINE r == [o EXCEPT !.at = "mirrors", !.todo = Present("project") \ o.seen]
  <2>1. o.at = "sources" /\ o.link = <<>> /\ Goes(p, r)
    BY <1>4 DEF SourcesDone, At
  <2>2. /\ r \in Procs /\ r.link = <<>> /\ r.alone = o.alone /\ r.at = "mirrors"
    BY <1>1, <2>1 DEF Procs, Present, Others
  <2>3. Fits(r)
    BY <2>2 DEF Fits, About, Imports, Syncs
  <2> HIDE DEF r
  <2> QED BY <2>1, <2>2, <2>3, GoesMoves DEF Deletes
<1>5. CASE SyncMirror(p)
  <2>1. o.at = "mirrors" /\ o.link = <<>> /\ fs' = fs
    BY <1>5 DEF SyncMirror, At
  <2>2. PICK n \in o.todo : LinkFile(p, P(n), C(n), [o EXCEPT !.todo = @ \ {n}])
    BY <1>5 DEF SyncMirror
  <2>3. n \in Names
    BY <1>1 DEF Procs
  <2> DEFINE rest == [o EXCEPT !.todo = @ \ {n}]
  <2>4. /\ rest \in Procs /\ Fits(rest) /\ rest.link = <<>> /\ rest.alone = o.alone
        /\ rest.at = "mirrors" /\ rest.name = o.name
    BY <1>1, <2>1, EditedFits DEF Procs
  <2>5. NeedsLink(P(n), C(n)) => Fresh(P(n), C(n))
    BY <2>3 DEF Fresh
  <2>6. LinkFile(p, P(n), C(n), rest)
    BY <2>2
  <2> HIDE DEF rest, o
  <2> QED BY ZenonT(60), <2>1, <2>3, <2>4, <2>5, <2>6, LooksMoves, PlacesOf, PlacesLink DEF Deletes, o
<1>6. CASE MirrorsDone(p)
  <2> DEFINE r == [Off EXCEPT !.at = "record"]
  <2>1. Goes(p, r) \/ Ends(p)
    BY <1>6 DEF MirrorsDone, Ends
  <2>2. r \in Procs /\ Fits(r)
    BY OffTyped, EditedFits DEF Off
  <2>3. r.link = <<>> /\ r.alone = FALSE /\ r.at = "record"
    BY DEF Off
  <2> HIDE DEF r
  <2> QED BY <2>1, <2>2, <2>3, GoesMoves, EndsMoves DEF Deletes
<1> QED BY <1>2, <1>3, <1>4, <1>5, <1>6 DEF Recording

LEMMA LinkingMoves ==
  ASSUME Typed, NEW p \in Processes, OsUnlink(p) \/ OsLink(p) \/ Record(p)
  PROVE  Moves(p)
<1> DEFINE o == proc[p]
<1>1. o \in Procs /\ Fits(o) /\ LinkFits(o)
  BY DEF Typed
<1>2. CASE OsUnlink(p)
  <2> DEFINE r == [o EXCEPT !.link = <<@[1], @[2], TRUE>>]
  <2>1. o.link \in Links /\ Goes(p, r)
    BY <1>1, <1>2 DEF OsUnlink, Procs
  <2>2. PICK s \in Paths, d \in Paths, b \in BOOLEAN : o.link = <<s, d, b>>
    BY <2>1 DEF Links
  <2>3. o.link[1] = s /\ o.link[2] = d
    BY <2>2
  <2>4. /\ r \in Procs /\ r.name = o.name /\ r.at = o.at /\ r.alone = o.alone
        /\ r.link = <<s, d, TRUE>>
    <3> DEFINE l == <<s, d, TRUE>>
    <3>1. r = [o EXCEPT !.link = l]
      BY <1>1, <2>3 DEF Procs
    <3>2. l \in Links
      BY DEF Links
    <3> HIDE DEF l, r
    <3>3. r \in Procs /\ r.name = o.name /\ r.at = o.at /\ r.alone = o.alone /\ r.link = l
      BY <1>1, <3>1, <3>2 DEF Procs
    <3> QED BY <3>3 DEF l
  <2>5. o.link[1] = s /\ o.link[2] = d /\ r.link[1] = s /\ r.link[2] = d /\ o.link # <<>>
        /\ r.link[3]
    <3>1. <<s, d, b>>[1] = s /\ <<s, d, b>>[2] = d /\ <<s, d, TRUE>>[1] = s
          /\ <<s, d, TRUE>>[2] = d /\ <<s, d, TRUE>>[3]
      OBVIOUS
    <3>2. o.link # <<>>
      BY <1>2 DEF OsUnlink
    <3> HIDE DEF r
    <3> QED BY <2>2, <2>4, <3>1, <3>2
  <2>6. Fits(r) /\ LinkFits(r)
    <3> HIDE DEF r
    <3> QED BY <1>1, <2>4, <2>5 DEF Fits, LinkFits
  <2> HIDE DEF r
  <2>7. Becomes(p, r)
    BY <2>1, <2>4, <2>6 DEF Becomes, Goes, r
  <2>8. Keeping(p, r)
    BY <2>4, <2>7 DEF Keeping
  <2> QED BY <1>2, <2>4, <2>5, <2>8 DEF Moves
<1>3. CASE OsLink(p)
  <2> DEFINE r == [o EXCEPT !.link = <<>>]
  <2>1. Ends(p) \/ Goes(p, r)
    BY <1>3 DEF OsLink
  <2>2. r \in Procs /\ r.link = <<>> /\ r.name = o.name /\ r.at = o.at /\ r.alone = o.alone
    BY <1>1 DEF Procs
  <2>3. Fits(r) /\ LinkFits(r)
    BY <1>1, <2>2 DEF Fits, LinkFits
  <2> HIDE DEF r
  <2>4. CASE Goes(p, r)
    <3>1. Becomes(p, r)
      BY <2>4, <2>2, <2>3 DEF Becomes, Goes
    <3> QED BY <2>2, <3>1 DEF Keeping, Moves
  <2> QED BY <2>1, <2>4, EndsMoves
<1>4. CASE Record(p)
  BY <1>4, EndsMoves DEF Record
<1> QED BY <1>2, <1>3, <1>4

\* A deletion goes on with the memory it is about.
LEMMA DeletingMoves ==
  ASSUME Typed, NEW p \in Processes, Deleting(p)
  PROVE  Moves(p)
<1> DEFINE o == proc[p]
<1>1. o \in Procs /\ Fits(o)
  BY DEF Typed
<1>2. ASSUME NEW x \in {"remove source", "stage", "mark", "scoped", "scoped meta"},
             o.at \in Deletes, o.link = <<>>, Goes(p, [o EXCEPT !.at = x])
      PROVE  Moves(p)
  <2> DEFINE r == [o EXCEPT !.at = x]
  <2>1. r \in Procs /\ Fits(r)
    BY <1>1, <1>2, EditedFits DEF About, Deletes
  <2>2. r.link = <<>> /\ r.at = x /\ r.name = o.name /\ r.alone = o.alone
    BY <1>1, <1>2 DEF Procs
  <2> HIDE DEF r
  <2>3. Goes(p, r)
    BY <1>2 DEF r
  <2> QED BY <1>2, <2>1, <2>2, <2>3, GoesMoves
<1>3. CASE RemoveProject(p)
  <2>1. o.at \in Deletes /\ o.link = <<>>
    BY <1>3 DEF RemoveProject, At, Deletes
  <2>2. Ends(p) \/ Goes(p, [o EXCEPT !.at = "remove source"])
    BY <1>3 DEF RemoveProject
  <2> QED BY <1>2, <2>1, <2>2, EndsMoves
<1>4. CASE RemoveSource(p)
  <2>1. o.at \in Deletes /\ o.link = <<>> /\ Goes(p, [o EXCEPT !.at = "stage"])
    BY <1>4 DEF RemoveSource, At, Deletes
  <2> QED BY <1>2, <2>1
<1>5. CASE Stage(p)
  <2>1. o.at \in Deletes /\ o.link = <<>>
    BY <1>5 DEF Stage, At, Deletes
  <2>2. Ends(p) \/ Goes(p, [o EXCEPT !.at = "mark"])
    BY <1>5 DEF Stage
  <2> QED BY <1>2, <2>1, <2>2, EndsMoves
<1>6. CASE Mark(p)
  <2>1. o.at \in Deletes /\ o.link = <<>>
    BY <1>6 DEF Mark, At, Deletes
  <2>2. Ends(p) \/ Goes(p, [o EXCEPT !.at = "scoped"])
    BY <1>6 DEF Mark, Ends
  <2> QED BY <1>2, <2>1, <2>2, EndsMoves
<1>7. CASE RemoveScoped(p)
  <2>1. o.at = "scoped" /\ o.link = <<>>
    BY <1>7 DEF RemoveScoped, At
  <2> DEFINE m == Merged(meta["project"], meta["resource"])
  <2>2. PICK n \in o.name :
          LET rest == [m EXCEPT !.sources = {e \in @ : e[2] # n}]
          IN  Goes(p, [o EXCEPT !.at = "scoped meta", !.held = rest,
                                !.new = n \in listed \/ rest # meta["project"]])
    BY <1>7 DEF RemoveScoped
  <2> DEFINE rest == [m EXCEPT !.sources = {e \in @ : e[2] # n}]
             b == n \in listed \/ rest # meta["project"]
             r == [o EXCEPT !.at = "scoped meta", !.held = rest, !.new = b]
  <2>3. m \in Metas
    BY MergedMeta DEF Typed
  <2>4. rest \in Metas
    <3> HIDE DEF m
    <3> QED BY <2>3, RestMeta
  <2>5. Goes(p, r)
    BY <2>2
  <2>6. b \in BOOLEAN
    OBVIOUS
  <2> HIDE DEF rest, m, b
  <2>7. /\ r \in Procs /\ r.link = <<>> /\ r.at = "scoped meta" /\ r.name = o.name
        /\ r.alone = o.alone
    BY <1>1, <2>1, <2>4, <2>6 DEF Procs, About
  <2>8. Fits(r)
    BY <1>1, <2>1, <2>7 DEF Fits, About, Imports, Syncs
  <2> HIDE DEF r
  <2> QED BY <2>1, <2>5, <2>7, <2>8, GoesMoves DEF Deletes
<1>8. CASE WriteScopedMeta(p)
  <2>1. o.at = "scoped meta" /\ o.link = <<>> /\ Goes(p, [o EXCEPT !.at = "save"])
    BY <1>8 DEF WriteScopedMeta, At
  <2> DEFINE r == [o EXCEPT !.at = "save"]
  <2>2. r \in Procs /\ Fits(r)
    BY <1>1, <2>1, EditedFits
  <2>3. r.link = <<>> /\ r.at = "save" /\ r.alone = o.alone
    BY <1>1, <2>1 DEF Procs
  <2>4. Goes(p, r)
    BY <2>1
  <2> HIDE DEF r
  <2> QED BY <2>2, <2>3, <2>4, GoesMoves DEF Deletes
<1> QED BY <1>3, <1>4, <1>5, <1>6, <1>7, <1>8 DEF Deleting

\* Codex's hook and the commands.
LEMMA SharingMoves ==
  ASSUME Typed, NEW p \in Processes \ Recorders, Sharing(p)
  PROVE  Moves(p)
<1> DEFINE o == proc[p]
<1>1. o \in Procs /\ Fits(o) /\ meta["project"] \in Metas /\ meta["resource"] \in Metas
  BY DEF Typed
<1>2. CASE MergeMeta(p)
  <2> DEFINE m == Merged(meta["project"], meta["resource"])
             b == o.new \/ m # meta["project"]
             T == Present("project")
             r == [o EXCEPT !.at = "push", !.todo = T, !.held = m, !.new = b]
  <2>1. o.at = "meta" /\ o.link = <<>> /\ Goes(p, r)
    <3>1. o.at = "meta" /\ o.link = <<>>
      BY <1>2 DEF MergeMeta, At
    <3>2. Goes(p, [o EXCEPT !.at = "push", !.todo = T, !.held = m, !.new = @ \/ m # meta["project"]])
      BY <1>2 DEF MergeMeta
    <3>3. [o EXCEPT !.at = "push", !.todo = T, !.held = m, !.new = @ \/ m # meta["project"]] = r
      BY <1>1 DEF Procs
    <3> QED BY <3>1, <3>2, <3>3
  <2>2. m \in Metas /\ b \in BOOLEAN /\ T \in SUBSET Names
    BY <1>1, MergedMeta DEF Present, Procs
  <2> HIDE DEF m, b, T
  <2>3. r \in Procs /\ r.link = <<>> /\ r.at = "push" /\ r.name = o.name /\ r.alone = o.alone
    BY <1>1, <2>1, <2>2 DEF Procs, Syncs
  <2>4. Fits(r)
    BY <1>1, <2>1, <2>3 DEF Fits, About, Imports, Syncs
  <2> HIDE DEF r
  <2> QED BY <2>1, <2>3, <2>4, GoesMoves DEF Deletes
<1>3. CASE Push(p)
  <2>1. o.at = "push" /\ o.link = <<>> /\ fs' = fs
    BY <1>3 DEF Push, At
  <2>2. PICK n \in o.todo : LinkFile(p, P(n), R(n), [o EXCEPT !.todo = @ \ {n}])
    BY <1>3 DEF Push
  <2>3. n \in Names
    BY <1>1 DEF Procs
  <2> DEFINE rest == [o EXCEPT !.todo = @ \ {n}]
  <2>4. /\ rest \in Procs /\ Fits(rest) /\ rest.link = <<>> /\ rest.alone = o.alone
        /\ rest.at = "push"
    BY <1>1, <2>1, EditedFits DEF Procs
  <2>5. NeedsLink(P(n), R(n)) => Fresh(P(n), R(n))
    BY <2>3 DEF Fresh
  <2>6. LinkFile(p, P(n), R(n), rest)
    BY <2>2
  <2> HIDE DEF rest, o
  <2> QED BY ZenonT(60), <2>1, <2>3, <2>4, <2>5, <2>6, LooksMoves, PlacesOf, PlacesLink DEF Deletes, o
<1>4. CASE PushDone(p)
  <2> DEFINE T == Present("resource")
             r == [o EXCEPT !.at = "pull", !.todo = T]
  <2>1. o.at = "push" /\ o.link = <<>> /\ Goes(p, r)
    BY <1>4 DEF PushDone, At
  <2>2. T \in SUBSET Names
    BY DEF Present
  <2> HIDE DEF T
  <2>3. r \in Procs /\ r.link = <<>> /\ r.at = "pull" /\ r.name = o.name /\ r.alone = o.alone
    BY <1>1, <2>1, <2>2 DEF Procs, Syncs
  <2>4. Fits(r)
    BY <1>1, <2>1, <2>3 DEF Fits, About, Imports, Syncs
  <2> HIDE DEF r
  <2> QED BY <2>1, <2>3, <2>4, GoesMoves DEF Deletes
<1>5. CASE Pull(p)
  <2>1. o.at = "pull" /\ o.link = <<>> /\ fs' = fs
    BY <1>5 DEF Pull, At
  <2>2. PICK n \in o.todo :
          LET rest == [o EXCEPT !.todo = @ \ {n}]
          IN  IF IsFile(P(n)) THEN LinkFile(p, P(n), R(n), rest)
              ELSE LinkFile(p, R(n), P(n), [rest EXCEPT !.new = @ \/ NeedsLink(R(n), P(n))])
    BY <1>5 DEF Pull
  <2>3. n \in Names
    BY <1>1 DEF Procs
  <2> DEFINE rest == [o EXCEPT !.todo = @ \ {n}]
             b == o.new \/ NeedsLink(R(n), P(n))
             both == [o EXCEPT !.todo = @ \ {n}, !.new = b]
  <2>4. CASE IsFile(P(n))
    <3>1. /\ rest \in Procs /\ Fits(rest) /\ rest.link = <<>> /\ rest.alone = o.alone
          /\ rest.at = "pull"
      BY <1>1, <2>1, EditedFits DEF Procs
    <3>2. NeedsLink(P(n), R(n)) => Fresh(P(n), R(n))
      BY <2>3 DEF Fresh
    <3>3. LinkFile(p, P(n), R(n), rest)
      BY <2>2, <2>4
    <3> HIDE DEF rest, o
    <3> QED BY ZenonT(60), <2>1, <2>3, <3>1, <3>2, <3>3, LooksMoves, PlacesOf, PlacesLink DEF Deletes, o
  <2>5. CASE ~ IsFile(P(n))
    <3>1. LinkFile(p, R(n), P(n), [rest EXCEPT !.new = @ \/ NeedsLink(R(n), P(n))])
      BY <2>2, <2>5
    <3>2. [rest EXCEPT !.new = @ \/ NeedsLink(R(n), P(n))] = both
      BY <1>1 DEF Procs
    <3>3. b \in BOOLEAN
      BY <1>1 DEF Procs
    <3>4. /\ both \in Procs /\ Fits(both) /\ both.link = <<>> /\ both.alone = o.alone
          /\ both.at = "pull"
      <4> HIDE DEF b, o
      <4> QED BY <1>1, <2>1, <3>3, TakenFits
    <3>5. NeedsLink(R(n), P(n)) => Fresh(R(n), P(n))
      BY <2>3, <2>5 DEF Fresh
    <3>6. LinkFile(p, R(n), P(n), both)
      BY <3>1, <3>2
    <3> HIDE DEF rest, both, o
    <3> QED BY ZenonT(60), <2>1, <2>3, <3>4, <3>5, <3>6, LooksMoves, PlacesOf, PlacesLink DEF Deletes, o
  <2> QED BY <2>4, <2>5
<1>6. CASE PullDone(p)
  <2> DEFINE S == IF o.event = "post" THEN Unassigned(o.held) ELSE {}
             x == IF o.name # {} THEN "import" ELSE "notes"
             T == IF o.name # {} THEN o.notes ELSE S
             r == [o EXCEPT !.at = x, !.notes = T]
  <2>1. o.at = "pull" /\ o.link = <<>>
    BY <1>6 DEF PullDone, At
  <2>2. Goes(p, r)
    BY <1>1, <1>6 DEF PullDone, Procs
  <2>3. T \in SUBSET Names
    BY <1>1 DEF Unassigned, Present, Procs
  <2>4. x \in {"import", "notes"} /\ (x = "notes" => o.name = {}) /\ (x = "import" => o.name # {})
    OBVIOUS
  <2>5. x = "import" => \E e \in Pairs : o.name = {e}
    BY <1>1, <2>1, <2>4 DEF Fits, Syncs
  <2> HIDE DEF S, x, T
  <2>6. r \in Procs /\ r.link = <<>> /\ r.at = x /\ r.name = o.name /\ r.alone = o.alone
    BY <1>1, <2>1, <2>3, <2>4 DEF Procs, Imports, Others
  <2> HIDE DEF r
  <2>7. Fits(r)
    BY <2>4, <2>5, <2>6 DEF Fits, About, Imports, Syncs
  <2> QED BY <2>2, <2>4, <2>6, <2>7, GoesMoves DEF Deletes
<1>7. CASE NextNote(p)
  <2>1. o.at = "notes" /\ o.link = <<>>
    BY <1>7 DEF NextNote, At
  <2>2. CASE Goes(p, [o EXCEPT !.at = "save"])
    <3> DEFINE r == [o EXCEPT !.at = "save"]
    <3>1. r \in Procs /\ Fits(r)
      BY <1>1, <2>1, EditedFits
    <3>2. r.link = <<>> /\ r.at = "save" /\ r.alone = o.alone
      BY <1>1, <2>1 DEF Procs
    <3>3. Goes(p, r)
      BY <2>2
    <3> HIDE DEF r
    <3> QED BY <3>1, <3>2, <3>3, GoesMoves DEF Deletes
  <2>3. ASSUME NEW n \in o.notes,
               Goes(p, [o EXCEPT !.at = "meta", !.name = {<<n, n>>}, !.notes = @ \ {n}])
        PROVE  Moves(p)
    <3> DEFINE r == [o EXCEPT !.at = "meta", !.name = {<<n, n>>}, !.notes = @ \ {n}]
    <3>1. <<n, n>> \in Pairs
      BY <1>1 DEF Procs, Pairs
    <3> DEFINE e == <<n, n>>
    <3> HIDE DEF e
    <3>2. r = [o EXCEPT !.at = "meta", !.name = {e}, !.notes = @ \ {n}] /\ e \in Pairs
      BY <3>1 DEF e
    <3>3. {e} \in Singles
      BY <3>2 DEF Singles
    <3>4. Goes(p, r)
      BY <2>3
    <3> HIDE DEF r
    <3>5. r \in Procs /\ r.link = <<>> /\ r.at = "meta" /\ r.name = {e} /\ r.alone = o.alone
      BY <1>1, <2>1, <3>2, <3>3 DEF Procs, Syncs
    <3>6. Fits(r)
      BY <3>2, <3>5 DEF Fits, About, Imports, Syncs
    <3> QED BY <3>4, <3>5, <3>6, GoesMoves DEF Deletes
  <2>4. \/ Goes(p, [o EXCEPT !.at = "save"])
        \/ Ends(p)
        \/ \E n \in o.notes :
             Goes(p, [o EXCEPT !.at = "meta", !.name = {<<n, n>>}, !.notes = @ \ {n}])
    BY <1>7 DEF NextNote, Ends
  <2> QED BY <2>2, <2>3, <2>4, EndsMoves
<1>8. CASE Ignore(p)
  <2>1. o.at = "import" /\ o.link = <<>>
    BY <1>8 DEF Ignore, At
  <2>2. PICK e \in o.name :
          LET m == [o.held EXCEPT !.ignored = @ \cup {e[1]}]
          IN  Goes(p, [o EXCEPT !.at = "save", !.new = @ \/ m # meta["project"]])
    BY <1>8 DEF Ignore
  <2> DEFINE b == o.new \/ [o.held EXCEPT !.ignored = @ \cup {e[1]}] # meta["project"]
             r == [o EXCEPT !.at = "save", !.new = b]
  <2>3. Goes(p, r)
    BY <1>1, <2>2 DEF Procs
  <2>4. b \in BOOLEAN
    BY <1>1 DEF Procs
  <2> HIDE DEF b
  <2>5. r \in Procs /\ r.link = <<>> /\ r.at = "save" /\ r.alone = o.alone
    BY <1>1, <2>1, <2>4 DEF Procs, Others
  <2> HIDE DEF r
  <2>6. Fits(r)
    BY <2>5 DEF Fits, About, Imports, Syncs
  <2> QED BY <2>3, <2>5, <2>6, GoesMoves DEF Deletes
<1>9. CASE ImportNote(p)
  <2>1. o.at = "import" /\ o.link = <<>> /\ fs' = fs
    BY <1>9 DEF ImportNote, At
  <2>2. PICK e \in o.name :
          IF Collides(e[1], e[2]) \/ ~IsFile(N(e[1])) THEN Ends(p)
          ELSE LinkFile(p, N(e[1]), R(e[2]), [o EXCEPT !.at = "import project"])
    BY <1>9 DEF ImportNote
  <2>3. e[1] \in Names /\ e[2] \in Names /\ e \in Pairs /\ o.name = {e}
    BY <1>1, <2>1 DEF Fits, Imports, Pairs
  <2> DEFINE r == [o EXCEPT !.at = "import project"]
  <2>4. r \in Procs /\ r.link = <<>> /\ r.at = "import project" /\ r.name = {e} /\ r.alone = o.alone
    BY <1>1, <2>1, <2>3 DEF Procs, Imports
  <2>5. CASE Ends(p)
    BY <2>5, EndsMoves
  <2>6. CASE LinkFile(p, N(e[1]), R(e[2]), r)
    <3> HIDE DEF r, o
    <3>1. Fits(r)
      BY <2>3, <2>4 DEF Fits, About, Imports, Syncs
    <3>2. N(e[1]) \in Paths /\ R(e[2]) \in Paths /\ Linkable(N(e[1]), R(e[2]))
      BY <2>3, PlacesOf, PlacesLink
    <3>3. r.at \notin Deletes /\ r.at # "written" /\ o.at \notin Deletes /\ r.name # {}
      BY <2>1, <2>4 DEF Deletes
    <3> QED BY <2>1, <2>4, <2>6, <3>1, <3>2, <3>3, LooksMoves DEF o
  <2> QED BY <2>2, <2>5, <2>6
<1>10. CASE ImportProject(p)
  <2>1. o.at = "import project" /\ o.link = <<>> /\ fs' = fs
    BY <1>10 DEF ImportProject, At
  <2>2. PICK e \in o.name :
          LinkFile(p, R(e[2]), P(e[2]),
              [o EXCEPT !.at = "assign", !.new = @ \/ NeedsLink(R(e[2]), P(e[2]))])
    BY <1>10 DEF ImportProject
  <2>3. e[2] \in Names /\ e \in Pairs /\ o.name = {e}
    BY <1>1, <2>1 DEF Fits, Imports, Pairs
  <2> DEFINE b == o.new \/ NeedsLink(R(e[2]), P(e[2]))
             r == [o EXCEPT !.at = "assign", !.new = b]
  <2>4. LinkFile(p, R(e[2]), P(e[2]), r)
    <3>1. [o EXCEPT !.at = "assign", !.new = @ \/ NeedsLink(R(e[2]), P(e[2]))] = r
      BY <1>1 DEF Procs
    <3> QED BY <2>2, <3>1
  <2>5. b \in BOOLEAN
    BY <1>1 DEF Procs
  <2> HIDE DEF b
  <2>6. r \in Procs /\ r.link = <<>> /\ r.at = "assign" /\ r.name = {e} /\ r.alone = o.alone
    BY <1>1, <2>1, <2>3, <2>5 DEF Procs, Imports
  <2> HIDE DEF r, o
  <2>7. Fits(r)
    BY <2>3, <2>6 DEF Fits, About, Imports, Syncs
  <2> QED BY ZenonT(60), <2>1, <2>3, <2>4, <2>6, <2>7, LooksMoves, PlacesOf, PlacesLink DEF Deletes, o
<1>11. CASE Assign(p)
  <2>1. o.at = "assign" /\ o.link = <<>>
    BY <1>11 DEF Assign, At
  <2>2. PICK e \in o.name :
          LET m == Reassigned(o.held, e)
          IN  Goes(p, [o EXCEPT !.at = IF p = "codex" THEN "notes" ELSE "save",
                                !.name = {}, !.held = m, !.new = @ \/ m # meta["project"]])
    BY <1>11 DEF Assign
  <2>3. e \in Pairs
    BY <1>1, <2>1 DEF Fits, Imports
  <2> DEFINE m == Reassigned(o.held, e)
             b == o.new \/ m # meta["project"]
             x == IF p = "codex" THEN "notes" ELSE "save"
             r == [o EXCEPT !.at = x, !.name = {}, !.held = m, !.new = b]
  <2>4. Goes(p, r)
    BY <1>1, <2>2 DEF Procs
  <2>5. m \in Metas /\ b \in BOOLEAN /\ x \in {"notes", "save"}
    BY <1>1, <2>3, ReassignedMeta DEF Procs
  <2> HIDE DEF m, b, x
  <2>6. r \in Procs /\ r.link = <<>> /\ r.at = x /\ r.name = {} /\ r.alone = o.alone
    BY <1>1, <2>1, <2>5 DEF Procs, Others, Singles
  <2> HIDE DEF r
  <2>7. Fits(r)
    BY <2>5, <2>6 DEF Fits, About, Imports, Syncs
  <2> QED BY <2>4, <2>5, <2>6, <2>7, GoesMoves DEF Deletes
<1>12. CASE Save(p)
  <2> DEFINE r == [Off EXCEPT !.at = "record"]
  <2>1. Goes(p, r) \/ Ends(p)
    BY <1>12 DEF Save, Ends
  <2>2. r \in Procs /\ Fits(r)
    BY OffTyped, EditedFits DEF Off
  <2>3. r.link = <<>> /\ r.alone = FALSE /\ r.at = "record"
    BY DEF Off
  <2> HIDE DEF r
  <2> QED BY <2>1, <2>2, <2>3, GoesMoves, EndsMoves DEF Deletes
<1> QED BY <1>2, <1>3, <1>4, <1>5, <1>6, <1>7, <1>8, <1>9, <1>10, <1>11, <1>12 DEF Sharing

\* So does every process.
LEMMA WorkingMoves ==
  ASSUME Typed, NEW p \in Processes, Working(p)
  PROVE  Moves(p)
BY RecordingMoves, DeletingMoves, SharingMoves, LinkingMoves DEF Working

-----------------------------------------------------------------------------
(* What a step does to the files, the repository and the metadata.         *)

LEMMA BlobTyped ==
  ASSUME Typed, NEW q \in Paths
  PROVE  Blob(q) \in Blobs /\ (Blob(q) = Nothing <=> fs[q] = Nothing)
<1>1. fs[q] \in Entries
  BY DEF Typed
<1> QED BY <1>1 DEF Blob, Blobs, Entries, FileEntries, LinkEntries, Nothing

\* Unlinking, of one path or of several.
LEMMA RemovedTyped ==
  ASSUME Typed, NEW Q, fs' = [q \in Paths |-> IF q \in Q THEN Nothing ELSE fs[q]]
  PROVE  fs' \in [Paths -> Entries] /\ Tidy'
BY DEF Typed, Tidy, Entries, Nothing

LEMMA UnlinkedOne ==
  ASSUME Typed, NEW d \in Paths
  PROVE  [fs EXCEPT ![d] = Nothing] = [q \in Paths |-> IF q \in {d} THEN Nothing ELSE fs[q]]
BY DEF Typed

LEMMA AddedTyped ==
  ASSUME Typed, NEW d \in Paths, NEW x \in Entries, fs' = [fs EXCEPT ![d] = x],
         x.is = "link" => d[2] # "native" /\ Follows(d, x.to)
  PROVE  fs' \in [Paths -> Entries] /\ Tidy'
BY DEF Typed, Tidy

LEMMA LinkedTyped ==
  ASSUME Typed, NEW s \in Paths, NEW d \in Paths, Linkable(s, d),
         fs' = [fs EXCEPT ![d] = IF fs[s] # Nothing /\ HardLinkable(s, d)
                                 THEN fs[s] ELSE SymLink(s)]
  PROVE  fs' \in [Paths -> Entries] /\ Tidy'
<1>1. SymLink(s) \in Entries /\ SymLink(s).is = "link" /\ SymLink(s).to = s
  BY DEF SymLink, Entries, LinkEntries
<1>2. fs[s] \in Entries
  BY DEF Typed
<1>3. fs[s].is = "link" => d[2] # "native" /\ Follows(d, fs[s].to)
  BY DEF Typed, Tidy, Linkable, Follows
<1>4. d[2] # "native" /\ Follows(d, s)
  BY DEF Linkable
<1>5. PICK x \in Entries : /\ fs' = [fs EXCEPT ![d] = x]
                           /\ x.is = "link" => d[2] # "native" /\ Follows(d, x.to)
  BY <1>1, <1>2, <1>3, <1>4
<1> QED BY <1>5, AddedTyped

LEMMA FilesTyped ==
  ASSUME Typed, NEW p \in Processes, Working(p)
  PROVE  fs' \in [Paths -> Entries] /\ Tidy'
<1> DEFINE o == proc[p]
<1>1. o \in Procs /\ Fits(o) /\ LinkFits(o)
  BY DEF Typed
<1>2. CASE fs' = fs
  BY <1>2 DEF Typed, Tidy
<1>3. CASE OsUnlink(p)
  <2>1. o.link[2] \in Paths
    BY <1>1, <1>3 DEF OsUnlink, Procs, Links
  <2>2. fs' = [fs EXCEPT ![o.link[2]] = Nothing]
    BY <1>3 DEF OsUnlink
  <2> QED BY <2>1, <2>2, UnlinkedOne, RemovedTyped
<1>4. CASE OsLink(p)
  <2>1. o.link[1] \in Paths /\ o.link[2] \in Paths /\ Linkable(o.link[1], o.link[2])
    BY <1>1, <1>4 DEF OsLink, Procs, Links, LinkFits
  <2> QED BY <1>2, <1>4, <2>1, LinkedTyped DEF OsLink
<1>5. CASE p \in Recorders /\ SyncSource(p)
  <2>1. PICK n \in o.todo : fs' = fs \/ fs' = [fs EXCEPT ![C(n)] = Nothing]
    BY <1>5 DEF SyncSource
  <2>2. n \in Names
    BY <1>1 DEF Procs
  <2>3. CASE fs' = [fs EXCEPT ![C(n)] = Nothing]
    <3>1. C(n) \in Paths
      BY <2>2, PlacesOf
    <3> QED BY <2>3, <3>1, UnlinkedOne, RemovedTyped
  <2> QED BY <1>2, <2>1, <2>3
<1>6. CASE RemoveProject(p) \/ RemoveSource(p) \/ RemoveScoped(p)
  <2>1. fs' = fs \/ \E Q : Unlink(Q)
    BY <1>6 DEF RemoveProject, RemoveSource, RemoveScoped
  <2> QED BY <1>2, <2>1, RemovedTyped DEF Unlink
<1>7. CASE Record(p) \/ Stage(p) \/ Mark(p) \/ WriteScopedMeta(p)
  BY <1>2, <1>7 DEF Record, Stage, Mark, WriteScopedMeta
<1>8. CASE Written(p) \/ SourcesDone(p) \/ SyncMirror(p) \/ MirrorsDone(p)
  BY <1>2, <1>8 DEF Written, SourcesDone, SyncMirror, MirrorsDone
<1>9. CASE Sharing(p)
  BY <1>2, <1>9 DEF Sharing, MergeMeta, Push, PushDone, Pull, PullDone, NextNote, Ignore,
       ImportNote, ImportProject, Assign, Save
<1> QED BY <1>3, <1>4, <1>5, <1>6, <1>7, <1>8, <1>9 DEF Working, Recording, Deleting

LEMMA StagedTyped ==
  ASSUME Typed, NEW n \in Names
  PROVE  /\ [head EXCEPT ![n] = Blob(P(n))] \in [Names -> Blobs]
         /\ [deletion EXCEPT ![n] = IF fs[P(n)] = Nothing THEN "marked" ELSE @]
               \in [Names -> {"none", "unmarked", "marked"}]
         /\ (IF fs[P(n)] = Nothing THEN tracked \ {n} ELSE tracked \cup {n}) \subseteq Names
BY BlobTyped, PlacesOf DEF Typed

LEMMA CommitTyped ==
  ASSUME Typed, CommitDirectory
  PROVE  /\ head' \in [Names -> Blobs] /\ deletion' \in [Names -> {"none", "unmarked", "marked"}]
         /\ tracked' \subseteq Names
<1>1. head' \in [Names -> Blobs]
  BY BlobTyped, PlacesOf DEF CommitDirectory
<1>2. deletion' \in [Names -> {"none", "unmarked", "marked"}]
  BY DEF CommitDirectory, Typed
<1>3. tracked' \subseteq Names
  BY DEF CommitDirectory, Present
<1> QED BY <1>1, <1>2, <1>3

\* The rest of the types.
RestTyped ==
    /\ scene.disk \in BOOLEAN /\ scene.codex \in BOOLEAN /\ scene.names \subseteq Names
    /\ head \in [Names -> Blobs] /\ deletion \in [Names -> {"none", "unmarked", "marked"}]
    /\ tracked \subseteq Names /\ listed \subseteq Names
    /\ meta \in [{"project", "resource"} -> Metas]
    /\ kept \subseteq Names /\ gone \subseteq Names /\ clean \subseteq Names
    /\ left \in [Kinds -> Nat]

LEMMA MetaTyped ==
  ASSUME NEW m \in Metas, WriteMeta(m)
  PROVE  meta' \in [{"project", "resource"} -> Metas]
BY DEF WriteMeta

LEMMA RestKept ==
  ASSUME Typed, NEW p \in Processes, Working(p)
  PROVE  RestTyped'
<1> DEFINE o == proc[p]
<1>1. o \in Procs /\ Fits(o) /\ RestTyped
  BY DEF Typed, RestTyped
<1>2. CASE OsUnlink(p) \/ RemoveProject(p) \/ RemoveSource(p)
  BY <1>1, <1>2 DEF RestTyped, OsUnlink, RemoveProject, RemoveSource
<1>3. CASE OsLink(p)
  <2>1. o.link[2] \in Paths
    BY <1>1, <1>3 DEF OsLink, Procs, Links
  <2>2. o.link[2][1] \in Names
    BY <2>1, PathOf
  <2>3. listed' \subseteq Names
    BY <1>1, <1>3, <2>2 DEF OsLink, RestTyped
  <2> QED BY <1>1, <1>3, <2>3 DEF RestTyped, OsLink
<1>4. CASE Record(p)
  <2>1. CommitDirectory
    BY <1>4 DEF Record
  <2> QED BY <1>1, <1>4, <2>1, CommitTyped DEF RestTyped, Record
<1>5. CASE Stage(p)
  <2>1. o.name \subseteq Names
    BY <1>1, <1>5 DEF Stage, At, Fits, About
  <2>2. tracked' \subseteq Names
    BY <1>1, <1>5, <2>1 DEF Stage, RestTyped
  <2> QED BY <1>1, <1>5, <2>2 DEF RestTyped, Stage
<1>6. CASE Mark(p)
  <2>1. PICK n \in o.name :
          \/ UNCHANGED <<head, tracked, deletion, gone, clean>>
          \/ Marked(n) /\ Buried(p, n)
    BY <1>6 DEF Mark
  <2>2. n \in Names
    BY <1>1, <1>6 DEF Mark, At, Fits, About
  <2>3. CASE UNCHANGED <<head, tracked, deletion, gone, clean>>
    BY <1>1, <1>6, <2>3 DEF RestTyped, Mark
  <2>4. CASE Marked(n) /\ Buried(p, n)
    <3>1. /\ head' \in [Names -> Blobs] /\ deletion' \in [Names -> {"none", "unmarked", "marked"}]
          /\ tracked' \subseteq Names
      BY <2>2, <2>4, StagedTyped DEF Marked
    <3>2. gone' \subseteq Names /\ clean' \subseteq Names
      BY <1>1, <2>2, <2>4 DEF Buried, RestTyped
    <3> QED BY <1>1, <1>6, <3>1, <3>2 DEF RestTyped, Mark
  <2> QED BY <2>1, <2>3, <2>4
<1>7. CASE RemoveScoped(p)
  <2>1. listed' \subseteq Names
    BY <1>1, <1>7 DEF RemoveScoped, RestTyped
  <2> QED BY <1>1, <1>7, <2>1 DEF RestTyped, RemoveScoped
<1>8. CASE WriteScopedMeta(p)
  <2>1. o.held \in Metas /\ o.name \subseteq Names
    BY <1>1, <1>8 DEF Procs, WriteScopedMeta, At, Fits, About
  <2>2. meta' \in [{"project", "resource"} -> Metas]
    BY <1>8, <2>1, MetaTyped DEF WriteScopedMeta
  <2>3. clean' \subseteq Names
    BY <1>1, <1>8, <2>1 DEF WriteScopedMeta, RestTyped
  <2> QED BY <1>1, <1>8, <2>2, <2>3 DEF RestTyped, WriteScopedMeta
<1>9. CASE Written(p) \/ SyncSource(p) \/ SourcesDone(p) \/ SyncMirror(p) \/ MirrorsDone(p)
  BY <1>1, <1>9 DEF RestTyped, Written, SyncSource, SourcesDone, SyncMirror, MirrorsDone
<1>10. CASE Push(p) \/ PushDone(p) \/ Pull(p) \/ PullDone(p) \/ NextNote(p)
            \/ ImportNote(p) \/ ImportProject(p) \/ Save(p)
  BY <1>1, <1>10 DEF RestTyped, Push, PushDone, Pull, PullDone, NextNote, ImportNote,
       ImportProject, Save
<1>11. CASE MergeMeta(p)
  <2>1. WriteMeta(Merged(meta["project"], meta["resource"]))
    BY <1>11 DEF MergeMeta
  <2>2. meta' \in [{"project", "resource"} -> Metas]
    BY <1>1, <2>1, MergedMeta, MetaTyped DEF RestTyped
  <2> QED BY <1>1, <1>11, <2>2 DEF RestTyped, MergeMeta
<1>12. CASE Ignore(p)
  <2>1. PICK e \in o.name : WriteMeta([o.held EXCEPT !.ignored = @ \cup {e[1]}])
    BY <1>12 DEF Ignore
  <2>2. e[1] \in Names /\ o.held \in Metas
    BY <1>1, <1>12 DEF Procs, Ignore, At, Fits, Imports, Pairs
  <2>3. meta' \in [{"project", "resource"} -> Metas]
    BY <2>1, <2>2, IgnoredMeta, MetaTyped
  <2> QED BY <1>1, <1>12, <2>3 DEF RestTyped, Ignore
<1>13. CASE Assign(p)
  <2>1. PICK e \in o.name : WriteMeta(Reassigned(o.held, e)) /\ listed' = listed \cup {e[2]}
    BY <1>13 DEF Assign
  <2>2. e \in Pairs /\ e[2] \in Names /\ o.held \in Metas
    BY <1>1, <1>13 DEF Procs, Assign, At, Fits, Imports, Pairs
  <2>3. meta' \in [{"project", "resource"} -> Metas]
    BY <2>1, <2>2, ReassignedMeta, MetaTyped
  <2>4. listed' \subseteq Names
    BY <1>1, <2>1, <2>2 DEF RestTyped
  <2> QED BY <1>1, <1>13, <2>3, <2>4 DEF RestTyped, Assign
<1> QED BY <1>2, <1>3, <1>4, <1>5, <1>6, <1>7, <1>8, <1>9, <1>10, <1>11, <1>12, <1>13
     DEF Working, Recording, Deleting, Sharing

LEMMA WorkingTyped ==
  ASSUME Typed, NEW p \in Processes, Working(p)
  PROVE  Typed'
<1>1. PICK r \in Procs : Becomes(p, r)
  BY WorkingMoves DEF Moves, Keeping
<1>2. proc' \in [Processes -> Procs] /\ \A q \in Processes : Fits(proc'[q]) /\ LinkFits(proc'[q])
  BY <1>1 DEF Becomes, Typed
<1> QED BY <1>2, FilesTyped, RestKept DEF Typed, RestTyped

-----------------------------------------------------------------------------
(* What happens beside the steps of a process: its start, and the outside. *)

ProcTyped == proc \in [Processes -> Procs] /\ \A p \in Processes : Fits(proc[p]) /\ LinkFits(proc[p])

LEMMA DisturbedTyped ==
  ASSUME Typed, Disturbed
  PROVE  ProcTyped'
<1>1. ASSUME NEW p \in Processes
      PROVE  proc'[p] \in Procs /\ Fits(proc'[p]) /\ LinkFits(proc'[p])
  <2> DEFINE r == proc[p]
             q == [r EXCEPT !.alone = FALSE]
  <2>1. r \in Procs /\ Fits(r) /\ LinkFits(r) /\ proc'[p] = q
    BY DEF Typed, Disturbed
  <2>2. q \in Procs /\ q.at = r.at /\ q.name = r.name /\ q.link = r.link
    BY <2>1 DEF Procs
  <2> HIDE DEF q, r
  <2> QED BY <2>1, <2>2 DEF Fits, LinkFits
<1>2. proc' \in [Processes -> Procs]
  BY <1>1 DEF Disturbed
<1> QED BY <1>1, <1>2 DEF ProcTyped

LEMMA StartsTyped ==
  ASSUME Typed, NEW p \in Processes, NEW rec \in Procs, Fits(rec), rec.link = <<>>, Starts(p, rec)
  PROVE  ProcTyped'
<1>1. ASSUME NEW q \in Processes
      PROVE  proc'[q] \in Procs /\ Fits(proc'[q]) /\ LinkFits(proc'[q])
  <2>1. CASE q = p
    <3> DEFINE r == [rec EXCEPT !.alone = AllOff]
    <3>1. AllOff \in BOOLEAN
      BY DEF AllOff
    <3>2. r \in Procs /\ r.at = rec.at /\ r.name = rec.name /\ r.link = <<>>
      BY <3>1 DEF Procs
    <3>3. proc'[q] = r
      BY <2>1 DEF Starts
    <3> HIDE DEF r
    <3> QED BY <3>2, <3>3 DEF Fits, LinkFits
  <2>2. CASE q # p
    <3> DEFINE o == proc[q]
               r == [o EXCEPT !.alone = FALSE]
    <3>1. o \in Procs /\ Fits(o) /\ LinkFits(o) /\ proc'[q] = r
      BY <2>2 DEF Typed, Starts
    <3>2. r \in Procs /\ r.at = o.at /\ r.name = o.name /\ r.link = o.link
      BY <3>1 DEF Procs
    <3> HIDE DEF r, o
    <3> QED BY <3>1, <3>2 DEF Fits, LinkFits
  <2> QED BY <2>1, <2>2
<1>2. proc' \in [Processes -> Procs]
  BY <1>1 DEF Starts
<1> QED BY <1>1, <1>2 DEF ProcTyped

LEMMA EndsTyped ==
  ASSUME Typed, NEW p \in Processes, Ends(p)
  PROVE  ProcTyped'
BY OffTyped DEF Ends, Goes, Typed, ProcTyped

\* How each of the processes begins.
LEMMA Begun ==
  ASSUME NEW n \in Names, NEW S \in SUBSET Names
  PROVE  /\ LET r == [Off EXCEPT !.at = "sources", !.todo = S, !.seen = S]
            IN  r \in Procs /\ Fits(r) /\ r.link = <<>> /\ r.at = "sources"
         /\ \A event \in {"post", "stop"} :
              LET r == [Off EXCEPT !.at = "meta", !.event = event]
              IN  r \in Procs /\ Fits(r) /\ r.link = <<>> /\ r.at = "meta"
         /\ LET r == [Off EXCEPT !.at = "remove", !.event = "delete", !.name = {n}]
            IN  r \in Procs /\ Fits(r) /\ r.link = <<>> /\ r.at = "remove" /\ r.name = {n}
         /\ LET r == [Off EXCEPT !.at = "remove", !.event = "remove", !.name = {n}]
            IN  r \in Procs /\ Fits(r) /\ r.link = <<>> /\ r.at = "remove" /\ r.name = {n}
         /\ LET r == [Off EXCEPT !.at = "written", !.event = "written", !.name = {n}]
            IN  r \in Procs /\ Fits(r) /\ r.link = <<>> /\ r.at = "written" /\ r.name = {n}
<1> USE DEF Off, Procs, Fits, About, Imports, Syncs, Others
<1>1. NoMeta \in Metas /\ {} \in Singles /\ {n} \in Singles
  BY OffTyped DEF Singles
<1>2. LET r == [Off EXCEPT !.at = "sources", !.todo = S, !.seen = S]
      IN  r \in Procs /\ Fits(r) /\ r.link = <<>> /\ r.at = "sources"
  BY <1>1
<1>3. ASSUME NEW event \in {"post", "stop"}
      PROVE  LET r == [Off EXCEPT !.at = "meta", !.event = event]
             IN  r \in Procs /\ Fits(r) /\ r.link = <<>> /\ r.at = "meta"
  BY <1>1
<1>4. LET r == [Off EXCEPT !.at = "remove", !.event = "delete", !.name = {n}]
      IN  r \in Procs /\ Fits(r) /\ r.link = <<>> /\ r.at = "remove" /\ r.name = {n}
  BY <1>1
<1>5. LET r == [Off EXCEPT !.at = "remove", !.event = "remove", !.name = {n}]
      IN  r \in Procs /\ Fits(r) /\ r.link = <<>> /\ r.at = "remove" /\ r.name = {n}
  BY <1>1
<1>6. LET r == [Off EXCEPT !.at = "written", !.event = "written", !.name = {n}]
      IN  r \in Procs /\ Fits(r) /\ r.link = <<>> /\ r.at = "written" /\ r.name = {n}
  BY <1>1
<1> QED BY <1>2, <1>3, <1>4, <1>5, <1>6

LEMMA BegunImport ==
  ASSUME NEW n \in Names, NEW t \in Names, NEW event \in {"import", "ignore"}
  PROVE  LET r == [Off EXCEPT !.at = "meta", !.event = event, !.name = {<<n, t>>}]
         IN  r \in Procs /\ Fits(r) /\ r.link = <<>> /\ r.at = "meta"
<1> DEFINE e == <<n, t>>
<1>1. e \in Pairs
  BY DEF Pairs
<1> HIDE DEF e
<1>2. {e} \in Singles /\ NoMeta \in Metas
  BY <1>1, OffTyped DEF Singles
<1>3. LET r == [Off EXCEPT !.at = "meta", !.event = event, !.name = {e}]
      IN  r \in Procs /\ Fits(r) /\ r.link = <<>> /\ r.at = "meta"
  BY <1>1, <1>2 DEF Off, Procs, Fits, About, Imports, Syncs, Others
<1> QED BY <1>3 DEF e

LEMMA VersionTyped ==
  ASSUME Typed
  PROVE  Version \in Nat
BY DEF Typed, Kinds, Version

LEMMA WrittenTyped ==
  ASSUME Typed, NEW q \in Paths, WrittenTo(q, Version)
  PROVE  fs' \in [Paths -> Entries] /\ Tidy'
<1>0. Version \in Nat
  BY VersionTyped
<1>1. CASE fs' = [r \in Paths |->
              IF fs[r].is = "file" /\ fs[r].ino = fs[Target(q)].ino
              THEN [fs[r] EXCEPT !.ver = Version] ELSE fs[r]]
  <2>1. ASSUME NEW r \in Paths
        PROVE  fs'[r] \in Entries /\ fs'[r].is = fs[r].is
               /\ (fs[r].is = "link" => fs'[r] = fs[r])
    <3>1. fs[r] \in Entries
      BY DEF Typed
    <3>2. CASE fs[r].is = "file"
      <4>1. fs[r] \in FileEntries
        BY <3>1, <3>2 DEF Entries, LinkEntries, Nothing
      <4>2. [fs[r] EXCEPT !.ver = Version] \in FileEntries
            /\ [fs[r] EXCEPT !.ver = Version].is = "file"
        BY <1>0, <4>1 DEF FileEntries
      <4> QED BY <1>1, <3>2, <4>1, <4>2 DEF Entries
    <3> QED BY <1>1, <3>1, <3>2
  <2>2. fs' \in [Paths -> Entries]
    BY <1>1, <2>1
  <2> QED BY <2>1, <2>2 DEF Typed, Tidy
<1>2. CASE fs' = [fs EXCEPT ![q] = File(FreeInode, Version)]
  <2>1. File(FreeInode, Version) \in Entries /\ File(FreeInode, Version).is = "file"
    BY <1>0, FreeInodeIs DEF File, Entries, FileEntries
  <2> QED BY <1>2, <2>1, AddedTyped
<1> QED BY <1>1, <1>2 DEF WrittenTo

LEMMA SpentTyped ==
  ASSUME Typed, NEW kind \in Kinds, Spend(kind)
  PROVE  left' \in [Kinds -> Nat] /\ left' # left
BY DEF Spend, Typed

FsTyped == fs \in [Paths -> Entries] /\ Tidy

LEMMA TypedParts == Typed <=> FsTyped /\ RestTyped /\ ProcTyped
BY DEF Typed, FsTyped, RestTyped, ProcTyped

LEMMA SessionTyped ==
  ASSUME Typed, Session
  PROVE  Typed'
<1>1. FsTyped /\ RestTyped
  BY TypedParts
<1>2. ASSUME Overlaps
      PROVE  left' \in [Kinds -> Nat]
  BY <1>1, <1>2, SpentTyped DEF Overlaps, Kinds, RestTyped
<1>3. ASSUME NEW r \in Recorders, StartSession(r)
      PROVE  Typed'
  <2>1. ProcTyped'
    <3> DEFINE S == Present("claude")
               rec == [Off EXCEPT !.at = "sources", !.todo = S, !.seen = S]
    <3>1. S \in SUBSET Names
      BY DEF Present
    <3>2. Starts(r, rec)
      BY <1>3 DEF StartSession
    <3>3. rec \in Procs /\ Fits(rec) /\ rec.link = <<>>
      <4> HIDE DEF S
      <4>1. CASE Names = {}
        BY ZenonT(60), <3>1, <4>1, OffTyped DEF Off, Procs, Fits, About, Imports, Syncs, Others
      <4>2. CASE Names # {}
        BY <3>1, <4>2, Begun
      <4> QED BY <4>1, <4>2
    <3> HIDE DEF rec
    <3> QED BY <3>2, <3>3, StartsTyped DEF Processes
  <2>2. FsTyped' /\ RestTyped'
    BY <1>1, <1>2, <1>3 DEF StartSession, FsTyped, RestTyped, Tidy
  <2> QED BY <2>1, <2>2 DEF Typed, FsTyped, RestTyped, ProcTyped
<1>4. ASSUME NEW e \in {"post", "stop"}, StartCodex(e)
      PROVE  Typed'
  <2>1. ProcTyped'
    <3> DEFINE rec == [Off EXCEPT !.at = "meta", !.event = e]
    <3>1. Starts("codex", rec)
      BY <1>4 DEF StartCodex
    <3>2. rec \in Procs /\ Fits(rec) /\ rec.link = <<>>
      BY OffTyped DEF Off, Procs, Fits, About, Imports, Syncs, Others
    <3> HIDE DEF rec
    <3> QED BY <3>1, <3>2, StartsTyped DEF Processes
  <2>2. FsTyped' /\ RestTyped'
    BY <1>1, <1>2, <1>4 DEF StartCodex, FsTyped, RestTyped, Tidy
  <2> QED BY <2>1, <2>2 DEF Typed, FsTyped, RestTyped, ProcTyped
<1> QED BY <1>3, <1>4 DEF Session

LEMMA DeletePyTyped ==
  ASSUME Typed, NEW n \in Names, DeletePy(n)
  PROVE  Typed'
<1>1. FsTyped /\ RestTyped
  BY TypedParts
<1>2. left' \in [Kinds -> Nat]
  BY SpentTyped DEF DeletePy, Kinds
<1>3. ProcTyped'
  <2> DEFINE rec == [Off EXCEPT !.at = "remove", !.event = "delete", !.name = {n}]
  <2>1. Starts("cli", rec)
    BY DEF DeletePy
  <2>2. rec \in Procs /\ Fits(rec) /\ rec.link = <<>>
    BY Begun
  <2> HIDE DEF rec
  <2> QED BY <2>1, <2>2, StartsTyped DEF Processes
<1>4. FsTyped' /\ RestTyped'
  BY <1>1, <1>2 DEF DeletePy, FsTyped, RestTyped, Tidy
<1> QED BY <1>3, <1>4 DEF Typed, FsTyped, RestTyped, ProcTyped

LEMMA ImportPyTyped ==
  ASSUME Typed, NEW n \in Names, NEW t \in Names, NEW event \in {"import", "ignore"},
         ImportPy(n, t, event)
  PROVE  Typed'
<1>1. FsTyped /\ RestTyped
  BY TypedParts
<1>2. left' \in [Kinds -> Nat]
  BY SpentTyped DEF ImportPy, Kinds
<1>3. ProcTyped'
  <2> DEFINE rec == [Off EXCEPT !.at = "meta", !.event = event, !.name = {<<n, t>>}]
  <2>1. Starts("cli", rec)
    BY DEF ImportPy
  <2>2. rec \in Procs /\ Fits(rec) /\ rec.link = <<>>
    BY BegunImport
  <2> HIDE DEF rec
  <2> QED BY <2>1, <2>2, StartsTyped DEF Processes
<1>4. FsTyped' /\ RestTyped'
  BY <1>1, <1>2 DEF ImportPy, FsTyped, RestTyped, Tidy
<1> QED BY <1>3, <1>4 DEF Typed, FsTyped, RestTyped, ProcTyped

\* Writing and removing files, and pulls.
LEMMA WritesTyped ==
  ASSUME Typed, NEW kind \in Kinds, NEW n \in Names, NEW place \in Places,
         Writes(kind, n, place), listed' \subseteq Names
  PROVE  FsTyped' /\ RestTyped'
<1>1. RestTyped /\ <<n, place>> \in Paths
  BY TypedParts DEF Paths
<1>2. left' \in [Kinds -> Nat]
  BY SpentTyped DEF Writes
<1>3. FsTyped'
  BY <1>1, WrittenTyped DEF Writes, FsTyped
<1>4. RestTyped'
  BY <1>1, <1>2 DEF Writes, RestTyped
<1> QED BY <1>3, <1>4

LEMMA RemovesTyped ==
  ASSUME Typed, NEW kind \in Kinds, NEW n \in Names, NEW place \in Places,
         Removes(kind, n, place)
  PROVE  FsTyped' /\ RestTyped'
<1>1. RestTyped
  BY TypedParts
<1>2. left' \in [Kinds -> Nat]
  BY SpentTyped DEF Removes
<1>3. FsTyped'
  BY RemovedTyped DEF Removes, Unlink, FsTyped
<1>4. RestTyped'
  BY <1>1, <1>2 DEF Removes, RestTyped
<1> QED BY <1>3, <1>4

LEMMA ClaudeTyped ==
  ASSUME Typed, NEW r \in Recorders, NEW n \in Names, ClaudeWrites(r, n) \/ ClaudeRemoves(r, n)
  PROVE  Typed'
<1>1. RestTyped /\ r \in Processes /\ "claude" \in Places
  BY TypedParts DEF Processes, Places
<1>2. CASE ClaudeWrites(r, n)
  <2>1. ProcTyped'
    <3> DEFINE rec == [Off EXCEPT !.at = "written", !.event = "written", !.name = {n}]
    <3>1. Starts(r, rec)
      BY <1>2 DEF ClaudeWrites
    <3>2. rec \in Procs /\ Fits(rec) /\ rec.link = <<>>
      BY Begun
    <3> HIDE DEF rec
    <3> QED BY <1>1, <3>1, <3>2, StartsTyped
  <2>2. Writes("write", n, "claude") /\ listed' \subseteq Names
    BY <1>1, <1>2 DEF ClaudeWrites, RestTyped
  <2>3. FsTyped' /\ RestTyped'
    BY <1>1, <2>2, WritesTyped DEF Kinds
  <2> QED BY <2>1, <2>3 DEF Typed, FsTyped, RestTyped, ProcTyped
<1>3. CASE ClaudeRemoves(r, n)
  <2>1. ProcTyped'
    <3> DEFINE rec == [Off EXCEPT !.at = "remove", !.event = "remove", !.name = {n}]
    <3>1. Starts(r, rec)
      BY <1>3 DEF ClaudeRemoves
    <3>2. rec \in Procs /\ Fits(rec) /\ rec.link = <<>>
      BY Begun
    <3> HIDE DEF rec
    <3> QED BY <1>1, <3>1, <3>2, StartsTyped
  <2>2. FsTyped' /\ RestTyped'
    BY <1>1, <1>3, RemovesTyped DEF ClaudeRemoves, Kinds
  <2> QED BY <2>1, <2>2 DEF Typed, FsTyped, RestTyped, ProcTyped
<1> QED BY <1>2, <1>3

LEMMA OthersTyped ==
  ASSUME Typed, NEW n \in Names, NEW place \in Places, OtherWrites(n, place) \/ OtherRemoves(n, place)
  PROVE  Typed'
<1>1. ProcTyped'
  BY DisturbedTyped DEF OtherWrites, OtherRemoves
<1>2. CASE OtherWrites(n, place)
  <2>1. Writes("edit", n, place) /\ listed' \subseteq Names
    BY <1>2 DEF OtherWrites, Typed
  <2>2. FsTyped' /\ RestTyped'
    BY <2>1, WritesTyped DEF Kinds
  <2> QED BY <1>1, <2>2 DEF Typed, FsTyped, RestTyped, ProcTyped
<1>3. CASE OtherRemoves(n, place)
  <2>1. FsTyped' /\ RestTyped'
    BY <1>3, RemovesTyped DEF OtherRemoves, Kinds
  <2> QED BY <1>1, <2>1 DEF Typed, FsTyped, RestTyped, ProcTyped
<1> QED BY <1>2, <1>3

LEMMA PullsTyped ==
  ASSUME Typed, NEW n \in Names, PullsEdit(n) \/ PullsDeletion(n)
  PROVE  Typed'
<1>1. ProcTyped' /\ RestTyped
  BY DisturbedTyped, TypedParts DEF PullsEdit, PullsDeletion
<1>2. left' \in [Kinds -> Nat]
  BY SpentTyped DEF PullsEdit, PullsDeletion, Kinds
<1>3. CASE PullsEdit(n)
  <2>1. Version \in Nat
    BY VersionTyped
  <2>2. FsTyped'
    <3>1. File(FreeInode, Version) \in Entries /\ File(FreeInode, Version).is = "file"
      BY <2>1, FreeInodeIs DEF File, Entries, FileEntries
    <3> QED BY <1>3, <3>1, PlacesOf, AddedTyped DEF PullsEdit, FsTyped
  <2>3. head' \in [Names -> Blobs]
    BY <1>1, <1>3, <2>1 DEF PullsEdit, RestTyped, Blobs
  <2>4. RestTyped'
    BY <1>1, <1>2, <1>3, <2>3 DEF PullsEdit, RestTyped
  <2> QED BY <1>1, <2>2, <2>4 DEF Typed, FsTyped, RestTyped, ProcTyped
<1>4. CASE PullsDeletion(n)
  <2>1. FsTyped'
    BY <1>4, RemovedTyped DEF PullsDeletion, Unlink, FsTyped
  <2>2. head' \in [Names -> Blobs] /\ deletion' \in [Names -> {"none", "unmarked", "marked"}]
    BY <1>1, <1>4 DEF PullsDeletion, RestTyped, Blobs
  <2>3. gone' \subseteq Names /\ clean' \subseteq Names /\ kept' \subseteq Names
    BY <1>1, <1>4 DEF PullsDeletion, RestTyped
  <2>4. RestTyped'
    BY <1>1, <1>2, <1>4, <2>2, <2>3 DEF PullsDeletion, RestTyped
  <2> QED BY <1>1, <2>1, <2>4 DEF Typed, FsTyped, RestTyped, ProcTyped
<1> QED BY <1>3, <1>4

LEMMA UserCommitsTyped ==
  ASSUME Typed, NEW markers, UserCommits(markers)
  PROVE  Typed'
<1>1. ProcTyped' /\ RestTyped /\ FsTyped
  BY DisturbedTyped, TypedParts DEF UserCommits
<1>2. left' \in [Kinds -> Nat]
  BY SpentTyped DEF UserCommits, Kinds
<1>3. head' \in [Names -> Blobs]
  BY <1>1, BlobTyped, PlacesOf DEF UserCommits, RestTyped
<1> DEFINE dropped == {n \in Names : head[n] # Nothing /\ head'[n] = Nothing}
<1>4. /\ deletion' = [n \in Names |-> IF n \in dropped THEN "marked" ELSE deletion[n]]
      /\ gone' = gone \cup dropped
      /\ clean' = clean \/ clean' = clean \cup dropped
      /\ tracked' \subseteq tracked
  BY DEF UserCommits
<1>5. dropped \subseteq Names
  OBVIOUS
<1> HIDE DEF dropped
<1>6. RestTyped' /\ FsTyped'
  BY <1>1, <1>2, <1>3, <1>4, <1>5 DEF UserCommits, RestTyped, FsTyped, Tidy
<1> QED BY <1>1, <1>6 DEF Typed, FsTyped, RestTyped, ProcTyped

LEMMA KillTyped ==
  ASSUME Typed, NEW p \in Processes, Kill(p)
  PROVE  Typed'
<1>1. ProcTyped' /\ RestTyped /\ FsTyped
  BY EndsTyped, TypedParts DEF Kill
<1>2. left' \in [Kinds -> Nat]
  BY SpentTyped DEF Kill, Kinds
<1>3. RestTyped' /\ FsTyped'
  BY <1>1, <1>2 DEF Kill, RestTyped, FsTyped, Tidy
<1> QED BY <1>1, <1>3 DEF Typed, FsTyped, RestTyped, ProcTyped

LEMMA NextTyped == Typed /\ [Next]_vars => Typed'
<1> SUFFICES ASSUME Typed, [Next]_vars PROVE Typed'
  OBVIOUS
<1>1. scene.names \subseteq Names
  BY DEF Typed
<1>2. CASE Commanding
  BY <1>1, <1>2, DeletePyTyped, ImportPyTyped DEF Commanding
<1>3. CASE Outside
  BY <1>1, <1>3, ClaudeTyped, OthersTyped, PullsTyped, UserCommitsTyped, KillTyped
     DEF Outside, Places
<1>4. CASE UNCHANGED vars
  BY <1>4 DEF vars, Typed, Tidy
<1> QED BY <1>2, <1>3, <1>4, WorkingTyped, SessionTyped DEF Next

-----------------------------------------------------------------------------
(* What a path leads to.                                                   *)

Chain(q) == {q, Hop(q), Hop(Hop(q)), Hop(Hop(Hop(q))), Target(q)}

LEMMA HopTyped ==
  ASSUME Typed, NEW q \in Paths
  PROVE  /\ Hop(q) \in Paths /\ (Hop(q)[1] = q[1] \/ Hop(q)[2] = "native")
         /\ q[2] = "native" => Hop(q) = q
<1>1. fs[q] \in Entries /\ (fs[q].is = "link" => q[2] # "native" /\ Follows(q, fs[q].to))
  BY DEF Typed, Tidy
<1>2. CASE fs[q].is = "link"
  <2>1. fs[q].to \in Paths
    BY <1>1, <1>2 DEF Entries, LinkEntries, FileEntries, Nothing
  <2> QED BY <1>1, <1>2, <2>1 DEF Hop, Follows
<1> QED BY <1>2 DEF Hop

\* Only another place of the same memory, or a note.
LEMMA ChainTyped ==
  ASSUME Typed, NEW q \in Paths, NEW x \in Chain(q)
  PROVE  x \in Paths /\ (x[1] = q[1] \/ x[2] = "native")
<1> DEFINE a == Hop(q)
           b == Hop(a)
           c == Hop(b)
           d == Hop(c)
<1>1. a \in Paths /\ (a[1] = q[1] \/ a[2] = "native")
  BY HopTyped
<1> HIDE DEF a
<1>2. b \in Paths /\ (b[1] = q[1] \/ b[2] = "native")
  BY <1>1, HopTyped
<1> HIDE DEF b
<1>3. c \in Paths /\ (c[1] = q[1] \/ c[2] = "native")
  BY <1>2, HopTyped
<1> HIDE DEF c
<1>4. d \in Paths /\ (d[1] = q[1] \/ d[2] = "native")
  BY <1>3, HopTyped
<1> QED BY <1>1, <1>2, <1>3, <1>4 DEF Chain, Target, a, b, c

\* It leads to a file, or somewhere else, from wherever on the way one starts.
LEMMA ChainEnds ==
  ASSUME NEW q, IsFile(q), NEW x \in Chain(q)
  PROVE  /\ Target(x) = Target(q) /\ fs[x].is \in {"file", "link"}
         /\ fs[x].is # "link" => x = Target(q)
<1> DEFINE a == Hop(q)
           b == Hop(a)
           c == Hop(b)
           d == Hop(c)
<1>1. Hop(d) = d /\ fs[d].is = "file"
  BY DEF IsFile, Hop, Target
<1>2. Target(q) = d
  BY DEF Target
<1>3. ASSUME NEW y, fs[y].is # "link" PROVE Hop(y) = y
  BY <1>3 DEF Hop
<1>4. ASSUME NEW y, NEW z, fs[y].is # "link", z = Hop(y) PROVE z = y
  BY <1>4 DEF Hop
<1>5. CASE x = d
  BY <1>1, <1>2, <1>5 DEF Target
<1>6. CASE x = c
  BY <1>1, <1>2, <1>3, <1>6 DEF Target
<1>7. CASE x = b
  BY <1>1, <1>2, <1>3, <1>7 DEF Target
<1>8. CASE x = a
  BY <1>1, <1>2, <1>3, <1>8 DEF Target
<1>9. CASE x = q
  BY <1>1, <1>2, <1>3, <1>9 DEF Target
<1> QED BY <1>5, <1>6, <1>7, <1>8, <1>9 DEF Chain, Target

\* What is not on the way does not matter.
LEMMA ChainStays ==
  ASSUME NEW q, \A x \in Chain(q) : fs'[x] = fs[x]
  PROVE  Target(q)' = Target(q) /\ IsFile(q)' = IsFile(q) /\ Holds(q)' = Holds(q)
<1>1. /\ fs'[q] = fs[q] /\ fs'[Hop(q)] = fs[Hop(q)] /\ fs'[Hop(Hop(q))] = fs[Hop(Hop(q))]
      /\ fs'[Hop(Hop(Hop(q)))] = fs[Hop(Hop(Hop(q)))] /\ fs'[Target(q)] = fs[Target(q)]
  BY DEF Chain
<1>2. Target(q)' = Target(q)
  BY <1>1 DEF Target, Hop
<1>3. fs'[Target(q)'] = fs[Target(q)]
  BY <1>1, <1>2
<1> QED BY <1>2, <1>3 DEF IsFile, Holds

-----------------------------------------------------------------------------
(* A process alone, step by step.                                          *)

LEMMA OffQuiet ==
    /\ ~ Off.alone /\ Off.at = "off" /\ Off.link = <<>>
    /\ [Off EXCEPT !.alone = FALSE] = Off
<1>1. ASSUME NEW r \in Procs, ~ r.alone
      PROVE  [r EXCEPT !.alone = FALSE] = r
  BY <1>1 DEF Procs
<1>2. ~ Off.alone /\ Off.at = "off" /\ Off.link = <<>>
  BY DEF Off
<1> QED BY <1>1, <1>2, OffTyped

LEMMA InitAlone == Init => Alone /\ Looked
<1>1. ~ Off.alone
  BY DEF Off
<1>2. Init => \A p \in Processes : proc[p] = Off
  BY DEF Init
<1> QED BY <1>1, <1>2 DEF Alone, Looked

LEMMA OffRests ==
  ASSUME NEW p \in Processes, Working(p)
  PROVE  proc[p] # Off
<1>1. Off.at = "off" /\ Off.link = <<>>
  BY DEF Off
<1>2. CASE OsUnlink(p) \/ OsLink(p) \/ Record(p)
  BY <1>1, <1>2 DEF OsUnlink, OsLink, Record, At
<1>3. CASE Deleting(p)
  BY <1>1, <1>3 DEF Deleting, RemoveProject, RemoveSource, Stage, Mark, RemoveScoped,
     WriteScopedMeta, At
<1>4. CASE Recording(p)
  BY <1>1, <1>4 DEF Recording, Written, SyncSource, SourcesDone, SyncMirror, MirrorsDone, At
<1>5. CASE Sharing(p)
  BY <1>1, <1>5 DEF Sharing, MergeMeta, Push, PushDone, Pull, PullDone, NextNote, Ignore,
     ImportNote, ImportProject, Assign, Save, At
<1> QED BY <1>2, <1>3, <1>4, <1>5 DEF Working

\* Anything that is not a step of a process leaves none alone but one that starts
\* while the others rest, or is the end of one.
Interrupts ==
    \/ Disturbed
    \/ \E p \in Processes, rec \in Procs : Fits(rec) /\ rec.link = <<>> /\ Starts(p, rec)
    \/ fs' = fs /\ \E p \in Processes : Ends(p)

LEMMA CommandInterrupts ==
  ASSUME Typed, NEW n \in scene.names, NEW t \in scene.names,
         DeletePy(n) \/ ImportPy(n, t, "import") \/ ImportPy(n, n, "ignore")
  PROVE  Interrupts
<1>1. n \in Names /\ t \in Names /\ "cli" \in Processes
  BY DEF Typed, Processes
<1>2. CASE DeletePy(n)
  <2> DEFINE rec == [Off EXCEPT !.at = "remove", !.event = "delete", !.name = {n}]
  <2>1. Starts("cli", rec)
    BY <1>2 DEF DeletePy
  <2>2. rec \in Procs /\ Fits(rec) /\ rec.link = <<>>
    BY <1>1, Begun
  <2> HIDE DEF rec
  <2> QED BY <1>1, <2>1, <2>2 DEF Interrupts
<1>3. ASSUME NEW m \in Names, NEW event \in {"import", "ignore"}, ImportPy(n, m, event)
      PROVE  Interrupts
  <2> DEFINE rec == [Off EXCEPT !.at = "meta", !.event = event, !.name = {<<n, m>>}]
  <2>1. Starts("cli", rec)
    BY <1>3 DEF ImportPy
  <2>2. rec \in Procs /\ Fits(rec) /\ rec.link = <<>>
    BY <1>1, BegunImport
  <2> HIDE DEF rec
  <2> QED BY <1>1, <2>1, <2>2 DEF Interrupts
<1> QED BY <1>1, <1>2, <1>3

LEMMA SessionInterrupts ==
  ASSUME Typed, Session
  PROVE  Interrupts
<1>1. ASSUME NEW r \in Recorders, StartSession(r)
      PROVE  Interrupts
  <2> DEFINE S == Present("claude")
             rec == [Off EXCEPT !.at = "sources", !.todo = S, !.seen = S]
  <2>1. S \in SUBSET Names
    BY DEF Present
  <2>2. Starts(r, rec)
    BY <1>1 DEF StartSession
  <2>3. rec \in Procs /\ Fits(rec) /\ rec.link = <<>>
    <3> HIDE DEF S
    <3> QED BY <2>1, OffTyped DEF Off, Procs, Fits, About, Imports, Syncs, Others
  <2> HIDE DEF rec
  <2> QED BY <2>2, <2>3 DEF Interrupts, Processes
<1>2. ASSUME NEW e \in {"post", "stop"}, StartCodex(e)
      PROVE  Interrupts
  <2> DEFINE rec == [Off EXCEPT !.at = "meta", !.event = e]
  <2>1. Starts("codex", rec)
    BY <1>2 DEF StartCodex
  <2>2. rec \in Procs /\ Fits(rec) /\ rec.link = <<>>
    BY OffTyped DEF Off, Procs, Fits, About, Imports, Syncs, Others
  <2> HIDE DEF rec
  <2> QED BY <2>1, <2>2 DEF Interrupts, Processes
<1> QED BY <1>1, <1>2 DEF Session

LEMMA ClaudeInterrupts ==
  ASSUME NEW r \in Recorders, NEW n \in Names, ClaudeWrites(r, n) \/ ClaudeRemoves(r, n)
  PROVE  Interrupts
<1>1. r \in Processes
  BY DEF Processes
<1>2. CASE ClaudeWrites(r, n)
  <2> DEFINE rec == [Off EXCEPT !.at = "written", !.event = "written", !.name = {n}]
  <2>1. Starts(r, rec)
    BY <1>2 DEF ClaudeWrites
  <2>2. rec \in Procs /\ Fits(rec) /\ rec.link = <<>>
    BY Begun
  <2> HIDE DEF rec
  <2> QED BY <1>1, <2>1, <2>2 DEF Interrupts
<1>3. CASE ClaudeRemoves(r, n)
  <2> DEFINE rec == [Off EXCEPT !.at = "remove", !.event = "remove", !.name = {n}]
  <2>1. Starts(r, rec)
    BY <1>3 DEF ClaudeRemoves
  <2>2. rec \in Procs /\ Fits(rec) /\ rec.link = <<>>
    BY Begun
  <2> HIDE DEF rec
  <2> QED BY <1>1, <2>1, <2>2 DEF Interrupts
<1> QED BY <1>2, <1>3

LEMMA OutsideInterrupts ==
  ASSUME Typed, Outside
  PROVE  Interrupts
<1>1. scene.names \subseteq Names
  BY DEF Typed
<1>2. ASSUME NEW n, NEW place, OtherWrites(n, place) \/ OtherRemoves(n, place)
      PROVE  Interrupts
  BY <1>2 DEF OtherWrites, OtherRemoves, Interrupts
<1>3. ASSUME NEW n, PullsEdit(n) \/ PullsDeletion(n)
      PROVE  Interrupts
  BY <1>3 DEF PullsEdit, PullsDeletion, Interrupts
<1>4. ASSUME NEW markers, UserCommits(markers)
      PROVE  Interrupts
  BY <1>4 DEF UserCommits, Interrupts
<1>5. ASSUME NEW p \in Processes, Kill(p)
      PROVE  Interrupts
  BY <1>5 DEF Kill, Interrupts
<1> QED BY <1>1, <1>2, <1>3, <1>4, <1>5, ClaudeInterrupts DEF Outside

LEMMA FreshMoves ==
  ASSUME NEW s, NEW d, Fresh(s, d), fs' = fs
  PROVE  Fresh(s, d)'
<1>1. \A x : Target(x)' = Target(x)
  BY DEF Target, Hop
<1>2. \A x : IsFile(x)' = IsFile(x)
  BY <1>1 DEF IsFile
<1>3. SameInode(s, d)' = SameInode(s, d)
  BY <1>1, <1>2 DEF SameInode
<1>4. NeedsLink(s, d)'
  BY <1>1, <1>2, <1>3 DEF NeedsLink, Fresh
<1> QED BY <1>2, <1>4 DEF Fresh, C, P, R

\* Only what is alone after it was alone before, and nothing else then steps.
LEMMA AloneStays ==
  ASSUME Typed, Alone, Looked,
         Interrupts \/ \E p \in Processes : Working(p)
  PROVE  Alone' /\ Looked'
<1>1. CASE Disturbed
  <2>1. \A p \in Processes : ~ proc'[p].alone
    BY <1>1 DEF Disturbed, Typed, Procs
  <2> QED BY <2>1 DEF Alone, Looked
<1>2. ASSUME NEW p \in Processes, NEW rec \in Procs, Fits(rec), rec.link = <<>>, Starts(p, rec)
      PROVE  Alone' /\ Looked'
  <2>1. ASSUME NEW q \in Processes, q # p PROVE ~ proc'[q].alone
    BY <1>2, <2>1 DEF Starts, Typed, Procs
  <2>2. proc'[p].link = <<>> /\ proc'[p].alone = AllOff
    BY <1>2 DEF Starts, Procs
  <2>3. ASSUME AllOff, NEW q \in Processes, q # p PROVE proc'[q] = Off
    <3>1. [Off EXCEPT !.alone = FALSE] = Off
      BY OffQuiet
    <3>2. proc[q] = Off
      BY <2>3 DEF AllOff
    <3>3. proc'[q] = [proc[q] EXCEPT !.alone = FALSE]
      BY <1>2, <2>3 DEF Starts
    <3> QED BY <3>1, <3>2, <3>3
  <2> QED BY <2>1, <2>2, <2>3 DEF Alone, Looked
<1>3. ASSUME NEW p \in Processes, Ends(p), fs' = fs
      PROVE  Alone' /\ Looked'
  <2>1. \A q \in Processes : proc'[q] = IF q = p THEN Off ELSE proc[q]
    BY <1>3 DEF Ends, Goes, Typed
  <2>2. ~ Off.alone /\ Off.link = <<>>
    BY DEF Off
  <2>3. Alone'
    BY <2>1, <2>2 DEF Alone
  <2>4. Looked'
    <3> SUFFICES ASSUME NEW q \in Processes, proc'[q].alone, proc'[q].name = {},
                        proc'[q].link # <<>>, ~ proc'[q].link[3]
                 PROVE  \E s, d : /\ s = proc'[q].link[1] /\ d = proc'[q].link[2]
                                  /\ Fresh(s, d)'
      BY DEF Looked
    <3>1. proc'[q] = proc[q]
      BY <2>1, <2>2
    <3>2. PICK s, d : s = proc[q].link[1] /\ d = proc[q].link[2] /\ Fresh(s, d)
      BY <3>1 DEF Looked
    <3>3. Fresh(s, d)'
      BY <1>3, <3>2, FreshMoves
    <3> QED BY <3>1, <3>2, <3>3
  <2> QED BY <2>3, <2>4
<1>4. ASSUME NEW p \in Processes, Working(p)
      PROVE  Alone' /\ Looked'
  <2>1. PICK r \in Procs :
          /\ Keeping(p, r)
          /\ \/ r.link = <<>>
             \/ Looks(p, r)
             \/ /\ proc[p].link # <<>> /\ r.link[1] = proc[p].link[1]
                /\ r.link[2] = proc[p].link[2] /\ r.link[3]
                /\ OsUnlink(p) /\ r.name = proc[p].name /\ r.at = proc[p].at
    BY <1>4, WorkingMoves DEF Moves
  <2>2. proc'[p] = r /\ (r.alone => proc[p].alone)
        /\ \A q \in Processes : q # p => proc'[q] = proc[q]
    BY <2>1 DEF Keeping, Becomes, Typed
  <2>3. \A q \in Processes : q # p => ~ proc[q].alone
    BY <1>4, OffRests DEF Alone
  <2>4. Alone'
    BY <2>2, <2>3 DEF Alone
  <2>5. ASSUME NEW q \in Processes, proc'[q].alone, proc'[q].name = {},
               proc'[q].link # <<>>, ~ proc'[q].link[3]
        PROVE  \E s, d : s = proc'[q].link[1] /\ d = proc'[q].link[2] /\ Fresh(s, d)'
    <3>1. q = p /\ r = proc'[q]
      BY <2>2, <2>3, <2>5
    <3>2. PICK s, d : s = r.link[1] /\ d = r.link[2] /\ fs' = fs /\ Fresh(s, d)
      BY <2>1, <2>5, <3>1 DEF Looks
    <3>3. Fresh(s, d)'
      BY <3>2, FreshMoves
    <3> QED BY <3>1, <3>2, <3>3
  <2>6. Looked'
    BY <2>5 DEF Looked
  <2> QED BY <2>4, <2>6
<1> QED BY <1>1, <1>2, <1>3, <1>4 DEF Interrupts

LEMMA NextAlone == Typed /\ Alone /\ Looked /\ [Next]_vars => Alone' /\ Looked'
<1> SUFFICES ASSUME Typed, Alone, Looked, [Next]_vars PROVE Alone' /\ Looked'
  OBVIOUS
<1>1. CASE UNCHANGED vars
  <2>1. proc' = proc /\ fs' = fs
    BY <1>1 DEF vars
  <2> QED BY <2>1, FreshMoves DEF Alone, Looked
<1>2. CASE Commanding
  BY <1>2, CommandInterrupts, AloneStays DEF Commanding
<1> QED BY <1>1, <1>2, SessionInterrupts, OutsideInterrupts, AloneStays DEF Next

\* Everything else costs something of what may still happen.
LEMMA OthersSpend ==
  ASSUME Typed, Next, left' = left, NEW p \in Processes, proc[p] # Off
  PROVE  \E q \in Processes : Working(q)
<1>1. ASSUME NEW kind \in Kinds, Spend(kind) PROVE FALSE
  BY <1>1, SpentTyped
<1>2. ~ Session
  BY <1>1 DEF Session, StartSession, StartCodex, Overlaps, AllOff, Kinds
<1>3. ~ Commanding
  BY <1>1 DEF Commanding, DeletePy, ImportPy, Kinds
<1>4. ~ Outside
  <2>1. \A r, n : ~ ClaudeWrites(r, n) /\ ~ ClaudeRemoves(r, n)
    BY <1>1 DEF ClaudeWrites, ClaudeRemoves, Writes, Removes, Kinds
  <2>2. \A n, place : ~ OtherWrites(n, place) /\ ~ OtherRemoves(n, place)
    BY <1>1 DEF OtherWrites, OtherRemoves, Writes, Removes, Kinds
  <2>3. \A n : ~ PullsEdit(n) /\ ~ PullsDeletion(n)
    BY <1>1 DEF PullsEdit, PullsDeletion, Kinds
  <2>4. \A markers : ~ UserCommits(markers)
    BY <1>1 DEF UserCommits, Kinds
  <2>5. \A q : ~ Kill(q)
    BY <1>1 DEF Kill, Kinds
  <2> QED BY <2>1, <2>2, <2>3, <2>4, <2>5 DEF Outside
<1> QED BY <1>2, <1>3, <1>4 DEF Next

\* What a hook unlinks is not on the way from a project's file, where there is one.
LEMMA FreshSpares ==
  ASSUME Typed, NEW s \in Paths, NEW d \in Paths, Fresh(s, d), NEW n \in Names, IsFile(P(n))
  PROVE  d \notin Chain(P(n))
<1> SUFFICES ASSUME d \in Chain(P(n)) PROVE FALSE
  OBVIOUS
<1>1. P(n) \in Paths /\ P(n)[1] = n
  BY PlacesOf
<1>2. d[1] = n \/ d[2] = "native"
  BY <1>1, ChainTyped
<1>3. Target(d) = Target(P(n)) /\ (fs[d].is # "link" => d = Target(P(n)))
  BY <1>1, ChainEnds
<1>4. PICK m \in Names : (d = P(m) /\ ~ IsFile(d)) \/ (s = P(m) /\ d \in {C(m), R(m)})
  BY DEF Fresh
<1>5. d[1] = m /\ d[2] # "native"
  BY <1>4, PlacesOf
<1>6. m = n
  BY <1>2, <1>5
<1>7. s = P(n)
  BY <1>4, <1>6
<1>8. NeedsLink(s, d)
  BY DEF Fresh
<1>9. Target(d) = Target(s)
  BY <1>3, <1>7
<1>10. SameInode(s, d)
  BY <1>7, <1>9 DEF SameInode, IsFile
<1> QED BY <1>8, <1>9, <1>10 DEF NeedsLink

LEMMA ReconcilingSpares ==
  ASSUME Typed, Looked, NEW p \in Processes, Working(p), proc[p].alone, proc[p].name = {},
         NEW n \in Names, IsFile(P(n))
  PROVE  Holds(P(n))' = Holds(P(n))
<1> DEFINE o == proc[p]
<1>1. o \in Procs /\ P(n) \in Paths /\ P(n)[1] = n
  BY PlacesOf DEF Typed
<1>2. ASSUME NEW d \in Paths, d \notin Chain(P(n)), \A q \in Paths : q # d => fs'[q] = fs[q]
      PROVE  Holds(P(n))' = Holds(P(n))
  <2>1. \A x \in Chain(P(n)) : fs'[x] = fs[x]
    BY <1>1, <1>2, ChainTyped
  <2>2. \A q : (\A x \in Chain(q) : fs'[x] = fs[x]) => Holds(q)' = Holds(q)
    BY ChainStays
  <2> QED BY <2>1, <2>2
<1>3. CASE fs' = fs
  BY <1>3 DEF Holds, IsFile, Target, Hop
<1>4. CASE OsUnlink(p)
  <2>1. o.link # <<>> /\ ~ o.link[3] /\ fs' = [fs EXCEPT ![o.link[2]] = Nothing]
    BY <1>4 DEF OsUnlink
  <2>2. Fresh(o.link[1], o.link[2])
    BY <2>1 DEF Looked
  <2>3. o.link[1] \in Paths /\ o.link[2] \in Paths
    BY <1>1, <2>1 DEF Procs, Links
  <2>4. o.link[2] \notin Chain(P(n))
    BY <2>2, <2>3, FreshSpares
  <2>5. \A q \in Paths : q # o.link[2] => fs'[q] = fs[q]
    BY <2>1 DEF Typed
  <2> QED BY <1>2, <2>3, <2>4, <2>5
<1>5. CASE OsLink(p)
  <2> DEFINE d == o.link[2]
  <2>1. d \in Paths
    BY <1>1, <1>5 DEF OsLink, Procs, Links
  <2>2. \/ fs' = fs
        \/ fs[d] = Nothing /\ \E x : fs' = [fs EXCEPT ![d] = x]
    BY <1>5 DEF OsLink
  <2> HIDE DEF d
  <2>3. CASE fs[d] = Nothing /\ \E x : fs' = [fs EXCEPT ![d] = x]
    <3>1. d \notin Chain(P(n))
      BY <2>3, ChainEnds DEF Nothing
    <3>2. \A q \in Paths : q # d => fs'[q] = fs[q]
      BY <2>3 DEF Typed
    <3> QED BY <1>2, <2>1, <3>1, <3>2
  <2> QED BY <1>3, <2>2, <2>3
<1>6. CASE SyncSource(p)
  <2>1. PICK m \in o.todo : fs' = IF ~ IsFile(P(m)) /\ MarkedDeleted(m)
                                  THEN [fs EXCEPT ![C(m)] = Nothing] ELSE fs
    BY <1>6 DEF SyncSource
  <2>2. m \in Names
    BY <1>1 DEF Procs
  <2>3. CASE ~ IsFile(P(m)) /\ fs' = [fs EXCEPT ![C(m)] = Nothing]
    <3>1. C(m) \in Paths /\ C(m)[1] = m /\ C(m)[2] = "claude"
      BY <2>2, PlacesOf
    <3>2. C(m) \notin Chain(P(n))
      <4>1. m # n
        BY <2>3
      <4>2. C(m) \in Chain(P(n)) => C(m)[1] = n \/ C(m)[2] = "native"
        BY <1>1, ChainTyped
      <4> QED BY <3>1, <4>1, <4>2
    <3>3. \A q \in Paths : q # C(m) => fs'[q] = fs[q]
      BY <2>3 DEF Typed
    <3> QED BY <1>2, <3>1, <3>2, <3>3
  <2> QED BY <1>3, <2>1, <2>3
<1>7. CASE RemoveProject(p) \/ RemoveSource(p) \/ RemoveScoped(p)
  BY <1>7 DEF RemoveProject, RemoveSource, RemoveScoped
<1>8. CASE Record(p) \/ Stage(p) \/ Mark(p) \/ WriteScopedMeta(p)
  BY <1>3, <1>8 DEF Record, Stage, Mark, WriteScopedMeta
<1>9. CASE Written(p) \/ SourcesDone(p) \/ SyncMirror(p) \/ MirrorsDone(p)
  BY <1>3, <1>9 DEF Written, SourcesDone, SyncMirror, MirrorsDone
<1>10. CASE Sharing(p)
  BY <1>3, <1>10 DEF Sharing, MergeMeta, Push, PushDone, Pull, PullDone, NextNote, Ignore,
       ImportNote, ImportProject, Assign, Save
<1> QED BY <1>4, <1>5, <1>6, <1>7, <1>8, <1>9, <1>10 DEF Working, Recording, Deleting

LEMMA RepoWinsStep ==
  ASSUME Typed, Alone, Looked, [Next]_vars,
         NEW p \in Processes, proc[p].alone, Reconciles(p), left' = left,
         NEW n \in Names, IsFile(P(n))
  PROVE  Holds(P(n))' = Holds(P(n))
<1>1. proc[p].name = {} /\ proc' # proc
  BY DEF Reconciles
<1>2. Next
  BY <1>1 DEF vars
<1>3. proc[p] # Off
  BY OffQuiet
<1>4. PICK q \in Processes : Working(q)
  BY <1>2, <1>3, OthersSpend
<1>5. q = p
  BY <1>4, OffRests DEF Alone
<1> QED BY <1>1, <1>4, <1>5, ReconcilingSpares

\* However many memories and hooks there are: a hook that reconciles the places
\* and runs alone, whichever of its steps it takes, leaves each file the project
\* has with what it holds (_sync_all and synchronize_shared_memory).
THEOREM RepoWins == Spec => RepoWinsAlone
<1> DEFINE Spares == \A p \in Processes : proc[p].alone /\ Reconciles(p) /\ left' = left =>
                        \A n \in Names : IsFile(P(n)) => Holds(P(n))' = Holds(P(n))
<1>1. Init => Typed /\ Alone /\ Looked
  BY InitTyped, InitAlone
<1>2. Typed /\ Alone /\ Looked /\ [Next]_vars => (Typed /\ Alone /\ Looked)'
  BY NextTyped, NextAlone
<1>3. Typed /\ Alone /\ Looked /\ [Next]_vars => [Spares]_vars
  BY RepoWinsStep
<1> QED BY <1>1, <1>2, <1>3, PTL DEF Spec, RepoWinsAlone

-----------------------------------------------------------------------------
(* Deletions, step by step.                                                *)

LEMMA InitGhosts == Init => Ghosts
<1>1. Off.at = "off" /\ Off.link = <<>> /\ ~ Off.alone
  BY DEF Off
<1>2. Init => (\A p \in Processes : proc[p] = Off) /\ gone = {} /\ clean = {}
  BY DEF Init
<1> QED BY <1>1, <1>2 DEF Ghosts, Dropped, Undone, Quiet, Deletes

Going == Dropped /\ Undone /\ Quiet

LEMMA DisturbedGoing ==
  ASSUME Typed, Going, Disturbed, kept' \subseteq kept \/ AllOff
  PROVE  Going'
<1>1. \A p \in Processes : /\ ~ proc'[p].alone /\ proc'[p].at = proc[p].at
                           /\ proc'[p].name = proc[p].name /\ proc'[p].link = proc[p].link
  BY DEF Disturbed, Typed, Procs
<1>2. AllOff => \A p \in Processes : proc[p].at = "off"
  BY OffQuiet DEF AllOff
<1> QED BY <1>1, <1>2 DEF Going, Dropped, Undone, Quiet, Deletes

LEMMA StartsGoing ==
  ASSUME Typed, Going, NEW p \in Processes, NEW rec \in Procs, rec.link = <<>>, Starts(p, rec),
         kept' \subseteq kept \/ AllOff,
         rec.at \in Deletes => rec.at = "remove" /\ rec.name \cap kept' = {}
  PROVE  Going'
<1>1. \A q \in Processes : q # p =>
        /\ ~ proc'[q].alone /\ proc'[q].at = proc[q].at
        /\ proc'[q].name = proc[q].name /\ proc'[q].link = proc[q].link
  BY DEF Starts, Typed, Procs
<1>2. proc'[p].at = rec.at /\ proc'[p].name = rec.name /\ proc'[p].link = <<>>
  BY DEF Starts, Procs
<1>3. AllOff => \A q \in Processes : proc[q].at = "off"
  BY OffQuiet DEF AllOff
<1>4. Dropped'
  BY <1>1, <1>2, <1>3 DEF Going, Dropped, Deletes
<1>5. Undone'
  BY <1>1, <1>2 DEF Undone, Deletes
<1>6. Quiet'
  BY <1>1, <1>2 DEF Going, Quiet
<1> QED BY <1>4, <1>5, <1>6 DEF Going

LEMMA EndsGoing ==
  ASSUME Typed, Going, NEW p \in Processes, Ends(p), fs' = fs, kept' = kept, gone' = gone
  PROVE  Going'
<1>1. Off.at = "off" /\ Off.link = <<>> /\ ~ Off.alone
  BY DEF Off
<1>2. \A q \in Processes : proc'[q] = IF q = p THEN Off ELSE proc[q]
  BY DEF Ends, Goes, Typed
<1> QED BY <1>1, <1>2 DEF Going, Dropped, Undone, Quiet, Deletes, P

\* Only a deletion is where a deletion is.
LEMMA DeletingAt ==
  ASSUME Quiet, NEW p \in Processes, Working(p), proc[p].at \in Deletes
  PROVE  Deleting(p)
<1>1. proc[p].link = <<>>
  BY DEF Quiet
<1>2. ~ OsUnlink(p) /\ ~ OsLink(p) /\ ~ Record(p)
  BY <1>1 DEF OsUnlink, OsLink, Record, At, Deletes
<1>3. ~ Recording(p)
  BY DEF Recording, Written, SyncSource, SourcesDone, SyncMirror, MirrorsDone, At, Deletes
<1>4. ~ Sharing(p)
  BY DEF Sharing, MergeMeta, Push, PushDone, Pull, PullDone, NextNote, Ignore, ImportNote,
     ImportProject, Assign, Save, At, Deletes
<1> QED BY <1>2, <1>3, <1>4 DEF Working

LEMMA WorkingKept ==
  ASSUME NEW p, Working(p)
  PROVE  kept' = kept /\ scene' = scene /\ left' = left
<1>1. CASE OsUnlink(p) \/ OsLink(p) \/ Record(p)
  BY <1>1 DEF OsUnlink, OsLink, Record
<1>2. CASE Deleting(p)
  BY <1>2 DEF Deleting, RemoveProject, RemoveSource, Stage, Mark, RemoveScoped, WriteScopedMeta
<1>3. CASE Recording(p)
  BY <1>3 DEF Recording, Written, SyncSource, SourcesDone, SyncMirror, MirrorsDone
<1>4. CASE Sharing(p)
  BY <1>4 DEF Sharing, MergeMeta, Push, PushDone, Pull, PullDone, NextNote, Ignore, ImportNote,
     ImportProject, Assign, Save
<1> QED BY <1>1, <1>2, <1>3, <1>4 DEF Working

LEMMA WorkingGone ==
  ASSUME NEW p, Working(p)
  PROVE  (gone' = gone /\ clean' = clean) \/ Mark(p) \/ WriteScopedMeta(p)
<1>1. CASE OsUnlink(p) \/ OsLink(p) \/ Record(p)
  BY <1>1 DEF OsUnlink, OsLink, Record
<1>2. CASE RemoveProject(p) \/ RemoveSource(p) \/ Stage(p) \/ RemoveScoped(p)
  BY <1>2 DEF RemoveProject, RemoveSource, Stage, RemoveScoped
<1>3. CASE Recording(p)
  BY <1>3 DEF Recording, Written, SyncSource, SourcesDone, SyncMirror, MirrorsDone
<1>4. CASE Sharing(p)
  BY <1>4 DEF Sharing, MergeMeta, Push, PushDone, Pull, PullDone, NextNote, Ignore, ImportNote,
     ImportProject, Assign, Save
<1> QED BY <1>1, <1>2, <1>3, <1>4 DEF Working, Deleting

\* The order of a deletion: away with the project's file, then the marker.
LEMMA UndoneStep ==
  ASSUME Typed, Ghosts, NEW p \in Processes, Deleting(p), proc[p].alone
  PROVE  /\ proc'[p].at \in {"remove source", "stage", "mark"} =>
              \A n \in proc'[p].name : fs'[P(n)] = Nothing
         /\ proc'[p].at \in {"scoped", "scoped meta"} => proc'[p].name \subseteq gone'
<1> DEFINE o == proc[p]
<1>1. o \in Procs /\ Fits(o) /\ Off.at = "off"
  BY DEF Typed, Off
<1>2. o.at \in About /\ o.at \in Deletes
  BY DEF Deleting, RemoveProject, RemoveSource, Stage, Mark, RemoveScoped, WriteScopedMeta, At,
     About, Deletes
<1>3. PICK n \in Names : o.name = {n}
  BY <1>1, <1>2 DEF Fits
<1>4. P(n) \in Paths
  BY PlacesOf
<1>5. /\ o.at \in {"remove source", "stage", "mark"} => fs[P(n)] = Nothing
      /\ o.at \in {"scoped", "scoped meta"} => n \in gone
  BY <1>3 DEF Ghosts, Undone
<1>6. ASSUME NEW x, proc' = [proc EXCEPT ![p] = [proc[p] EXCEPT !.at = x]]
      PROVE  proc'[p].at = x /\ proc'[p].name = {n}
  BY <1>1, <1>3, <1>6 DEF Typed, Procs
<1>7. CASE proc' = [proc EXCEPT ![p] = Off]
  <2>1. proc'[p] = Off
    BY <1>7 DEF Typed
  <2> QED BY <1>1, <2>1
<1>8. CASE RemoveProject(p) /\ proc' # [proc EXCEPT ![p] = Off]
  <2>1. /\ fs' = [q \in Paths |-> IF q \in {P(n)} THEN Nothing ELSE fs[q]]
        /\ proc' = [proc EXCEPT ![p] = [proc[p] EXCEPT !.at = "remove source"]]
    BY <1>3, <1>8 DEF RemoveProject, Ends, Goes, Unlink
  <2>2. proc'[p].at = "remove source" /\ proc'[p].name = {n}
    BY <1>6, <2>1
  <2>3. fs'[P(n)] = Nothing
    BY <1>4, <2>1
  <2> QED BY <2>2, <2>3
<1>9. CASE RemoveSource(p)
  <2>1. /\ fs' = [q \in Paths |-> IF q \in {C(n)} THEN Nothing ELSE fs[q]]
        /\ proc' = [proc EXCEPT ![p] = [proc[p] EXCEPT !.at = "stage"]]
    BY <1>3, <1>9 DEF RemoveSource, Goes, Unlink
  <2>2. proc'[p].at = "stage" /\ proc'[p].name = {n}
    BY <1>6, <2>1
  <2>3. fs[P(n)] = Nothing
    BY <1>5, <1>9 DEF RemoveSource, At
  <2>4. fs'[P(n)] = Nothing
    BY <1>4, <2>1, <2>3
  <2> QED BY <2>2, <2>4
<1>10. CASE Stage(p) /\ proc' # [proc EXCEPT ![p] = Off]
  <2>1. fs' = fs /\ proc' = [proc EXCEPT ![p] = [proc[p] EXCEPT !.at = "mark"]]
    BY <1>3, <1>10 DEF Stage, Ends, Goes
  <2>2. proc'[p].at = "mark" /\ proc'[p].name = {n}
    BY <1>6, <2>1
  <2>3. fs[P(n)] = Nothing
    BY <1>5, <1>10 DEF Stage, At
  <2> QED BY <2>1, <2>2, <2>3 DEF P
<1>11. CASE Mark(p) /\ proc' # [proc EXCEPT ![p] = Off]
  <2>1. Buried(p, n) /\ proc' = [proc EXCEPT ![p] = [proc[p] EXCEPT !.at = "scoped"]]
    BY <1>3, <1>11 DEF Mark, Ends, Goes
  <2>2. proc'[p].at = "scoped" /\ proc'[p].name = {n}
    BY <1>6, <2>1
  <2>3. fs[P(n)] = Nothing
    BY <1>5, <1>11 DEF Mark, At
  <2> QED BY <2>1, <2>2, <2>3 DEF Buried
<1>12. CASE RemoveScoped(p)
  <2>1. gone' = gone /\ n \in gone
    BY <1>5, <1>12 DEF RemoveScoped, At
  <2>2. proc'[p].at = "scoped meta" /\ proc'[p].name = {n}
    <3>1. PICK h, b : proc' = [proc EXCEPT ![p] = [proc[p] EXCEPT
                          !.at = "scoped meta", !.held = h, !.new = b]]
      BY <1>12 DEF RemoveScoped, Goes
    <3> QED BY <1>1, <1>3, <3>1 DEF Typed, Procs
  <2> QED BY <2>1, <2>2
<1>13. CASE WriteScopedMeta(p)
  <2>1. proc' = [proc EXCEPT ![p] = [proc[p] EXCEPT !.at = "save"]]
    BY <1>13 DEF WriteScopedMeta, Goes
  <2>2. proc'[p].at = "save"
    BY <1>6, <2>1
  <2> QED BY <2>2
<1> QED BY <1>7, <1>8, <1>9, <1>10, <1>11, <1>12, <1>13 DEF Deleting

LEMMA WorkingGhosts ==
  ASSUME Typed, Alone, Ghosts, NEW p \in Processes, Working(p)
  PROVE  Ghosts'
<1>1. PICK r \in Procs :
        /\ Keeping(p, r)
        /\ \/ r.link = <<>>
           \/ Looks(p, r)
           \/ /\ proc[p].link # <<>> /\ r.link[1] = proc[p].link[1]
              /\ r.link[2] = proc[p].link[2] /\ r.link[3]
              /\ OsUnlink(p) /\ r.name = proc[p].name /\ r.at = proc[p].at
  BY WorkingMoves DEF Moves
<1>2. /\ proc'[p] = r /\ (r.alone => proc[p].alone)
      /\ r.at \in Deletes => proc[p].at \in Deletes /\ r.name = proc[p].name
      /\ \A q \in Processes : q # p => proc'[q] = proc[q]
  BY <1>1 DEF Keeping, Becomes, Typed
<1>3. \A q \in Processes : q # p => ~ proc[q].alone
  BY OffRests DEF Alone
<1>4. kept' = kept
  BY WorkingKept
<1>5. Dropped'
  BY <1>2, <1>4 DEF Ghosts, Dropped
<1>6. Quiet'
  BY <1>1, <1>2 DEF Ghosts, Quiet, Looks
<1>7. Undone'
  <2>1. ASSUME r.alone, r.at \in Deletes
        PROVE  /\ r.at \in {"remove source", "stage", "mark"} =>
                    \A n \in r.name : fs'[P(n)] = Nothing
               /\ r.at \in {"scoped", "scoped meta"} => r.name \subseteq gone'
    BY <1>2, <2>1, DeletingAt, UndoneStep DEF Ghosts
  <2> QED BY <1>2, <1>3, <2>1 DEF Undone, Deletes, P
<1>8. gone' \cap kept' = {} /\ clean' \subseteq gone'
  <2>1. CASE gone' = gone /\ clean' = clean
    BY <1>4, <2>1 DEF Ghosts
  <2>2. CASE Mark(p)
    <3>1. PICK n \in proc[p].name : (gone' = gone /\ clean' = clean) \/ Buried(p, n)
      BY <2>2 DEF Mark
    <3>2. n \notin kept
      BY <2>2 DEF Mark, At, Ghosts, Dropped, Deletes
    <3> QED BY <1>4, <3>1, <3>2 DEF Buried, Ghosts
  <2>3. CASE WriteScopedMeta(p)
    <3>1. gone' = gone /\ (clean' = clean \/ (proc[p].alone /\ clean' \subseteq clean \cup proc[p].name))
      BY <2>3 DEF WriteScopedMeta
    <3>2. proc[p].alone => proc[p].name \subseteq gone
      BY <2>3 DEF WriteScopedMeta, At, Ghosts, Undone
    <3> QED BY <1>4, <3>1, <3>2 DEF Ghosts
  <2> QED BY <2>1, <2>2, <2>3, WorkingGone
<1> QED BY <1>5, <1>6, <1>7, <1>8 DEF Ghosts

History == gone \cap kept = {} /\ clean \subseteq gone

LEMMA GhostParts == Ghosts <=> Going /\ History
BY DEF Ghosts, Going, History

LEMMA SessionGhosts ==
  ASSUME Typed, Ghosts, Session
  PROVE  Ghosts'
<1>1. kept' = kept /\ gone' = gone /\ clean' = clean
  BY DEF Session, StartSession, StartCodex
<1>2. ASSUME NEW r \in Recorders, StartSession(r)
      PROVE  Going'
  <2> DEFINE S == Present("claude")
             rec == [Off EXCEPT !.at = "sources", !.todo = S, !.seen = S]
  <2>1. S \in SUBSET Names
    BY DEF Present
  <2>2. Starts(r, rec)
    BY <1>2 DEF StartSession
  <2>3. rec \in Procs /\ rec.link = <<>> /\ rec.at = "sources"
    <3> HIDE DEF S
    <3> QED BY <2>1, OffTyped DEF Off, Procs, Others
  <2> HIDE DEF rec
  <2> QED BY <1>1, <2>2, <2>3, GhostParts, StartsGoing DEF Processes, Deletes
<1>3. ASSUME NEW e \in {"post", "stop"}, StartCodex(e)
      PROVE  Going'
  <2> DEFINE rec == [Off EXCEPT !.at = "meta", !.event = e]
  <2>1. Starts("codex", rec)
    BY <1>3 DEF StartCodex
  <2>2. rec \in Procs /\ rec.link = <<>> /\ rec.at = "meta"
    BY OffTyped DEF Off, Procs, Syncs
  <2> HIDE DEF rec
  <2> QED BY <1>1, <2>1, <2>2, GhostParts, StartsGoing DEF Processes, Deletes
<1>4. History'
  BY <1>1 DEF Ghosts, History
<1>5. Going'
  BY <1>2, <1>3 DEF Session
<1> QED BY <1>4, <1>5 DEF Ghosts, Going, History

LEMMA CommandGhosts ==
  ASSUME Typed, Ghosts, Commanding
  PROVE  Ghosts'
<1>1. scene.names \subseteq Names /\ "cli" \in Processes
  BY DEF Typed, Processes
<1>2. ASSUME NEW n \in Names, DeletePy(n)
      PROVE  Ghosts'
  <2> DEFINE rec == [Off EXCEPT !.at = "remove", !.event = "delete", !.name = {n}]
  <2>1. Starts("cli", rec) /\ kept' = kept \ {n} /\ gone' = gone /\ clean' = clean
    BY <1>2 DEF DeletePy
  <2>2. rec \in Procs /\ rec.link = <<>> /\ rec.at = "remove" /\ rec.name = {n}
    BY Begun
  <2> HIDE DEF rec
  <2>3. rec.name \cap kept' = {} /\ kept' \subseteq kept
    BY <2>1, <2>2
  <2>4. Going'
    BY <1>1, <2>1, <2>2, <2>3, GhostParts, StartsGoing
  <2>5. History'
    BY <2>1 DEF Ghosts, History
  <2> QED BY <2>4, <2>5 DEF Ghosts, Going, History
<1>3. ASSUME NEW n \in Names, NEW t \in Names, NEW event \in {"import", "ignore"},
             ImportPy(n, t, event)
      PROVE  Ghosts'
  <2> DEFINE rec == [Off EXCEPT !.at = "meta", !.event = event, !.name = {<<n, t>>}]
  <2>1. Starts("cli", rec) /\ kept' = kept /\ gone' = gone \ {t} /\ clean' = clean \ {t}
    BY <1>3 DEF ImportPy
  <2>2. rec \in Procs /\ rec.link = <<>> /\ rec.at = "meta"
    BY BegunImport
  <2> HIDE DEF rec
  <2>3. Going'
    BY <1>1, <2>1, <2>2, GhostParts, StartsGoing DEF Deletes
  <2>4. History'
    BY <2>1 DEF Ghosts, History
  <2> QED BY <2>3, <2>4 DEF Ghosts, Going, History
<1> QED BY <1>1, <1>2, <1>3 DEF Commanding

LEMMA ClaudeGhosts ==
  ASSUME Typed, Ghosts, NEW r \in Recorders, NEW n \in Names,
         ClaudeWrites(r, n) \/ ClaudeRemoves(r, n)
  PROVE  Ghosts'
<1>1. r \in Processes
  BY DEF Processes
<1>2. CASE ClaudeWrites(r, n)
  <2> DEFINE rec == [Off EXCEPT !.at = "written", !.event = "written", !.name = {n}]
  <2>1. /\ Starts(r, rec) /\ gone' = gone \ {n} /\ clean' = clean \ {n}
        /\ kept' \subseteq kept \cup {n} /\ (kept' \subseteq kept \/ AllOff)
    BY <1>2 DEF ClaudeWrites, Writes
  <2>2. rec \in Procs /\ rec.link = <<>> /\ rec.at = "written"
    BY Begun
  <2> HIDE DEF rec
  <2>3. Going'
    BY <1>1, <2>1, <2>2, GhostParts, StartsGoing DEF Deletes
  <2>4. History'
    BY <2>1 DEF Ghosts, History
  <2> QED BY <2>3, <2>4 DEF Ghosts, Going, History
<1>3. CASE ClaudeRemoves(r, n)
  <2> DEFINE rec == [Off EXCEPT !.at = "remove", !.event = "remove", !.name = {n}]
  <2>1. Starts(r, rec) /\ kept' = kept \ {n} /\ gone' = gone /\ clean' = clean
    BY <1>3 DEF ClaudeRemoves, Removes
  <2>2. rec \in Procs /\ rec.link = <<>> /\ rec.at = "remove" /\ rec.name = {n}
    BY Begun
  <2> HIDE DEF rec
  <2>3. rec.name \cap kept' = {} /\ kept' \subseteq kept
    BY <2>1, <2>2
  <2>4. Going'
    BY <1>1, <2>1, <2>2, <2>3, GhostParts, StartsGoing
  <2>5. History'
    BY <2>1 DEF Ghosts, History
  <2> QED BY <2>4, <2>5 DEF Ghosts, Going, History
<1> QED BY <1>2, <1>3

\* What a commit drops is marked, so it is not kept.
LEMMA CommitDrops ==
  ASSUME Typed, NEW markers, UserCommits(markers), NEW n \in Names,
         head[n] # Nothing, head'[n] = Nothing
  PROVE  n \in markers /\ fs[P(n)] = Nothing
<1>1. Blob(P(n)) = Nothing
  BY DEF UserCommits
<1>2. fs[P(n)] = Nothing
  BY <1>1, BlobTyped, PlacesOf
<1> QED BY <1>2 DEF UserCommits, Missing

LEMMA OutsideGhosts ==
  ASSUME Typed, Ghosts, Outside
  PROVE  Ghosts'
<1>1. scene.names \subseteq Names
  BY DEF Typed
<1>2. ASSUME NEW n \in Names, NEW place, OtherWrites(n, place)
      PROVE  Ghosts'
  <2>1. /\ Disturbed /\ gone' = gone \ {n} /\ clean' = clean \ {n}
        /\ kept' \subseteq kept \cup {n} /\ (kept' \subseteq kept \/ AllOff)
    BY <1>2 DEF OtherWrites, Writes
  <2>2. Going'
    BY <2>1, GhostParts, DisturbedGoing
  <2>3. History'
    BY <2>1 DEF Ghosts, History
  <2> QED BY <2>2, <2>3 DEF Ghosts, Going, History
<1>3. ASSUME NEW n, NEW place, OtherRemoves(n, place)
      PROVE  Ghosts'
  <2>1. Disturbed /\ gone' = gone /\ clean' = clean /\ kept' \subseteq kept
    BY <1>3 DEF OtherRemoves, Removes
  <2>2. Going'
    BY <2>1, GhostParts, DisturbedGoing
  <2>3. History'
    BY <2>1 DEF Ghosts, History
  <2> QED BY <2>2, <2>3 DEF Ghosts, Going, History
<1>4. ASSUME NEW n, PullsEdit(n)
      PROVE  Ghosts'
  <2>1. Disturbed /\ gone' = gone \ {n} /\ clean' = clean \ {n} /\ kept' = kept
    BY <1>4 DEF PullsEdit
  <2>2. Going'
    BY <2>1, GhostParts, DisturbedGoing
  <2>3. History'
    BY <2>1 DEF Ghosts, History
  <2> QED BY <2>2, <2>3 DEF Ghosts, Going, History
<1>5. ASSUME NEW n, PullsDeletion(n)
      PROVE  Ghosts'
  <2>1. /\ Disturbed /\ gone' = gone \cup {n} /\ kept' = kept \ {n}
        /\ (clean' = clean \/ clean' = clean \cup {n})
    BY <1>5 DEF PullsDeletion
  <2>2. Going'
    BY <2>1, GhostParts, DisturbedGoing
  <2>3. History'
    BY <2>1 DEF Ghosts, History
  <2> QED BY <2>2, <2>3 DEF Ghosts, Going, History
<1>6. ASSUME NEW markers \in SUBSET (scene.names \ kept), UserCommits(markers)
      PROVE  Ghosts'
  <2> DEFINE dropped == {n \in Names : head[n] # Nothing /\ head'[n] = Nothing}
  <2>1. /\ Disturbed /\ gone' = gone \cup dropped /\ kept' = kept
        /\ (clean' = clean \/ clean' = clean \cup dropped)
    BY <1>6 DEF UserCommits
  <2>2. dropped \cap kept = {}
    BY <1>6, CommitDrops
  <2> HIDE DEF dropped
  <2>3. Going'
    BY <2>1, GhostParts, DisturbedGoing
  <2>4. History'
    BY <2>1, <2>2 DEF Ghosts, History
  <2> QED BY <2>3, <2>4 DEF Ghosts, Going, History
<1>7. ASSUME NEW p \in Processes, Kill(p)
      PROVE  Ghosts'
  <2>1. Ends(p) /\ fs' = fs /\ kept' = kept /\ gone' = gone /\ clean' = clean
    BY <1>7 DEF Kill
  <2>2. Going'
    BY <2>1, GhostParts, EndsGoing
  <2>3. History'
    BY <2>1 DEF Ghosts, History
  <2> QED BY <2>2, <2>3 DEF Ghosts, Going, History
<1> QED BY <1>1, <1>2, <1>3, <1>4, <1>5, <1>6, <1>7, ClaudeGhosts DEF Outside

LEMMA NextGhosts == Typed /\ Alone /\ Ghosts /\ [Next]_vars => Ghosts'
<1>1. CASE UNCHANGED vars
  BY <1>1 DEF vars, Ghosts, Dropped, Undone, Quiet, P
<1> QED BY <1>1, SessionGhosts, CommandGhosts, OutsideGhosts, WorkingGhosts DEF Next

LEMMA TypesAreRight == Typed /\ Ghosts => TypeOK
<1> SUFFICES ASSUME Typed, Ghosts PROVE TypeOK
  OBVIOUS
<1>1. ASSUME NEW q \in Paths
      PROVE  \/ fs[q] = Nothing
             \/ fs[q].is = "file" /\ fs[q].ino \in Inodes
             \/ fs[q].is = "link" /\ fs[q].to \in Paths
  BY DEF Typed, Entries, FileEntries, LinkEntries
<1>2. ASSUME NEW side \in DOMAIN meta
      PROVE  /\ meta[side].sources \subseteq Names \X Names /\ meta[side].ignored \subseteq Names
             /\ Cardinality(Assigned(meta[side])) = Cardinality(meta[side].sources)
  <2>1. meta[side] \in Metas
    BY DEF Typed
  <2>2. meta[side].sources \subseteq Names \X Names /\ meta[side].ignored \subseteq Names
    BY <2>1 DEF Metas, Pairs
  <2> QED BY <2>1, <2>2, CountedOnce
<1>3. ASSUME NEW p \in Processes
      PROVE  Cardinality(proc[p].name) <= 1
  <2> DEFINE S == proc[p].name
  <2>1. S \in Singles
    BY DEF Typed, Procs
  <2> HIDE DEF S
  <2>2. S = {} \/ \E x : S = {x}
    BY <2>1 DEF Singles
  <2>3. Cardinality({}) = 0 /\ \A x : Cardinality({x}) = 1
    BY FS_EmptySet, FS_Singleton
  <2>4. Cardinality(S) = 0 \/ Cardinality(S) = 1
    BY <2>2, <2>3
  <2> QED BY <2>4 DEF S
<1> QED BY <1>1, <1>2, <1>3 DEF TypeOK, Typed, Ghosts

\* Links lead to places of the memories, a note has one target in the metadata of
\* either side, a process is about one thing at most, and what was deleted with a
\* marker is never a memory that has to be kept, for any number of memories and
\* hooks (merge_metadata, import_native_note and delete_memory).
THEOREM MemoryTyped == Spec => []TypeOK
<1>1. Init => Typed /\ Alone /\ Looked /\ Ghosts
  BY InitTyped, InitAlone, InitGhosts
<1>2. Typed /\ Alone /\ Looked /\ Ghosts /\ [Next]_vars => (Typed /\ Alone /\ Looked /\ Ghosts)'
  BY NextTyped, NextAlone, NextGhosts
<1> QED BY <1>1, <1>2, TypesAreRight, PTL DEF Spec

-----------------------------------------------------------------------------
(* Without Codex: what a deletion took stays away.                         *)

Erasing == {"remove", "remove source", "stage", "mark"}

LEMMA InitBare ==
  ASSUME NoCodex
  PROVE  Init => Bare /\ Buries
<1>1. Init => /\ \A p \in Processes : proc[p] = Off
              /\ ~ scene.codex /\ clean = {}
  BY DEF Init, NoCodex
<1> QED BY <1>1, OffQuiet DEF Bare, Buries

\* A process starts only to follow a tool, to start a session or to delete.
Opens(p, rec) ==
    /\ rec.link = <<>> /\ Starts(p, rec)
    /\ rec.at = "remove" \/ (p \in Recorders /\ rec.at \in {"written", "sources"})

LEMMA OpensBare ==
  ASSUME Typed, Bare, NEW p \in Processes, NEW rec \in Procs, Opens(p, rec), scene' = scene
  PROVE  Bare'
<1>1. \A q \in Processes : q # p => proc'[q].at = proc[q].at /\ proc'[q].link = proc[q].link
  BY DEF Opens, Starts, Typed, Procs
<1>2. proc'[p].at = rec.at /\ proc'[p].link = <<>>
  BY DEF Opens, Starts, Procs
<1>3. rec.at = "remove" \/ (p \in Recorders /\ rec.at \in {"written", "sources"})
  BY DEF Opens
<1> QED BY <1>1, <1>2, <1>3 DEF Bare, Two, C, P

LEMMA DisturbedBare ==
  ASSUME Typed, Bare, Disturbed, scene' = scene
  PROVE  Bare'
<1>1. \A q \in Processes : proc'[q].at = proc[q].at /\ proc'[q].link = proc[q].link
  BY DEF Disturbed, Typed, Procs
<1> QED BY <1>1 DEF Bare, Two, C, P

LEMMA EndsBare ==
  ASSUME Typed, Bare, NEW p \in Processes, Ends(p), scene' = scene
  PROVE  Bare'
<1>1. \A q \in Processes : proc'[q] = IF q = p THEN Off ELSE proc[q]
  BY DEF Ends, Goes, Typed
<1> QED BY <1>1, OffQuiet DEF Bare, Two, C, P

\* Without Codex no metadata, resource or note is touched.
LEMMA BareSteps ==
  ASSUME Bare, NEW p \in Processes, Working(p)
  PROVE  /\ ~ Sharing(p) /\ ~ RemoveScoped(p) /\ ~ WriteScopedMeta(p)
         /\ p \notin Recorders => Deleting(p) /\ proc[p].at \in Deletes
<1>1. /\ proc[p].at \in {"off", "remove", "remove source", "stage", "mark", "written", "sources",
                         "mirrors", "record"}
      /\ p \notin Recorders => proc[p].link = <<>> /\ proc[p].at \in Erasing \cup {"off"}
  BY DEF Bare, Erasing
<1>2. ~ Sharing(p)
  BY <1>1 DEF Sharing, MergeMeta, Push, PushDone, Pull, PullDone, NextNote, Ignore, ImportNote,
     ImportProject, Assign, Save, At
<1>3. ~ RemoveScoped(p) /\ ~ WriteScopedMeta(p)
  BY <1>1 DEF RemoveScoped, WriteScopedMeta, At
<1>4. CASE p \notin Recorders
  <2>1. ~ OsUnlink(p) /\ ~ OsLink(p) /\ ~ Record(p)
    BY <1>1, <1>4 DEF OsUnlink, OsLink, Record, At, Erasing
  <2>2. Deleting(p)
    BY <1>2, <1>4, <2>1 DEF Working
  <2>3. proc[p].at \in Deletes
    BY <2>2 DEF Deleting, RemoveProject, RemoveSource, Stage, Mark, RemoveScoped,
       WriteScopedMeta, At, Deletes
  <2> QED BY <1>2, <1>3, <2>2, <2>3
<1> QED BY <1>2, <1>3, <1>4

LEMMA WorkingAt ==
  ASSUME Typed, Bare, NEW p \in Processes, Working(p)
  PROVE  proc'[p].at \in {"off"} \cup Erasing \cup
            IF p \in Recorders THEN {"written", "sources", "mirrors", "record"} ELSE {}
<1> DEFINE o == proc[p]
<1>1. o \in Procs
  BY DEF Typed
<1>2. o.at \in {"off"} \cup Erasing \cup
            IF p \in Recorders THEN {"written", "sources", "mirrors", "record"} ELSE {}
  BY DEF Bare, Erasing
<1>3. ASSUME NEW r, Goes(p, r) PROVE proc'[p] = r
  BY <1>3 DEF Goes, Typed
<1>4. ASSUME Ends(p) PROVE proc'[p].at = "off"
  BY <1>3, <1>4, OffQuiet DEF Ends
<1>5. ASSUME NEW x, Goes(p, [o EXCEPT !.at = x]) PROVE proc'[p].at = x
  BY <1>1, <1>3, <1>5 DEF Procs
<1>6. CASE OsUnlink(p) \/ OsLink(p)
  <2>1. \/ Ends(p)
        \/ \E l : Goes(p, [o EXCEPT !.link = l])
    BY <1>6 DEF OsUnlink, OsLink
  <2>2. ASSUME NEW l, Goes(p, [o EXCEPT !.link = l]) PROVE proc'[p].at = o.at
    BY <1>1, <1>3, <2>2 DEF Procs
  <2> QED BY <1>2, <1>4, <2>1, <2>2
<1>7. CASE Record(p)
  BY <1>4, <1>7 DEF Record
<1>8. CASE Deleting(p)
  <2>1. ~ RemoveScoped(p) /\ ~ WriteScopedMeta(p)
    BY BareSteps
  <2>2. CASE RemoveProject(p)
    BY <1>4, <1>5, <2>2 DEF RemoveProject, Erasing
  <2>3. CASE RemoveSource(p)
    BY <1>5, <2>3 DEF RemoveSource, Erasing
  <2>4. CASE Stage(p)
    BY <1>4, <1>5, <2>4 DEF Stage, Erasing
  <2>5. CASE Mark(p)
    <3>1. ~ scene.codex
      BY DEF Bare
    <3>2. Ends(p)
      BY <2>5, <3>1 DEF Mark, Ends
    <3> QED BY <1>4, <3>2
  <2> QED BY <1>8, <2>1, <2>2, <2>3, <2>4, <2>5 DEF Deleting
<1>9. CASE p \in Recorders /\ Recording(p)
  <2>1. ASSUME NEW s, NEW d, NEW rec, LinkFile(p, s, d, rec), DOMAIN rec = DOMAIN o
        PROVE  proc'[p].at = rec.at
    <3>1. proc'[p] = rec \/ \E l : proc'[p] = [rec EXCEPT !.link = l]
      BY <1>3, <2>1 DEF LinkFile
    <3> QED BY <1>1, <2>1, <3>1 DEF Procs
  <2>2. CASE Written(p)
    <3>1. PICK n : LinkFile(p, C(n), P(n),
              IF NeedsLink(C(n), P(n)) THEN [o EXCEPT !.at = "record"] ELSE Off)
      BY <2>2 DEF Written
    <3> DEFINE rec == IF NeedsLink(C(n), P(n)) THEN [o EXCEPT !.at = "record"] ELSE Off
    <3>2. DOMAIN rec = DOMAIN o /\ rec.at \in {"record", "off"}
      BY <1>1, OffQuiet DEF Procs, Off
    <3> HIDE DEF rec
    <3>3. proc'[p].at \in {"record", "off"}
      BY <2>1, <3>1, <3>2 DEF rec
    <3> QED BY <1>9, <3>3
  <2>3. CASE SyncSource(p)
    <3>1. PICK n \in o.todo : LET rest == [o EXCEPT !.todo = @ \ {n}] IN
            \/ Goes(p, rest)
            \/ LinkFile(p, P(n), C(n), rest)
            \/ LinkFile(p, C(n), P(n), [rest EXCEPT !.new = @ \/ NeedsLink(C(n), P(n))])
      BY <2>3 DEF SyncSource, Reconcile
    <3> DEFINE rest == [o EXCEPT !.todo = @ \ {n}]
               both == [rest EXCEPT !.new = @ \/ NeedsLink(C(n), P(n))]
    <3>2. o.at = "sources"
      BY <2>3 DEF SyncSource, At
    <3>3. /\ DOMAIN rest = DOMAIN o /\ rest.at = "sources"
          /\ DOMAIN both = DOMAIN o /\ both.at = "sources"
      BY <1>1, <3>2 DEF Procs
    <3>4. \/ Goes(p, rest) \/ LinkFile(p, P(n), C(n), rest) \/ LinkFile(p, C(n), P(n), both)
      BY <3>1
    <3> HIDE DEF rest, both
    <3>5. proc'[p].at = "sources"
      BY <1>3, <2>1, <3>3, <3>4
    <3> QED BY <1>9, <3>5
  <2>4. CASE SourcesDone(p)
    <3>1. PICK T : Goes(p, [o EXCEPT !.at = "mirrors", !.todo = T])
      BY <2>4 DEF SourcesDone
    <3>2. proc'[p].at = "mirrors"
      BY <1>1, <1>3, <3>1 DEF Procs
    <3> QED BY <1>9, <3>2
  <2>5. CASE SyncMirror(p)
    <3>1. PICK n \in o.todo : LinkFile(p, P(n), C(n), [o EXCEPT !.todo = @ \ {n}])
      BY <2>5 DEF SyncMirror
    <3> DEFINE rest == [o EXCEPT !.todo = @ \ {n}]
    <3>2. DOMAIN rest = DOMAIN o /\ rest.at = "mirrors" /\ LinkFile(p, P(n), C(n), rest)
      BY <1>1, <2>5, <3>1 DEF SyncMirror, At, Procs
    <3> HIDE DEF rest
    <3>3. proc'[p].at = "mirrors"
      BY <2>1, <3>2
    <3> QED BY <1>9, <3>3
  <2>6. CASE MirrorsDone(p)
    <3>1. Goes(p, [Off EXCEPT !.at = "record"]) \/ Ends(p)
      BY <2>6 DEF MirrorsDone, Ends
    <3>2. [Off EXCEPT !.at = "record"].at = "record"
      BY DEF Off
    <3>3. proc'[p].at \in {"record", "off"}
      BY <1>3, <1>4, <3>1, <3>2
    <3> QED BY <1>9, <3>3
  <2> QED BY <1>9, <2>2, <2>3, <2>4, <2>5, <2>6 DEF Recording
<1> QED BY <1>6, <1>7, <1>8, <1>9, BareSteps DEF Working

LEMMA WorkingBare ==
  ASSUME Typed, Bare, NEW p \in Processes, Working(p)
  PROVE  Bare'
<1>1. PICK r \in Procs :
        /\ Keeping(p, r)
        /\ \/ r.link = <<>>
           \/ Looks(p, r)
           \/ /\ proc[p].link # <<>> /\ r.link[1] = proc[p].link[1]
              /\ r.link[2] = proc[p].link[2] /\ r.link[3]
              /\ OsUnlink(p) /\ r.name = proc[p].name /\ r.at = proc[p].at
  BY WorkingMoves DEF Moves
<1>2. proc'[p] = r /\ \A q \in Processes : q # p => proc'[q] = proc[q]
  BY <1>1 DEF Keeping, Becomes, Typed
<1>3. ASSUME r.link # <<>>
      PROVE  p \in Recorders /\ Two(r.link[1], r.link[2])
  <2>1. CASE Looks(p, r)
    <3>1. p \in Recorders
      BY <2>1, BareSteps DEF Looks
    <3> QED BY <2>1, <3>1 DEF Looks, Two
  <2>2. CASE proc[p].link # <<>> /\ r.link[1] = proc[p].link[1] /\ r.link[2] = proc[p].link[2]
    BY <2>2 DEF Bare
  <2> QED BY <1>1, <1>3, <2>1, <2>2
<1>4. scene' = scene
  BY WorkingKept
<1>5. r.at \in {"off"} \cup Erasing \cup
            IF p \in Recorders THEN {"written", "sources", "mirrors", "record"} ELSE {}
  BY <1>2, WorkingAt
<1> QED BY <1>2, <1>3, <1>4, <1>5 DEF Bare, Two, Erasing, C, P

LEMMA NoCodexStarts ==
  ASSUME Typed, Bare
  PROVE  /\ \A e : ~ StartCodex(e)
         /\ \A n, t, e : ~ ImportPy(n, t, e)
BY DEF Bare, StartCodex, ImportPy

\* How the processes that there are without Codex begin.
LEMMA StartSessionOpens ==
  ASSUME NEW r \in Recorders, StartSession(r)
  PROVE  \E rec \in Procs : Opens(r, rec) /\ rec.at = "sources"
<1> DEFINE S == Present("claude")
           rec == [Off EXCEPT !.at = "sources", !.todo = S, !.seen = S]
<1>1. S \in SUBSET Names
  BY DEF Present
<1>2. Starts(r, rec)
  BY DEF StartSession
<1>3. rec \in Procs /\ rec.link = <<>> /\ rec.at = "sources"
  <2> HIDE DEF S
  <2> QED BY <1>1, OffTyped DEF Off, Procs, Others
<1> HIDE DEF rec
<1> QED BY <1>2, <1>3 DEF Opens

LEMMA DeletePyOpens ==
  ASSUME NEW n \in Names, DeletePy(n)
  PROVE  \E rec \in Procs : Opens("cli", rec) /\ rec.at = "remove"
<1> DEFINE rec == [Off EXCEPT !.at = "remove", !.event = "delete", !.name = {n}]
<1>1. Starts("cli", rec)
  BY DEF DeletePy
<1>2. rec \in Procs /\ rec.link = <<>> /\ rec.at = "remove"
  BY Begun
<1> HIDE DEF rec
<1> QED BY <1>1, <1>2 DEF Opens

LEMMA ClaudeOpens ==
  ASSUME NEW r \in Recorders, NEW n \in Names, ClaudeWrites(r, n) \/ ClaudeRemoves(r, n)
  PROVE  \E rec \in Procs : /\ Opens(r, rec) /\ rec.name = {n}
                            /\ rec.at = IF ClaudeWrites(r, n) THEN "written" ELSE "remove"
<1>1. CASE ClaudeWrites(r, n)
  <2> DEFINE rec == [Off EXCEPT !.at = "written", !.event = "written", !.name = {n}]
  <2>1. Starts(r, rec)
    BY <1>1 DEF ClaudeWrites
  <2>2. rec \in Procs /\ rec.link = <<>> /\ rec.at = "written" /\ rec.name = {n}
    BY Begun
  <2> HIDE DEF rec
  <2> QED BY <1>1, <2>1, <2>2 DEF Opens
<1>2. CASE ClaudeRemoves(r, n) /\ ~ ClaudeWrites(r, n)
  <2> DEFINE rec == [Off EXCEPT !.at = "remove", !.event = "remove", !.name = {n}]
  <2>1. Starts(r, rec)
    BY <1>2 DEF ClaudeRemoves
  <2>2. rec \in Procs /\ rec.link = <<>> /\ rec.at = "remove" /\ rec.name = {n}
    BY Begun
  <2> HIDE DEF rec
  <2> QED BY <1>2, <2>1, <2>2 DEF Opens
<1> QED BY <1>1, <1>2

LEMMA NextBare == Typed /\ Bare /\ [Next]_vars => Bare'
<1> SUFFICES ASSUME Typed, Bare, [Next]_vars PROVE Bare'
  OBVIOUS
<1>1. scene.names \subseteq Names /\ "cli" \in Processes /\ Recorders \subseteq Processes
  BY DEF Typed, Processes
<1>2. CASE UNCHANGED vars
  BY <1>2 DEF vars, Bare, Two, C, P
<1>3. CASE Session
  BY <1>1, <1>3, NoCodexStarts, StartSessionOpens, OpensBare DEF Session, StartSession
<1>4. CASE Commanding
  BY <1>1, <1>4, NoCodexStarts, DeletePyOpens, OpensBare DEF Commanding, DeletePy
<1>5. CASE Outside
  <2>1. ASSUME NEW r \in Recorders, NEW n \in Names, ClaudeWrites(r, n) \/ ClaudeRemoves(r, n)
        PROVE  Bare'
    BY <1>1, <2>1, ClaudeOpens, OpensBare DEF ClaudeWrites, ClaudeRemoves, Writes, Removes
  <2>2. ASSUME NEW n, NEW place, OtherWrites(n, place) \/ OtherRemoves(n, place)
        PROVE  Bare'
    BY <2>2, DisturbedBare DEF OtherWrites, OtherRemoves, Writes, Removes
  <2>3. ASSUME NEW n, PullsEdit(n) \/ PullsDeletion(n)
        PROVE  Bare'
    BY <2>3, DisturbedBare DEF PullsEdit, PullsDeletion
  <2>4. ASSUME NEW markers, UserCommits(markers)
        PROVE  Bare'
    BY <2>4, DisturbedBare DEF UserCommits
  <2>5. ASSUME NEW p \in Processes, Kill(p)
        PROVE  Bare'
    BY <2>5, EndsBare DEF Kill
  <2> QED BY <1>1, <1>5, <2>1, <2>2, <2>3, <2>4, <2>5 DEF Outside
<1> QED BY <1>2, <1>3, <1>4, <1>5, WorkingBare DEF Next

\* What a step of a process may do to the project's file, and to the repository.
LEMMA WorkingFile ==
  ASSUME Typed, NEW p \in Processes, Working(p), NEW q \in Paths
  PROVE  fs'[q] \in {fs[q], Nothing} \/ (OsLink(p) /\ proc[p].link[2] = q)
<1> DEFINE o == proc[p]
<1>1. o \in Procs
  BY DEF Typed
<1>2. CASE OsUnlink(p)
  BY <1>2 DEF OsUnlink, Typed
<1>3. CASE OsLink(p)
  BY <1>3 DEF OsLink, Typed
<1>4. CASE SyncSource(p)
  <2>1. PICK n : fs' = fs \/ fs' = [fs EXCEPT ![C(n)] = Nothing]
    BY <1>4 DEF SyncSource
  <2> QED BY <2>1 DEF Typed
<1>5. CASE RemoveProject(p) \/ RemoveSource(p) \/ RemoveScoped(p)
  <2>1. fs' = fs \/ \E Q : Unlink(Q)
    BY <1>5 DEF RemoveProject, RemoveSource, RemoveScoped
  <2> QED BY <2>1 DEF Unlink
<1>6. CASE Record(p) \/ Stage(p) \/ Mark(p) \/ WriteScopedMeta(p)
  BY <1>6 DEF Record, Stage, Mark, WriteScopedMeta
<1>7. CASE Written(p) \/ SourcesDone(p) \/ SyncMirror(p) \/ MirrorsDone(p)
  BY <1>7 DEF Written, SourcesDone, SyncMirror, MirrorsDone
<1>8. CASE Sharing(p)
  BY <1>8 DEF Sharing, MergeMeta, Push, PushDone, Pull, PullDone, NextNote, Ignore,
       ImportNote, ImportProject, Assign, Save
<1> QED BY <1>2, <1>3, <1>4, <1>5, <1>6, <1>7, <1>8 DEF Working, Recording, Deleting

LEMMA WorkingHead ==
  ASSUME NEW p, Working(p)
  PROVE  (head' = head /\ deletion' = deletion) \/ Record(p) \/ Mark(p)
<1>1. CASE OsUnlink(p) \/ OsLink(p)
  BY <1>1 DEF OsUnlink, OsLink
<1>2. CASE RemoveProject(p) \/ RemoveSource(p) \/ Stage(p) \/ RemoveScoped(p) \/ WriteScopedMeta(p)
  BY <1>2 DEF RemoveProject, RemoveSource, Stage, RemoveScoped, WriteScopedMeta
<1>3. CASE Recording(p)
  BY <1>3 DEF Recording, Written, SyncSource, SourcesDone, SyncMirror, MirrorsDone
<1>4. CASE Sharing(p)
  BY <1>4 DEF Sharing, MergeMeta, Push, PushDone, Pull, PullDone, NextNote, Ignore, ImportNote,
     ImportProject, Assign, Save
<1> QED BY <1>1, <1>2, <1>3, <1>4 DEF Working, Deleting

Rests(n) == fs[P(n)] = Nothing /\ head[n] = Nothing /\ deletion[n] = "marked"
Leaves(n) == \A p \in Processes :
    /\ proc[p].link # <<>> => proc[p].link[2] # P(n)
    /\ proc[p].at = "written" => n \notin proc[p].name

LEMMA BuriesParts == Buries <=> \A n \in clean : Rests(n) /\ Leaves(n)
BY DEF Buries, Rests, Leaves

\* What was buried stays buried.
LEMMA WorkingRests ==
  ASSUME Typed, Bare, NEW p \in Processes, Working(p), NEW n \in Names, Rests(n), Leaves(n)
  PROVE  Rests(n)' /\ Leaves(n)'
<1>1. P(n) \in Paths /\ P(n)[2] = "project"
  BY PlacesOf
<1>2. fs'[P(n)] = Nothing
  <2>1. OsLink(p) => proc[p].link[2] # P(n)
    BY DEF Leaves, OsLink
  <2> QED BY <1>1, <2>1, WorkingFile DEF Rests
<1>3. Blob(P(n)) = Nothing
  BY <1>1, BlobTyped DEF Rests
<1>4. head'[n] = Nothing /\ deletion'[n] = "marked"
  <2>1. CASE head' = head /\ deletion' = deletion
    BY <2>1 DEF Rests
  <2>2. CASE Record(p)
    BY <1>3, <2>2 DEF Record, CommitDirectory, Rests
  <2>3. CASE Mark(p)
    <3>1. PICK m \in proc[p].name :
            \/ UNCHANGED <<head, deletion>>
            \/ Blob(P(m)) # head[m] /\ Marked(m)
      BY <2>3 DEF Mark
    <3>2. CASE Blob(P(m)) # head[m] /\ Marked(m)
      <4>1. m # n
        BY <1>3, <3>2 DEF Rests
      <4> QED BY <3>2, <4>1 DEF Marked, Rests, Typed
    <3> QED BY <3>1, <3>2 DEF Rests
  <2> QED BY <2>1, <2>2, <2>3, WorkingHead
<1>5. PICK r \in Procs :
        /\ Keeping(p, r)
        /\ \/ r.link = <<>>
           \/ Looks(p, r)
           \/ /\ proc[p].link # <<>> /\ r.link[1] = proc[p].link[1]
              /\ r.link[2] = proc[p].link[2] /\ r.link[3]
              /\ OsUnlink(p) /\ r.name = proc[p].name /\ r.at = proc[p].at
  BY WorkingMoves DEF Moves
<1>6. /\ proc'[p] = r /\ \A q \in Processes : q # p => proc'[q] = proc[q]
      /\ r.at # "written" \/ (proc[p].at = "written" /\ r.name = proc[p].name)
  BY <1>5 DEF Keeping, Becomes, Typed
<1>7. ASSUME r.link # <<>> PROVE r.link[2] # P(n)
  <2>1. CASE Looks(p, r)
    <3>1. p \in Recorders
      BY <2>1, BareSteps DEF Looks
    <3>2. PICK m \in Names :
             \/ r.link[2] = C(m)
             \/ r.link[2] = P(m) /\
                  \/ proc[p].at = "written" /\ proc[p].name = {m}
                  \/ ~ IsFile(P(m)) /\ ~ MarkedDeleted(m)
      BY <2>1, <3>1 DEF Looks
    <3>3. C(m)[2] = "claude" /\ P(m)[1] = m /\ P(n)[1] = n
      BY PlacesOf
    <3>4. ~ (proc[p].at = "written" /\ proc[p].name = {n})
      BY DEF Leaves
    <3>5. MarkedDeleted(n)
      BY DEF Rests, MarkedDeleted
    <3>6. CASE r.link[2] = C(m)
      BY <1>1, <3>3, <3>6
    <3>7. CASE r.link[2] = P(m) /\ m # n
      BY <3>3, <3>7
    <3>8. CASE r.link[2] = P(m) /\ m = n
      <4>1. r.link[2] # C(n)
        BY <1>1, <3>8, PlacesOf
      <4> QED BY <3>2, <3>3, <3>4, <3>5, <3>8, <4>1
    <3> QED BY <3>2, <3>6, <3>7, <3>8
  <2>2. CASE proc[p].link # <<>> /\ r.link[2] = proc[p].link[2]
    BY <2>2 DEF Leaves
  <2> QED BY <1>5, <1>7, <2>1, <2>2
<1>8. Leaves(n)'
  BY <1>6, <1>7 DEF Leaves, P
<1> QED BY <1>2, <1>4, <1>8 DEF Rests, P

\* What a deletion that was alone, or a commit, buries.
LEMMA OffLeaves ==
  ASSUME NEW n, \A p \in Processes : proc'[p].at # "written" /\ proc'[p].link = <<>>
  PROVE  Leaves(n)'
BY DEF Leaves

LEMMA WorkingBuries ==
  ASSUME Typed, Alone, Bare, Buries, NEW p \in Processes, Working(p)
  PROVE  Buries'
<1>1. ASSUME NEW n \in clean
      PROVE  Rests(n)' /\ Leaves(n)'
  BY WorkingRests, BuriesParts DEF Typed
<1>2. ASSUME NEW n \in clean', n \notin clean
      PROVE  Rests(n)' /\ Leaves(n)'
  <2>1. Mark(p)
    BY <1>2, WorkingGone, BareSteps
  <2>2. PICK m \in proc[p].name :
          \/ clean' = clean
          \/ Marked(m) /\ Buried(p, m) /\ Goes(p, IF p = "cli" /\ scene.codex
                          THEN [proc[p] EXCEPT !.at = "scoped"] ELSE Off)
    BY <2>1 DEF Mark
  <2>3. m = n /\ fs[P(n)] = Nothing /\ proc[p].alone /\ Marked(n) /\ Ends(p)
    BY <1>2, <2>2 DEF Buried, Bare, Ends
  <2>4. n \in Names /\ P(n) \in Paths
    <3>1. proc[p].at = "mark" /\ Fits(proc[p])
      BY <2>1 DEF Mark, At, Typed
    <3>2. proc[p].name \subseteq Names
      BY <3>1 DEF Fits, About
    <3> QED BY <2>2, <2>3, <3>2, PlacesOf
  <2>5. head'[n] = Nothing /\ deletion'[n] = "marked"
    BY <2>3, <2>4, BlobTyped DEF Marked, Typed
  <2>6. fs' = fs
    BY <2>1 DEF Mark
  <2>7. \A q \in Processes : proc'[q] = Off
    BY <2>3 DEF Alone, Ends, Goes, Typed
  <2>8. Leaves(n)'
    BY <2>7, OffQuiet, OffLeaves
  <2> QED BY <2>3, <2>5, <2>6, <2>8 DEF Rests, P
<1> QED BY <1>1, <1>2 DEF Buries, Rests, Leaves, P

LEMMA BesideBuries ==
  ASSUME Typed, Buries,
         \A n \in clean' : Rests(n)' /\ (n \in clean \/ (AllOff /\ Disturbed)),
         \/ Disturbed
         \/ \E p \in Processes : Ends(p)
         \/ \E p \in Processes, rec \in Procs :
              Opens(p, rec) /\ (rec.at = "written" => rec.name \cap clean' = {})
  PROVE  Buries'
<1>1. ASSUME NEW n \in clean'
      PROVE  Leaves(n)'
  <2>1. n \in clean => Leaves(n)
    BY BuriesParts
  <2>2. CASE Disturbed
    <3>1. \A q \in Processes : /\ proc'[q].at = proc[q].at /\ proc'[q].link = proc[q].link
                               /\ proc'[q].name = proc[q].name
      BY <2>2 DEF Disturbed, Typed, Procs
    <3>2. AllOff => \A q \in Processes : proc[q].at = "off" /\ proc[q].link = <<>>
      BY OffQuiet DEF AllOff
    <3>3. n \in clean \/ AllOff
      BY <1>1
    <3> QED BY <2>1, <3>1, <3>2, <3>3 DEF Leaves, P
  <2>3. ASSUME NEW p \in Processes, Ends(p), ~ Disturbed
        PROVE  Leaves(n)'
    <3>1. \A q \in Processes : proc'[q] = IF q = p THEN Off ELSE proc[q]
      BY <2>3 DEF Ends, Goes, Typed
    <3>2. Leaves(n)
      BY <1>1, <2>1, <2>3
    <3> QED BY <3>1, <3>2, OffQuiet DEF Leaves, P
  <2>4. ASSUME NEW p \in Processes, NEW rec \in Procs, Opens(p, rec),
               rec.at = "written" => rec.name \cap clean' = {}, ~ Disturbed
        PROVE  Leaves(n)'
    <3>1. \A q \in Processes : q # p =>
             /\ proc'[q].at = proc[q].at /\ proc'[q].link = proc[q].link
             /\ proc'[q].name = proc[q].name
      BY <2>4 DEF Opens, Starts, Typed, Procs
    <3>2. proc'[p].at = rec.at /\ proc'[p].link = <<>> /\ proc'[p].name = rec.name
      BY <2>4 DEF Opens, Starts, Procs
    <3>3. Leaves(n)
      BY <1>1, <2>1, <2>4
    <3> QED BY <1>1, <2>4, <3>1, <3>2, <3>3 DEF Leaves, P
  <2> QED BY <2>2, <2>3, <2>4
<1> QED BY <1>1 DEF Buries, Rests, Leaves, P

\* Writing one memory's place leaves the project's file of another one away.
LEMMA WrittenElsewhere ==
  ASSUME Typed, NEW q \in Paths, NEW v, WrittenTo(q, v), NEW x \in Paths, x # q, fs[x] = Nothing
  PROVE  fs'[x] = Nothing
<1>1. fs[x].is # "file"
  BY DEF Nothing
<1> QED BY <1>1 DEF WrittenTo, Typed

LEMMA WritesRests ==
  ASSUME Typed, Buries, NEW kind, NEW m \in Names, NEW place \in Places, Writes(kind, m, place)
  PROVE  clean' = clean \ {m} /\ \A n \in clean' : n \in clean /\ Rests(n)'
<1>1. /\ clean' = clean \ {m} /\ head' = head /\ deletion' = deletion
      /\ WrittenTo(<<m, place>>, Version) /\ <<m, place>> \in Paths /\ <<m, place>>[1] = m
  BY DEF Writes, Paths
<1>2. ASSUME NEW n \in clean'
      PROVE  n \in clean /\ Rests(n)'
  <2>1. n \in Names /\ n \in clean /\ n # m /\ Rests(n)
    BY <1>1, <1>2, BuriesParts DEF Typed
  <2>2. P(n) \in Paths /\ P(n)[1] = n
    BY <2>1, PlacesOf
  <2> DEFINE q == <<m, place>>
  <2>3. q \in Paths /\ P(n) # q /\ WrittenTo(q, Version)
    BY <1>1, <2>1, <2>2
  <2> HIDE DEF q
  <2>4. fs'[P(n)] = Nothing
    BY <2>1, <2>2, <2>3, WrittenElsewhere DEF Rests
  <2> QED BY <1>1, <2>1, <2>4 DEF Rests, P
<1> QED BY <1>1, <1>2

LEMMA RemovesRests ==
  ASSUME Typed, Buries, NEW kind, NEW m \in Names, NEW place \in Places, Removes(kind, m, place)
  PROVE  clean' = clean /\ \A n \in clean' : Rests(n)'
<1>1. /\ clean' = clean /\ head' = head /\ deletion' = deletion
      /\ \A q \in Paths : fs'[q] \in {fs[q], Nothing}
  BY DEF Removes, Unlink
<1>2. \A n \in clean : n \in Names /\ P(n) \in Paths /\ Rests(n)
  BY BuriesParts, PlacesOf DEF Typed
<1> QED BY <1>1, <1>2 DEF Rests, P

LEMMA SameRests ==
  ASSUME Buries, fs' = fs, head' = head, deletion' = deletion, clean' = clean
  PROVE  \A n \in clean' : n \in clean /\ Rests(n)'
BY BuriesParts DEF Rests, P

LEMMA OutsideBuries ==
  ASSUME Typed, Bare, Buries, Outside
  PROVE  Buries'
<1>1. scene.names \subseteq Names /\ Recorders \subseteq Processes
  BY DEF Typed, Processes
<1>2. ASSUME NEW r \in Recorders, NEW n \in Names, ClaudeWrites(r, n) \/ ClaudeRemoves(r, n)
      PROVE  Buries'
  <2>1. PICK rec \in Procs : /\ Opens(r, rec) /\ rec.name = {n}
                             /\ rec.at = IF ClaudeWrites(r, n) THEN "written" ELSE "remove"
    BY <1>2, ClaudeOpens
  <2>2. CASE ClaudeWrites(r, n)
    <3>1. Writes("write", n, "claude")
      BY <2>2 DEF ClaudeWrites
    <3>2. clean' = clean \ {n} /\ \A m \in clean' : m \in clean /\ Rests(m)'
      BY <3>1, WritesRests DEF Places
    <3>3. rec.name \cap clean' = {}
      BY <2>1, <3>2
    <3> QED BY <1>1, <2>1, <3>2, <3>3, BesideBuries
  <2>3. CASE ClaudeRemoves(r, n) /\ ~ ClaudeWrites(r, n)
    <3>1. clean' = clean /\ \A m \in clean' : Rests(m)'
      BY <2>3, RemovesRests DEF ClaudeRemoves, Places
    <3> QED BY <1>1, <2>1, <2>3, <3>1, BesideBuries
  <2> QED BY <1>2, <2>2, <2>3
<1>3. ASSUME NEW n \in Names, NEW place \in Places, OtherWrites(n, place)
      PROVE  Buries'
  <2>1. Writes("edit", n, place) /\ Disturbed
    BY <1>3 DEF OtherWrites
  <2> QED BY <2>1, WritesRests, BesideBuries
<1>4. ASSUME NEW n \in Names, NEW place \in Places, OtherRemoves(n, place)
      PROVE  Buries'
  <2>1. Removes("remove", n, place) /\ Disturbed
    BY <1>4 DEF OtherRemoves
  <2> QED BY <2>1, RemovesRests, BesideBuries
<1>5. ASSUME NEW m \in Names, PullsEdit(m)
      PROVE  Buries'
  <2>1. /\ Disturbed /\ clean' = clean \ {m} /\ deletion' = deletion
        /\ \E x, y : fs' = [fs EXCEPT ![P(m)] = x] /\ head' = [head EXCEPT ![m] = y]
    BY <1>5 DEF PullsEdit
  <2>2. ASSUME NEW n \in clean'
        PROVE  n \in clean /\ Rests(n)'
    <3>1. n \in Names /\ n \in clean /\ n # m /\ Rests(n)
      BY <2>1, <2>2, BuriesParts DEF Typed
    <3>2. P(n) \in Paths /\ P(n) # P(m)
      BY <3>1, PlacesOf
    <3> QED BY <2>1, <3>1, <3>2 DEF Rests, P, Typed
  <2> QED BY <2>1, <2>2, BesideBuries
<1>6. ASSUME NEW m \in Names, PullsDeletion(m)
      PROVE  Buries'
  <2>1. /\ Disturbed /\ clean' \subseteq clean \cup {m} /\ (AllOff \/ clean' = clean)
        /\ Unlink({P(m)}) /\ head' = [head EXCEPT ![m] = Nothing]
        /\ deletion' = [deletion EXCEPT ![m] = "marked"]
    BY <1>6 DEF PullsDeletion
  <2>2. ASSUME NEW n \in clean'
        PROVE  Rests(n)' /\ (n \in clean \/ AllOff)
    <3>1. n \in Names /\ (n = m \/ (n \in clean /\ Rests(n)))
      BY <2>1, <2>2, BuriesParts DEF Typed
    <3>2. P(n) \in Paths
      BY <3>1, PlacesOf
    <3>3. fs'[P(n)] = Nothing
      BY <2>1, <3>1, <3>2 DEF Unlink, Rests
    <3>4. head'[n] = Nothing /\ deletion'[n] = "marked"
      BY <2>1, <3>1 DEF Rests, Typed
    <3>5. n \in clean \/ AllOff
      BY <2>1, <2>2
    <3> QED BY <3>3, <3>4, <3>5 DEF Rests, P
  <2> QED BY <2>1, <2>2, BesideBuries
<1>7. ASSUME NEW markers, UserCommits(markers)
      PROVE  Buries'
  <2> DEFINE dropped == {n \in Names : head[n] # Nothing /\ head'[n] = Nothing}
  <2>1. /\ Disturbed /\ clean' \subseteq clean \cup dropped /\ (AllOff \/ clean' = clean)
        /\ fs' = fs /\ head' = [n \in Names |-> IF n \in tracked THEN Blob(P(n)) ELSE head[n]]
        /\ deletion' = [n \in Names |-> IF n \in dropped THEN "marked" ELSE deletion[n]]
    BY <1>7 DEF UserCommits
  <2>2. \A n \in dropped : n \in Names /\ fs[P(n)] = Nothing /\ head'[n] = Nothing
    BY <1>7, CommitDrops
  <2> HIDE DEF dropped
  <2>3. ASSUME NEW n \in clean'
        PROVE  Rests(n)' /\ (n \in clean \/ AllOff)
    <3>1. n \in Names /\ (n \in dropped \/ (n \in clean /\ Rests(n)))
      BY <2>1, <2>2, <2>3, BuriesParts DEF Typed
    <3>2. fs'[P(n)] = Nothing
      BY <2>1, <2>2, <3>1 DEF Rests
    <3>3. Blob(P(n)) = Nothing
      BY <2>1, <3>1, <3>2, PlacesOf, BlobTyped
    <3>4. head'[n] = Nothing
      BY <2>1, <2>2, <3>1, <3>3 DEF Rests
    <3>5. deletion'[n] = "marked"
      BY <2>1, <3>1 DEF Rests
    <3>6. n \in clean \/ AllOff
      BY <2>1, <2>3
    <3> QED BY <3>2, <3>4, <3>5, <3>6 DEF Rests, P
  <2> QED BY <2>1, <2>3, BesideBuries
<1>8. ASSUME NEW p \in Processes, Kill(p)
      PROVE  Buries'
  <2>1. Ends(p) /\ \A n \in clean' : n \in clean /\ Rests(n)'
    BY <1>8, SameRests DEF Kill
  <2> QED BY <2>1, BesideBuries
<1>9. {"claude", "project", "native", "resource"} \subseteq Places
  BY DEF Places
<1> QED BY <1>1, <1>2, <1>3, <1>4, <1>5, <1>6, <1>7, <1>8, <1>9 DEF Outside

LEMMA NextBuries == Typed /\ Alone /\ Bare /\ Buries /\ [Next]_vars => Buries'
<1> SUFFICES ASSUME Typed, Alone, Bare, Buries, [Next]_vars PROVE Buries'
  OBVIOUS
<1>1. scene.names \subseteq Names /\ "cli" \in Processes /\ Recorders \subseteq Processes
  BY DEF Typed, Processes
<1>2. CASE UNCHANGED vars
  BY <1>2 DEF vars, Buries, P
<1>3. CASE Session
  <2>1. PICK r \in Recorders : StartSession(r)
    BY <1>3, NoCodexStarts DEF Session
  <2>2. \A n \in clean' : n \in clean /\ Rests(n)'
    BY <2>1, SameRests DEF StartSession
  <2>3. PICK rec \in Procs : Opens(r, rec) /\ rec.at = "sources"
    BY <2>1, StartSessionOpens
  <2> QED BY <1>1, <2>2, <2>3, BesideBuries
<1>4. CASE Commanding
  <2>1. PICK n \in Names : DeletePy(n)
    BY <1>1, <1>4, NoCodexStarts DEF Commanding
  <2>2. \A m \in clean' : m \in clean /\ Rests(m)'
    BY <2>1, SameRests DEF DeletePy
  <2>3. PICK rec \in Procs : Opens("cli", rec) /\ rec.at = "remove"
    BY <2>1, DeletePyOpens
  <2> QED BY <1>1, <2>2, <2>3, BesideBuries
<1> QED BY <1>2, <1>3, <1>4, WorkingBuries, OutsideBuries DEF Next

LEMMA BuriedStays == Bare /\ Buries => DeletedStaysDeleted
<1>1. ASSUME NEW q, fs[q] = Nothing PROVE ~ IsFile(q)
  <2>1. fs[q].is = "nothing"
    BY <1>1 DEF Nothing
  <2>2. Hop(q) = q
    BY <2>1 DEF Hop
  <2> QED BY <2>1, <2>2 DEF IsFile, Target
<1> QED BY <1>1 DEF Bare, Buries, DeletedStaysDeleted

\* In a project without Codex, with any number of memories and of hooks that run at
\* the same time: a memory that was deleted with a marker, and nothing else going
\* on, does not come back from the copy Claude still has, whatever sessions start,
\* whichever hooks are killed, and whatever happens to the other memories
\* (_sync_all, delete_memory and _is_marked_deleted).
THEOREM DeletedStays ==
  ASSUME NoCodex
  PROVE  Spec => []DeletedStaysDeleted
<1>1. Init => Typed /\ Alone /\ Looked /\ Bare /\ Buries
  BY InitTyped, InitAlone, InitBare
<1>2. Typed /\ Alone /\ Looked /\ Bare /\ Buries /\ [Next]_vars
        => (Typed /\ Alone /\ Looked /\ Bare /\ Buries)'
  BY NextTyped, NextAlone, NextBare, NextBuries
<1> QED BY <1>1, <1>2, BuriedStays, PTL DEF Spec

-----------------------------------------------------------------------------
(* Without Codex, and one hook at a time: nothing is lost.                 *)

OneRecorder == \E r : Recorders = {r}
Unspoilt == \A s \in Scenarios : \A n \in Names : s.deletion[n] = "marked" => s.fs[P(n)] = Nothing

KeptFile(n) == deletion[n] # "marked" /\ \E q \in {C(n), P(n)} : fs[q].is = "file"
LinksTwo == \A q \in Paths : fs[q].is = "link" => Two(fs[q].to, q)
Sound(l) == fs[l[1]].is # "link" /\ (l[1][1] \in kept => fs[l[1]].is = "file")

LEMMA KeepsParts ==
  Keeps <=> /\ \A n \in kept : KeptFile(n)
            /\ LinksTwo
            /\ \A p \in Processes : proc[p].link # <<>> => Sound(proc[p].link)
BY DEF Keeps, KeptFile, LinksTwo, Sound

LEMMA InitKeeps ==
  ASSUME Unspoilt
  PROVE  Init => Keeps
<1> SUFFICES ASSUME Init PROVE Keeps
  OBVIOUS
<1>1. PICK s \in Scenarios :
        /\ fs = s.fs /\ deletion = s.deletion
        /\ proc = [p \in Processes |-> Off]
        /\ kept = {n \in Names : \/ fs[P(n)] # Nothing
                                 \/ fs[C(n)] # Nothing /\ deletion[n] # "marked"}
  BY DEF Init
<1>2. \A q \in Paths : fs[q] = Nothing \/ fs[q].is = "file"
  BY <1>1, MemoryAssumption
<1>3. \A n \in Names : deletion[n] = "marked" => fs[P(n)] = Nothing
  BY <1>1 DEF Unspoilt
<1>4. ASSUME NEW n \in kept PROVE KeptFile(n)
  <2>1. n \in Names /\ C(n) \in Paths /\ P(n) \in Paths
    BY <1>1, PlacesOf
  <2> QED BY <1>1, <1>2, <1>3, <2>1 DEF KeptFile
<1>5. LinksTwo
  BY <1>2 DEF LinksTwo, Nothing
<1> QED BY <1>1, <1>4, <1>5, OffQuiet, KeepsParts

\* Two places of a memory, and what leads from one to the other.
LEMMA TwoOf ==
  ASSUME NEW s, NEW d, Two(s, d)
  PROVE  /\ s \in Paths /\ d \in Paths /\ s # d /\ s[1] = d[1] /\ s[1] \in Names
         /\ s \in {C(s[1]), P(s[1])} /\ d \in {C(s[1]), P(s[1])}
<1>1. PICK n \in Names : <<s, d>> \in {<<C(n), P(n)>>, <<P(n), C(n)>>}
  BY DEF Two
<1>2. (s = C(n) /\ d = P(n)) \/ (s = P(n) /\ d = C(n))
  BY <1>1
<1> QED BY <1>2, PlacesOf

\* What is linked from is a file of its own.
LEMMA LookedAtFile ==
  ASSUME Typed, LinksTwo, NEW s, NEW d, Two(s, d), NeedsLink(s, d)
  PROVE  fs[s].is = "file"
<1>1. s \in Paths /\ d \in Paths /\ s # d /\ IsFile(s)
  BY TwoOf DEF NeedsLink
<1>2. CASE fs[s].is # "link"
  <2>1. Hop(s) = s
    BY <1>2 DEF Hop
  <2>2. Target(s) = s
    BY <2>1 DEF Target
  <2> QED BY <1>1, <2>2 DEF IsFile
<1>3. CASE fs[s].is = "link"
  <2>1. fs[s].to = d
    <3>1. Two(fs[s].to, s)
      BY <1>1, <1>3 DEF LinksTwo
    <3>2. /\ s[1] \in Names /\ s \in {C(s[1]), P(s[1])} /\ d \in {C(s[1]), P(s[1])}
          /\ fs[s].to[1] = s[1] /\ fs[s].to \in {C(fs[s].to[1]), P(fs[s].to[1])} /\ fs[s].to # s
      BY <3>1, TwoOf
    <3> QED BY <1>1, <3>2
  <2>2. Hop(s) = d
    BY <1>3, <2>1 DEF Hop
  <2>3. CASE fs[d].is = "link"
    <3>1. fs[d].to = s
      <4>1. Two(fs[d].to, d)
        BY <1>1, <2>3 DEF LinksTwo
      <4>2. /\ s[1] = d[1] /\ s \in {C(d[1]), P(d[1])} /\ d \in {C(d[1]), P(d[1])}
            /\ fs[d].to[1] = d[1] /\ fs[d].to \in {C(fs[d].to[1]), P(fs[d].to[1])} /\ fs[d].to # d
        BY <4>1, TwoOf
      <4> QED BY <1>1, <4>2
    <3>2. Hop(d) = s
      BY <2>3, <3>1 DEF Hop
    <3>3. Target(s) = s
      BY <2>2, <3>2 DEF Target
    <3> QED BY <1>1, <1>3, <3>3 DEF IsFile
  <2>4. CASE fs[d].is # "link"
    <3>1. Hop(d) = d
      BY <2>4 DEF Hop
    <3>2. Target(s) = d /\ Target(d) = d
      BY <2>2, <3>1 DEF Target
    <3>3. SameInode(s, d)
      BY <1>1, <3>2 DEF SameInode, IsFile
    <3> QED BY <2>4, <3>3 DEF NeedsLink
  <2> QED BY <2>3, <2>4
<1> QED BY <1>2, <1>3

\* The files of what is kept are taken only by the hook that links them.
LEMMA KeptUntouched ==
  ASSUME Typed, Bare, Ghosts, Keeps, NEW p \in Processes, Working(p),
         NEW q \in Paths, q[1] \in kept
  PROVE  \/ fs'[q] = fs[q]
         \/ OsUnlink(p) /\ proc[p].link[2] = q
         \/ OsLink(p) /\ proc[p].link[2] = q /\ fs[q] = Nothing
<1> DEFINE o == proc[p]
<1>1. CASE OsUnlink(p)
  BY <1>1 DEF OsUnlink, Typed
<1>2. CASE OsLink(p)
  BY <1>2 DEF OsLink, Typed
<1>3. CASE SyncSource(p)
  <2>1. PICK n \in o.todo : fs' = IF ~ IsFile(P(n)) /\ MarkedDeleted(n)
                                  THEN [fs EXCEPT ![C(n)] = Nothing] ELSE fs
    BY <1>3 DEF SyncSource
  <2>2. CASE MarkedDeleted(n) /\ fs' = [fs EXCEPT ![C(n)] = Nothing]
    <3>1. n \notin kept
      BY <2>2 DEF MarkedDeleted, Keeps
    <3>2. C(n) # q
      BY <3>1 DEF C
    <3> QED BY <2>2, <3>2 DEF Typed
  <2> QED BY <2>1, <2>2
<1>4. CASE RemoveProject(p) \/ RemoveSource(p)
  <2>1. fs' = fs \/ \E n \in o.name : Unlink({C(n)}) \/ Unlink({P(n)})
    BY <1>4 DEF RemoveProject, RemoveSource
  <2>2. o.name \cap kept = {}
    BY <1>4 DEF RemoveProject, RemoveSource, At, Deletes, Ghosts, Dropped
  <2>3. ASSUME NEW n \in o.name PROVE C(n) # q /\ P(n) # q
    BY <2>2 DEF C, P
  <2> QED BY <2>1, <2>3 DEF Unlink
<1>5. CASE Record(p) \/ Stage(p) \/ Mark(p)
  BY <1>5 DEF Record, Stage, Mark
<1>6. CASE Written(p) \/ SourcesDone(p) \/ SyncMirror(p) \/ MirrorsDone(p)
  BY <1>6 DEF Written, SourcesDone, SyncMirror, MirrorsDone
<1> QED BY <1>1, <1>2, <1>3, <1>4, <1>5, <1>6, BareSteps DEF Working, Recording, Deleting

LEMMA WorkingUnmarked ==
  ASSUME Typed, Ghosts, Keeps, NEW p \in Processes, Working(p), NEW n \in kept
  PROVE  deletion'[n] # "marked"
<1>1. n \in Names /\ deletion[n] # "marked"
  BY DEF Typed, Keeps
<1>2. CASE deletion' = deletion
  BY <1>1, <1>2
<1>3. CASE Record(p)
  BY <1>1, <1>3 DEF Record, CommitDirectory
<1>4. CASE Mark(p)
  <2>1. PICK m \in proc[p].name : deletion' = deletion \/ Marked(m)
    BY <1>4 DEF Mark
  <2>2. m # n
    BY <1>4 DEF Mark, At, Deletes, Ghosts, Dropped
  <2> QED BY <1>1, <2>1, <2>2 DEF Marked, Typed
<1> QED BY <1>2, <1>3, <1>4, WorkingHead

LEMMA WorkingKeeps ==
  ASSUME Typed, Ghosts, Bare, Keeps, OneRecorder, NEW p \in Processes, Working(p)
  PROVE  Keeps'
<1> DEFINE o == proc[p]
<1>1. kept' = kept /\ kept \subseteq Names /\ o \in Procs
  BY WorkingKept DEF Typed
<1>2. o.link # <<>> => /\ p \in Recorders /\ Two(o.link[1], o.link[2]) /\ Sound(o.link)
                       /\ o.link[1] \in Paths /\ o.link[2] \in Paths /\ o.link[1] # o.link[2]
  BY ZenonT(60), TwoOf, KeepsParts DEF Bare
<1>3. ASSUME NEW n \in kept
      PROVE  KeptFile(n)'
  <2>1. PICK q \in {C(n), P(n)} : fs[q].is = "file"
    BY KeepsParts DEF KeptFile
  <2>2. q \in Paths /\ q[1] = n
    BY <1>1, PlacesOf
  <2>3. \E x \in {C(n), P(n)} : fs'[x].is = "file"
    <3>1. CASE fs'[q] = fs[q]
      BY <2>1, <3>1
    <3>2. CASE OsUnlink(p) /\ o.link[2] = q
      <4> DEFINE s == o.link[1]
      <4>1. o.link # <<>>
        BY <3>2 DEF OsUnlink
      <4>2. Two(s, q) /\ Sound(o.link) /\ s \in Paths /\ s # q
        BY <1>2, <3>2, <4>1
      <4>3. s[1] = n /\ s \in {C(n), P(n)}
        BY <2>2, <4>2, TwoOf
      <4>4. fs[s].is = "file"
        BY <4>2, <4>3 DEF Sound
      <4>5. fs'[s] = fs[s]
        BY <3>2, <4>2 DEF OsUnlink, Typed
      <4> QED BY <4>3, <4>4, <4>5
    <3>3. fs[q] # Nothing
      BY <2>1 DEF Nothing
    <3> QED BY <2>2, <3>1, <3>2, <3>3, KeptUntouched
  <2>4. deletion'[n] # "marked"
    BY WorkingUnmarked
  <2> QED BY <2>3, <2>4 DEF KeptFile, C, P
<1>4. ASSUME NEW q \in Paths, fs'[q].is = "link"
      PROVE  Two(fs'[q].to, q)
  <2>1. fs'[q] # Nothing
    BY <1>4 DEF Nothing
  <2>2. CASE fs'[q] = fs[q]
    BY <1>4, <2>2, KeepsParts DEF LinksTwo
  <2>3. CASE OsLink(p) /\ o.link[2] = q
    <3> DEFINE s == o.link[1]
    <3>1. o.link # <<>> /\ (fs' = fs \/ fs'[q] \in {fs[s], SymLink(s)})
      BY <2>3 DEF OsLink, Typed
    <3>2. Two(s, q) /\ fs[s].is # "link"
      BY <1>2, <2>3, <3>1 DEF Sound
    <3>3. SymLink(s).to = s
      BY DEF SymLink
    <3> QED BY <1>4, <2>2, <3>1, <3>2, <3>3
  <2> QED BY <2>1, <2>2, <2>3, WorkingFile
<1>5. PICK r \in Procs :
        /\ Keeping(p, r)
        /\ \/ r.link = <<>>
           \/ Looks(p, r)
           \/ /\ proc[p].link # <<>> /\ r.link[1] = proc[p].link[1]
              /\ r.link[2] = proc[p].link[2] /\ r.link[3]
              /\ OsUnlink(p) /\ r.name = proc[p].name /\ r.at = proc[p].at
  BY WorkingMoves DEF Moves
<1>6. proc'[p] = r /\ \A q \in Processes : q # p => proc'[q] = proc[q]
  BY <1>5 DEF Keeping, Becomes, Typed
<1>7. ASSUME r.link # <<>>
      PROVE  /\ fs'[r.link[1]].is # "link"
             /\ r.link[1][1] \in kept => fs'[r.link[1]].is = "file"
  <2>1. CASE Looks(p, r)
    <3>1. p \in Recorders
      BY <2>1, BareSteps DEF Looks
    <3>2. Two(r.link[1], r.link[2]) /\ NeedsLink(r.link[1], r.link[2]) /\ fs' = fs
      BY <2>1, <3>1 DEF Looks, Two
    <3>3. fs[r.link[1]].is = "file"
      BY <3>2, LookedAtFile, KeepsParts
    <3> QED BY <3>2, <3>3
  <2>2. CASE o.link # <<>> /\ r.link[1] = o.link[1] /\ OsUnlink(p)
    <3>1. Sound(o.link) /\ o.link[1] \in Paths /\ o.link[1] # o.link[2]
      BY <1>2, <2>2
    <3>2. fs'[o.link[1]] = fs[o.link[1]]
      BY <2>2, <3>1 DEF OsUnlink, Typed
    <3> QED BY <2>2, <3>1, <3>2 DEF Sound
  <2> QED BY <1>5, <1>7, <2>1, <2>2
<1>8. ASSUME NEW q \in Processes, q # p, proc[q].link # <<>>
      PROVE  /\ fs'[proc[q].link[1]].is # "link"
             /\ proc[q].link[1][1] \in kept => fs'[proc[q].link[1]].is = "file"
  <2> DEFINE s == proc[q].link[1]
  <2>1. q \in Recorders /\ Two(s, proc[q].link[2]) /\ Sound(proc[q].link)
    BY <1>8, KeepsParts DEF Bare
  <2>2. s \in Paths
    BY <2>1, TwoOf
  <2>3. p \notin Recorders
    BY <1>8, <2>1 DEF OneRecorder
  <2>4. o.link = <<>>
    BY <1>2, <2>3
  <2>5. ~ OsUnlink(p) /\ ~ OsLink(p)
    BY <2>4 DEF OsUnlink, OsLink
  <2>6. fs'[s] \in {fs[s], Nothing}
    BY <2>2, <2>5, WorkingFile
  <2>7. fs[s].is # "link" /\ Nothing.is # "link"
    BY <2>1 DEF Sound, Nothing
  <2>8. s[1] \in kept => fs'[s] = fs[s] /\ fs[s].is = "file"
    BY <2>1, <2>2, <2>5, KeptUntouched DEF Sound
  <2> HIDE DEF s
  <2>9. fs'[s].is # "link" /\ (s[1] \in kept => fs'[s].is = "file")
    BY <2>6, <2>7, <2>8
  <2> QED BY <2>9 DEF s
<1>9. LinksTwo'
  BY <1>4 DEF LinksTwo, Two, C, P
<1>10. ASSUME NEW q \in Processes, proc'[q].link # <<>>
       PROVE  Sound(proc[q].link)'
  BY <1>1, <1>6, <1>7, <1>8, <1>10 DEF Sound
<1> QED BY <1>1, <1>3, <1>9, <1>10, KeepsParts DEF Keeps, KeptFile, LinksTwo, Sound, C, P, Two

\* What happens beside the hooks.
Sources == \A p \in Processes : proc[p].link # <<>> =>
    LET s == proc[p].link[1]
    IN  fs'[s].is # "link" /\ (s[1] \in kept' => fs'[s].is = "file")

LEMMA BesideKeeps ==
  ASSUME Typed, \A n \in kept' : KeptFile(n)', LinksTwo', Sources,
         \/ Disturbed
         \/ \E p \in Processes : Ends(p)
         \/ \E p \in Processes, rec \in Procs : Opens(p, rec)
  PROVE  Keeps'
<1>1. ASSUME NEW q \in Processes, proc'[q].link # <<>>
      PROVE  proc'[q].link = proc[q].link
  <2>1. CASE Disturbed
    BY <2>1 DEF Disturbed, Typed, Procs
  <2>2. ASSUME NEW p \in Processes, Ends(p)
        PROVE  proc'[q].link = proc[q].link
    BY <1>1, <2>2, OffQuiet DEF Ends, Goes, Typed
  <2>3. ASSUME NEW p \in Processes, NEW rec \in Procs, Opens(p, rec)
        PROVE  proc'[q].link = proc[q].link
    <3>1. proc'[p].link = <<>>
      BY <2>3 DEF Opens, Starts, Procs
    <3>2. q # p => proc'[q].link = proc[q].link
      BY <2>3 DEF Opens, Starts, Typed, Procs
    <3> QED BY <1>1, <3>1, <3>2
  <2> QED BY <2>1, <2>2, <2>3
<1>2. ASSUME NEW q \in Processes, proc'[q].link # <<>>
      PROVE  Sound(proc[q].link)'
  BY <1>1, <1>2 DEF Sources, Sound
<1> QED BY <1>2 DEF Keeps, KeptFile, LinksTwo, Sound, C, P, Two

\* Files are written: what was one stays one, and nothing becomes a link.
OnlyFiles == \A q \in Paths : fs'[q] = fs[q] \/ fs'[q].is = "file"

LEMMA OnlyFilesKeep ==
  ASSUME Typed, Bare, Keeps, OnlyFiles, kept' \subseteq kept \/ AllOff
  PROVE  LinksTwo' /\ Sources
<1>1. LinksTwo'
  BY DEF OnlyFiles, Keeps, LinksTwo, Two, C, P
<1>2. ASSUME NEW p \in Processes, proc[p].link # <<>>
      PROVE  LET s == proc[p].link[1]
             IN  fs'[s].is # "link" /\ (s[1] \in kept' => fs'[s].is = "file")
  <2> DEFINE s == proc[p].link[1]
  <2>1. Sound(proc[p].link) /\ Two(s, proc[p].link[2])
    BY <1>2, KeepsParts DEF Bare
  <2>2. s \in Paths
    BY <2>1, TwoOf
  <2>3. kept' \subseteq kept
    BY <1>2, OffQuiet DEF AllOff
  <2>4. fs[s].is # "link" /\ (s[1] \in kept => fs[s].is = "file")
    BY <2>1 DEF Sound
  <2>5. fs'[s] = fs[s] \/ fs'[s].is = "file"
    BY <2>2 DEF OnlyFiles
  <2> HIDE DEF s
  <2>6. fs'[s].is # "link" /\ (s[1] \in kept' => fs'[s].is = "file")
    BY <2>3, <2>4, <2>5
  <2> QED BY <2>6 DEF s
<1> QED BY <1>1, <1>2 DEF Sources

\* Where a write in place leads is one of the two places.
LEMMA TwoTarget ==
  ASSUME Typed, LinksTwo, NEW n \in Names, NEW q \in {C(n), P(n)}
  PROVE  Target(q) \in {C(n), P(n)}
<1>1. ASSUME NEW x \in {C(n), P(n)}
      PROVE  Hop(x) \in {C(n), P(n)}
  <2>1. x \in Paths /\ x[1] = n
    BY PlacesOf
  <2>2. CASE fs[x].is = "link"
    <3>1. Two(fs[x].to, x)
      BY <2>1, <2>2 DEF LinksTwo
    <3>2. fs[x].to \in {C(n), P(n)}
      BY <2>1, <3>1, TwoOf
    <3> QED BY <2>2, <3>2 DEF Hop
  <2> QED BY <2>2 DEF Hop
<1> DEFINE a == Hop(q)
           b == Hop(a)
           c == Hop(b)
           d == Hop(c)
<1>2. a \in {C(n), P(n)}
  BY <1>1
<1> HIDE DEF a
<1>3. b \in {C(n), P(n)}
  BY <1>1, <1>2
<1> HIDE DEF b
<1>4. c \in {C(n), P(n)}
  BY <1>1, <1>3
<1> HIDE DEF c
<1>5. d \in {C(n), P(n)}
  BY <1>1, <1>4
<1> QED BY <1>5 DEF Target, a, b, c

LEMMA WrittenFiles ==
  ASSUME Typed, NEW q \in Paths, NEW v, WrittenTo(q, v)
  PROVE  OnlyFiles /\ (fs'[q].is = "file" \/ (Target(q) \in Paths => fs'[Target(q)].is = "file"))
<1>1. CASE /\ IsFile(q)
           /\ fs' = [r \in Paths |->
                 IF fs[r].is = "file" /\ fs[r].ino = fs[Target(q)].ino
                 THEN [fs[r] EXCEPT !.ver = v] ELSE fs[r]]
  <2>1. ASSUME NEW r \in Paths
        PROVE  fs'[r].is = fs[r].is /\ (fs'[r] = fs[r] \/ fs'[r].is = "file")
    <3>1. CASE fs[r].is = "file"
      <4>1. fs[r] \in FileEntries
        BY <3>1 DEF Typed, Entries, LinkEntries, Nothing
      <4>2. [fs[r] EXCEPT !.ver = v].is = "file"
        BY <4>1 DEF FileEntries
      <4> QED BY <1>1, <3>1, <4>2
    <3> QED BY <1>1, <3>1
  <2> QED BY <1>1, <2>1 DEF OnlyFiles, IsFile
<1>2. CASE fs' = [fs EXCEPT ![q] = File(FreeInode, v)]
  <2>1. File(FreeInode, v).is = "file"
    BY DEF File
  <2> QED BY <1>2, <2>1 DEF OnlyFiles, Typed
<1> QED BY <1>1, <1>2 DEF WrittenTo

LEMMA FilesStay ==
  ASSUME Typed, Keeps, OnlyFiles, deletion' = deletion, NEW n \in kept
  PROVE  KeptFile(n)'
<1>1. n \in Names /\ KeptFile(n)
  BY KeepsParts DEF Typed
<1>2. PICK q \in {C(n), P(n)} : fs[q].is = "file"
  BY <1>1 DEF KeptFile
<1>3. q \in Paths
  BY <1>1, PlacesOf
<1>4. fs'[q].is = "file"
  BY <1>2, <1>3 DEF OnlyFiles
<1> QED BY <1>1, <1>4 DEF KeptFile, C, P

LEMMA WritesKeep ==
  ASSUME Typed, Bare, Keeps, NEW kind, NEW m \in Names, NEW place \in Places,
         Writes(kind, m, place)
  PROVE  (\A n \in kept' : KeptFile(n)') /\ LinksTwo' /\ Sources
<1> DEFINE q == <<m, place>>
<1>1. /\ q \in Paths /\ WrittenTo(q, Version) /\ deletion' = deletion
      /\ kept' = IF AllOff /\ deletion[m] # "marked" /\ place \in {"claude", "project"}
                 THEN kept \cup {m} ELSE kept
  BY DEF Writes, Paths
<1>2. OnlyFiles /\ (fs'[q].is = "file" \/ (Target(q) \in Paths => fs'[Target(q)].is = "file"))
  <2> HIDE DEF q
  <2> QED BY <1>1, WrittenFiles
<1>3. LinksTwo' /\ Sources
  BY <1>1, <1>2, OnlyFilesKeep
<1>4. ASSUME NEW n \in kept'
      PROVE  KeptFile(n)'
  <2>1. CASE n \in kept
    BY <1>1, <1>2, <2>1, FilesStay
  <2>2. CASE n = m /\ deletion[m] # "marked" /\ place \in {"claude", "project"}
    <3>1. q \in {C(m), P(m)}
      BY <2>2 DEF C, P
    <3>2. Target(q) \in {C(m), P(m)}
      BY <3>1, TwoTarget, KeepsParts
    <3>3. \E x \in {C(m), P(m)} : fs'[x].is = "file"
      <4> HIDE DEF q
      <4> QED BY <1>2, <3>1, <3>2, PlacesOf
    <3> QED BY <1>1, <2>2, <3>3 DEF KeptFile, C, P
  <2> QED BY <1>1, <1>4, <2>1, <2>2
<1> QED BY <1>3, <1>4

\* Removing a file gives its memory up.
LEMMA RemovedKeep ==
  ASSUME Typed, Bare, Keeps, NEW m \in Names, NEW d \in Paths, d[1] = m, Unlink({d}),
         kept' = kept \ {m}, \A n \in Names : n # m => deletion'[n] = deletion[n]
  PROVE  (\A n \in kept' : KeptFile(n)') /\ LinksTwo' /\ Sources
<1>1. \A q \in Paths : fs'[q] \in {fs[q], Nothing} /\ (q[1] # m => fs'[q] = fs[q])
  BY DEF Unlink
<1>2. Nothing.is # "link"
  BY DEF Nothing
<1>3. ASSUME NEW n \in kept'
      PROVE  KeptFile(n)'
  <2>1. n \in Names /\ n # m /\ KeptFile(n)
    BY <1>3, KeepsParts DEF Typed
  <2>2. PICK q \in {C(n), P(n)} : fs[q].is = "file"
    BY <2>1 DEF KeptFile
  <2>3. q \in Paths /\ q[1] = n
    BY <2>1, PlacesOf
  <2>4. fs'[q].is = "file"
    BY <1>1, <2>1, <2>2, <2>3
  <2> QED BY <2>1, <2>4 DEF KeptFile, C, P
<1>4. LinksTwo'
  BY <1>1, <1>2 DEF Keeps, LinksTwo, Two, C, P
<1>5. ASSUME NEW p \in Processes, proc[p].link # <<>>
      PROVE  LET s == proc[p].link[1]
             IN  fs'[s].is # "link" /\ (s[1] \in kept' => fs'[s].is = "file")
  <2> DEFINE s == proc[p].link[1]
  <2>1. Sound(proc[p].link) /\ Two(s, proc[p].link[2])
    BY <1>5, KeepsParts DEF Bare
  <2>2. s \in Paths
    BY <2>1, TwoOf
  <2>3. fs[s].is # "link" /\ (s[1] \in kept => fs[s].is = "file")
    BY <2>1 DEF Sound
  <2> HIDE DEF s
  <2>4. fs'[s].is # "link" /\ (s[1] \in kept' => fs'[s].is = "file")
    BY <1>1, <1>2, <2>2, <2>3
  <2> QED BY <2>4 DEF s
<1> QED BY <1>3, <1>4, <1>5 DEF Sources

LEMMA SameKeep ==
  ASSUME Typed, Bare, Keeps, fs' = fs, kept' \subseteq kept,
         \A n \in kept : deletion'[n] = deletion[n]
  PROVE  (\A n \in kept' : KeptFile(n)') /\ LinksTwo' /\ Sources
<1>1. OnlyFiles
  BY DEF OnlyFiles
<1>2. ASSUME NEW n \in kept'
      PROVE  KeptFile(n)'
  BY <1>2 DEF Keeps, KeptFile, C, P
<1> QED BY <1>1, <1>2, OnlyFilesKeep

LEMMA OutsideKeeps ==
  ASSUME Typed, Bare, Ghosts, Keeps, Outside
  PROVE  Keeps'
<1>1. scene.names \subseteq Names /\ Recorders \subseteq Processes
  BY DEF Typed, Processes
<1>2. ASSUME NEW r \in Recorders, NEW n \in Names, ClaudeWrites(r, n) \/ ClaudeRemoves(r, n)
      PROVE  Keeps'
  <2>1. PICK rec \in Procs : Opens(r, rec)
    BY <1>2, ClaudeOpens
  <2>2. CASE ClaudeWrites(r, n)
    <3>1. Writes("write", n, "claude")
      BY <2>2 DEF ClaudeWrites
    <3>2. (\A m \in kept' : KeptFile(m)') /\ LinksTwo' /\ Sources
      BY <3>1, WritesKeep DEF Places
    <3> QED BY <1>1, <2>1, <3>2, BesideKeeps
  <2>3. CASE ClaudeRemoves(r, n)
    <3>1. /\ Unlink({C(n)}) /\ kept' = kept \ {n} /\ deletion' = deletion
          /\ C(n) \in Paths /\ C(n)[1] = n
      BY <2>3, PlacesOf DEF ClaudeRemoves, Removes, C
    <3>2. (\A m \in kept' : KeptFile(m)') /\ LinksTwo' /\ Sources
      BY <3>1, RemovedKeep
    <3> QED BY <1>1, <2>1, <3>2, BesideKeeps
  <2> QED BY <1>2, <2>2, <2>3
<1>3. ASSUME NEW n \in Names, NEW place \in Places, OtherWrites(n, place)
      PROVE  Keeps'
  <2>1. Writes("edit", n, place) /\ Disturbed
    BY <1>3 DEF OtherWrites
  <2>2. (\A m \in kept' : KeptFile(m)') /\ LinksTwo' /\ Sources
    BY <2>1, WritesKeep
  <2> QED BY <2>1, <2>2, BesideKeeps
<1>4. ASSUME NEW n \in Names, NEW place \in Places, OtherRemoves(n, place)
      PROVE  Keeps'
  <2>1. /\ Disturbed /\ Unlink({<<n, place>>}) /\ kept' = kept \ {n} /\ deletion' = deletion
        /\ <<n, place>> \in Paths /\ <<n, place>>[1] = n
    BY <1>4 DEF OtherRemoves, Removes, Paths
  <2>2. (\A m \in kept' : KeptFile(m)') /\ LinksTwo' /\ Sources
    BY <2>1, RemovedKeep
  <2> QED BY <2>1, <2>2, BesideKeeps
<1>5. ASSUME NEW m \in Names, PullsEdit(m)
      PROVE  Keeps'
  <2>1. /\ Disturbed /\ deletion' = deletion /\ kept' = kept
        /\ fs' = [fs EXCEPT ![P(m)] = File(FreeInode, Version)]
    BY <1>5 DEF PullsEdit
  <2>2. File(FreeInode, Version).is = "file"
    BY DEF File
  <2>3. OnlyFiles
    BY <2>1, <2>2 DEF OnlyFiles, Typed
  <2>4. LinksTwo' /\ Sources /\ \A n \in kept' : KeptFile(n)'
    BY <2>1, <2>3, OnlyFilesKeep, FilesStay
  <2> QED BY <2>1, <2>4, BesideKeeps
<1>6. ASSUME NEW m \in Names, PullsDeletion(m)
      PROVE  Keeps'
  <2>1. /\ Disturbed /\ Unlink({P(m)}) /\ kept' = kept \ {m}
        /\ deletion' = [deletion EXCEPT ![m] = "marked"]
        /\ P(m) \in Paths /\ P(m)[1] = m
    BY <1>6, PlacesOf DEF PullsDeletion, P
  <2>2. \A n \in Names : n # m => deletion'[n] = deletion[n]
    BY <2>1 DEF Typed
  <2>3. (\A n \in kept' : KeptFile(n)') /\ LinksTwo' /\ Sources
    BY <2>1, <2>2, RemovedKeep
  <2> QED BY <2>1, <2>3, BesideKeeps
<1>7. ASSUME NEW markers \in SUBSET (scene.names \ kept), UserCommits(markers)
      PROVE  Keeps'
  <2> DEFINE dropped == {n \in Names : head[n] # Nothing /\ head'[n] = Nothing}
  <2>1. /\ Disturbed /\ fs' = fs /\ kept' = kept
        /\ deletion' = [n \in Names |-> IF n \in dropped THEN "marked" ELSE deletion[n]]
    BY <1>7 DEF UserCommits
  <2>2. \A n \in dropped : n \notin kept
    BY <1>7, CommitDrops
  <2> HIDE DEF dropped
  <2>3. \A n \in kept : deletion'[n] = deletion[n]
    BY <2>1, <2>2 DEF Typed
  <2>4. (\A n \in kept' : KeptFile(n)') /\ LinksTwo' /\ Sources
    BY <2>1, <2>3, SameKeep
  <2> QED BY <2>1, <2>4, BesideKeeps
<1>8. ASSUME NEW p \in Processes, Kill(p)
      PROVE  Keeps'
  <2>1. Ends(p) /\ fs' = fs /\ kept' = kept /\ deletion' = deletion
    BY <1>8 DEF Kill
  <2>2. (\A n \in kept' : KeptFile(n)') /\ LinksTwo' /\ Sources
    BY <2>1, SameKeep
  <2> QED BY <2>1, <2>2, BesideKeeps
<1>9. {"claude", "project", "native", "resource"} \subseteq Places
  BY DEF Places
<1> QED BY <1>1, <1>2, <1>3, <1>4, <1>5, <1>6, <1>7, <1>8, <1>9 DEF Outside

LEMMA NextKeeps ==
  ASSUME OneRecorder
  PROVE  Typed /\ Bare /\ Ghosts /\ Keeps /\ [Next]_vars => Keeps'
<1> SUFFICES ASSUME Typed, Bare, Ghosts, Keeps, [Next]_vars PROVE Keeps'
  OBVIOUS
<1>1. scene.names \subseteq Names /\ "cli" \in Processes /\ Recorders \subseteq Processes
  BY DEF Typed, Processes
<1>2. CASE UNCHANGED vars
  BY <1>2 DEF vars, Keeps, Two, C, P
<1>3. CASE Session
  <2>1. PICK r \in Recorders : StartSession(r)
    BY <1>3, NoCodexStarts DEF Session
  <2>2. (\A n \in kept' : KeptFile(n)') /\ LinksTwo' /\ Sources
    BY <2>1, SameKeep DEF StartSession
  <2>3. PICK rec \in Procs : Opens(r, rec) /\ rec.at = "sources"
    BY <2>1, StartSessionOpens
  <2> QED BY <1>1, <2>2, <2>3, BesideKeeps
<1>4. CASE Commanding
  <2>1. PICK n \in Names : DeletePy(n)
    BY <1>1, <1>4, NoCodexStarts DEF Commanding
  <2>2. (\A m \in kept' : KeptFile(m)') /\ LinksTwo' /\ Sources
    BY <2>1, SameKeep DEF DeletePy
  <2>3. PICK rec \in Procs : Opens("cli", rec) /\ rec.at = "remove"
    BY <2>1, DeletePyOpens
  <2> QED BY <1>1, <2>2, <2>3, BesideKeeps
<1> QED BY <1>2, <1>3, <1>4, WorkingKeeps, OutsideKeeps DEF Next

LEMMA KeepsFinds == Keeps => NothingLost
<1>1. ASSUME NEW q, fs[q].is = "file" PROVE IsFile(q)
  <2>1. Hop(q) = q
    BY <1>1 DEF Hop
  <2> QED BY <1>1, <2>1 DEF IsFile, Target
<1>2. ASSUME Keeps, NEW n \in kept PROVE \E q \in {C(n), P(n), R(n)} : IsFile(q)
  BY <1>1, <1>2 DEF Keeps
<1> QED BY <1>2 DEF NothingLost

\* In a project without Codex, with any number of memories, one hook at a time
\* beside the command, the editors and git: a memory that nobody removed can be
\* read in one of its places at every moment, also between the unlink and the link
\* of link_file, and after a hook was killed there (_sync_all, _sync_to_project and
\* link_file).
THEOREM KeptIsThere ==
  ASSUME NoCodex, OneRecorder, Unspoilt
  PROVE  Spec => []NothingLost
<1>1. Init => Typed /\ Alone /\ Looked /\ Ghosts /\ Bare /\ Keeps
  BY InitTyped, InitAlone, InitGhosts, InitBare, InitKeeps
<1>2. Typed /\ Alone /\ Looked /\ Ghosts /\ Bare /\ Keeps /\ [Next]_vars
        => (Typed /\ Alone /\ Looked /\ Ghosts /\ Bare /\ Keeps)'
  BY NextTyped, NextAlone, NextGhosts, NextBare, NextKeeps
<1> QED BY <1>1, <1>2, KeepsFinds, PTL DEF Spec
=============================================================================
