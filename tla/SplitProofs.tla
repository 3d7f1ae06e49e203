---------------------------- MODULE SplitProofs ----------------------------
(***************************************************************************)
(* Theorems about SplitSync: what holds of the branches of a split across  *)
(* every order of commits, forward and reverse runs, merges and the        *)
(* answers to them, kills, amends, rebases and undone runs, for any object *)
(* store to start from and any number of each.                             *)
(***************************************************************************)
EXTENDS SplitSync, NaturalBounds

-----------------------------------------------------------------------------
(* Commits and trees.                                                      *)

\* The trailers that a commit can have in a store of n commits.
Notes(n) == [source : 0..n, mate : 0..n, recon : 0..n]

\* d has grown into e: what it held is still there, under the same names.
Grown(d, e) == Len(e) \in Nat /\ Len(d) <= Len(e) /\ \A i \in 1..Len(d) : e[i] = d[i]

LEMMA RecordsTyped ==
  ASSUME NEW d, WellFormed(d)
  PROVE  /\ d \in Seq(Objects) /\ Len(d) \in Nat
         /\ \A i \in 1..Len(d) :
               /\ d[i].tree \in Trees /\ d[i].date \in Int
               /\ d[i].note \in Notes(Len(d))
               /\ d[i].first \in 0..(i - 1) /\ d[i].merged \in 0..(i - 1)
<1>1. d \in Seq(Objects) /\ \A i \in 1..Len(d) : Stands(d, i)
  BY DEF WellFormed
<1>2. Len(d) \in Nat /\ \A i \in 1..Len(d) : d[i] \in Objects
  BY <1>1
<1>3. ASSUME NEW i \in 1..Len(d)
      PROVE  /\ d[i].tree \in Trees /\ d[i].date \in Int
             /\ d[i].note \in [source : Nat, mate : Nat, recon : Nat]
             /\ {d[i].note.source, d[i].note.mate, d[i].note.recon} \subseteq 0..Len(d)
             /\ d[i].first \in 0..(i - 1) /\ d[i].merged \in 0..(i - 1)
  BY <1>1, <1>2 DEF Objects, Stands
<1> QED BY <1>1, <1>2, <1>3 DEF Notes

\* The first parents of commit i: i is the last of them, and each has those before it.
LEMMA LineFacts ==
  ASSUME NEW d, WellFormed(d), NEW i \in 1..Len(d)
  PROVE  /\ i \in d[i].line /\ d[i].line \subseteq d[i].anc /\ d[i].anc \subseteq 1..i
         /\ 1..i \subseteq 1..Len(d)
         /\ d[i].line = LineOf(d, d[i].first) \cup {i}
         /\ d[i].merged # 0 => d[i].merged \in d[i].anc
         /\ \A j \in d[i].line : d[j].line = {k \in d[i].line : k <= j}
<1>1. Stands(d, i) /\ Len(d) \in Nat
  BY RecordsTyped DEF WellFormed
<1> QED BY <1>1 DEF Stands

\* Any two commits on a line: the one that comes first is on the line of the other.
LEMMA OnLine ==
  ASSUME NEW d, WellFormed(d), NEW i \in 1..Len(d), NEW j \in d[i].line, NEW k \in d[i].line
  PROVE  /\ j \in 1..Len(d) /\ j \in Nat
         /\ k <= j <=> k \in d[j].line
         /\ k <= j <=> k \in d[j].anc
         /\ d[j].line \subseteq d[i].line
<1>1. j \in 1..Len(d) /\ k \in 1..Len(d) /\ d[j].line = {l \in d[i].line : l <= j}
  BY LineFacts
<1>2. d[j].line \subseteq d[j].anc /\ d[j].anc \subseteq 1..j
  BY <1>1, LineFacts
<1> QED BY <1>1, <1>2

LEMMA LineOfIs ==
  ASSUME NEW d, WellFormed(d), NEW i \in 0..Len(d)
  PROVE  /\ i = 0 => LineOf(d, i) = {} /\ PastOf(d, i) = {}
         /\ i # 0 => i \in 1..Len(d) /\ LineOf(d, i) = d[i].line /\ PastOf(d, i) = d[i].anc
         /\ i # 0 => TreeOf(d, i) = d[i].tree
         /\ LineOf(d, i) \subseteq PastOf(d, i) /\ PastOf(d, i) \subseteq 1..Len(d)
         /\ PastOf(d, i) \subseteq 1..i
         /\ i # 0 => i \in LineOf(d, i)
         /\ TreeOf(d, i) \in Trees
         /\ \A j \in LineOf(d, i) : d[j].line = {k \in LineOf(d, i) : k <= j}
<1>1. Len(d) \in Nat
  BY RecordsTyped
<1>2. CASE i = 0
  BY <1>1, <1>2 DEF LineOf, PastOf, TreeOf, Trees
<1>3. CASE i # 0
  <2>1. i \in 1..Len(d) /\ LineOf(d, i) = d[i].line /\ PastOf(d, i) = d[i].anc
        /\ TreeOf(d, i) = d[i].tree
    BY <1>1, <1>3 DEF LineOf, PastOf, TreeOf
  <2> QED BY <1>3, <2>1, LineFacts, RecordsTyped
<1> QED BY <1>2, <1>3

\* A new commit keeps the store well-formed.
LEMMA MadeWell ==
  ASSUME NEW d, WellFormed(d), NEW first \in 0..Len(d), NEW second \in 0..Len(d),
         NEW tree \in Trees, NEW date \in Int,
         NEW note \in Notes(Len(d)),
         NEW e, e = Append(d, Commit(d, first, second, tree, note, date))
  PROVE  WellFormed(e) /\ Grown(d, e)
<1>1. PICK size \in Nat : size = Len(d) /\ d \in Seq(Objects)
  BY RecordsTyped
<1> DEFINE id == size + 1
           c == Commit(d, first, second, tree, note, date)
<1>2. /\ LineOf(d, first) \subseteq PastOf(d, first) /\ PastOf(d, first) \subseteq 1..size
      /\ \A j \in LineOf(d, first) : d[j].line = {k \in LineOf(d, first) : k <= j}
      /\ PastOf(d, second) \subseteq 1..size
      /\ second # 0 => second \in PastOf(d, second)
  BY <1>1, LineOfIs
<1>3. c = [first |-> first, merged |-> second, line |-> LineOf(d, first) \cup {id},
           anc |-> PastOf(d, first) \cup PastOf(d, second) \cup {id},
           tree |-> tree, note |-> note, date |-> date]
  BY <1>1 DEF Commit
<1> HIDE DEF c
<1>4. c \in Objects
  <2>1. LineOf(d, first) \cup {id} \in SUBSET Nat
    BY <1>1, <1>2
  <2>2. PastOf(d, first) \cup PastOf(d, second) \cup {id} \in SUBSET Nat
    BY <1>1, <1>2
  <2>3. note \in [source : Nat, mate : Nat, recon : Nat] /\ first \in Nat /\ second \in Nat
    BY <1>1 DEF Notes
  <2> QED BY <1>1, <1>3, <2>1, <2>2, <2>3 DEF Objects
<1>5. /\ e \in Seq(Objects) /\ Len(e) = id /\ e[id] = c
      /\ \A i \in 1..size : e[i] = d[i]
  <2>1. e = Append(d, c)
    BY DEF c
  <2> QED BY <1>1, <1>4, <2>1
<1>6. ASSUME NEW i \in 1..size PROVE Stands(e, i)
  <2>1. Stands(d, i) /\ e[i] = d[i]
    BY <1>1, <1>5 DEF WellFormed
  <2>2. \A j \in d[i].line : e[j] = d[j]
    BY <1>1, <1>5, LineFacts
  <2>3. 0..size \subseteq 0..Len(e)
    BY <1>1, <1>5
  <2>4. LineOf(e, d[i].first) = LineOf(d, d[i].first)
    <3>1. d[i].first \in 0..(i - 1)
      BY <1>1, RecordsTyped
    <3> QED BY <1>1, <1>5, <3>1 DEF LineOf
  <2> QED BY <1>1, <2>1, <2>2, <2>3, <2>4 DEF Stands
<1>7. Stands(e, id)
  <2>1. /\ e[id].line = LineOf(d, first) \cup {id} /\ e[id].merged = second
        /\ e[id].first = first /\ e[id].note = note
        /\ e[id].anc = PastOf(d, first) \cup PastOf(d, second) \cup {id}
    BY <1>3, <1>5
  <2>2. LineOf(e, first) = LineOf(d, first)
    BY <1>1, <1>5 DEF LineOf
  <2>3. ASSUME NEW j \in e[id].line
        PROVE  e[j].line = {k \in e[id].line : k <= j}
    <3>1. CASE j = id
      <4>1. \A k \in e[id].line : k \in Nat /\ k <= id
        BY <1>1, <1>2, <2>1
      <4> QED BY <3>1, <4>1
    <3>2. CASE j # id
      <4>1. j \in LineOf(d, first) /\ j \in 1..size /\ e[j] = d[j]
        BY <1>2, <1>5, <2>1, <3>2
      <4>2. {k \in e[id].line : k <= j} = {k \in LineOf(d, first) : k <= j}
        BY <1>1, <1>2, <2>1, <4>1
      <4> QED BY <1>2, <4>1, <4>2
    <3> QED BY <3>1, <3>2
  <2>4. e[id].line \subseteq e[id].anc /\ e[id].anc \subseteq 1..id
    BY <1>1, <1>2, <2>1
  <2>5. {note.source, note.mate, note.recon} \subseteq 0..Len(e)
    BY <1>1, <1>5 DEF Notes
  <2>6. first \in 0..(id - 1) /\ second \in 0..(id - 1)
    BY <1>1
  <2>7. second # 0 => second \in e[id].anc
    BY <1>2, <2>1
  <2>8. LineOf(e, e[id].first) = LineOf(d, first)
    BY <2>1, <2>2
  <2>9. {e[id].note.source, e[id].note.mate, e[id].note.recon} \subseteq 0..Len(e)
    BY <2>1, <2>5
  <2> QED BY <2>1, <2>3, <2>4, <2>6, <2>7, <2>8, <2>9 DEF Stands
<1>8. WellFormed(e)
  <2>1. 1..Len(e) = (1..size) \cup {id}
    BY <1>1, <1>5
  <2> QED BY <1>5, <1>6, <1>7, <2>1 DEF WellFormed
<1>9. Grown(d, e)
  BY <1>1, <1>5 DEF Grown
<1> QED BY <1>8, <1>9

LEMMA MadeLast ==
  ASSUME NEW d, WellFormed(d), NEW first, NEW second, NEW tree, NEW note, NEW date,
         NEW e, e = Append(d, Commit(d, first, second, tree, note, date))
  PROVE  Len(e) = Len(d) + 1 /\ e[Len(d) + 1] = Commit(d, first, second, tree, note, date)
<1> DEFINE c == Commit(d, first, second, tree, note, date)
<1>1. d \in Seq(Objects)
  BY RecordsTyped
<1> HIDE DEF c
<1>2. e = Append(d, c)
  BY DEF c
<1> QED BY <1>1, <1>2 DEF c

LEMMA MadeIs ==
  ASSUME NEW d, WellFormed(d), NEW first, NEW second, NEW tree, NEW note, NEW date,
         NEW e, e = Append(d, Commit(d, first, second, tree, note, date))
  PROVE  /\ Len(e) = Len(d) + 1
         /\ e[Len(d) + 1].first = first /\ e[Len(d) + 1].merged = second
         /\ e[Len(d) + 1].line = LineOf(d, first) \cup {Len(d) + 1}
         /\ e[Len(d) + 1].anc = PastOf(d, first) \cup PastOf(d, second) \cup {Len(d) + 1}
         /\ e[Len(d) + 1].tree = tree /\ e[Len(d) + 1].note = note
         /\ e[Len(d) + 1].date = date
BY MadeLast DEF Commit

\* Trees are put together from trees.
LEMMA Overlaid ==
  ASSUME NEW d, WellFormed(d), NEW i \in 1..Len(d), NEW tree \in Trees, NEW kept
  PROVE  /\ Overlay(d, tree, i, kept) \in Trees
         /\ \A p \in Paths : Overlay(d, tree, i, kept)[p] =
               IF p \in Changed(d, i) \cap kept THEN d[i].tree[p] ELSE tree[p]
<1>1. d[i].tree \in Trees
  BY RecordsTyped
<1> QED BY <1>1 DEF Overlay, Trees

LEMMA MergeBaseIs ==
  ASSUME NEW d, WellFormed(d), NEW a \in 1..Len(d), NEW b \in 1..Len(d), Related(d, a, b)
  PROVE  MergeBase(d, a, b) \in d[a].anc \cap d[b].anc
<1> DEFINE S == d[a].anc \cap d[b].anc
<1>1. S \in SUBSET Nat /\ S # {} /\ Len(d) \in Nat /\ \A n \in S : n <= Len(d)
  <2>1. d[a].anc \subseteq 1..Len(d) /\ Len(d) \in Nat
    BY LineFacts, RecordsTyped
  <2> QED BY <2>1 DEF Related
<1>2. \E m \in S : \A n \in S : n <= m
  <2> HIDE DEF S
  <2> QED BY <1>1, Greatest
<1>3. \E m \in S : \A n \in S : m >= n
  BY <1>1, <1>2
<1> QED BY <1>3 DEF MergeBase, Max

LEMMA MergedTree ==
  ASSUME NEW d, WellFormed(d), NEW a \in 1..Len(d), NEW b \in 1..Len(d), NEW taken
  PROVE  MergeTree(d, a, b, taken) \in Trees
BY RecordsTyped DEF MergeTree, Trees

LEMMA GrownFacts ==
  ASSUME NEW d, WellFormed(d), NEW e, WellFormed(e), Grown(d, e), NEW i \in 0..Len(d)
  PROVE  /\ i \in 0..Len(e) /\ Len(d) \in Nat /\ Len(e) \in Nat /\ Len(d) <= Len(e)
         /\ 0..Len(d) \subseteq 0..Len(e)
         /\ i # 0 => i \in 1..Len(d) /\ i \in 1..Len(e) /\ e[i] = d[i]
         /\ LineOf(e, i) = LineOf(d, i) /\ PastOf(e, i) = PastOf(d, i) /\ TreeOf(e, i) = TreeOf(d, i)
         /\ \A j \in PastOf(d, i) : j \in 1..Len(d) /\ e[j] = d[j]
         /\ \A j \in LineOf(d, i) : j \in 1..Len(d) /\ e[j] = d[j]
<1>1. Len(d) \in Nat /\ Len(e) \in Nat /\ Len(d) <= Len(e)
      /\ \A j \in 1..Len(d) : e[j] = d[j]
  BY RecordsTyped DEF Grown
<1>2. LineOf(d, i) \subseteq PastOf(d, i) /\ PastOf(d, i) \subseteq 1..Len(d)
  BY LineOfIs
<1>3. LineOf(e, i) = LineOf(d, i) /\ PastOf(e, i) = PastOf(d, i) /\ TreeOf(e, i) = TreeOf(d, i)
  BY <1>1 DEF LineOf, PastOf, TreeOf
<1> QED BY <1>1, <1>2, <1>3

LEMMA GrownAgain ==
  ASSUME NEW c, NEW d, NEW e, Len(c) \in Nat, Len(d) \in Nat, Grown(c, d), Grown(d, e)
  PROVE  Grown(c, e)
BY DEF Grown

LEMMA GrownSame ==
  ASSUME NEW d, WellFormed(d)
  PROVE  Grown(d, d)
BY RecordsTyped DEF Grown

LEMMA MaxIs ==
  ASSUME NEW S \in SUBSET Nat, S # {}, NEW bound \in Nat, \A n \in S : n <= bound
  PROVE  Max(S) \in S /\ \A n \in S : n <= Max(S)
<1>1. \E m \in S : \A n \in S : m >= n
  BY Greatest
<1>2. Max(S) \in S /\ \A n \in S : Max(S) >= n
  BY <1>1 DEF Max
<1> QED BY <1>2

LEMMA MinIs ==
  ASSUME NEW S \in SUBSET Nat, S # {}
  PROVE  Min(S) \in S /\ \A n \in S : Min(S) <= n
<1>1. \E m \in S : \A n \in S : m <= n
  BY Least
<1> QED BY <1>1 DEF Min

-----------------------------------------------------------------------------
(* What the state is made of.                                              *)

Stages == {"idle", "clean", "history", "fork", "pass", "lay", "cursor", "asked", "merged",
           "resolved", "boot", "bootFork", "rebuild", "rewrite", "again", "build",
           "revClean", "revHistory", "rebase"}
Runs == [pc : Stages, side : Sides, flag : Flags \cup {"abort"}, fake : BOOLEAN,
         rewrite : Rewrites \cup {FALSE}, stop : Nat, last : Nat, tip : Nat, rest : SUBSET Int,
         mates : SUBSET (Nat \X Nat), todo : SUBSET [at : Nat, old : Nat, tree : Trees]]

\* What the steps of a stage look at is there.
Started == {"fork", "pass", "lay", "cursor", "asked", "merged", "resolved"}
NewKeys == {NewKey(i) : i \in NewOn("clean") \cup NewOn("history")}
Staged ==
  /\ run.pc \in Started \cup {"history"} => ref["clean"] # 0
  /\ run.pc \in Started => ref["history"] # 0
  /\ run.pc \in {"lay", "rewrite", "again", "build"} => ref["unclean"] # 0
  /\ run.pc \in {"lay", "again", "build", "rebase"} => run.tip # 0
  /\ run.pc \in {"lay", "again", "rebase"} => run.rest \subseteq 1..Len(db)
  /\ run.pc = "build" => run.rest \subseteq NewKeys
  /\ run.pc = "asked" => run.stop # 0 /\ db[run.stop].merged # 0

Typed ==
  /\ WellFormed(db) /\ Grown(Store, db)
  /\ ref \in [RefNames -> 0..Len(db)]
  /\ run \in Runs
  /\ run.tip \in 0..Len(db) /\ run.stop \in 0..Len(db) /\ run.last \in 0..Len(db)
  /\ \A m \in run.mates : m[2] \in 0..Len(db)
  /\ logged # <<>> => logged \in [RefNames -> 0..Len(db)]
  /\ origin \in 0..Len(db)
  /\ foreign \in BOOLEAN /\ broken \in BOOLEAN
  /\ Staged

LEMMA StoreTyped ==
  /\ WellFormed(Store) /\ Len(Store) \in Nat
  /\ Main \in 1..Len(Store) /\ HistoryMain \in 1..Len(Store)
BY StoreAssumption, RecordsTyped

LEMMA RefsAre ==
  ASSUME Typed
  PROVE  /\ Len(db) \in Nat /\ 1..Len(Store) \subseteq 1..Len(db)
         /\ \A r \in RefNames : /\ ref[r] \in 0..Len(db)
                                /\ ref[r] # 0 => ref[r] \in 1..Len(db)
         /\ \A side \in Sides : side \in RefNames /\ Fwd(side) \in RefNames /\ Rev(side) \in RefNames
<1>1. Len(db) \in Nat /\ ref \in [RefNames -> 0..Len(db)]
  BY RecordsTyped DEF Typed
<1>2. \A r \in RefNames : ref[r] \in 0..Len(db) /\ (ref[r] # 0 => ref[r] \in 1..Len(db))
  BY <1>1
<1>3. \A side \in Sides : side \in RefNames /\ Fwd(side) \in RefNames /\ Rev(side) \in RefNames
  BY DEF RefNames, Sides, Fwd, Rev
<1>4. 1..Len(Store) \subseteq 1..Len(db)
  BY <1>1, StoreTyped DEF Typed, Grown
<1> QED BY <1>1, <1>2, <1>3, <1>4

LEMMA TypedInit ==
  ASSUME Init
  PROVE  Typed
<1>1. PICK s \in Scenarios :
      ref = [r \in RefNames |-> IF r = "unclean" THEN s.unclean
                                ELSE IF r = "clean" THEN s.clean ELSE 0]
  BY DEF Init
<1>2. /\ db = Store /\ run = Idle /\ logged = <<>> /\ origin = 0
      /\ foreign \in BOOLEAN /\ broken \in BOOLEAN
  BY DEF Init
<1>3. /\ s.unclean \in 0..Len(db) /\ s.clean \in 0..Len(db)
      /\ WellFormed(db) /\ Grown(Store, db)
  BY <1>2, StoreAssumption, GrownSame
<1>4. ref \in [RefNames -> 0..Len(db)]
  BY <1>1, <1>3, StoreTyped, <1>2
<1>5. Idle \in Runs
  BY DEF Idle, Runs, Stages, Sides
<1>6. Staged
  BY <1>2 DEF Staged, Idle, Started
<1>7. run.tip = 0 /\ run.stop = 0 /\ run.last = 0 /\ run.mates = {} /\ Len(db) \in Nat
  BY <1>2, StoreTyped DEF Idle
<1> QED BY <1>2, <1>3, <1>4, <1>5, <1>6, <1>7 DEF Typed

\* The oldest of what is left to apply.
LEMMA OldestIs ==
  ASSUME run.rest \subseteq 1..Len(db), run.rest # {}
  PROVE  /\ Oldest \in run.rest /\ Oldest \in 1..Len(db) /\ \A i \in run.rest : Oldest <= i
<1>1. run.rest \in SUBSET Nat
  OBVIOUS
<1> QED BY <1>1, MinIs DEF Oldest

LEMMA NewOnIs ==
  ASSUME Typed, NEW side \in Sides
  PROVE  NewOn(side) \subseteq 1..Len(db)
<1>1. Past(side) \subseteq 1..Len(db)
  BY RefsAre, LineOfIs DEF Typed, Past
<1> QED BY <1>1 DEF NewOn

LEMMA ItemIs ==
  ASSUME Typed, NEW key \in NewKeys
  PROVE  /\ Leading(Item(key)) \in 1..Len(db)
         /\ Item(key).clean # 0 => Item(key).clean \in 1..Len(db)
         /\ Item(key).history # 0 => Item(key).history \in 1..Len(db)
<1> DEFINE On(side) == {i \in NewOn(side) : NewKey(i) = key}
<1>1. ASSUME NEW side \in Sides
      PROVE  /\ Max({0} \cup On(side)) \in {0} \cup On(side)
             /\ On(side) # {} => Max({0} \cup On(side)) # 0
             /\ On(side) \subseteq 1..Len(db)
  <2>1. On(side) \subseteq 1..Len(db) /\ Len(db) \in Nat
    BY NewOnIs, RefsAre
  <2> HIDE DEF On
  <2>2. {0} \cup On(side) \in SUBSET Nat /\ \A n \in {0} \cup On(side) : n <= Len(db)
    BY <2>1
  <2>3. /\ Max({0} \cup On(side)) \in {0} \cup On(side)
        /\ \A n \in {0} \cup On(side) : n <= Max({0} \cup On(side))
    BY <2>1, <2>2, MaxIs
  <2>4. ASSUME On(side) # {} PROVE Max({0} \cup On(side)) # 0
    <3>1. PICK n \in On(side) : n \in 1..Len(db) /\ n <= Max({0} \cup On(side))
      BY <2>1, <2>3, <2>4
    <3> QED BY <2>1, <3>1
  <2> QED BY <2>1, <2>3, <2>4
<1>2. On("clean") # {} \/ On("history") # {}
  BY DEF NewKeys
<1>3. Item(key).clean = Max({0} \cup On("clean")) /\ Item(key).history = Max({0} \cup On("history"))
  BY DEF Item, Sides
<1>4. "clean" \in Sides /\ "history" \in Sides
  BY DEF Sides
<1> HIDE DEF On
<1>5. /\ Item(key).clean # 0 => Item(key).clean \in 1..Len(db)
      /\ Item(key).history # 0 => Item(key).history \in 1..Len(db)
      /\ Item(key).clean # 0 \/ Item(key).history # 0
  BY <1>1, <1>2, <1>3, <1>4
<1> QED BY <1>5 DEF Leading

LEMMA LaidIs ==
  ASSUME Typed, run.pc = "lay", NEW i \in 1..Len(db)
  PROVE  run.tip \in 1..Len(db) /\ Laid(i) \in Trees
<1>1. run.tip \in 1..Len(db)
  BY RefsAre DEF Typed, Staged
<1>2. WellFormed(db) /\ db[run.tip].tree \in Trees
  BY <1>1, RecordsTyped DEF Typed
<1> QED BY <1>1, <1>2, Overlaid DEF Laid

\* A step leaves the store as it is or puts one commit into it.
LEMMA StoreGrows ==
  ASSUME Typed, [Next]_vars
  PROVE  /\ WellFormed(db') /\ Grown(db, db')
         /\ db' = db \/ Len(db') = Len(db) + 1
<1> DEFINE Good == /\ WellFormed(db') /\ Grown(db, db')
                   /\ db' = db \/ Len(db') = Len(db) + 1
<1>1. WellFormed(db) /\ Len(db) \in Nat
  BY RefsAre DEF Typed
<1>2. db' = db => Good
  BY <1>1, GrownSame
<1>3. ASSUME NEW first \in 0..Len(db), NEW second \in 0..Len(db), NEW tree \in Trees,
             NEW note \in Notes(Len(db)),
             NEW date \in Int, db' = Append(db, Commit(db, first, second, tree, note, date))
      PROVE  Good
  <2>1. WellFormed(db') /\ Grown(db, db') /\ Len(db') = Len(db) + 1
    <3>1. WellFormed(db')
      BY <1>1, <1>3, MadeWell, ZenonT(60)
    <3>2. Grown(db, db')
      BY <1>1, <1>3, MadeWell, ZenonT(60)
    <3>3. Len(db') = Len(db) + 1
      <4> DEFINE c == Commit(db, first, second, tree, note, date)
      <4>1. db \in Seq(Objects) /\ db' = Append(db, c)
        BY <1>1, <1>3, RecordsTyped
      <4> HIDE DEF c
      <4> QED BY <4>1
    <3> QED BY <3>1, <3>2, <3>3
  <2> QED BY <2>1
<1> SUFFICES Good
  OBVIOUS
<1> HIDE DEF Good
<1>4. \A i \in 1..Len(db) :
         /\ db[i].tree \in Trees /\ db[i].date \in Int
         /\ db[i].note \in Notes(Len(db))
         /\ db[i].first \in 0..Len(db) /\ db[i].merged \in 0..Len(db) /\ i \in 0..Len(db)
  BY <1>1, RecordsTyped
<1>0. 0 \in 0..Len(db)
  BY <1>1
<1>5. NoTrailers \in Notes(Len(db))
  BY <1>1 DEF NoTrailers, Notes
<1>6. CASE LaySource
  <2>1. /\ run.pc = "lay" /\ run.rest # {} /\ run.rest \subseteq 1..Len(db)
        /\ Oldest \in 1..Len(db)
    BY <1>6, OldestIs DEF LaySource, Working, At, Typed, Staged
  <2>2. run.tip \in 1..Len(db) /\ Laid(Oldest) \in Trees
    BY <2>1, LaidIs
  <2>3. MateOf(run.mates, Oldest) \in 0..Len(db)
    BY <1>1 DEF Typed, MateOf
  <2>4. [source |-> Oldest, mate |-> MateOf(run.mates, Oldest), recon |-> 0]
          \in Notes(Len(db))
    BY <1>1, <2>1, <2>3 DEF Notes
  <2>5. \/ db' = db
        \/ db' = Append(db, Commit(db, run.tip, 0, Laid(Oldest), NoTrailers, db[Oldest].date))
        \/ db' = Append(db, Commit(db, run.tip, 0, Laid(Oldest),
                    [source |-> Oldest, mate |-> MateOf(run.mates, Oldest), recon |-> 0],
                    db[Oldest].date))
    BY <1>6 DEF LaySource, Make, Pass
  <2> QED BY <1>0, <1>1, <1>2, <1>3, <1>4, <1>5, <2>1, <2>2, <2>4, <2>5
<1>7. CASE AnswerAttempt \/ MergeByHand
  <2>1. /\ run.pc = "asked" /\ run.side \in Sides /\ run.stop \in 1..Len(db)
        /\ ref[run.side] \in 1..Len(db)
    <3>1. run.pc = "asked"
      BY <1>7 DEF AnswerAttempt, MergeByHand, Answered, At
    <3>2. run.side \in Sides
      BY DEF Typed, Runs
    <3>3. run.stop \in 1..Len(db)
      BY <1>1, <3>1 DEF Typed, Staged
    <3>4. ref[run.side] # 0
      BY <3>1, <3>2 DEF Typed, Staged, Started, Sides
    <3> QED BY <3>1, <3>2, <3>3, <3>4, RefsAre
  <2>2. Second \in 1..Len(db)
    BY <1>1, <1>4, <2>1 DEF Second, Typed, Staged
  <2>3. \A taken : MergeTree(db, ref[run.side], Second, taken) \in Trees
    BY <1>1, <2>1, <2>2, MergedTree
  <2>4. [p \in Paths |-> IF p \in Kept(run.side)
                         THEN MergeTree(db, ref[run.side], Second, NoisyPaths)[p] ELSE Absent] \in Trees
    BY <2>3 DEF Trees
  <2>5. CASE AnswerAttempt
    <3>1. \/ db' = db
          \/ db' = Append(db, Commit(db, ref[run.side], Second,
                [p \in Paths |-> IF p \in Kept(run.side)
                   THEN MergeTree(db, ref[run.side], Second, NoisyPaths)[p] ELSE Absent],
                NoTrailers, db[run.stop].date))
      BY <2>5 DEF AnswerAttempt, Attempt
    <3> QED BY <1>0, <1>1, <1>2, <1>3, <1>4, <1>5, <2>1, <2>2, <2>4, <3>1
  <2>6. CASE MergeByHand
    <3>1. PICK taken : db' = Append(db, Commit(db, ref[run.side], Second,
                MergeTree(db, ref[run.side], Second, taken), NoTrailers, db[run.stop].date))
      BY <2>6 DEF MergeByHand
    <3> QED BY <1>0, <1>1, <1>3, <1>4, <1>5, <2>1, <2>2, <2>3, <3>1
  <2> QED BY <1>7, <2>5, <2>6
<1>8. CASE AnswerManual
  <2>1. ref[run.side] \in 1..Len(db)
    <3>1. run.side \in Sides /\ run.pc = "merged"
      BY <1>8 DEF Typed, Runs, AnswerManual, At
    <3>2. ref[run.side] # 0
      BY <3>1 DEF Typed, Staged, Started, Sides
    <3> QED BY <3>1, <3>2, RefsAre
  <2>2. [NoTrailers EXCEPT !.source = run.stop]
          \in Notes(Len(db))
    BY <1>1 DEF NoTrailers, Notes, Typed
  <2>3. db' = Append(db, Commit(db, db[ref[run.side]].first, db[ref[run.side]].merged,
                  db[ref[run.side]].tree, [NoTrailers EXCEPT !.source = run.stop],
                  db[ref[run.side]].date))
    BY <1>8 DEF AnswerManual, FirstParent
  <2> QED BY <1>0, <1>3, <1>4, <2>1, <2>2, <2>3
<1>9. CASE RewriteDiverged
  <2>1. PICK next \in run.todo :
          \/ db' = db
          \/ /\ next.old \in Past("unclean")
             /\ db' = Append(db, Commit(db, FirstParent(db, next.old), 0, next.tree,
                                        db[next.old].note, db[next.old].date))
    BY <1>9 DEF RewriteDiverged
  <2>2. CASE db' = db
    BY <1>2, <2>2
  <2>3. CASE next.old \in Past("unclean") /\ db' = Append(db, Commit(db, FirstParent(db, next.old),
                0, next.tree, db[next.old].note, db[next.old].date))
    <3>1. next.old \in 1..Len(db)
      <4>1. ref["unclean"] \in 0..Len(db)
        BY RefsAre DEF RefNames
      <4> QED BY <1>1, <2>3, <4>1, LineOfIs DEF Past
    <3>2. next.tree \in Trees
      BY <2>1 DEF Typed, Runs
    <3> QED BY <1>0, <1>1, <1>3, <1>4, <2>3, <3>1, <3>2 DEF FirstParent
  <2> QED BY <2>1, <2>2, <2>3
<1>10. CASE ApplyAgain
  <2>1. Oldest \in 1..Len(db) /\ run.tip \in 1..Len(db)
    BY <1>1, <1>10, OldestIs DEF ApplyAgain, Working, At, Typed, Staged
  <2>2. Overlay(db, db[run.tip].tree, Oldest, Paths) \in Trees
    BY <1>1, <1>4, <2>1, Overlaid
  <2>3. db' = Append(db, Commit(db, run.tip, 0, Overlay(db, db[run.tip].tree, Oldest, Paths),
                                db[Oldest].note, db[Oldest].date))
    BY <1>10 DEF ApplyAgain, Make
  <2> QED BY <1>0, <1>1, <1>3, <1>4, <2>1, <2>2, <2>3
<1>11. CASE BuildItem
  <2>1. PICK key \in run.rest :
          db' = Append(db, Commit(db, run.tip, 0, Merged(Item(key)),
                   [NoTrailers EXCEPT !.recon = IF key > 0 THEN key ELSE Leading(Item(key))],
                   db[Leading(Item(key))].date))
    BY <1>11 DEF BuildItem, Make
  <2>2. run.tip \in 1..Len(db) /\ key \in NewKeys
    BY <1>1, <1>11, <2>1 DEF BuildItem, Working, At, Typed, Staged
  <2>3. /\ Leading(Item(key)) \in 1..Len(db)
        /\ Item(key).history # 0 => Item(key).history \in 1..Len(db)
    BY <2>2, ItemIs
  <2>4. Overlay(db, db[run.tip].tree, Leading(Item(key)), Paths) \in Trees
    BY <1>1, <1>4, <2>2, <2>3, Overlaid
  <2>5. Merged(Item(key)) \in Trees
    BY <1>1, <2>3, <2>4, Overlaid DEF Merged
  <2>6. key > 0 => key \in 1..Len(db)
    <3>1. PICK i \in NewOn("clean") \cup NewOn("history") : key = NewKey(i)
      BY <2>2 DEF NewKeys
    <3>2. i \in 1..Len(db)
      BY <3>1, NewOnIs DEF Sides
    <3>3. key \in 0..Len(db) \/ key = -i
      <4>1. CASE db[i].note.source = 0 /\ Naming(i, NewOn("history")) # {}
        <5> DEFINE h == Min(Naming(i, NewOn("history")))
        <5>1. Naming(i, NewOn("history")) \subseteq NewOn("history")
          BY DEF Naming
        <5>2. h \in NewOn("history")
          <6>1. NewOn("history") \subseteq 1..Len(db)
            BY NewOnIs DEF Sides
          <6>2. Naming(i, NewOn("history")) \in SUBSET Nat
            BY <1>1, <5>1, <6>1
          <6> QED BY <4>1, <5>1, <6>2, MinIs
        <5>3. h \in 1..Len(db)
          BY <5>2, NewOnIs DEF Sides
        <5>4. db[h].note.source \in 0..Len(db)
          BY <1>4, <5>3 DEF Notes
        <5> QED BY <3>1, <4>1, <5>4 DEF NewKey, Key, Source
      <4>2. CASE ~(db[i].note.source = 0 /\ Naming(i, NewOn("history")) # {})
        <5>1. Source(i, NewOn("history")) = db[i].note.source
          BY <4>2 DEF Source
        <5>2. db[i].note.source \in 0..Len(db)
          BY <1>4, <3>2 DEF Notes
        <5> QED BY <3>1, <5>1, <5>2 DEF NewKey, Key
      <4> QED BY <4>1, <4>2
    <3> QED BY <1>1, <3>2, <3>3
  <2>7. [NoTrailers EXCEPT !.recon = IF key > 0 THEN key ELSE Leading(Item(key))]
          \in Notes(Len(db))
    BY <1>1, <2>3, <2>6 DEF NoTrailers, Notes
  <2> QED BY <1>0, <1>1, <1>3, <1>4, <2>1, <2>2, <2>3, <2>5, <2>7
<1>12. CASE Reapply
  <2>1. Oldest \in 1..Len(db) /\ run.tip \in 1..Len(db)
    BY <1>1, <1>12, OldestIs DEF Reapply, Working, At, Typed, Staged
  <2>2. Overlay(db, db[run.tip].tree, Oldest, Paths) \in Trees
    BY <1>1, <1>4, <2>1, Overlaid
  <2>3. \/ db' = db
        \/ db' = Append(db, Commit(db, run.tip, 0, Overlay(db, db[run.tip].tree, Oldest, Paths),
                                   db[Oldest].note, db[Oldest].date))
    BY <1>12 DEF Reapply, Make, Pass
  <2> QED BY <1>0, <1>1, <1>2, <1>3, <1>4, <2>1, <2>2, <2>3
<1>13. ASSUME NEW r \in {"unclean", "clean", "history"}, NEW e \in Edits[r], ref[r] # 0
       PROVE  ref[r] \in 1..Len(db) /\ Edited(e, r) \in Trees
  <2>1. ref[r] \in 1..Len(db)
    BY <1>13, RefsAre DEF RefNames
  <2>2. \A p \in DOMAIN e \cap Paths : e[p] \in Blobs \cup {Absent}
    BY <1>13, EditsAssumption
  <2> QED BY <1>4, <2>1, <2>2 DEF Edited, Tip, Trees
<1>14. ASSUME NEW r \in {"unclean", "clean", "history"}, AuthorCommit(r) PROVE Good
  <2>1. PICK e \in Edits[r], date \in Dates :
          ref[r] # 0 /\ db' = Append(db, Commit(db, ref[r], 0, Edited(e, r), NoTrailers, date))
    BY <1>14 DEF AuthorCommit, Extend
  <2>2. date \in Int
    BY StoreAssumption
  <2> QED BY <1>0, <1>1, <1>3, <1>5, <1>13, <2>1, <2>2
<1>15. CASE MergeIntoUnclean
  <2>1. PICK theirs \in Incoming, date \in Dates : \E taken :
          /\ ref["unclean"] # 0
          /\ db' = Append(db, Commit(db, ref["unclean"], theirs,
                          MergeTree(db, ref["unclean"], theirs, taken), NoTrailers, date))
    <3>1. ref["unclean"] # 0
      BY <1>15 DEF MergeIntoUnclean
    <3>2. PICK theirs \in Incoming \ Tip("unclean").anc :
             \E more \in SUBSET (Conflicts(db, ref["unclean"], theirs) \ NoisyPaths), d \in Dates :
                Extend("unclean", Commit(db, ref["unclean"], theirs,
                   MergeTree(db, ref["unclean"], theirs,
                      more \cup (Conflicts(db, ref["unclean"], theirs) \cap NoisyPaths)),
                   NoTrailers, d))
      BY <1>15 DEF MergeIntoUnclean
    <3>3. PICK more \in SUBSET (Conflicts(db, ref["unclean"], theirs) \ NoisyPaths), date \in Dates :
             Extend("unclean", Commit(db, ref["unclean"], theirs,
                   MergeTree(db, ref["unclean"], theirs,
                      more \cup (Conflicts(db, ref["unclean"], theirs) \cap NoisyPaths)),
                   NoTrailers, date))
      BY <3>2
    <3> QED BY <3>1, <3>3 DEF Extend
  <2>2. date \in Int /\ theirs \in 1..Len(Store)
    BY StoreAssumption
  <2>3. theirs \in 1..Len(db)
    BY <2>2, RefsAre
  <2>4. ref["unclean"] \in 1..Len(db)
    BY <2>1, RefsAre DEF RefNames
  <2> QED BY <1>0, <1>1, <1>3, <1>5, <2>1, <2>2, <2>3, <2>4, MergedTree
<1>16. ASSUME NEW side \in Sides, Amend(side) PROVE Good
  <2>1. PICK e \in Edits[side] :
          /\ ref[side] # 0
          /\ db' = Append(db, Commit(db, FirstParent(db, ref[side]), 0, Edited(e, side),
                                     Tip(side).note, Tip(side).date))
    BY <1>16 DEF Amend, Extend
  <2>2. side \in {"unclean", "clean", "history"}
    BY DEF Sides
  <2>3. ref[side] \in 1..Len(db) /\ Edited(e, side) \in Trees
    BY <1>13, <2>1, <2>2
  <2> QED BY <1>0, <1>1, <1>3, <1>4, <2>1, <2>3 DEF Tip, FirstParent
<1>17. CASE UNCHANGED vars
  <2>1. db' = db
    BY <1>17 DEF vars
  <2> QED BY <1>2, <2>1
<1>18. ASSUME Next,
              ~LaySource, ~AnswerAttempt, ~MergeByHand, ~AnswerManual, ~RewriteDiverged,
              ~ApplyAgain, ~BuildItem, ~Reapply, ~MergeIntoUnclean,
              \A r \in {"unclean", "clean", "history"} : ~AuthorCommit(r),
              \A side \in Sides : ~Amend(side)
       PROVE  Good
  <2>1. db' = db
    BY <1>18 DEF Next, ForwardStep, ReverseStep, RebaseStep, AuthorStep, EnsureClean, EnsureHistory,
       MarkForkPoint, NothingToReplay, StartPass, StopAtMerge, EndPass, MoveForwardCursor, AnswerFake,
       AnswerAbort, MergeResolved, CreateHistory, ReadSides, Rewritten, StartRebuild, RebuildUnclean,
       MoveReverseCursor, RebaseBranches, EndRebase, Push, SyncToCleanHistory, SyncToUnclean,
       BootstrapBranch, Crash, Undo, Start
  <2> QED BY <1>2, <2>1
<1> QED BY <1>6, <1>7, <1>8, <1>9, <1>10, <1>11, <1>12, <1>14, <1>15, <1>16, <1>17, <1>18 DEF Good

\* What a step has not moved reads as before.
LEMMA StaysRead ==
  ASSUME Typed, [Next]_vars
  PROVE  /\ Len(db') \in Nat /\ Len(db) <= Len(db') /\ 0..Len(db) \subseteq 0..Len(db')
         /\ \A i \in 1..Len(db) : i \in 1..Len(db') /\ db'[i] = db[i]
         /\ Grown(Store, db')
<1>1. WellFormed(db) /\ WellFormed(db') /\ Grown(db, db') /\ Grown(Store, db)
  BY StoreGrows DEF Typed
<1>2. Len(db) \in Nat /\ Len(db') \in Nat /\ Len(Store) \in Nat
  BY <1>1, RecordsTyped, StoreTyped
<1> QED BY <1>1, <1>2, GrownAgain DEF Grown

LEMMA NewKeysStay ==
  ASSUME Typed, [Next]_vars, ref' = ref
  PROVE  NewKeys' = NewKeys
<1>1. WellFormed(db) /\ WellFormed(db') /\ Grown(db, db')
  BY StoreGrows DEF Typed
<1>2. ASSUME NEW side \in Sides PROVE NewOn(side)' = NewOn(side)
  <2>1. Past(side)' = Past(side) /\ Past(side) \subseteq 1..Len(db)
    <3>1. ref[side] \in 0..Len(db)
      BY RefsAre
    <3> QED BY <1>1, <3>1, GrownFacts, LineOfIs DEF Past
  <2>2. Rev(side)' = Rev(side) /\ Bound(side)' = Bound(side)
    BY DEF Rev, Bound
  <2>3. Bound(side) \in 1..Len(db)
    BY RefsAre, StoreTyped DEF Bound
  <2> QED BY <2>1, <2>2, <2>3, StaysRead DEF NewOn
<1>3. NewOn("clean")' = NewOn("clean") /\ NewOn("history")' = NewOn("history")
  BY <1>2 DEF Sides
<1>4. NewOn("clean") \cup NewOn("history") \subseteq 1..Len(db)
  BY NewOnIs DEF Sides
<1>5. ASSUME NEW i \in NewOn("clean") \cup NewOn("history")
      PROVE  NewKey(i)' = NewKey(i)
  <2>1. Naming(i, NewOn("history"))' = Naming(i, NewOn("history"))
    BY <1>3, <1>4, StaysRead DEF Naming
  <2>2. db'[i] = db[i]
    BY <1>4, StaysRead
  <2>3. Naming(i, NewOn("history")) # {} => Min(Naming(i, NewOn("history"))) \in 1..Len(db)
    <3>1. Naming(i, NewOn("history")) \subseteq 1..Len(db)
      BY <1>4 DEF Naming
    <3>2. Naming(i, NewOn("history")) \in SUBSET Nat
      BY <3>1, RefsAre
    <3> QED BY <3>1, <3>2, MinIs
  <2>4. Source(i, NewOn("history"))' = Source(i, NewOn("history"))
    BY <1>4, <2>1, <2>2, <2>3, StaysRead DEF Source
  <2> QED BY <2>4 DEF NewKey, Key
<1> QED BY <1>3, <1>5 DEF NewKeys

LEMMA DivergencesTyped ==
  ASSUME Typed
  PROVE  Divergences \subseteq [at : Nat, old : Nat, tree : Trees]
<1>1. WellFormed(db) /\ Len(db) \in Nat
  BY RefsAre DEF Typed
<1>2. ASSUME NEW key \in {db[i].note.recon : i \in Past("unclean")} \ {0}, Diverged(key)
      PROVE  [at |-> Place(key), old |-> RebuiltAs(key), tree |-> Expected(key)]
                \in [at : Nat, old : Nat, tree : Trees]
  <2>1. RebuiltFor(key) # {} /\ RebuiltFor(key) \subseteq 1..Len(db)
    <3>1. Past("unclean") \subseteq 1..Len(db)
      BY <1>1, RefsAre, LineOfIs DEF Past, RefNames
    <3> QED BY <1>2, <3>1 DEF RebuiltFor
  <2>2. RebuiltFor(key) \in SUBSET Nat /\ \A n \in RebuiltFor(key) : n <= Len(db)
    BY <1>1, <2>1
  <2>3. Place(key) \in Nat
    BY <2>1, <2>2, MinIs DEF Place
  <2>4. RebuiltAs(key) \in 1..Len(db)
    BY <1>1, <2>1, <2>2, MaxIs DEF RebuiltAs
  <2>5. ASSUME NEW side \in Sides PROVE LatestWith(side, key) \in 1..Len(db)
    <3> DEFINE S == {i \in Past(side) : AllKey(i) = key}
    <3>1. S \subseteq 1..Len(db)
      <4>1. Past(side) \subseteq 1..Len(db)
        BY <1>1, RefsAre, LineOfIs DEF Past
      <4> QED BY <4>1
    <3> HIDE DEF S
    <3>2. {0} \cup S \in SUBSET Nat /\ {0} \cup S # {} /\ \A n \in {0} \cup S : n <= Len(db)
      BY <1>1, <3>1
    <3>3. Max({0} \cup S) \in {0} \cup S
      BY <1>1, <3>2, MaxIs
    <3>4. LatestWith(side, key) = Max({0} \cup S) /\ LatestWith(side, key) # 0
      BY <1>2 DEF LatestWith, Diverged, S
    <3> QED BY <3>1, <3>3, <3>4
  <2>6. Expected(key) \in Trees
    <3>1. TreeOf(db, FirstParent(db, RebuiltAs(key))) \in Trees
      <4>1. FirstParent(db, RebuiltAs(key)) \in 0..Len(db)
        BY <1>1, <2>4, RecordsTyped DEF FirstParent
      <4> QED BY <1>1, <4>1, LineOfIs
    <3>2. Overlay(db, TreeOf(db, FirstParent(db, RebuiltAs(key))), LatestWith("clean", key), Paths)
            \in Trees
      BY <1>1, <2>5, <3>1, Overlaid DEF Sides
    <3>3. LatestWith("history", key) \in 1..Len(db)
      BY <2>5 DEF Sides
    <3> QED BY <1>1, <3>2, <3>3, Overlaid DEF Expected
  <2>7. RebuiltAs(key) \in Nat
    BY <2>2, <2>4
  <2> QED BY <2>3, <2>6, <2>7
<1> QED BY <1>2 DEF Divergences

LEMMA SourcesAre ==
  ASSUME Typed, NEW side \in Sides, ref["unclean"] # 0
  PROVE  /\ Sources(side) \subseteq db[ref["unclean"]].line
         /\ Sources(side) \subseteq 1..Len(db)
         /\ Max({0} \cup Sources(side)) \in {0} \cup Sources(side)
         /\ \A i \in Sources(side) : i <= Max({0} \cup Sources(side))
<1>1. Sources(side) \subseteq db[ref["unclean"]].line
  BY DEF Sources
<1>2. WellFormed(db) /\ Len(db) \in Nat /\ ref["unclean"] \in 1..Len(db)
  BY RefsAre DEF Typed, RefNames
<1>3. Sources(side) \subseteq 1..Len(db)
  BY <1>1, <1>2, LineFacts
<1>4. /\ {0} \cup Sources(side) \in SUBSET Nat /\ {0} \cup Sources(side) # {}
      /\ \A n \in {0} \cup Sources(side) : n <= Len(db)
  BY <1>2, <1>3
<1>5. /\ Max({0} \cup Sources(side)) \in {0} \cup Sources(side)
      /\ \A n \in {0} \cup Sources(side) : n <= Max({0} \cup Sources(side))
  BY <1>2, <1>4, MaxIs
<1> QED BY <1>1, <1>3, <1>5

\* Which of a step's results the others depend on.
RunTyped ==
  /\ run \in Runs
  /\ run.tip \in 0..Len(db) /\ run.stop \in 0..Len(db) /\ run.last \in 0..Len(db)
  /\ \A m \in run.mates : m[2] \in 0..Len(db)

LEMMA StartOverTyped ==
  ASSUME Typed, NEW fake \in BOOLEAN
  PROVE  /\ StartOver(fake) \in Runs /\ StartOver(fake).pc = "clean"
         /\ StartOver(fake).tip = run.tip /\ StartOver(fake).stop = 0 /\ StartOver(fake).last = 0
         /\ StartOver(fake).mates = {}
BY DEF Typed, StartOver, Runs, Stages, Sides

\* The steps of an invocation, one by one.
LEMMA ForwardTyped ==
  ASSUME Typed, ForwardStep
  PROVE  ref' \in [RefNames -> 0..Len(db')] /\ RunTyped' /\ Staged'
<1> DEFINE Good == ref' \in [RefNames -> 0..Len(db')] /\ RunTyped' /\ Staged'
<1>1. /\ Len(db) \in Nat /\ Len(db') \in Nat /\ 0..Len(db) \subseteq 0..Len(db')
      /\ 1..Len(db) \subseteq 1..Len(db')
      /\ \A i \in 1..Len(db) : db'[i] = db[i]
  BY RefsAre, StaysRead DEF Next
<1>a. run \in Runs
  BY DEF Typed
<1>2. /\ ref \in [RefNames -> 0..Len(db)] /\ run \in Runs
      /\ run.tip \in 0..Len(db) /\ run.stop \in 0..Len(db) /\ run.last \in 0..Len(db)
      /\ \A m \in run.mates : m[2] \in 0..Len(db)
      /\ run.side \in Sides
      /\ Staged
  BY DEF Typed, Runs
<1>3. {"unclean", "clean", "history", "fork", "fwdClean", "fwdHistory", "revClean", "revHistory"}
        = RefNames
  BY DEF RefNames
<1>4. Main \in 1..Len(db) /\ HistoryMain \in 1..Len(db)
  BY RefsAre, StoreTyped
<1>5. CASE EnsureClean
  <2>1. /\ ref' \in [RefNames -> 0..Len(db')] /\ ref'["clean"] # 0 /\ db' = db
        /\ run' = [run EXCEPT !.pc = "history"]
    BY <1>1, <1>2, <1>3, <1>4, <1>5 DEF EnsureClean, Go
  <2>2. /\ run' \in Runs /\ run'.pc = "history" /\ run'.tip = run.tip /\ run'.stop = run.stop
        /\ run'.last = run.last /\ run'.mates = run.mates
    BY <1>a, <2>1 DEF Runs, Stages
  <2> QED BY <1>2, <2>1, <2>2 DEF Staged, Started, RunTyped
<1>6. CASE EnsureHistory
  <2>1. /\ run.pc = "history" /\ db' = db
        /\ ref' = [ref EXCEPT !["history"] = IF @ = 0 THEN HistoryMain ELSE @]
        /\ \/ run' = [run EXCEPT !.pc = "fork"]
           \/ run' = [run EXCEPT !.pc = "pass"]
    BY <1>6 DEF EnsureHistory, Go, At
  <2>2. /\ run' \in Runs /\ run'.pc \in {"fork", "pass"} /\ run'.tip = run.tip
        /\ run'.stop = run.stop /\ run'.last = run.last /\ run'.mates = run.mates
    BY <1>a, <2>1 DEF Runs, Stages
  <2>3. ref' \in [RefNames -> 0..Len(db')] /\ ref'["clean"] # 0 /\ ref'["history"] # 0
    BY <1>1, <1>2, <1>3, <1>4, <2>1 DEF Staged
  <2> QED BY <1>2, <2>1, <2>2, <2>3 DEF Staged, Started, RunTyped
<1>7. CASE MarkForkPoint
  BY <1>1, <1>2, <1>3, <1>4, <1>7 DEF MarkForkPoint, At, Go, Runs, Stages, Staged, Started, RunTyped
<1>8. CASE NothingToReplay
  <2>1. ref' = ref /\ db' = db /\ run' = Idle
    BY <1>8 DEF NothingToReplay, Finish
  <2> QED BY <1>1, <1>2, <2>1 DEF RunTyped, Idle, Runs, Stages, Sides, Staged, Started
<1>9. CASE StartPass
  <2>1. /\ run.pc = "pass" /\ ref["unclean"] # 0 /\ ref' = ref /\ db' = db
        /\ run' = [run EXCEPT !.pc = "lay", !.tip = ref[run.side], !.rest = Sources(run.side),
                              !.last = Max({0} \cup Sources(run.side))]
    BY <1>9 DEF StartPass, At
  <2>2. /\ Sources(run.side) \subseteq 1..Len(db)
        /\ Max({0} \cup Sources(run.side)) \in 0..Len(db)
    <3>1. run.side \in Sides
      BY <1>2
    <3>2. /\ Sources(run.side) \subseteq 1..Len(db)
          /\ Max({0} \cup Sources(run.side)) \in {0} \cup Sources(run.side)
      BY <2>1, <3>1, SourcesAre
    <3> HIDE DEF Sources
    <3> QED BY <1>1, <3>2
  <2>3. ref[run.side] \in 1..Len(db)
    BY <1>1, <1>2, <2>1, RefsAre DEF Staged, Started, Sides
  <2>4. Sources(run.side) \in SUBSET Int
    BY <2>2
  <2>5. run' \in Runs
    <3>1. ref[run.side] \in Nat /\ Max({0} \cup Sources(run.side)) \in Nat
      BY <1>1, <2>2, <2>3
    <3> QED BY <1>a, <2>1, <2>4, <3>1 DEF Runs, Stages
  <2>6. run'.pc = "lay" /\ run'.tip = ref[run.side] /\ run'.rest = Sources(run.side)
        /\ run'.last = Max({0} \cup Sources(run.side)) /\ run'.stop = run.stop
        /\ run'.mates = run.mates
    BY <1>a, <2>1 DEF Runs
  <2> QED BY <1>1, <1>2, <2>1, <2>2, <2>3, <2>5, <2>6 DEF Staged, Started, RunTyped
<1>10. CASE LaySource
  <2>1. run.pc = "lay" /\ run.rest # {} /\ ref' = ref
    BY <1>10 DEF LaySource, Working, At
  <2>2. Oldest \in 1..Len(db) /\ run.rest \subseteq 1..Len(db) /\ run.tip # 0
    BY <1>2, <2>1, OldestIs DEF Staged
  <2>3. /\ run' \in Runs /\ run'.pc = "lay" /\ run'.stop = run.stop /\ run'.last = run.last
        /\ run'.rest \subseteq run.rest
        /\ \/ run'.tip = run.tip /\ db' = db
           \/ run'.tip = Len(db) + 1 /\ Len(db') = Len(db) + 1
        /\ run'.mates \subseteq run.mates \cup {<<Oldest, Len(db) + 1>>}
        /\ (run'.mates = run.mates \/ Len(db') = Len(db) + 1)
    <3>1. db' = db \/ Len(db') = Len(db) + 1
      BY StoreGrows, <1>10 DEF Next, ForwardStep
    <3>2. CASE db' = db
      <4>1. run' = [run EXCEPT !.rest = @ \ {Oldest}]
        <5>1. Len(db') # Len(db) + 1
          BY <1>1, <3>2
        <5>2. \A c : db' # Append(db, c)
          <6>1. db \in Seq(Objects)
            BY RecordsTyped DEF Typed
          <6> QED BY <3>2, <6>1
        <5> QED BY <1>10, <5>2 DEF LaySource, Pass, Make
      <4> QED BY <1>2, <2>1, <3>2, <4>1 DEF Runs
    <3>3. CASE Len(db') = Len(db) + 1
      <4>1. \/ run' = [run EXCEPT !.tip = Len(db) + 1, !.rest = @ \ {Oldest},
                                  !.mates = @ \cup {<<Oldest, Len(db) + 1>>}]
            \/ run' = [run EXCEPT !.tip = Len(db) + 1, !.rest = @ \ {Oldest}]
        <5>1. db' # db
          BY <1>1, <3>3
        <5> QED BY <1>10, <5>1 DEF LaySource, Pass, Make
      <4>2. Len(db) + 1 \in Nat /\ Oldest \in Nat
        BY <1>1, <2>2
      <4>3. run' \in Runs
        <5>1. <<Oldest, Len(db) + 1>> \in Nat \X Nat
          BY <4>2
        <5>2. CASE run' = [run EXCEPT !.tip = Len(db) + 1, !.rest = @ \ {Oldest},
                                      !.mates = @ \cup {<<Oldest, Len(db) + 1>>}]
          BY <1>a, <4>2, <5>1, <5>2 DEF Runs
        <5>3. CASE run' = [run EXCEPT !.tip = Len(db) + 1, !.rest = @ \ {Oldest}]
          BY <1>a, <4>2, <5>3 DEF Runs
        <5> QED BY <4>1, <5>2, <5>3
      <4>4. /\ run'.pc = run.pc /\ run'.stop = run.stop /\ run'.last = run.last
            /\ run'.rest \subseteq run.rest /\ run'.tip = Len(db) + 1
            /\ run'.mates \subseteq run.mates \cup {<<Oldest, Len(db) + 1>>}
        BY <1>a, <4>1 DEF Runs
      <4> QED BY <2>1, <3>3, <4>3, <4>4
    <3> QED BY <3>1, <3>2, <3>3
  <2>4. run'.tip \in 1..Len(db')
    BY <1>1, <1>2, <2>2, <2>3
  <2>5. \A m \in run'.mates : m[2] \in 0..Len(db')
    BY <1>1, <1>2, <2>3
  <2>6. RunTyped'
    BY <1>1, <1>2, <2>3, <2>4, <2>5 DEF RunTyped
  <2>7. Staged'
    BY <1>1, <1>2, <2>1, <2>2, <2>3, <2>4 DEF Staged, Started
  <2> QED BY <1>1, <1>2, <2>1, <2>6, <2>7
<1>11. CASE StopAtMerge
  <2>1. run.pc = "lay" /\ run.rest # {} /\ db' = db /\ db[Oldest].merged # 0
        /\ ref' = [ref EXCEPT ![run.side] = run.tip]
        /\ run' = [run EXCEPT !.pc = "asked", !.stop = Oldest, !.last = 0, !.tip = 0, !.rest = {}]
    BY <1>11 DEF StopAtMerge, Working, At, InTheWay, IsMerge, MoveTo
  <2>2. Oldest \in 1..Len(db)
    BY <1>2, <2>1, OldestIs DEF Staged
  <2>3. run.side \in RefNames /\ run.tip # 0
    BY <1>2, <2>1, RefsAre DEF Staged
  <2>4. RunTyped'
    <3>1. Oldest \in Nat
      BY <1>1, <2>2
    <3>2. /\ run' \in Runs /\ run'.stop = Oldest /\ run'.last = 0 /\ run'.tip = 0
          /\ run'.mates = run.mates
      BY <1>a, <2>1, <3>1 DEF Runs, Stages
    <3> QED BY <1>1, <1>2, <2>1, <2>2, <3>2 DEF RunTyped
  <2>5. run'.pc = "asked" /\ run'.stop = Oldest
    BY <1>2, <2>1 DEF Runs
  <2>6. Staged'
    BY <1>1, <1>2, <1>3, <2>1, <2>2, <2>3, <2>5 DEF Staged, Started
  <2> QED BY <1>2, <2>1, <2>3, <2>4, <2>6
<1>12. CASE EndPass
  <2>1. run.pc = "lay" /\ db' = db
        /\ ref' = [ref EXCEPT ![run.side] = run.tip]
        /\ run' = [run EXCEPT !.pc = "cursor", !.tip = 0]
    BY <1>12 DEF EndPass, Worked, At, MoveTo
  <2>2. run.side \in RefNames /\ run.tip # 0
    BY <1>2, <2>1, RefsAre DEF Staged
  <2>3. RunTyped'
    <3>1. /\ run' \in Runs /\ run'.stop = run.stop /\ run'.last = run.last /\ run'.tip = 0
          /\ run'.mates = run.mates
      BY <1>a, <2>1 DEF Runs, Stages
    <3> QED BY <1>1, <1>2, <2>1, <3>1 DEF RunTyped
  <2>4. Staged'
    BY <1>1, <1>2, <1>3, <2>1, <2>2 DEF Staged, Started, Runs
  <2> QED BY <1>2, <2>1, <2>2, <2>3, <2>4
<1>13. CASE MoveForwardCursor
  <2>1. run.pc = "cursor" /\ db' = db
    BY <1>13 DEF MoveForwardCursor, At
  <2>2. ref' = ref \/ ref' = [ref EXCEPT ![Fwd(run.side)] = run.last]
    BY <1>13 DEF MoveForwardCursor
  <2>3. \/ run' = [run EXCEPT !.pc = "pass", !.side = "history", !.last = 0]
        \/ run' = Idle
    BY <1>13 DEF MoveForwardCursor, Finish
  <2>4. Fwd(run.side) \in {"fwdClean", "fwdHistory"}
    BY DEF Fwd
  <2>5. /\ ref' \in [RefNames -> 0..Len(db')]
        /\ ref'["clean"] = ref["clean"] /\ ref'["history"] = ref["history"]
    BY <1>1, <1>2, <1>3, <2>1, <2>2, <2>4
  <2>6. ref["clean"] # 0 /\ ref["history"] # 0
    BY <1>2, <2>1 DEF Staged, Started
  <2>7. CASE run' = [run EXCEPT !.pc = "pass", !.side = "history", !.last = 0]
    <3>1. /\ run' \in Runs /\ run'.stop = run.stop /\ run'.last = 0
          /\ run'.tip = run.tip /\ run'.mates = run.mates /\ run'.pc = "pass"
      BY <1>a, <2>7 DEF Runs, Stages, Sides
    <3> QED BY <1>1, <1>2, <2>1, <2>5, <2>6, <3>1 DEF RunTyped, Staged, Started
  <2>8. CASE run' = Idle
    BY <1>1, <2>1, <2>5, <2>8 DEF RunTyped, Runs, Stages, Sides, Idle, Staged, Started
  <2> QED BY <2>3, <2>7, <2>8
<1>14. CASE AnswerFake \/ AnswerAbort
  <2>1. db' = db /\ ref' = ref /\ (run' = StartOver(TRUE) \/ run' = Idle)
    BY <1>14 DEF AnswerFake, AnswerAbort, Finish
  <2>2. CASE run' = StartOver(TRUE)
    <3>1. /\ run' \in Runs /\ run'.pc = "clean" /\ run'.tip = run.tip /\ run'.stop = 0
          /\ run'.last = 0 /\ run'.mates = {}
      BY <2>2, StartOverTyped
    <3> QED BY <1>1, <1>2, <2>1, <3>1 DEF Staged, Started, RunTyped
  <2>3. CASE run' = Idle
    BY <1>1, <1>2, <2>1, <2>3 DEF RunTyped, Runs, Stages, Sides, Idle, Staged, Started
  <2> QED BY <2>1, <2>2, <2>3
<1>15. CASE AnswerAttempt \/ MergeByHand \/ AnswerManual
  <2>1. run.pc \in {"asked", "merged"}
    BY <1>15 DEF AnswerAttempt, MergeByHand, AnswerManual, Answered, At
  <2>2. db' = db \/ Len(db') = Len(db) + 1
    BY <1>15, StoreGrows DEF Next, ForwardStep
  <2>3. run.side \in RefNames /\ run.side \in {"clean", "history"}
    BY <1>2, RefsAre DEF Sides
  <2>4. CASE ref' = [ref EXCEPT ![run.side] = Len(db) + 1] /\ Len(db') = Len(db) + 1
             /\ run' = [run EXCEPT !.pc = "resolved"]
    <3>1. ref' \in [RefNames -> 0..Len(db')]
      BY <1>1, <1>2, <2>3, <2>4
    <3>2. RunTyped'
      BY <1>1, <1>2, <2>4 DEF RunTyped, Runs, Stages
    <3>3. Staged'
      BY <1>1, <1>2, <1>3, <2>1, <2>3, <2>4 DEF Staged, Started, Runs
    <3> QED BY <3>1, <3>2, <3>3
  <2>5. CASE ref' = [ref EXCEPT ![run.side] = Len(db) + 1] /\ Len(db') = Len(db) + 1
             /\ run' = [run EXCEPT !.pc = "merged"]
    <3>1. ref' \in [RefNames -> 0..Len(db')]
      BY <1>1, <1>2, <2>3, <2>5
    <3>2. RunTyped'
      BY <1>1, <1>2, <2>5 DEF RunTyped, Runs, Stages
    <3>3. Staged'
      BY <1>1, <1>2, <1>3, <2>1, <2>3, <2>5 DEF Staged, Started, Runs
    <3> QED BY <3>1, <3>2, <3>3
  <2>6. CASE ref' = ref /\ db' = db /\ (run' = run \/ run' = Idle)
    <3>1. CASE run' = Idle
      BY <1>1, <1>2, <2>6, <3>1 DEF RunTyped, Runs, Stages, Sides, Idle, Staged, Started
    <3>2. CASE run' = run
      <4>1. run'.pc = "asked" \/ run'.pc = "merged"
        BY <2>1, <3>2
      <4> QED BY <1>2, <2>6, <3>2, <4>1 DEF RunTyped, Staged, Started
    <3> QED BY <2>6, <3>1, <3>2
  <2>7. \/ ref' = [ref EXCEPT ![run.side] = Len(db) + 1] /\ Len(db') = Len(db) + 1
           /\ (run' = [run EXCEPT !.pc = "resolved"] \/ run' = [run EXCEPT !.pc = "merged"])
        \/ ref' = ref /\ db' = db /\ (run' = run \/ run' = Idle)
    <3>1. db \in Seq(Objects)
      BY RecordsTyped DEF Typed
    <3>2. \A c : Len(Append(db, c)) = Len(db) + 1
      BY <3>1
    <3>3. CASE AnswerAttempt
      BY <3>2, <3>3 DEF AnswerAttempt, Go, Finish
    <3>4. CASE MergeByHand
      BY <3>2, <3>4 DEF MergeByHand, Go
    <3>5. CASE AnswerManual
      BY <3>2, <3>5 DEF AnswerManual, Go
    <3> QED BY <1>15, <3>3, <3>4, <3>5
  <2> QED BY <2>4, <2>5, <2>6, <2>7
<1>16. CASE MergeResolved
  <2>1. db' = db /\ ref' = [ref EXCEPT ![Fwd(run.side)] = run.stop] /\ run' = StartOver(run.fake)
        /\ run.fake \in BOOLEAN
    BY <1>2, <1>16 DEF MergeResolved, Runs
  <2>2. Fwd(run.side) \in RefNames
    BY <1>2, RefsAre
  <2>3. run'.pc = "clean" /\ RunTyped'
    BY <1>1, <1>2, <2>1, StartOverTyped DEF RunTyped
  <2> QED BY <1>1, <1>2, <2>1, <2>2, <2>3 DEF Staged, Started
<1> QED BY <1>5, <1>6, <1>7, <1>8, <1>9, <1>10, <1>11, <1>12, <1>13, <1>14, <1>15, <1>16
     DEF ForwardStep

LEMMA ReverseTyped ==
  ASSUME Typed, ReverseStep
  PROVE  ref' \in [RefNames -> 0..Len(db')] /\ RunTyped' /\ Staged'
<1>1. /\ Len(db) \in Nat /\ Len(db') \in Nat /\ 0..Len(db) \subseteq 0..Len(db')
      /\ 1..Len(db) \subseteq 1..Len(db')
  BY RefsAre, StaysRead DEF Next
<1>2. run \in Runs
  BY DEF Typed
<1>3. ref \in [RefNames -> 0..Len(db)]
  BY DEF Typed
<1>4. /\ run.tip \in 0..Len(db) /\ run.stop \in 0..Len(db) /\ run.last \in 0..Len(db)
      /\ \A m \in run.mates : m[2] \in 0..Len(db)
  BY DEF Typed
<1>5. Staged
  BY DEF Typed
<1>6. {"unclean", "clean", "history", "fork", "fwdClean", "fwdHistory", "revClean", "revHistory"}
        = RefNames
  BY DEF RefNames
<1>7. Main \in 1..Len(db) /\ HistoryMain \in 1..Len(db)
  BY RefsAre, StoreTyped
<1>8. db' = db \/ Len(db') = Len(db) + 1
  BY StoreGrows DEF Next
<1>9. \A c : Len(Append(db, c)) = Len(db) + 1
  <2>1. db \in Seq(Objects)
    BY RecordsTyped DEF Typed
  <2> QED BY <2>1
<1>10. ASSUME run' = Idle, ref' \in [RefNames -> 0..Len(db')]
       PROVE  RunTyped' /\ Staged'
  BY <1>1, <1>10 DEF RunTyped, Runs, Stages, Sides, Idle, Staged, Started
<1>11. CASE CreateHistory
  <2>1. /\ db' = db
        /\ ref' \in [RefNames -> 0..Len(db')]
    BY <1>3, <1>6, <1>7, <1>11 DEF CreateHistory
  <2>2. \/ run' = Idle
        \/ run' = [run EXCEPT !.pc = "bootFork"]
        \/ run' = [run EXCEPT !.pc = "rebuild"]
    BY <1>11 DEF CreateHistory, Finish, Go
  <2>3. ASSUME run' = [run EXCEPT !.pc = "bootFork"] \/ run' = [run EXCEPT !.pc = "rebuild"]
        PROVE  RunTyped' /\ Staged'
    <3>1. /\ run' \in Runs /\ run'.pc \in {"bootFork", "rebuild"} /\ run'.tip = run.tip
          /\ run'.stop = run.stop /\ run'.last = run.last /\ run'.mates = run.mates
      BY <1>2, <2>3 DEF Runs, Stages
    <3> QED BY <1>1, <1>4, <2>1, <3>1 DEF RunTyped, Staged, Started
  <2> QED BY <1>10, <2>1, <2>2, <2>3
<1>12. CASE ReadSides
  <2>1. CASE run' = Idle /\ ref' = ref /\ db' = db
    BY <1>3, <1>10, <2>1
  <2>2. CASE /\ ref' = [ref EXCEPT !["unclean"] = IF @ = 0 THEN Main ELSE @] /\ db' = db
             /\ run' = [run EXCEPT !.pc = "rewrite",
                                   !.todo = IF run.rewrite THEN Divergences ELSE {}]
    <3>1. ref' \in [RefNames -> 0..Len(db')] /\ ref'["unclean"] # 0
      BY <1>3, <1>6, <1>7, <2>2
    <3>2. (IF run.rewrite THEN Divergences ELSE {}) \in SUBSET [at : Nat, old : Nat, tree : Trees]
      BY DivergencesTyped
    <3>3. /\ run' \in Runs /\ run'.pc = "rewrite" /\ run'.tip = run.tip
          /\ run'.stop = run.stop /\ run'.last = run.last /\ run'.mates = run.mates
      BY <1>2, <2>2, <3>2 DEF Runs, Stages
    <3> QED BY <1>1, <1>4, <2>2, <3>1, <3>3 DEF RunTyped, Staged, Started
  <2> QED BY <1>12, <2>1, <2>2 DEF ReadSides, Finish
<1>13. CASE RewriteDiverged
  <2>1. ref' = ref /\ run.pc = "rewrite"
    BY <1>13 DEF RewriteDiverged, At
  <2>2. PICK next \in run.todo :
          \/ db' = db /\ run' = Idle
          \/ /\ Len(db') = Len(db) + 1
             /\ run' = [run EXCEPT !.pc = "again", !.tip = Len(db) + 1, !.todo = @ \ {next},
                                   !.rest = {i \in Past("unclean") : i > next.old}]
    BY <1>9, <1>13 DEF RewriteDiverged, Finish
  <2>3. CASE run' = Idle
    BY <1>1, <1>3, <1>10, <2>1, <2>3
  <2>4. CASE /\ Len(db') = Len(db) + 1
             /\ run' = [run EXCEPT !.pc = "again", !.tip = Len(db) + 1, !.todo = @ \ {next},
                                   !.rest = {i \in Past("unclean") : i > next.old}]
    <3>1. {i \in Past("unclean") : i > next.old} \subseteq 1..Len(db)
      <4>1. Past("unclean") \subseteq 1..Len(db)
        BY RefsAre, LineOfIs DEF Past, RefNames, Typed
      <4> QED BY <4>1
    <3>2. {i \in Past("unclean") : i > next.old} \in SUBSET Int /\ Len(db) + 1 \in Nat
      BY <1>1, <3>1
    <3>3. /\ run' \in Runs /\ run'.pc = "again" /\ run'.tip = Len(db) + 1
          /\ run'.rest = {i \in Past("unclean") : i > next.old}
          /\ run'.stop = run.stop /\ run'.last = run.last /\ run'.mates = run.mates
      BY <1>2, <2>4, <3>2 DEF Runs, Stages
    <3>4. RunTyped'
      BY <1>1, <1>4, <2>4, <3>3 DEF RunTyped
    <3>5. run'.rest \subseteq 1..Len(db') /\ ref["unclean"] # 0 /\ run'.tip # 0
      BY <1>1, <1>5, <2>1, <3>1, <3>3 DEF Staged
    <3> QED BY <1>1, <1>3, <2>1, <3>3, <3>4, <3>5 DEF Staged, Started
  <2> QED BY <1>1, <1>3, <2>1, <2>2, <2>3, <2>4
<1>14. CASE ApplyAgain
  <2>1. /\ ref' = ref /\ run.pc = "again" /\ Len(db') = Len(db) + 1
        /\ run' = [run EXCEPT !.tip = Len(db) + 1, !.rest = @ \ {Oldest}]
    BY <1>9, <1>14 DEF ApplyAgain, Working, At, Make
  <2>2. run.rest \subseteq 1..Len(db) /\ ref["unclean"] # 0
    BY <1>5, <2>1 DEF Staged
  <2>3. /\ run' \in Runs /\ run'.pc = "again" /\ run'.tip = Len(db) + 1
        /\ run'.rest \subseteq run.rest
        /\ run'.stop = run.stop /\ run'.last = run.last /\ run'.mates = run.mates
    BY <1>1, <1>2, <2>1 DEF Runs
  <2>4. RunTyped'
    BY <1>1, <1>4, <2>1, <2>3 DEF RunTyped
  <2>5. run'.rest \subseteq 1..Len(db') /\ run'.tip # 0
    BY <1>1, <2>2, <2>3
  <2> QED BY <1>1, <1>3, <2>1, <2>2, <2>3, <2>4, <2>5 DEF Staged, Started
<1>15. CASE Rewritten
  <2>1. /\ run.pc = "again" /\ ref' = [ref EXCEPT !["unclean"] = run.tip] /\ db' = db
        /\ run' = [run EXCEPT !.pc = "rewrite", !.tip = 0]
    BY <1>15 DEF Rewritten, Worked, At, MoveTo
  <2>2. ref' \in [RefNames -> 0..Len(db')] /\ ref'["unclean"] # 0
    BY <1>3, <1>4, <1>5, <1>6, <2>1 DEF Staged
  <2>3. /\ run' \in Runs /\ run'.pc = "rewrite" /\ run'.tip = 0
        /\ run'.stop = run.stop /\ run'.last = run.last /\ run'.mates = run.mates
    BY <1>2, <2>1 DEF Runs, Stages
  <2> QED BY <1>1, <1>4, <2>1, <2>2, <2>3 DEF RunTyped, Staged, Started
<1>16. CASE StartRebuild
  <2>1. /\ run.pc = "rewrite" /\ ref' = ref /\ db' = db
        /\ run' = [run EXCEPT !.pc = "build", !.tip = ref["unclean"], !.rest = Items]
    BY <1>16 DEF StartRebuild, At
  <2>2. Items \subseteq NewKeys /\ NewKeys \subseteq Int /\ NewKeys' = NewKeys
    <3>1. Items \subseteq NewKeys
      BY DEF Items, NewKeys
    <3>2. NewKeys' = NewKeys
      BY <1>16, <2>1, NewKeysStay DEF Next
    <3>3. ASSUME NEW i \in NewOn("clean") \cup NewOn("history") PROVE NewKey(i) \in Int
      <4>1. i \in 1..Len(db)
        BY NewOnIs DEF Sides
      <4>2. \A j \in 1..Len(db) : db[j].note.source \in Nat
        BY RecordsTyped DEF Typed, Notes
      <4>3. Naming(i, NewOn("history")) # {} => Min(Naming(i, NewOn("history"))) \in 1..Len(db)
        <5>1. Naming(i, NewOn("history")) \subseteq 1..Len(db)
          BY NewOnIs DEF Sides, Naming
        <5>2. Naming(i, NewOn("history")) \in SUBSET Nat
          BY <1>1, <5>1
        <5> QED BY <5>1, <5>2, MinIs
      <4>4. Source(i, NewOn("history")) \in Nat
        BY <4>1, <4>2, <4>3 DEF Source
      <4> QED BY <1>1, <4>1, <4>4 DEF NewKey, Key
    <3> QED BY <3>1, <3>2, <3>3 DEF NewKeys
  <2>3. ref["unclean"] # 0 /\ ref["unclean"] \in 0..Len(db)
    BY <1>3, <1>5, <1>6, <2>1 DEF Staged
  <2>4. Items \in SUBSET Int /\ ref["unclean"] \in Nat
    BY <1>1, <2>2, <2>3
  <2>5. /\ run' \in Runs /\ run'.pc = "build" /\ run'.tip = ref["unclean"]
        /\ run'.rest = Items
        /\ run'.stop = run.stop /\ run'.last = run.last /\ run'.mates = run.mates
    BY <1>2, <2>1, <2>4 DEF Runs, Stages
  <2>6. RunTyped'
    BY <1>4, <2>1, <2>3, <2>5 DEF RunTyped
  <2> QED BY <1>3, <2>1, <2>2, <2>3, <2>5, <2>6 DEF Staged, Started
<1>17. CASE BuildItem
  <2>1. ref' = ref /\ run.pc = "build" /\ NewKeys' = NewKeys
    BY <1>17, NewKeysStay DEF BuildItem, Working, At, Next, ReverseStep
  <2>2. PICK key \in run.rest :
           /\ Len(db') = Len(db) + 1
           /\ run' = [run EXCEPT !.tip = Len(db) + 1, !.rest = @ \ {key}]
    BY <1>9, <1>17 DEF BuildItem, Make
  <2>3. run.rest \subseteq NewKeys /\ ref["unclean"] # 0
    BY <1>5, <2>1 DEF Staged
  <2>4. /\ run' \in Runs /\ run'.pc = "build" /\ run'.tip = Len(db) + 1
        /\ run'.rest \subseteq run.rest
        /\ run'.stop = run.stop /\ run'.last = run.last /\ run'.mates = run.mates
    BY <1>1, <1>2, <2>1, <2>2 DEF Runs
  <2>5. RunTyped'
    BY <1>1, <1>4, <2>2, <2>4 DEF RunTyped
  <2>6. run'.rest \subseteq NewKeys' /\ run'.tip # 0
    BY <1>1, <2>1, <2>3, <2>4
  <2> QED BY <1>1, <1>3, <2>1, <2>3, <2>4, <2>5, <2>6 DEF Staged, Started
<1>18. CASE RebuildUnclean
  <2>1. /\ run.pc = "build" /\ ref' = [ref EXCEPT !["unclean"] = run.tip] /\ db' = db
        /\ run' = [run EXCEPT !.pc = "revClean", !.tip = 0]
    BY <1>18 DEF RebuildUnclean, Worked, At, MoveTo
  <2>2. ref' \in [RefNames -> 0..Len(db')]
    BY <1>3, <1>4, <2>1
  <2>3. /\ run' \in Runs /\ run'.pc = "revClean" /\ run'.tip = 0
        /\ run'.stop = run.stop /\ run'.last = run.last /\ run'.mates = run.mates
    BY <1>2, <2>1 DEF Runs, Stages
  <2> QED BY <1>1, <1>4, <2>1, <2>2, <2>3 DEF RunTyped, Staged, Started
<1>19. CASE MoveReverseCursor
  <2>1. /\ db' = db /\ ref' \in [RefNames -> 0..Len(db')]
    <3>1. PICK side \in Sides :
             ref' = [ref EXCEPT ![Rev(side)] = IF ref[side] = 0 THEN @ ELSE ref[side]]
      BY <1>19 DEF MoveReverseCursor, Sides
    <3>2. side \in RefNames /\ Rev(side) \in RefNames /\ db' = db
      BY <1>19, RefsAre DEF MoveReverseCursor
    <3> QED BY <1>3, <3>1, <3>2
  <2>2. run' = [run EXCEPT !.pc = "revHistory"] \/ run' = Idle
    BY <1>19 DEF MoveReverseCursor, Go, Finish
  <2>3. CASE run' = [run EXCEPT !.pc = "revHistory"]
    <3>1. /\ run' \in Runs /\ run'.pc = "revHistory" /\ run'.tip = run.tip
          /\ run'.stop = run.stop /\ run'.last = run.last /\ run'.mates = run.mates
      BY <1>2, <2>3 DEF Runs, Stages
    <3> QED BY <1>1, <1>4, <2>1, <3>1 DEF RunTyped, Staged, Started
  <2> QED BY <1>10, <2>1, <2>2, <2>3
<1> QED BY <1>11, <1>12, <1>13, <1>14, <1>15, <1>16, <1>17, <1>18, <1>19 DEF ReverseStep

LEMMA OtherTyped ==
  ASSUME Typed, \/ SyncToCleanHistory \/ SyncToUnclean \/ BootstrapBranch
                \/ RebaseStep \/ Crash \/ Undo \/ AuthorStep
  PROVE  ref' \in [RefNames -> 0..Len(db')] /\ RunTyped' /\ Staged'
<1>1. /\ Len(db) \in Nat /\ Len(db') \in Nat /\ 0..Len(db) \subseteq 0..Len(db')
      /\ 1..Len(db) \subseteq 1..Len(db')
  BY RefsAre, StaysRead DEF Next
<1>2. run \in Runs
  BY DEF Typed
<1>3. ref \in [RefNames -> 0..Len(db)]
  BY DEF Typed
<1>4. /\ run.tip \in 0..Len(db) /\ run.stop \in 0..Len(db) /\ run.last \in 0..Len(db)
      /\ \A m \in run.mates : m[2] \in 0..Len(db)
  BY DEF Typed
<1>5. Staged
  BY DEF Typed
<1>6. {"unclean", "clean", "history"} \subseteq RefNames
  BY DEF RefNames
<1>7. \A c : Len(Append(db, c)) = Len(db) + 1
  <2>1. db \in Seq(Objects)
    BY RecordsTyped DEF Typed
  <2> QED BY <2>1
<1>8. ASSUME run' = Idle, ref' \in [RefNames -> 0..Len(db')]
      PROVE  RunTyped' /\ Staged'
  BY <1>1, <1>8 DEF RunTyped, Runs, Stages, Sides, Idle, Staged, Started
<1>9. ASSUME run.pc = "idle", run' = run, ref' \in [RefNames -> 0..Len(db')]
      PROVE  RunTyped' /\ Staged'
  BY <1>1, <1>2, <1>4, <1>9 DEF RunTyped, Staged, Started
<1>10. CASE SyncToCleanHistory \/ SyncToUnclean \/ BootstrapBranch
  <2>1. db' = db /\ ref' = ref
    BY <1>10 DEF SyncToCleanHistory, SyncToUnclean, BootstrapBranch, Start
  <2>2. \/ \E flag \in Flags : run' = [Idle EXCEPT !.pc = "clean", !.flag = flag,
                                                   !.fake = (flag = "fake")]
        \/ \E rewrite \in Rewrites : run' = [Idle EXCEPT !.pc = "rebuild", !.rewrite = rewrite]
        \/ run' = [Idle EXCEPT !.pc = "boot"]
    BY <1>10 DEF SyncToCleanHistory, SyncToUnclean, BootstrapBranch, Start
  <2>3. /\ run' \in Runs /\ run'.pc \in {"clean", "rebuild", "boot"} /\ run'.tip = 0
        /\ run'.stop = 0 /\ run'.last = 0 /\ run'.mates = {}
    <3>1. ASSUME NEW flag \in Flags,
                 run' = [Idle EXCEPT !.pc = "clean", !.flag = flag, !.fake = (flag = "fake")]
          PROVE  /\ run' \in Runs /\ run'.pc = "clean" /\ run'.tip = 0
                 /\ run'.stop = 0 /\ run'.last = 0 /\ run'.mates = {}
      BY <3>1 DEF Idle, Runs, Stages, Sides
    <3>2. ASSUME NEW rewrite \in Rewrites,
                 run' = [Idle EXCEPT !.pc = "rebuild", !.rewrite = rewrite]
          PROVE  /\ run' \in Runs /\ run'.pc = "rebuild" /\ run'.tip = 0
                 /\ run'.stop = 0 /\ run'.last = 0 /\ run'.mates = {}
      BY <3>2 DEF Idle, Runs, Stages, Sides
    <3>3. ASSUME run' = [Idle EXCEPT !.pc = "boot"]
          PROVE  /\ run' \in Runs /\ run'.pc = "boot" /\ run'.tip = 0
                 /\ run'.stop = 0 /\ run'.last = 0 /\ run'.mates = {}
      BY <3>3 DEF Idle, Runs, Stages, Sides
    <3> QED BY <2>2, <3>1, <3>2, <3>3
  <2> QED BY <1>1, <1>3, <2>1, <2>3 DEF RunTyped, Staged, Started
<1>11. CASE RebaseBranches
  <2> DEFINE Rest == {i \in Past("unclean") \ Past("history") : db[i].merged = 0}
  <2>1. /\ db' = db /\ ref' = ref /\ ref["history"] # 0
        /\ run' = [Idle EXCEPT !.pc = "rebase", !.tip = ref["history"], !.rest = Rest]
    BY <1>11 DEF RebaseBranches, Start
  <2>2. Past("unclean") \subseteq 1..Len(db)
    BY RefsAre, LineOfIs DEF Past, RefNames, Typed
  <2>3. Rest \subseteq 1..Len(db) /\ ref["history"] \in 0..Len(db)
    BY <1>3, <1>6, <2>2
  <2> HIDE DEF Rest
  <2>4. Rest \in SUBSET Int /\ ref["history"] \in Nat
    BY <1>1, <2>3
  <2>5. /\ run' \in Runs /\ run'.pc = "rebase" /\ run'.tip = ref["history"] /\ run'.rest = Rest
        /\ run'.stop = 0 /\ run'.last = 0 /\ run'.mates = {}
    BY <2>1, <2>4 DEF Idle, Runs, Stages, Sides
  <2> QED BY <1>1, <1>3, <2>1, <2>3, <2>5 DEF RunTyped, Staged, Started
<1>12. CASE Reapply
  <2>1. /\ run.pc = "rebase" /\ ref' = ref
        /\ \/ run' = Idle
           \/ run' = [run EXCEPT !.rest = @ \ {Oldest}]
           \/ Len(db') = Len(db) + 1 /\ run' = [run EXCEPT !.tip = Len(db) + 1, !.rest = @ \ {Oldest}]
    BY <1>7, <1>12 DEF Reapply, Working, At, Pass, Make, Finish
  <2>2. ref' \in [RefNames -> 0..Len(db')]
    BY <1>1, <1>3, <2>1
  <2>3. run.rest \subseteq 1..Len(db) /\ run.tip # 0
    BY <1>5, <2>1 DEF Staged
  <2>4. CASE run' = [run EXCEPT !.rest = @ \ {Oldest}]
    <3>1. /\ run' \in Runs /\ run'.pc = "rebase" /\ run'.tip = run.tip /\ run'.rest \subseteq run.rest
          /\ run'.stop = run.stop /\ run'.last = run.last /\ run'.mates = run.mates
      BY <1>2, <2>1, <2>4 DEF Runs
    <3>2. run.tip \in 0..Len(db') /\ run.rest \subseteq 1..Len(db')
      BY <1>1, <1>4, <2>3 DEF RunTyped
    <3> QED BY <1>1, <1>4, <2>1, <2>2, <2>3, <3>1, <3>2 DEF RunTyped, Staged, Started
  <2>5. CASE Len(db') = Len(db) + 1 /\ run' = [run EXCEPT !.tip = Len(db) + 1, !.rest = @ \ {Oldest}]
    <3>1. /\ run' \in Runs /\ run'.pc = "rebase" /\ run'.tip = Len(db) + 1
          /\ run'.rest \subseteq run.rest
          /\ run'.stop = run.stop /\ run'.last = run.last /\ run'.mates = run.mates
      BY <1>1, <1>2, <2>1, <2>5 DEF Runs
    <3> QED BY <1>1, <1>4, <2>1, <2>2, <2>3, <2>5, <3>1 DEF RunTyped, Staged, Started
  <2> QED BY <1>8, <2>1, <2>2, <2>4, <2>5
<1>13. CASE EndRebase
  <2>1. db' = db /\ ref' = [ref EXCEPT !["unclean"] = run.tip] /\ run' = Idle
    BY <1>13 DEF EndRebase, MoveTo
  <2> QED BY <1>3, <1>4, <1>8, <2>1
<1>14. CASE Crash
  BY <1>3, <1>8, <1>14 DEF Crash, Finish
<1>15. CASE Undo
  <2>1. run.pc = "idle" /\ run' = run /\ db' = db /\ ref' = logged /\ logged # <<>>
    BY <1>15 DEF Undo, At
  <2>2. ref' \in [RefNames -> 0..Len(db')]
    BY <2>1 DEF Typed
  <2> QED BY <1>9, <2>1, <2>2
<1>16. ASSUME NEW r \in RefNames, NEW c, Extend(r, c)
       PROVE  ref' \in [RefNames -> 0..Len(db')] /\ RunTyped' /\ Staged'
  <2>1. /\ run.pc = "idle" /\ run' = run /\ Len(db') = Len(db) + 1
        /\ ref' = [ref EXCEPT ![r] = Len(db) + 1]
    BY <1>7, <1>16 DEF Extend, At
  <2>2. ref' \in [RefNames -> 0..Len(db')]
    BY <1>1, <1>3, <2>1
  <2> QED BY <1>9, <2>1, <2>2
<1>17. CASE AuthorStep
  <2>1. ASSUME NEW r \in {"unclean", "clean", "history"}, AuthorCommit(r)
        PROVE  \E q \in RefNames : \E c : Extend(q, c)
    <3>1. PICK c : Extend(r, c)
      BY <2>1 DEF AuthorCommit
    <3> QED BY <1>6, <3>1
  <2>2. ASSUME MergeIntoUnclean PROVE \E q \in RefNames : \E c : Extend(q, c)
    <3>1. PICK c : Extend("unclean", c)
      BY <2>2 DEF MergeIntoUnclean
    <3> QED BY <1>6, <3>1
  <2>3. ASSUME NEW side \in Sides, Amend(side) PROVE \E q \in RefNames : \E c : Extend(q, c)
    <3>1. PICK c : Extend(side, c)
      BY <2>3 DEF Amend
    <3>2. side \in RefNames
      BY RefsAre
    <3> QED BY <3>1, <3>2
  <2>4. ASSUME Push PROVE run.pc = "idle" /\ run' = run /\ ref' = ref /\ db' = db
    BY <2>4 DEF Push, At
  <2> QED BY <1>3, <1>9, <1>16, <1>17, <2>1, <2>2, <2>3, <2>4 DEF AuthorStep
<1> QED BY <1>10, <1>11, <1>12, <1>13, <1>14, <1>15, <1>17 DEF RebaseStep

\* Whatever a step does, its refs and records stay records of the store.
LEMMA TypedNext ==
  ASSUME Typed, [Next]_vars
  PROVE  Typed'
<1>1. WellFormed(db') /\ Grown(Store, db') /\ 0..Len(db) \subseteq 0..Len(db')
  BY StoreGrows, StaysRead
<1>2. CASE UNCHANGED vars
  <2>1. NewKeys' = NewKeys
    BY <1>2, NewKeysStay DEF vars
  <2> QED BY <1>2, <2>1 DEF vars, Typed, Staged
<1>3. CASE Next
  <2>1. ref' \in [RefNames -> 0..Len(db')] /\ RunTyped' /\ Staged'
    BY <1>3, ForwardTyped, ReverseTyped, OtherTyped DEF Next
  <2>2. logged' # <<>> => logged' \in [RefNames -> 0..Len(db')]
    <3>1. logged' = logged \/ logged' = ref \/ logged' = <<>>
      BY <1>3 DEF Next, ForwardStep, ReverseStep, RebaseStep, AuthorStep, EnsureClean, EnsureHistory,
       MarkForkPoint, NothingToReplay, StartPass, LaySource, StopAtMerge, EndPass, MoveForwardCursor,
       AnswerFake, AnswerAbort, AnswerAttempt, MergeByHand, AnswerManual, MergeResolved,
       CreateHistory, ReadSides, RewriteDiverged, ApplyAgain, Rewritten, StartRebuild, BuildItem,
       RebuildUnclean, MoveReverseCursor, RebaseBranches, Reapply, EndRebase, Push,
       SyncToCleanHistory, SyncToUnclean, BootstrapBranch, Crash, Undo, Start, AuthorCommit,
       MergeIntoUnclean, Amend, Extend
    <3> QED BY <1>1, <3>1 DEF Typed
  <2>3. origin' \in 0..Len(db')
    <3>1. origin' = origin \/ origin' = ref["clean"]
      BY <1>3 DEF Next, ForwardStep, ReverseStep, RebaseStep, AuthorStep, EnsureClean, EnsureHistory,
       MarkForkPoint, NothingToReplay, StartPass, LaySource, StopAtMerge, EndPass, MoveForwardCursor,
       AnswerFake, AnswerAbort, AnswerAttempt, MergeByHand, AnswerManual, MergeResolved,
       CreateHistory, ReadSides, RewriteDiverged, ApplyAgain, Rewritten, StartRebuild, BuildItem,
       RebuildUnclean, MoveReverseCursor, RebaseBranches, Reapply, EndRebase, Push,
       SyncToCleanHistory, SyncToUnclean, BootstrapBranch, Crash, Undo, Start, AuthorCommit,
       MergeIntoUnclean, Amend, Extend
    <3> QED BY <1>1, <3>1, RefsAre DEF Typed, RefNames
  <2>4. foreign' \in BOOLEAN
    <3>1. \/ foreign' = foreign \/ foreign' = TRUE
          \/ foreign' = (foreign \/ run.fake)
          \/ \E r \in {"unclean", "clean", "history"} : foreign' = (foreign \/ r # "unclean")
      BY <1>3 DEF Next, ForwardStep, ReverseStep, RebaseStep, AuthorStep, EnsureClean, EnsureHistory,
       MarkForkPoint, NothingToReplay, StartPass, LaySource, StopAtMerge, EndPass, MoveForwardCursor,
       AnswerFake, AnswerAbort, AnswerAttempt, MergeByHand, AnswerManual, MergeResolved,
       CreateHistory, ReadSides, RewriteDiverged, ApplyAgain, Rewritten, StartRebuild, BuildItem,
       RebuildUnclean, MoveReverseCursor, RebaseBranches, Reapply, EndRebase, Push,
       SyncToCleanHistory, SyncToUnclean, BootstrapBranch, Crash, Undo, Start, AuthorCommit,
       MergeIntoUnclean, Amend, Extend
    <3> QED BY <3>1 DEF Typed
  <2>5. broken' \in BOOLEAN
    <3>1. broken' = broken \/ broken' = TRUE
      BY <1>3 DEF Next, ForwardStep, ReverseStep, RebaseStep, AuthorStep, EnsureClean, EnsureHistory,
       MarkForkPoint, NothingToReplay, StartPass, LaySource, StopAtMerge, EndPass, MoveForwardCursor,
       AnswerFake, AnswerAbort, AnswerAttempt, MergeByHand, AnswerManual, MergeResolved,
       CreateHistory, ReadSides, RewriteDiverged, ApplyAgain, Rewritten, StartRebuild, BuildItem,
       RebuildUnclean, MoveReverseCursor, RebaseBranches, Reapply, EndRebase, Push,
       SyncToCleanHistory, SyncToUnclean, BootstrapBranch, Crash, Undo, Start, AuthorCommit,
       MergeIntoUnclean, Amend, Extend
    <3> QED BY <3>1 DEF Typed
  <2> QED BY <1>1, <2>1, <2>2, <2>3, <2>4, <2>5 DEF Typed, RunTyped
<1> QED BY <1>2, <1>3

\* The refs of the branch, of the recovery log and of the invocation name commits of the
\* store, every commit comes after its parents and carries its own past, and a merge's
\* past holds that of both its parents.
THEOREM SplitTyped == Spec => []TypeOK
<1>1. Typed => TypeOK
  <2>1. ASSUME Typed PROVE TypeOK
    <3>1. 0..Len(db) = {0} \cup Commits
      BY <2>1, RefsAre DEF Commits
    <3> QED BY <2>1, <3>1 DEF Typed, TypeOK
  <2> QED BY <2>1
<1>2. Init => Typed
  BY TypedInit
<1>3. Typed /\ [Next]_vars => Typed'
  BY TypedNext
<1> QED BY <1>1, <1>2, <1>3, PTL DEF Spec

-----------------------------------------------------------------------------
(* Each commit of unclean on history once.                                 *)

\* The commits on the line of i that name a source; the sources come in order, and
\* none is after n.
Sourced(d, i) == {j \in LineOf(d, i) : d[j].note.source # 0}
Rising(d, i) == \A j, k \in Sourced(d, i) : j < k => d[j].note.source < d[k].note.source
UpTo(d, i, n) == \A j \in Sourced(d, i) : d[j].note.source <= n

\* What the refs say of history: it has the commits of unclean up to its cursor.
Once(d, unclean, history, cursor) ==
  /\ cursor \in {0} \cup LineOf(d, unclean)
  /\ Rising(d, history) /\ UpTo(d, history, cursor)
OnceAt(d, refs) == Once(d, refs["unclean"], refs["history"], refs["fwdHistory"])

\* What is being laid comes after all that is there.
Reached == IF run.last = 0 THEN ref["fwdHistory"] ELSE run.last
OnHistory(pc) == run.pc = pc /\ run.side = "history"
OnceInv ==
  ~broken =>
    /\ run.pc \notin {"asked", "merged", "resolved", "again", "rebase"}
    /\ logged # <<>> => OnceAt(db, logged)
    /\ ref["fwdHistory"] \in {0} \cup Line
    /\ ~OnHistory("cursor") => OnceAt(db, ref)
    /\ OnHistory("cursor") => Rising(db, ref["history"]) /\ UpTo(db, ref["history"], Reached)
    /\ OnHistory("cursor") \/ OnHistory("lay") => run.last \in {0} \cup Line
    /\ OnHistory("lay") =>
         /\ run.rest \subseteq Line /\ \A i \in run.rest : i <= run.last
         /\ Rising(db, run.tip) /\ UpTo(db, run.tip, Reached)
         /\ \A j \in Sourced(db, run.tip), i \in run.rest : db[j].note.source < i
    /\ run.pc = "build" => ref["unclean"] \in LineOf(db, run.tip)

\* Commits keep what they say.
LEMMA OnceStays ==
  ASSUME NEW d, WellFormed(d), NEW e, WellFormed(e), Grown(d, e), NEW i \in 0..Len(d)
  PROVE  /\ Sourced(e, i) = Sourced(d, i) /\ LineOf(e, i) = LineOf(d, i)
         /\ \A j \in Sourced(d, i) : e[j] = d[j]
         /\ Rising(e, i) = Rising(d, i)
         /\ \A n : UpTo(e, i, n) = UpTo(d, i, n)
         /\ \A u \in 0..Len(d) : \A n : Once(e, u, i, n) = Once(d, u, i, n)
<1>1. \A j \in LineOf(d, i) : e[j] = d[j]
  BY GrownFacts
<1>2. \A u \in 0..Len(d) : LineOf(e, u) = LineOf(d, u)
  BY GrownFacts
<1>3. Sourced(e, i) = Sourced(d, i)
  BY <1>1, <1>2 DEF Sourced
<1>4. \A j \in Sourced(d, i) : e[j] = d[j]
  BY <1>1 DEF Sourced
<1>5. Rising(e, i) = Rising(d, i)
  BY <1>3, <1>4 DEF Rising
<1>6. \A n : UpTo(e, i, n) = UpTo(d, i, n)
  BY <1>3, <1>4 DEF UpTo
<1> QED BY <1>2, <1>3, <1>4, <1>5, <1>6 DEF Once

\* One more commit on a line, which names no source or a later one than all before it.
LEMMA OnceMore ==
  ASSUME NEW d, WellFormed(d), NEW e, WellFormed(e), Grown(d, e), NEW first \in 0..Len(d),
         e[Len(d) + 1].line = LineOf(d, first) \cup {Len(d) + 1},
         NEW note, e[Len(d) + 1].note = note, note.source \in Nat,
         Rising(d, first),
         note.source # 0 => \A j \in Sourced(d, first) : d[j].note.source < note.source
  PROVE  /\ Rising(e, Len(d) + 1)
         /\ LineOf(e, Len(d) + 1) = LineOf(d, first) \cup {Len(d) + 1}
         /\ note.source # 0 => Sourced(e, Len(d) + 1) = Sourced(d, first) \cup {Len(d) + 1}
         /\ note.source = 0 => Sourced(e, Len(d) + 1) = Sourced(d, first)
         /\ \A j \in Sourced(d, first) : e[j] = d[j]
         /\ \A n : UpTo(d, first, n) /\ (note.source # 0 => note.source <= n)
                      => UpTo(e, Len(d) + 1, n)
<1> DEFINE id == Len(d) + 1
<1>1. WellFormed(e) /\ Grown(d, e)
  OBVIOUS
<1>2. e[id].line = LineOf(d, first) \cup {id} /\ e[id].note = note
  OBVIOUS
<1>3. Len(d) \in Nat /\ LineOf(d, first) \subseteq 1..Len(d)
  BY RecordsTyped, LineOfIs
<1>4. LineOf(e, id) = LineOf(d, first) \cup {id}
  BY <1>2, <1>3 DEF LineOf
<1>5. \A j \in LineOf(d, first) : e[j] = d[j]
  BY <1>1, GrownFacts
<1>6. Sourced(e, id) = Sourced(d, first) \cup (IF note.source # 0 THEN {id} ELSE {})
  BY <1>2, <1>4, <1>5 DEF Sourced
<1>7. \A j \in Sourced(d, first) : e[j] = d[j] /\ j \in 1..Len(d)
  BY <1>3, <1>5 DEF Sourced
<1>8. \A j \in Sourced(e, id) :
         \/ j \in Sourced(d, first) /\ e[j] = d[j] /\ j < id
         \/ j = id /\ note.source # 0 /\ e[j].note = note
  BY <1>2, <1>3, <1>6, <1>7
<1>9. \A j \in Sourced(d, first) : d[j].note.source \in Nat
  <2>1. \A j \in 1..Len(d) : d[j].note.source \in Nat
    BY RecordsTyped DEF Notes
  <2> QED BY <1>7, <2>1
<1>10. Rising(e, id)
  <2> SUFFICES ASSUME NEW j \in Sourced(e, id), NEW k \in Sourced(e, id), j < k
               PROVE  e[j].note.source < e[k].note.source
    BY DEF Rising
  <2>1. j \in Sourced(d, first) /\ e[j] = d[j] /\ j < id
    BY <1>3, <1>7, <1>8
  <2>2. CASE k \in Sourced(d, first) /\ e[k] = d[k]
    BY <2>1, <2>2 DEF Rising
  <2>3. CASE k = id /\ note.source # 0 /\ e[k].note = note
    BY <2>1, <2>3
  <2> QED BY <1>8, <2>2, <2>3
<1>11. ASSUME NEW n, UpTo(d, first, n), note.source # 0 => note.source <= n
       PROVE  UpTo(e, id, n)
  <2> SUFFICES ASSUME NEW j \in Sourced(e, id) PROVE e[j].note.source <= n
    BY DEF UpTo
  <2> QED BY <1>8, <1>11 DEF UpTo
<1> QED BY <1>4, <1>6, <1>7, <1>10, <1>11


\* No commit that ai/history/master has in its line names a source.
HistoryMainPlain == Sourced(Store, HistoryMain) = {}

LEMMA OnceInit ==
  ASSUME Init
  PROVE  OnceInv
<1>1. /\ ref["history"] = 0 /\ ref["fwdHistory"] = 0 /\ run.pc = "idle" /\ logged = <<>>
  BY DEF Init, RefNames, Idle
<1>2. Sourced(db, 0) = {}
  BY DEF Sourced, LineOf
<1>3. OnceAt(db, ref)
  BY <1>1, <1>2 DEF OnceAt, Once, Rising, UpTo
<1> QED BY <1>1, <1>3 DEF OnceInv, OnHistory

\* A step that leaves history, its cursor and unclean's line, and lays nothing on them.
Quiet == {"idle", "clean", "history", "fork", "pass", "boot", "bootFork", "rebuild", "rewrite",
          "revClean", "revHistory"}
LEMMA OnceQuiet ==
  ASSUME Typed, [Next]_vars, OnceInv, ~broken, ~OnHistory("cursor"),
         ref'["unclean"] = ref["unclean"], ref'["history"] = ref["history"],
         ref'["fwdHistory"] = ref["fwdHistory"],
         logged' = logged \/ logged' = <<>> \/ logged' = ref,
         \/ run'.pc \in Quiet
         \/ run'.pc \in {"lay", "cursor"} /\ run'.side = "clean"
         \/ run'.pc = "build" /\ ref'["unclean"] \in LineOf(db', run'.tip)
  PROVE  OnceInv'
<1>1. WellFormed(db) /\ WellFormed(db') /\ Grown(db, db')
  BY StoreGrows DEF Typed
<1>2. \A r \in RefNames : ref[r] \in 0..Len(db)
  BY RefsAre
<1>3. OnceAt(db, ref)' = OnceAt(db, ref) /\ Line' = Line
  BY <1>1, <1>2, OnceStays, GrownFacts DEF OnceAt, RefNames, Line
<1>4. logged # <<>> => \A r \in RefNames : logged[r] \in 0..Len(db)
  BY DEF Typed
<1>5. logged # <<>> => OnceAt(db', logged) = OnceAt(db, logged)
  BY <1>1, <1>4, OnceStays DEF OnceAt, RefNames
<1>6. logged' # <<>> => OnceAt(db', logged')
  <2>1. CASE logged' = logged
    BY <1>5, <2>1 DEF OnceInv
  <2>2. CASE logged' = ref
    <3>1. OnceAt(db', logged') = OnceAt(db, ref)
      BY <1>1, <1>2, <2>2, OnceStays DEF OnceAt, RefNames
    <3> QED BY <3>1 DEF OnceInv
  <2> QED BY <2>1, <2>2
<1>7. /\ run'.pc \notin {"asked", "merged", "resolved", "again", "rebase"}
      /\ ~OnHistory("cursor")' /\ ~OnHistory("lay")'
      /\ run'.pc = "build" => ref'["unclean"] \in LineOf(db', run'.tip)
  BY DEF Quiet, OnHistory
<1>8. OnceAt(db, ref) /\ ref["fwdHistory"] \in {0} \cup Line
  BY DEF OnceInv
<1>9. OnceAt(db, ref)'
  BY <1>3, <1>8
<1>10. (ref["fwdHistory"] \in {0} \cup Line)'
  BY <1>3, <1>8
<1>11. (logged # <<>> => OnceAt(db, logged))'
  BY <1>6
<1> QED BY <1>7, <1>9, <1>10, <1>11 DEF OnceInv

\* A step whose outcome for history is known: how the rest follows.
LEMMA OnceMoved ==
  ASSUME Typed, [Next]_vars, OnceInv, ~broken, run'.pc \in Quiet, OnceAt(db', ref'),
         logged' = logged \/ logged' = <<>>
  PROVE  OnceInv'
<1>1. WellFormed(db) /\ WellFormed(db') /\ Grown(db, db')
  BY StoreGrows DEF Typed
<1>4. logged # <<>> => \A r \in RefNames : logged[r] \in 0..Len(db)
  BY DEF Typed
<1>5. logged # <<>> => OnceAt(db', logged) = OnceAt(db, logged)
  BY <1>1, <1>4, OnceStays DEF OnceAt, RefNames
<1>6. (logged # <<>> => OnceAt(db, logged))'
  BY <1>5 DEF OnceInv
<1>7. run'.pc \notin {"asked", "merged", "resolved", "again", "rebase", "build"}
      /\ ~OnHistory("cursor")' /\ ~OnHistory("lay")'
  BY DEF Quiet, OnHistory
<1>8. (ref["fwdHistory"] \in {0} \cup Line)'
  BY DEF OnceAt, Once, Line
<1>9. OnceAt(db, ref)'
  OBVIOUS
<1> QED BY <1>6, <1>7, <1>8, <1>9 DEF OnceInv


\* The steps of a forward run.
LEMMA OnceForward ==
  ASSUME HistoryMainPlain, Typed, OnceInv, ~broken, ~broken', ForwardStep
  PROVE  OnceInv'
<1> USE DEF Quiet
<1>1. /\ WellFormed(db) /\ WellFormed(db') /\ Grown(db, db') /\ Len(db) \in Nat
      /\ [Next]_vars /\ db \in Seq(Objects)
  BY StoreGrows, RefsAre, RecordsTyped DEF Typed, Next
<1>2. /\ ref \in [RefNames -> 0..Len(db)] /\ run.side \in Sides
      /\ \A r \in RefNames : ref[r] \in 0..Len(db)
  BY DEF Typed, Runs
<1>r. run \in Runs
  BY DEF Typed
<1>3. {"unclean", "clean", "history", "fork", "fwdClean", "fwdHistory", "revClean", "revHistory"}
        = RefNames
  BY DEF RefNames
<1>4. CASE EnsureClean
  <2>1. /\ ref' = [ref EXCEPT !["clean"] = IF @ = 0 THEN Main ELSE @] /\ run.pc = "clean"
        /\ run' = [run EXCEPT !.pc = "history"] /\ logged' = logged
    BY <1>4 DEF EnsureClean, Go, At
  <2>2. run'.pc = "history"
    BY <1>r, <2>1 DEF Runs
  <2> QED BY <1>1, <1>2, <1>3, <2>1, <2>2, OnceQuiet DEF OnHistory
<1>5. CASE EnsureHistory
  <2>1. /\ ref' = [ref EXCEPT !["history"] = IF @ = 0 THEN HistoryMain ELSE @] /\ run.pc = "history"
        /\ run' = [run EXCEPT !.pc = "fork"] \/ run' = [run EXCEPT !.pc = "pass"]
        /\ logged' = logged /\ db' = db
    BY <1>5 DEF EnsureHistory, Go, At
  <2>2. run'.pc \in Quiet
    BY <1>r, <2>1 DEF Runs
  <2>3. OnceAt(db, ref)
    BY <2>1 DEF OnceInv, OnHistory
  <2>4. Sourced(db, HistoryMain) = {}
    BY <1>1, StoreTyped, OnceStays DEF HistoryMainPlain, Typed
  <2>5. ref'["unclean"] = ref["unclean"] /\ ref'["fwdHistory"] = ref["fwdHistory"]
        /\ ref'["history"] \in {ref["history"], HistoryMain}
    BY <1>2, <1>3, <2>1
  <2>6. OnceAt(db', ref')
    BY <2>1, <2>3, <2>4, <2>5 DEF OnceAt, Once, Rising, UpTo
  <2> QED BY <1>1, <2>1, <2>2, <2>6, OnceMoved
<1>6. CASE MarkForkPoint
  <2>1. /\ ref' = [ref EXCEPT !["fork"] = ref["history"]] /\ run.pc \in {"fork", "bootFork"}
        /\ run' = [run EXCEPT !.pc = "pass"] \/ run' = [run EXCEPT !.pc = "rebuild"]
        /\ logged' = logged
    BY <1>6 DEF MarkForkPoint, Go, At
  <2>2. run'.pc \in Quiet
    BY <1>r, <2>1 DEF Runs
  <2> QED BY <1>1, <1>2, <1>3, <2>1, <2>2, OnceQuiet DEF OnHistory
<1>7. CASE NothingToReplay
  <2>1. /\ run.pc = "pass" /\ ref' = ref /\ run' = Idle /\ logged' = logged
    BY <1>7 DEF NothingToReplay, Finish, At
  <2>2. run'.pc = "idle"
    BY <2>1 DEF Idle
  <2> QED BY <1>1, <2>1, <2>2, OnceQuiet DEF OnHistory
<1>8. CASE StartPass
  <2>1. /\ run.pc = "pass" /\ ref["unclean"] # 0 /\ ref' = ref /\ db' = db /\ logged' = logged
        /\ run' = [run EXCEPT !.pc = "lay", !.tip = ref[run.side], !.rest = Sources(run.side),
                              !.last = Max({0} \cup Sources(run.side))]
    BY <1>8 DEF StartPass, At
  <2>2. /\ run'.pc = "lay" /\ run'.side = run.side /\ run'.tip = ref[run.side]
        /\ run'.rest = Sources(run.side) /\ run'.last = Max({0} \cup Sources(run.side))
    BY <1>r, <2>1 DEF Runs
  <2>3. CASE run.side = "clean"
    BY <1>1, <2>1, <2>2, <2>3, OnceQuiet DEF OnHistory
  <2>4. CASE run.side = "history"
    <3>1. OnceAt(db, ref) /\ (logged # <<>> => OnceAt(db, logged))
      BY <2>1 DEF OnceInv, OnHistory
    <3>2. /\ Sources("history") \subseteq db[ref["unclean"]].line
          /\ Sources("history") \subseteq 1..Len(db)
          /\ Max({0} \cup Sources("history")) \in {0} \cup Sources("history")
          /\ \A i \in Sources("history") : i <= Max({0} \cup Sources("history"))
      BY <2>1, SourcesAre DEF Sides
    <3>3. Line = db[ref["unclean"]].line /\ ref["unclean"] \in 1..Len(db)
      BY <1>1, <1>2, <1>3, <2>1 DEF Line, LineOf
    <3>4. ASSUME NEW i \in Sources("history"), ref["fwdHistory"] # 0
          PROVE  ref["fwdHistory"] < i
      <4>1. ref["fwdHistory"] \in db[ref["unclean"]].line
        BY <3>1, <3>3, <3>4 DEF OnceAt, Once, Line
      <4>2. i \notin db[ref["fwdHistory"]].anc
        BY <3>4 DEF Sources, Cursor, Fwd
      <4>3. ~(i <= ref["fwdHistory"])
        BY <1>1, <3>2, <3>3, <4>1, <4>2, OnLine
      <4>4. ref["fwdHistory"] \in Nat /\ i \in Nat
        BY <1>2, <1>3, <3>2
      <4> QED BY <4>3, <4>4
    <3>5. \A j \in Sourced(db, ref["history"]) :
             db[j].note.source <= ref["fwdHistory"] /\ db[j].note.source \in Nat /\ db[j].note.source # 0
      <4>1. \A j \in LineOf(db, ref["history"]) : j \in 1..Len(db)
        BY <1>1, <1>2, <1>3, LineOfIs
      <4>2. \A j \in 1..Len(db) : db[j].note.source \in Nat
        BY <1>1, RecordsTyped DEF Notes
      <4> QED BY <3>1, <4>1, <4>2 DEF OnceAt, Once, UpTo, Sourced
    <3>6. ref["fwdHistory"] \in Nat
      BY <1>2, <1>3
    <3> DEFINE S == Sources("history")
               last == Max({0} \cup S)
    <3>7. \A i \in S : i \in Nat /\ i <= last /\ (ref["fwdHistory"] # 0 => ref["fwdHistory"] < i)
      <4>1. S \subseteq 1..Len(db) /\ \A i \in S : i <= last
        BY <3>2
      <4>2. \A i \in S : ref["fwdHistory"] # 0 => ref["fwdHistory"] < i
        BY <3>4
      <4> HIDE DEF S, last
      <4> QED BY <1>1, <4>1, <4>2
    <3>8. last \in {0} \cup S
      BY <3>2
    <3> HIDE DEF S, last
    <3>9. \A j \in Sourced(db, ref["history"]), i \in S : db[j].note.source < i
      BY <3>5, <3>6, <3>7
    <3>10. \A j \in Sourced(db, ref["history"]) :
              db[j].note.source <= (IF last = 0 THEN ref["fwdHistory"] ELSE last)
      BY <3>5, <3>6, <3>7, <3>8
    <3>11. /\ run'.rest = S /\ run'.last = last /\ run'.tip = ref["history"]
           /\ run'.side = "history"
      BY <2>2, <2>4 DEF S, last
    <3>12. /\ S \subseteq Line /\ last \in {0} \cup Line
      BY <3>2, <3>3, <3>8 DEF S
    <3>13. Line' = Line
      BY <2>1 DEF Line
    <3>14. (OnHistory("lay") =>
         /\ run.rest \subseteq Line /\ \A i \in run.rest : i <= run.last
         /\ Rising(db, run.tip) /\ UpTo(db, run.tip, Reached)
         /\ \A j \in Sourced(db, run.tip), i \in run.rest : db[j].note.source < i)'
      BY <2>1, <3>1, <3>7, <3>9, <3>10, <3>11, <3>12, <3>13 DEF OnceAt, Once, UpTo, Reached
    <3>15. (OnHistory("cursor") \/ OnHistory("lay") => run.last \in {0} \cup Line)'
      BY <3>11, <3>12, <3>13
    <3>16. OnceAt(db', ref') /\ (logged' # <<>> => OnceAt(db', logged'))
           /\ ref'["fwdHistory"] \in {0} \cup Line'
      BY <2>1, <3>1, <3>13 DEF OnceAt, Once, Line
    <3> QED BY <2>2, <3>14, <3>15, <3>16 DEF OnceInv, OnHistory
  <2> QED BY <1>2, <2>3, <2>4 DEF Sides
<1>9. CASE LaySource
  <2>1. /\ run.pc = "lay" /\ ref' = ref /\ logged' = logged
        /\ Oldest \in run.rest /\ Oldest \in 1..Len(db) /\ \A i \in run.rest : Oldest <= i
        /\ run.rest \subseteq 1..Len(db)
    BY <1>9, OldestIs DEF LaySource, Working, At, Typed, Staged
  <2>2. run.tip \in 1..Len(db) /\ Laid(Oldest) \in Trees
    BY <2>1, LaidIs
  <2>3. CASE run.side = "clean"
    <3>1. run'.pc = "lay" /\ run'.side = "clean"
      BY <1>9, <1>r, <2>1, <2>3 DEF LaySource, Pass, Runs
    <3> QED BY <1>1, <2>1, <2>3, <3>1, OnceQuiet DEF OnHistory
  <2>4. CASE run.side = "history"
    <3> DEFINE note == [source |-> Oldest, mate |-> MateOf(run.mates, Oldest), recon |-> 0]
               id == Len(db) + 1
    <3>1. /\ db' = Append(db, Commit(db, run.tip, 0, Laid(Oldest), note, db[Oldest].date))
          /\ run' = [run EXCEPT !.tip = id, !.rest = @ \ {Oldest}]
      BY <1>9, <2>4 DEF LaySource, Make
    <3>2. note \in Notes(Len(db)) /\ note.source = Oldest /\ Oldest # 0
      <4>1. MateOf(run.mates, Oldest) \in 0..Len(db)
        BY <1>1 DEF Typed, MateOf
      <4> QED BY <1>1, <2>1, <4>1 DEF Notes
    <3>3. run'.pc = "lay" /\ run'.side = "history" /\ run'.last = run.last /\ run'.tip = id
          /\ run'.rest = run.rest \ {Oldest}
      BY <1>r, <2>1, <2>4, <3>1 DEF Runs
    <3>4. /\ run.rest \subseteq Line /\ \A i \in run.rest : i <= run.last
          /\ Rising(db, run.tip) /\ UpTo(db, run.tip, Reached)
          /\ \A j \in Sourced(db, run.tip), i \in run.rest : db[j].note.source < i
          /\ run.last \in {0} \cup Line
          /\ OnceAt(db, ref) /\ (logged # <<>> => OnceAt(db, logged))
      BY <2>1, <2>4 DEF OnceInv, OnHistory
    <3>5. Line' = Line
      BY <1>1, <1>2, <1>3, <2>1, GrownFacts DEF Line
    <3>6. Oldest <= Reached /\ Reached' = Reached
      BY <1>1, <2>1, <3>3, <3>4 DEF Reached
    <3>7. /\ db[Oldest].date \in Int /\ 0 \in 0..Len(db) /\ run.tip \in 0..Len(db)
          /\ note.source # 0 => \A j \in Sourced(db, run.tip) : db[j].note.source < note.source
      BY <1>1, <2>1, <2>2, <3>2, <3>4, RecordsTyped
    <3> HIDE DEF note
    <3>8. /\ Rising(db', id) /\ UpTo(db', id, Reached)
          /\ Sourced(db', id) = Sourced(db, run.tip) \cup {id}
          /\ db'[id].note = note
          /\ \A j \in Sourced(db, run.tip) : db'[j] = db[j]
      <4>1. db'[id].note = note /\ db'[id].line = LineOf(db, run.tip) \cup {id}
        BY <1>1, <3>1, MadeIs
      <4>2. /\ Rising(db', id)
            /\ \A j \in Sourced(db, run.tip) : db'[j] = db[j]
            /\ note.source # 0 => Sourced(db', id) = Sourced(db, run.tip) \cup {id}
            /\ \A n : UpTo(db, run.tip, n) /\ (note.source # 0 => note.source <= n)
                        => UpTo(db', id, n)
        BY <1>1, <2>1, <3>2, <3>4, <3>7, <4>1, OnceMore
      <4> QED BY <3>2, <3>4, <3>6, <4>1, <4>2
    <3>9. \A j \in Sourced(db', id), i \in run.rest \ {Oldest} : db'[j].note.source < i
      <4>1. \A i \in run.rest \ {Oldest} : Oldest < i
        BY <2>1
      <4> QED BY <3>2, <3>4, <3>8, <4>1
    <3>10. OnceAt(db', ref') /\ (logged' # <<>> => OnceAt(db', logged'))
      <4>1. OnceAt(db', ref) = OnceAt(db, ref)
        BY <1>1, <1>2, <1>3, OnceStays DEF OnceAt
      <4>2. logged # <<>> => \A r \in RefNames : logged[r] \in 0..Len(db)
        BY DEF Typed
      <4>3. logged # <<>> => OnceAt(db', logged) = OnceAt(db, logged)
        BY <1>1, <1>3, <4>2, OnceStays DEF OnceAt
      <4> QED BY <2>1, <3>4, <4>1, <4>3
    <3>11. (OnHistory("lay") =>
         /\ run.rest \subseteq Line /\ \A i \in run.rest : i <= run.last
         /\ Rising(db, run.tip) /\ UpTo(db, run.tip, Reached)
         /\ \A j \in Sourced(db, run.tip), i \in run.rest : db[j].note.source < i)'
      BY <3>3, <3>4, <3>5, <3>6, <3>8, <3>9
    <3>12. (OnHistory("cursor") \/ OnHistory("lay") => run.last \in {0} \cup Line)'
           /\ ref'["fwdHistory"] \in {0} \cup Line'
      BY <2>1, <3>3, <3>4, <3>5 DEF OnceAt, Once, Line
    <3> QED BY <3>3, <3>10, <3>11, <3>12 DEF OnceInv, OnHistory
  <2> QED BY <1>2, <2>3, <2>4 DEF Sides
<1>10. CASE StopAtMerge
  BY <1>10 DEF StopAtMerge
<1>11. CASE EndPass
  <2>1. /\ run.pc = "lay" /\ run.rest = {} /\ logged' = logged /\ db' = db
        /\ ref' = [ref EXCEPT ![run.side] = run.tip]
        /\ run' = [run EXCEPT !.pc = "cursor", !.tip = 0]
    BY <1>11 DEF EndPass, MoveTo, Worked, At
  <2>2. run'.pc = "cursor" /\ run'.side = run.side /\ run'.last = run.last
    BY <1>r, <2>1 DEF Runs
  <2>3. CASE run.side = "clean"
    <3>1. /\ ref'["unclean"] = ref["unclean"] /\ ref'["history"] = ref["history"]
          /\ ref'["fwdHistory"] = ref["fwdHistory"]
      BY <1>2, <1>3, <2>1, <2>3
    <3> QED BY <1>1, <2>1, <2>2, <2>3, <3>1, OnceQuiet DEF OnHistory
  <2>4. CASE run.side = "history"
    <3>1. /\ ref'["unclean"] = ref["unclean"] /\ ref'["history"] = run.tip
          /\ ref'["fwdHistory"] = ref["fwdHistory"]
      BY <1>2, <1>3, <2>1, <2>4
    <3>2. /\ Rising(db, run.tip) /\ UpTo(db, run.tip, Reached)
          /\ run.last \in {0} \cup Line /\ ref["fwdHistory"] \in {0} \cup Line
          /\ logged # <<>> => OnceAt(db, logged)
      BY <2>1, <2>4 DEF OnceInv, OnHistory
    <3>3. Line' = Line /\ Reached' = Reached
      BY <2>1, <2>2, <3>1 DEF Line, Reached
    <3> QED BY <2>1, <2>2, <2>4, <3>1, <3>2, <3>3 DEF OnceInv, OnHistory
  <2> QED BY <1>2, <2>3, <2>4 DEF Sides
<1>12. CASE MoveForwardCursor
  <2>1. /\ run.pc = "cursor" /\ logged' = logged /\ db' = db
        /\ ref' = IF run.last = 0 THEN ref ELSE [ref EXCEPT ![Fwd(run.side)] = run.last]
        /\ run' = IF run.side = "clean"
                  THEN [run EXCEPT !.pc = "pass", !.side = "history", !.last = 0] ELSE Idle
    BY <1>12 DEF MoveForwardCursor, Finish, At
  <2>2. run'.pc \in Quiet
    BY <1>r, <2>1 DEF Runs, Idle
  <2>3. CASE run.side = "clean"
    <3>1. /\ ref'["unclean"] = ref["unclean"] /\ ref'["history"] = ref["history"]
          /\ ref'["fwdHistory"] = ref["fwdHistory"]
      BY <1>2, <1>3, <2>1, <2>3 DEF Fwd
    <3> QED BY <1>1, <2>1, <2>2, <2>3, <3>1, OnceQuiet DEF OnHistory
  <2>4. CASE run.side = "history"
    <3>1. /\ ref'["unclean"] = ref["unclean"] /\ ref'["history"] = ref["history"]
          /\ ref'["fwdHistory"] = Reached
      BY <1>2, <1>3, <2>1, <2>4 DEF Fwd, Reached
    <3>2. /\ Rising(db, ref["history"]) /\ UpTo(db, ref["history"], Reached)
          /\ Reached \in {0} \cup Line
      BY <2>1, <2>4 DEF OnceInv, OnHistory, Reached
    <3>3. OnceAt(db', ref')
      BY <2>1, <3>1, <3>2 DEF OnceAt, Once, Line
    <3> QED BY <1>1, <2>1, <2>2, <3>3, OnceMoved
  <2> QED BY <1>2, <2>3, <2>4 DEF Sides
<1>13. run.pc \notin {"asked", "merged", "resolved"}
  BY DEF OnceInv
<1> QED BY <1>4, <1>5, <1>6, <1>7, <1>8, <1>9, <1>10, <1>11, <1>12, <1>13
        DEF ForwardStep, AnswerFake, AnswerAbort, AnswerAttempt, MergeByHand, AnswerManual,
            MergeResolved, Answered, At


\* Every other step, unless it rewrites history or cuts an invocation short.
LEMMA OnceOther ==
  ASSUME HistoryMainPlain, Typed, OnceInv, ~broken, ~broken', Next, ~ForwardStep
  PROVE  OnceInv'
<1> USE DEF Quiet
<1>1. /\ WellFormed(db) /\ WellFormed(db') /\ Grown(db, db') /\ Len(db) \in Nat
      /\ [Next]_vars /\ Typed'
  BY StoreGrows, RefsAre, TypedNext DEF Typed
<1>2. /\ ref \in [RefNames -> 0..Len(db)]
      /\ \A r \in RefNames : ref[r] \in 0..Len(db) /\ ref'[r] \in 0..Len(db')
  BY <1>1 DEF Typed
<1>r. run \in Runs
  BY DEF Typed
<1>3. {"unclean", "clean", "history", "fork", "fwdClean", "fwdHistory", "revClean", "revHistory"}
        = RefNames
  BY DEF RefNames
<1>4. run.pc \notin {"asked", "merged", "resolved", "again", "rebase"}
  BY DEF OnceInv
<1>5. ~OnHistory("cursor") => OnceAt(db, ref)
  BY DEF OnceInv
\* Unclean's line has grown, and nothing else has changed.
<1>6. ASSUME ref'["history"] = ref["history"], ref'["fwdHistory"] = ref["fwdHistory"],
             Line \subseteq Line', OnceAt(db, ref)
      PROVE  OnceAt(db', ref')
  <2>1. Once(db', ref["unclean"], ref["history"], ref["fwdHistory"])
    BY <1>1, <1>2, <1>3, <1>6, OnceStays DEF OnceAt
  <2>2. LineOf(db', ref["unclean"]) = Line
    BY <1>1, <1>2, <1>3, GrownFacts DEF Line
  <2> QED BY <1>6, <2>1, <2>2 DEF OnceAt, Once, Line
<1>7. CASE CreateHistory
  <2>1. /\ run.pc = "boot" /\ db' = db /\ logged' = logged
        /\ \/ ref' = ref
           \/ ref' = [ref EXCEPT !["history"] = IF @ = 0 THEN HistoryMain ELSE @]
        /\ \/ run' = Idle
           \/ run' = [run EXCEPT !.pc = "bootFork"] \/ run' = [run EXCEPT !.pc = "rebuild"]
    BY <1>7 DEF CreateHistory, Go, At, Finish
  <2>2. run'.pc \in Quiet
    BY <1>r, <2>1 DEF Runs, Idle
  <2>3. OnceAt(db, ref)
    BY <1>5, <2>1 DEF OnHistory
  <2>4. Sourced(db, HistoryMain) = {}
    BY <1>1, StoreTyped, OnceStays DEF HistoryMainPlain, Typed
  <2>5. ref'["unclean"] = ref["unclean"] /\ ref'["fwdHistory"] = ref["fwdHistory"]
        /\ ref'["history"] \in {ref["history"], HistoryMain}
    BY <1>2, <1>3, <2>1
  <2>6. OnceAt(db', ref')
    BY <2>1, <2>3, <2>4, <2>5 DEF OnceAt, Once, Rising, UpTo
  <2> QED BY <1>1, <2>1, <2>2, <2>6, OnceMoved
<1>8. CASE ReadSides
  <2>1. /\ run.pc = "rebuild" /\ db' = db /\ logged' = logged
        /\ \/ run' = Idle /\ ref' = ref
           \/ /\ \E todo : run' = [run EXCEPT !.pc = "rewrite", !.todo = todo]
              /\ ref' = [ref EXCEPT !["unclean"] = IF @ = 0 THEN Main ELSE @]
    BY <1>8 DEF ReadSides, At, Finish
  <2>2. run'.pc \in Quiet
    <3>1. ASSUME NEW todo, run' = [run EXCEPT !.pc = "rewrite", !.todo = todo]
          PROVE  run'.pc = "rewrite"
      BY <1>r, <3>1 DEF Runs
    <3>2. Idle.pc = "idle"
      BY DEF Idle
    <3> QED BY <2>1, <3>1, <3>2
  <2>3. OnceAt(db, ref)
    BY <1>5, <2>1 DEF OnHistory
  <2>4. /\ ref'["history"] = ref["history"] /\ ref'["fwdHistory"] = ref["fwdHistory"]
        /\ ref["unclean"] # 0 => ref'["unclean"] = ref["unclean"]
    BY <1>2, <1>3, <2>1
  <2>5. Line \subseteq Line'
    BY <2>1, <2>4 DEF Line, LineOf
  <2> QED BY <1>1, <1>6, <2>1, <2>2, <2>3, <2>4, <2>5, OnceMoved
<1>9. CASE RewriteDiverged \/ ApplyAgain \/ Rewritten
  BY <1>4, <1>9 DEF RewriteDiverged, ApplyAgain, Rewritten, Working, Worked, At
<1>10. CASE StartRebuild
  <2>1. /\ run.pc = "rewrite" /\ db' = db /\ logged' = logged /\ ref' = ref
        /\ run' = [run EXCEPT !.pc = "build", !.tip = ref["unclean"], !.rest = Items]
    BY <1>10 DEF StartRebuild, At
  <2>2. run'.pc = "build" /\ run'.tip = ref["unclean"]
    BY <1>r, <2>1 DEF Runs
  <2>3. ref["unclean"] \in LineOf(db, ref["unclean"])
    BY <1>1, <1>2, <1>3, <2>1, LineOfIs DEF Typed, Staged
  <2> QED BY <1>1, <2>1, <2>2, <2>3, OnceQuiet DEF OnHistory
<1>11. CASE BuildItem
  <2>1. /\ run.pc = "build" /\ logged' = logged /\ ref' = ref
        /\ \E key : run' = [run EXCEPT !.tip = Len(db) + 1, !.rest = @ \ {key}]
    BY <1>11 DEF BuildItem, Working, At, Make
  <2>2. run'.pc = "build" /\ run'.tip = Len(db) + 1
    BY <1>r, <2>1 DEF Runs
  <2>3. \E tree, note, date : db' = Append(db, Commit(db, run.tip, 0, tree, note, date))
    BY <1>11 DEF BuildItem, Make
  <2>4. LineOf(db', Len(db) + 1) = LineOf(db, run.tip) \cup {Len(db) + 1}
    BY <1>1, <2>3, MadeIs DEF LineOf
  <2>5. ref["unclean"] \in LineOf(db, run.tip)
    BY <2>1 DEF OnceInv
  <2> QED BY <1>1, <2>1, <2>2, <2>4, <2>5, OnceQuiet DEF OnHistory
<1>12. CASE RebuildUnclean
  <2>1. /\ run.pc = "build" /\ db' = db /\ logged' = logged
        /\ ref' = [ref EXCEPT !["unclean"] = run.tip]
        /\ run' = [run EXCEPT !.pc = "revClean", !.tip = 0]
    BY <1>12 DEF RebuildUnclean, Worked, At, MoveTo
  <2>2. run'.pc = "revClean"
    BY <1>r, <2>1 DEF Runs
  <2>3. /\ ref'["unclean"] = run.tip /\ ref'["history"] = ref["history"]
        /\ ref'["fwdHistory"] = ref["fwdHistory"]
    BY <1>2, <1>3, <2>1
  <2>4. run.tip \in 1..Len(db) /\ ref["unclean"] \in db[run.tip].line
    BY <1>1, <2>1 DEF Typed, Staged, OnceInv, LineOf
  <2>5. Line \subseteq Line'
    <3>1. db[ref["unclean"]].line \subseteq db[run.tip].line
      BY <1>1, <2>4, OnLine
    <3> QED BY <2>1, <2>3, <2>4, <3>1 DEF Line, LineOf
  <2>6. OnceAt(db, ref)
    BY <1>5, <2>1 DEF OnHistory
  <2> QED BY <1>1, <1>6, <2>1, <2>2, <2>3, <2>5, <2>6, OnceMoved
<1>13. CASE MoveReverseCursor
  <2>1. /\ run.pc \in {"revClean", "revHistory"} /\ logged' = logged
        /\ \E side \in Sides : \E x : ref' = [ref EXCEPT ![Rev(side)] = x]
        /\ run' = [run EXCEPT !.pc = "revHistory"] \/ run' = Idle
    BY <1>13 DEF MoveReverseCursor, Go, Finish, At, Sides
  <2>2. run'.pc \in Quiet
    BY <1>r, <2>1 DEF Runs, Idle
  <2>3. /\ ref'["unclean"] = ref["unclean"] /\ ref'["history"] = ref["history"]
        /\ ref'["fwdHistory"] = ref["fwdHistory"]
    BY <1>2, <1>3, <2>1 DEF Rev
  <2> QED BY <1>1, <2>1, <2>2, <2>3, OnceQuiet DEF OnHistory
<1>14. CASE SyncToCleanHistory \/ SyncToUnclean \/ BootstrapBranch
  <2>1. run.pc = "idle" /\ logged' = ref /\ ref' = ref
    BY <1>14 DEF SyncToCleanHistory, SyncToUnclean, BootstrapBranch, Start, At
  <2>2. run'.pc \in {"clean", "rebuild", "boot"}
    BY <1>14 DEF SyncToCleanHistory, SyncToUnclean, BootstrapBranch, Start, Idle
  <2> QED BY <1>1, <2>1, <2>2, OnceQuiet DEF OnHistory
<1>15. CASE Crash \/ RebaseStep \/ \E side \in Sides : Amend(side)
  BY <1>4, <1>15 DEF Crash, RebaseStep, RebaseBranches, Reapply, EndRebase, Amend, Working, Worked, At
<1>16. CASE Undo
  <2>1. /\ run.pc = "idle" /\ logged # <<>> /\ ref' = logged /\ logged' = <<>> /\ db' = db
        /\ run' = run
    BY <1>16 DEF Undo, At
  <2>2. OnceAt(db', ref')
    BY <2>1 DEF OnceInv
  <2> QED BY <1>1, <2>1, <2>2, OnceMoved
<1>17. ASSUME NEW r \in {"unclean", "clean", "history"}, ref[r] # 0, NEW commit, Extend(r, commit),
              NEW second, NEW tree, NEW date, commit = Commit(db, ref[r], second, tree, NoTrailers, date)
       PROVE  OnceInv'
  <2>1. /\ run.pc = "idle" /\ run' = run /\ logged' = <<>>
        /\ ref' = [ref EXCEPT ![r] = Len(db) + 1]
        /\ db' = Append(db, Commit(db, ref[r], second, tree, NoTrailers, date))
    BY <1>17 DEF Extend, At
  <2>2. /\ db'[Len(db) + 1].line = LineOf(db, ref[r]) \cup {Len(db) + 1}
        /\ db'[Len(db) + 1].note = NoTrailers
    <3>1. WellFormed(db)
      BY <1>1
    <3> QED BY <2>1, <3>1, MadeIs
  <2>3. OnceAt(db, ref)
    BY <1>5, <2>1 DEF OnHistory
  <2>4. CASE r = "clean"
    <3>1. /\ ref'["unclean"] = ref["unclean"] /\ ref'["history"] = ref["history"]
          /\ ref'["fwdHistory"] = ref["fwdHistory"]
      BY <1>2, <1>3, <2>1, <2>4
    <3> QED BY <1>1, <2>1, <3>1, OnceQuiet DEF OnHistory
  <2>5. CASE r = "unclean"
    <3>1. /\ ref'["unclean"] = Len(db) + 1 /\ ref'["history"] = ref["history"]
          /\ ref'["fwdHistory"] = ref["fwdHistory"]
      BY <1>2, <1>3, <2>1, <2>5
    <3>2. Line \subseteq Line'
      BY <1>1, <2>2, <2>5, <3>1 DEF Line, LineOf
    <3> QED BY <1>1, <1>6, <2>1, <2>3, <3>1, <3>2, OnceMoved
  <2>6. CASE r = "history"
    <3>1. /\ ref'["unclean"] = ref["unclean"] /\ ref'["history"] = Len(db) + 1
          /\ ref'["fwdHistory"] = ref["fwdHistory"]
      BY <1>2, <1>3, <2>1, <2>6
    <3>2. /\ ref["history"] \in 0..Len(db) /\ NoTrailers.source = 0
          /\ Rising(db, ref["history"]) /\ UpTo(db, ref["history"], ref["fwdHistory"])
      BY <1>2, <1>3, <2>3 DEF NoTrailers, OnceAt, Once
    <3>3. Rising(db', Len(db) + 1) /\ UpTo(db', Len(db) + 1, ref["fwdHistory"])
      BY <1>1, <2>2, <2>6, <3>2, OnceMore
    <3>4. LineOf(db', ref["unclean"]) = LineOf(db, ref["unclean"])
      BY <1>1, <1>2, <1>3, GrownFacts
    <3>5. OnceAt(db', ref')
      BY <2>3, <3>1, <3>3, <3>4 DEF OnceAt, Once
    <3> QED BY <1>1, <2>1, <3>5, OnceMoved
  <2> QED BY <2>4, <2>5, <2>6
<1>18. ASSUME NEW r \in {"unclean", "clean", "history"}, AuthorCommit(r) PROVE OnceInv'
  <2>1. PICK e, date : ref[r] # 0
             /\ Extend(r, Commit(db, ref[r], 0, Edited(e, r), NoTrailers, date))
    BY <1>18 DEF AuthorCommit
  <2> QED BY <1>17, <2>1
<1>19. CASE MergeIntoUnclean
  <2>1. \E theirs, tree, date : ref["unclean"] # 0
             /\ Extend("unclean", Commit(db, ref["unclean"], theirs, tree, NoTrailers, date))
    BY <1>19 DEF MergeIntoUnclean
  <2> QED BY <1>17, <2>1
<1>20. CASE Push
  <2>1. run.pc = "idle" /\ run' = run /\ ref' = ref /\ logged' = logged
    BY <1>20 DEF Push, At
  <2> QED BY <1>1, <2>1, OnceQuiet DEF OnHistory
<1> QED BY <1>7, <1>8, <1>9, <1>10, <1>11, <1>12, <1>13, <1>14, <1>15, <1>16, <1>18, <1>19, <1>20
        DEF Next, ReverseStep, AuthorStep

LEMMA OnceNext ==
  ASSUME HistoryMainPlain, Typed, OnceInv, [Next]_vars
  PROVE  OnceInv'
<1>1. CASE UNCHANGED vars
  BY <1>1 DEF vars, OnceInv, OnHistory, Reached, Line
<1>2. CASE Next
  <2>1. broken => broken'
    BY <1>2 DEF Next, ForwardStep, ReverseStep, RebaseStep, AuthorStep, EnsureClean, EnsureHistory,
       MarkForkPoint, NothingToReplay, StartPass, LaySource, StopAtMerge, EndPass, MoveForwardCursor,
       AnswerFake, AnswerAbort, AnswerAttempt, MergeByHand, AnswerManual, MergeResolved,
       CreateHistory, ReadSides, RewriteDiverged, ApplyAgain, Rewritten, StartRebuild, BuildItem,
       RebuildUnclean, MoveReverseCursor, RebaseBranches, Reapply, EndRebase, Push,
       SyncToCleanHistory, SyncToUnclean, BootstrapBranch, Crash, Undo, AuthorCommit,
       MergeIntoUnclean, Amend
  <2>2. CASE broken'
    BY <2>2 DEF OnceInv
  <2>3. CASE ~broken'
    BY <1>2, <2>1, <2>3, OnceForward, OnceOther
  <2> QED BY <2>2, <2>3
<1> QED BY <1>1, <1>2

\* If ai/history/master's own line names no sources, then whatever is committed to the
\* three branches, synced either way and undone, history has each commit of unclean at
\* most once and in unclean's order, until a run is cut short or history is rewritten.
THEOREM HistoryOnce ==
  ASSUME HistoryMainPlain
  PROVE  Spec => []HistoryHasEachOnce
<1>1. Typed /\ OnceInv => HistoryHasEachOnce
  <2>1. ASSUME Typed, OnceInv, ~broken, ref["history"] # 0
        PROVE  \A i, j \in Tip("history").line :
                  i < j /\ db[i].note.source # 0 /\ db[j].note.source # 0 =>
                      db[i].note.source < db[j].note.source
    <3>1. Rising(db, ref["history"])
      BY <2>1 DEF OnceInv, OnceAt, Once
    <3>2. LineOf(db, ref["history"]) = Tip("history").line
      BY <2>1 DEF LineOf, Tip
    <3> QED BY <3>1, <3>2 DEF Rising, Sourced
  <2> QED BY <2>1 DEF HistoryHasEachOnce
<1>2. Init => Typed /\ OnceInv
  BY TypedInit, OnceInit
<1>3. Typed /\ OnceInv /\ [Next]_vars => Typed' /\ OnceInv'
  BY TypedNext, OnceNext
<1> QED BY <1>1, <1>2, <1>3, PTL DEF Spec


-----------------------------------------------------------------------------
(* What passes the pre-push hook.                                          *)

NoAi(d, i) == \A p \in AiPaths : d[i].tree[p] = Absent

\* On the line of i, a commit that the hook might overlook has no AI file: one that was
\* there from the start, or a merge, of which git diff-tree says nothing.
Sound(d, i) == \A j \in LineOf(d, i) : j <= Len(Store) \/ d[j].merged # 0 => NoAi(d, j)

\* Nobody merges into clean by hand, and where clean starts no commit has AI files.
CleanKept ==
  /\ <<"clean", "manual">> \notin Answers
  /\ \A j \in LineOf(Store, Main) : NoAi(Store, j)
  /\ \A s \in Scenarios : \A j \in LineOf(Store, s.clean) : NoAi(Store, j)

\* What is merged is from elsewhere, so that a commit's past is its line and what was
\* there from the start.
Outside(d) == \A i \in 1..Len(d) : /\ d[i].merged <= Len(Store)
                                   /\ d[i].anc \subseteq 1..Len(Store) \cup d[i].line

PushInv ==
  /\ Outside(db)
  /\ Sound(db, ref["clean"])
  /\ logged # <<>> => Sound(db, logged["clean"])
  /\ run.pc = "lay" /\ run.side = "clean" => Sound(db, run.tip)
  /\ run.pc = "merged" => <<run.side, "manual">> \in Answers
  /\ \A j \in LineOf(db, origin) : NoAi(db, j)

LEMMA SoundStays ==
  ASSUME NEW d, WellFormed(d), NEW e, WellFormed(e), Grown(d, e), NEW i \in 0..Len(d)
  PROVE  /\ Sound(e, i) = Sound(d, i)
         /\ (\A j \in LineOf(e, i) : NoAi(e, j)) = (\A j \in LineOf(d, i) : NoAi(d, j))
<1>1. LineOf(e, i) = LineOf(d, i) /\ \A j \in LineOf(d, i) : e[j] = d[j]
  BY GrownFacts
<1> QED BY <1>1 DEF Sound, NoAi

\* A commit on top of a sound line, which is no merge or has no AI file.
LEMMA SoundMore ==
  ASSUME NEW d, WellFormed(d), NEW e, WellFormed(e), Grown(d, e), Grown(Store, d),
         NEW first \in 0..Len(d), Sound(d, first),
         e[Len(d) + 1].line = LineOf(d, first) \cup {Len(d) + 1},
         e[Len(d) + 1].merged # 0 => NoAi(e, Len(d) + 1)
  PROVE  Sound(e, Len(d) + 1)
<1>1. LineOf(e, first) = LineOf(d, first) /\ \A j \in LineOf(d, first) : e[j] = d[j]
  BY GrownFacts
<1>2. Len(d) \in Nat /\ Len(Store) \in Nat /\ Len(Store) <= Len(d)
  BY RecordsTyped, StoreTyped DEF Grown
<1>3. LineOf(e, Len(d) + 1) = LineOf(d, first) \cup {Len(d) + 1}
  BY <1>2 DEF LineOf
<1> SUFFICES ASSUME NEW j \in LineOf(e, Len(d) + 1), j <= Len(Store) \/ e[j].merged # 0
             PROVE  NoAi(e, j)
  BY DEF Sound
<1>4. CASE j = Len(d) + 1
  BY <1>2, <1>4
<1>5. CASE j \in LineOf(d, first)
  BY <1>1, <1>5 DEF Sound, NoAi
<1> QED BY <1>3, <1>4, <1>5

\* The first parents of a commit on a sound line.
LEMMA SoundBelow ==
  ASSUME NEW d, WellFormed(d), NEW i \in 1..Len(d), Sound(d, i)
  PROVE  Sound(d, d[i].first) /\ d[i].first \in 0..Len(d)
<1>1. d[i].line = LineOf(d, d[i].first) \cup {i} /\ LineOf(d, i) = d[i].line
  BY LineFacts, LineOfIs
<1>2. d[i].first \in 0..Len(d)
  BY RecordsTyped
<1> QED BY <1>1, <1>2 DEF Sound

\* The store that has grown by a commit whose second parent is from elsewhere.
LEMMA OutsideMore ==
  ASSUME NEW d, WellFormed(d), Outside(d), Grown(Store, d), NEW first \in 0..Len(d),
         NEW second \in 0..Len(Store), NEW tree, NEW note, NEW date,
         NEW e, WellFormed(e), Grown(d, e), e = Append(d, Commit(d, first, second, tree, note, date))
  PROVE  Outside(e)
<1>1. Len(e) = Len(d) + 1 /\ Len(d) \in Nat /\ Len(Store) \in Nat /\ Len(Store) <= Len(d)
  BY MadeIs, RecordsTyped, StoreTyped DEF Grown
<1>2. /\ e[Len(d) + 1].merged = second
      /\ e[Len(d) + 1].line = LineOf(d, first) \cup {Len(d) + 1}
      /\ e[Len(d) + 1].anc = PastOf(d, first) \cup PastOf(d, second) \cup {Len(d) + 1}
  BY MadeIs
<1>3. PastOf(d, first) \subseteq 1..Len(Store) \cup LineOf(d, first)
  BY LineOfIs DEF Outside
<1>4. PastOf(d, second) \subseteq 1..Len(Store)
  <2>1. second \in 0..Len(d) /\ PastOf(d, second) \subseteq 1..second
    BY <1>1, LineOfIs
  <2> QED BY <1>1, <2>1
<1>5. /\ e[Len(d) + 1].merged <= Len(Store)
      /\ e[Len(d) + 1].anc \subseteq 1..Len(Store) \cup e[Len(d) + 1].line
  BY <1>1, <1>2, <1>3, <1>4
<1>6. \A i \in 1..Len(d) : e[i] = d[i]
  BY DEF Grown
<1>7. \A i \in 1..Len(e) : i \in 1..Len(d) \/ i = Len(d) + 1
  BY <1>1
<1> QED BY <1>5, <1>6, <1>7 DEF Outside

\* Every commit on the line of a clean branch that the hook lets through has no AI file.
LEMMA PushedClean ==
  ASSUME CleanKept, Typed, PushInv, ref["clean"] # 0, NEW base \in 1..Len(db),
         \A i \in Past("clean") \ db[base].anc : ~AiTainted(db, i),
         base = Main \/ base = origin
  PROVE  \A j \in LineOf(db, ref["clean"]) : NoAi(db, j)
<1>1. /\ WellFormed(db) /\ Len(db) \in Nat /\ Len(Store) \in Nat /\ Grown(Store, db)
      /\ WellFormed(Store) /\ Main \in 1..Len(Store)
  BY RefsAre, StoreTyped DEF Typed
<1>2. ref["clean"] \in 0..Len(db) /\ ref["clean"] \in 1..Len(db)
  BY RefsAre DEF RefNames
<1> DEFINE L == LineOf(db, ref["clean"])
           Bad == {j \in L : ~NoAi(db, j)}
<1>3. L \subseteq 1..Len(db) /\ L \subseteq Past("clean")
  BY <1>1, <1>2, LineOfIs DEF Past
<1> SUFFICES ASSUME Bad # {} PROVE FALSE
  OBVIOUS
<1>4. PICK j \in Bad : \A k \in Bad : j <= k
  <2>1. Bad \in SUBSET Nat
    BY <1>1, <1>3
  <2> HIDE DEF Bad
  <2> QED BY <2>1, Least
<1>5. j \in L /\ j \in 1..Len(db) /\ ~NoAi(db, j)
  BY <1>3, <1>4
<1>6. ~(j <= Len(Store)) /\ db[j].merged = 0
  BY <1>5 DEF PushInv, Sound
\* It has the file that its first parent has not.
<1>7. PICK p \in AiPaths : db[j].tree[p] # Absent
  BY <1>5 DEF NoAi
<1>8. TreeOf(db, db[j].first)[p] = Absent
  <2>1. db[j].first \in 0..(j - 1)
    BY <1>1, <1>5, RecordsTyped
  <2>2. CASE db[j].first = 0
    BY <1>7, <2>2 DEF TreeOf, Paths
  <2>3. CASE db[j].first # 0
    <3>1. /\ db[j].line = LineOf(db, db[j].first) \cup {j}
          /\ db[j].first \in LineOf(db, db[j].first)
      <4>1. db[j].first \in 0..Len(db)
        BY <1>1, <1>5, <2>1
      <4> QED BY <1>1, <1>5, <2>3, <4>1, LineFacts, LineOfIs
    <3>2. db[j].line \subseteq L
      BY <1>1, <1>2, <1>5, LineOfIs, OnLine
    <3>3. db[j].first \in L /\ db[j].first < j
      BY <1>5, <2>1, <3>1, <3>2
    <3>4. NoAi(db, db[j].first)
      BY <1>4, <1>5, <3>3, <2>1
    <3> QED BY <1>7, <2>3, <3>4 DEF TreeOf, NoAi
  <2> QED BY <2>2, <2>3
<1>9. AiTainted(db, j)
  BY <1>6, <1>7, <1>8 DEF AiTainted, ListedPaths, Changed, FirstParent, Paths
\* So the hook does not look at it: it is behind what origin has.
<1>10. j \in db[base].anc
  BY <1>3, <1>5, <1>9
<1>11. CASE base = Main
  <2>1. db[Main].anc \subseteq 1..Main
    BY <1>1, <1>11, LineFacts
  <2> QED BY <1>1, <1>6, <1>10, <1>11, <2>1
<1>12. CASE base = origin
  <2>1. j \in db[origin].line
    BY <1>6, <1>10, <1>12, <1>5, <1>1 DEF PushInv, Outside
  <2>2. LineOf(db, origin) = db[origin].line
    BY <1>1, <1>12, LineOfIs
  <2> QED BY <1>5, <2>1, <2>2 DEF PushInv
<1> QED BY <1>11, <1>12


LEMMA PushInit ==
  ASSUME CleanKept, Init
  PROVE  PushInv
<1>1. PICK s \in Scenarios :
      ref = [r \in RefNames |-> IF r = "unclean" THEN s.unclean
                                ELSE IF r = "clean" THEN s.clean ELSE 0]
  BY DEF Init
<1>2. db = Store /\ run.pc = "idle" /\ logged = <<>> /\ origin = 0 /\ ref["clean"] = s.clean
  BY <1>1 DEF Init, Idle, RefNames
<1>3. Sound(db, ref["clean"])
  BY <1>2 DEF CleanKept, Sound
<1>4. Outside(db)
  <2> SUFFICES ASSUME NEW i \in 1..Len(Store)
               PROVE  /\ Store[i].merged <= Len(Store)
                      /\ Store[i].anc \subseteq 1..Len(Store) \cup Store[i].line
    BY <1>2 DEF Outside
  <2>1. /\ Store[i].merged \in 0..(i - 1) /\ Store[i].anc \subseteq 1..i /\ 1..i \subseteq 1..Len(Store)
        /\ Len(Store) \in Nat
    BY StoreTyped, RecordsTyped, LineFacts
  <2> QED BY <2>1
<1> QED BY <1>2, <1>3, <1>4 DEF PushInv, LineOf

\* A merge's second parent is from elsewhere, whoever makes it.
LEMMA OutsideNext ==
  ASSUME Typed, Outside(db), [Next]_vars
  PROVE  Outside(db')
<1> DEFINE Good == Outside(db')
<1>1. /\ WellFormed(db) /\ WellFormed(db') /\ Grown(db, db') /\ Grown(Store, db)
      /\ Len(db) \in Nat /\ Len(Store) \in Nat /\ Len(Store) <= Len(db)
  BY StoreGrows, RefsAre, StoreTyped DEF Typed, Grown
<1>2. CASE db' = db
  BY <1>2
<1>3. ASSUME NEW first \in 0..Len(db), NEW second \in 0..Len(Store), NEW tree, NEW note, NEW date,
             db' = Append(db, Commit(db, first, second, tree, note, date))
      PROVE  Good
  BY <1>1, <1>3, OutsideMore
<1>4. /\ \A i \in 1..Len(db) : db[i].merged \in 0..Len(Store) /\ db[i].first \in 0..Len(db)
      /\ 0 \in 0..Len(Store) /\ run.tip \in 0..Len(db)
  <2>1. \A i \in 1..Len(db) : db[i].merged \in Nat /\ db[i].merged <= Len(Store)
                              /\ db[i].first \in 0..Len(db)
    BY <1>1, RecordsTyped DEF Outside
  <2> QED BY <1>1, <2>1 DEF Typed
<1>5. \A r \in RefNames : ref[r] \in 0..Len(db) /\ (ref[r] # 0 => ref[r] \in 1..Len(db))
  BY RefsAre
<1> SUFFICES Good
  OBVIOUS
<1> HIDE DEF Good
<1>6. CASE LaySource
  <2>1. \/ db' = db
        \/ \E tree, note, date : db' = Append(db, Commit(db, run.tip, 0, tree, note, date))
    BY <1>6 DEF LaySource, Make, Pass
  <2> QED BY <1>2, <1>3, <1>4, <2>1 DEF Good
<1>7. CASE AnswerAttempt \/ MergeByHand
  <2>1. /\ run.pc = "asked" /\ run.side \in Sides
        /\ \/ db' = db
           \/ \E tree, note, date :
                 db' = Append(db, Commit(db, ref[run.side], Second, tree, note, date))
    BY <1>7 DEF AnswerAttempt, MergeByHand, Answered, At, Attempt, Typed, Runs
  <2>2. Second \in 0..Len(Store) /\ ref[run.side] \in 0..Len(db)
    <3>1. run.stop \in 0..Len(db) /\ run.stop # 0
      BY <2>1 DEF Typed, Staged
    <3>2. run.side \in RefNames
      BY <2>1 DEF Sides, RefNames
    <3> QED BY <1>1, <1>4, <1>5, <3>1, <3>2 DEF Second
  <2> QED BY <1>2, <1>3, <2>1, <2>2 DEF Good
<1>8. CASE AnswerManual
  <2>1. /\ run.pc = "merged" /\ run.side \in Sides
        /\ \E tree, note, date :
              db' = Append(db, Commit(db, db[ref[run.side]].first, db[ref[run.side]].merged,
                                      tree, note, date))
    BY <1>8 DEF AnswerManual, At, Typed, Runs, FirstParent
  <2>2. ref[run.side] \in 1..Len(db)
    BY <1>5, <2>1 DEF Typed, Staged, Started, Sides, RefNames
  <2> QED BY <1>3, <1>4, <2>1, <2>2
<1>9. CASE RewriteDiverged
  <2>1. \/ db' = db
        \/ \E old, tree, note, date : old \in Past("unclean") /\
              db' = Append(db, Commit(db, db[old].first, 0, tree, note, date))
    BY <1>9 DEF RewriteDiverged, FirstParent
  <2>2. Past("unclean") \subseteq 1..Len(db)
    BY <1>1, <1>5, LineOfIs DEF Past, RefNames
  <2> QED BY <1>2, <1>3, <1>4, <2>1, <2>2 DEF Good
<1>10. CASE ApplyAgain \/ BuildItem \/ Reapply
  <2>1. \/ db' = db
        \/ \E tree, note, date : db' = Append(db, Commit(db, run.tip, 0, tree, note, date))
    BY <1>10 DEF ApplyAgain, BuildItem, Reapply, Make, Pass
  <2> QED BY <1>2, <1>3, <1>4, <2>1 DEF Good
<1>11. ASSUME NEW r \in {"unclean", "clean", "history"}, AuthorCommit(r) PROVE Good
  <2>1. \E tree, note, date : db' = Append(db, Commit(db, ref[r], 0, tree, note, date))
    BY <1>11 DEF AuthorCommit, Extend
  <2> QED BY <1>3, <1>4, <1>5, <2>1 DEF RefNames
<1>12. CASE MergeIntoUnclean
  <2>1. \E theirs \in Incoming : \E tree, note, date :
           db' = Append(db, Commit(db, ref["unclean"], theirs, tree, note, date))
    BY <1>12 DEF MergeIntoUnclean, Extend
  <2>2. Incoming \subseteq 0..Len(Store)
    BY StoreAssumption
  <2> QED BY <1>3, <1>5, <2>1, <2>2 DEF RefNames
<1>13. ASSUME NEW side \in Sides, Amend(side) PROVE Good
  <2>1. \E tree, note, date :
           db' = Append(db, Commit(db, db[ref[side]].first, 0, tree, note, date))
    BY <1>13 DEF Amend, Extend, FirstParent
  <2>2. ref[side] \in 1..Len(db)
    BY <1>5, <1>13 DEF Amend, Sides, RefNames
  <2> QED BY <1>3, <1>4, <2>1, <2>2
<1>14. CASE UNCHANGED vars
  BY <1>2, <1>14 DEF vars, Good
<1>15. ASSUME Next, ~LaySource, ~AnswerAttempt, ~MergeByHand, ~AnswerManual, ~RewriteDiverged,
              ~ApplyAgain, ~BuildItem, ~Reapply, ~MergeIntoUnclean,
              \A r \in {"unclean", "clean", "history"} : ~AuthorCommit(r),
              \A side \in Sides : ~Amend(side)
       PROVE  Good
  <2>1. db' = db
    BY <1>15 DEF Next, ForwardStep, ReverseStep, RebaseStep, AuthorStep, EnsureClean, EnsureHistory,
       MarkForkPoint, NothingToReplay, StartPass, StopAtMerge, EndPass, MoveForwardCursor, AnswerFake,
       AnswerAbort, MergeResolved, CreateHistory, ReadSides, Rewritten, StartRebuild, RebuildUnclean,
       MoveReverseCursor, RebaseBranches, EndRebase, Push, SyncToCleanHistory, SyncToUnclean,
       BootstrapBranch, Crash, Undo, Start
  <2> QED BY <1>2, <2>1 DEF Good
<1> QED BY <1>6, <1>7, <1>8, <1>9, <1>10, <1>11, <1>12, <1>13, <1>14, <1>15


\* What remains to be seen of a step.
LEMMA PushMoved ==
  ASSUME Typed, PushInv, [Next]_vars,
         Sound(db', ref'["clean"]),
         logged' = logged \/ logged' = <<>> \/ logged' = ref,
         run'.pc = "lay" /\ run'.side = "clean" => Sound(db', run'.tip),
         run'.pc = "merged" => <<run'.side, "manual">> \in Answers,
         origin' = origin
  PROVE  PushInv'
<1>1. WellFormed(db) /\ WellFormed(db') /\ Grown(db, db')
  BY StoreGrows DEF Typed
<1>2. Outside(db')
  BY OutsideNext DEF PushInv
<1>3. \A j \in LineOf(db', origin') : NoAi(db', j)
  BY <1>1, SoundStays DEF PushInv, Typed
<1>4. logged' # <<>> => Sound(db', logged'["clean"])
  <2>1. logged # <<>> => logged["clean"] \in 0..Len(db)
    BY DEF Typed, RefNames
  <2>2. ref["clean"] \in 0..Len(db)
    BY RefsAre DEF RefNames
  <2>3. logged # <<>> => Sound(db', logged["clean"])
    BY <1>1, <2>1, SoundStays DEF PushInv
  <2>4. Sound(db', ref["clean"])
    BY <1>1, <2>2, SoundStays DEF PushInv
  <2> QED BY <2>3, <2>4
<1> QED BY <1>2, <1>3, <1>4 DEF PushInv

\* A step that leaves clean where it is.
LEMMA PushStill ==
  ASSUME Typed, PushInv, [Next]_vars, ref'["clean"] = ref["clean"],
         logged' = logged \/ logged' = <<>> \/ logged' = ref,
         run'.pc \notin {"lay", "merged"} \/ (run'.pc = "lay" /\ run'.side = "history"),
         origin' = origin
  PROVE  PushInv'
<1>1. WellFormed(db) /\ WellFormed(db') /\ Grown(db, db')
  BY StoreGrows DEF Typed
<1>2. ref["clean"] \in 0..Len(db)
  BY RefsAre DEF RefNames
<1>3. Sound(db', ref'["clean"])
  BY <1>1, <1>2, SoundStays DEF PushInv
<1> QED BY <1>3, PushMoved

LEMMA PushForward ==
  ASSUME CleanKept, Typed, PushInv, ForwardStep
  PROVE  PushInv'
<1>1. /\ WellFormed(db) /\ WellFormed(db') /\ Grown(db, db') /\ Grown(Store, db) /\ Len(db) \in Nat
      /\ [Next]_vars /\ Len(Store) \in Nat /\ Len(Store) <= Len(db)
  BY StoreGrows, RefsAre, StoreTyped DEF Typed, Next, Grown
<1>2. /\ ref \in [RefNames -> 0..Len(db)] /\ run.side \in Sides /\ Main \in 1..Len(Store)
      /\ run.tip \in 0..Len(db) /\ ref["clean"] \in 0..Len(db)
  BY RefsAre, StoreTyped DEF Typed, Runs, RefNames
<1>r. run \in Runs
  BY DEF Typed
<1>3. {"unclean", "clean", "history", "fork", "fwdClean", "fwdHistory", "revClean", "revHistory"}
        = RefNames
  BY DEF RefNames
<1>4. Sound(db, Main)
  <2>1. \A j \in LineOf(db, Main) : NoAi(db, j)
    BY <1>1, <1>2, StoreTyped, SoundStays DEF CleanKept
  <2> QED BY <2>1 DEF Sound
<1>5. CASE EnsureClean
  <2>1. /\ ref' = [ref EXCEPT !["clean"] = IF @ = 0 THEN Main ELSE @] /\ db' = db /\ origin' = origin
        /\ run' = [run EXCEPT !.pc = "history"] /\ logged' = logged
    BY <1>5 DEF EnsureClean, Go
  <2>2. run'.pc = "history"
    BY <1>r, <2>1 DEF Runs
  <2>3. ref'["clean"] \in {ref["clean"], Main}
    BY <1>2, <1>3, <2>1
  <2>4. Sound(db', ref'["clean"])
    BY <1>4, <2>1, <2>3 DEF PushInv
  <2> QED BY <1>1, <2>1, <2>2, <2>4, PushMoved
<1>6. CASE EnsureHistory \/ MarkForkPoint \/ NothingToReplay
  <2>1. /\ \E r \in {"history", "fork"} : \E x : ref' = [ref EXCEPT ![r] = x] \/ ref' = ref
        /\ logged' = logged /\ origin' = origin
        /\ \/ run' = Idle
           \/ \E pc \in {"fork", "pass", "rebuild"} : run' = [run EXCEPT !.pc = pc]
    BY <1>6 DEF EnsureHistory, MarkForkPoint, NothingToReplay, Go, Finish
  <2>2. ref'["clean"] = ref["clean"]
    BY <1>2, <1>3, <2>1
  <2>3. run'.pc \notin {"lay", "merged"}
    BY <1>r, <2>1 DEF Runs, Idle
  <2> QED BY <1>1, <2>1, <2>2, <2>3, PushStill
<1>7. CASE StartPass
  <2>1. /\ ref' = ref /\ db' = db /\ logged' = logged /\ origin' = origin
        /\ run' = [run EXCEPT !.pc = "lay", !.tip = ref[run.side], !.rest = Sources(run.side),
                              !.last = Max({0} \cup Sources(run.side))]
    BY <1>7 DEF StartPass
  <2>2. run'.pc = "lay" /\ run'.side = run.side /\ run'.tip = ref[run.side]
    BY <1>r, <2>1 DEF Runs
  <2> QED BY <1>1, <2>1, <2>2, PushMoved DEF PushInv
<1>8. CASE LaySource
  <2>1. run.pc = "lay" /\ ref' = ref /\ logged' = logged /\ origin' = origin
    BY <1>8 DEF LaySource, Working, At
  <2>2. run'.pc = "lay" /\ run'.side = run.side
    BY <1>8, <1>r, <2>1 DEF LaySource, Make, Pass, Runs
  <2>3. CASE run.side = "history"
    BY <1>1, <2>1, <2>2, <2>3, PushStill
  <2>4. CASE run.side = "clean"
    <3>1. Sound(db, run.tip)
      BY <2>1, <2>4 DEF PushInv
    <3>2. CASE db' = db /\ run'.tip = run.tip
      BY <1>1, <2>1, <2>2, <3>1, <3>2, PushMoved DEF PushInv
    <3>3. CASE run'.tip = Len(db) + 1
               /\ \E tree, note, date : db' = Append(db, Commit(db, run.tip, 0, tree, note, date))
      <4>1. db'[Len(db) + 1].line = LineOf(db, run.tip) \cup {Len(db) + 1}
            /\ db'[Len(db) + 1].merged = 0
        BY <1>1, <3>3, MadeIs
      <4>2. Sound(db', Len(db) + 1)
        BY <1>1, <1>2, <3>1, <4>1, SoundMore
      <4>3. Sound(db', ref'["clean"])
        BY <1>1, <1>2, <2>1, SoundStays DEF PushInv
      <4> QED BY <1>1, <2>1, <2>2, <3>3, <4>2, <4>3, PushMoved
    <3>4. CASE Pass(Oldest)
      <4>1. db' = db /\ run' = [run EXCEPT !.rest = @ \ {Oldest}]
        BY <3>4 DEF Pass
      <4>2. run'.tip = run.tip
        BY <1>r, <4>1 DEF Runs
      <4> QED BY <3>2, <4>1, <4>2
    <3>5. CASE ~Pass(Oldest)
      <4>1. /\ \E tree, note, date : db' = Append(db, Commit(db, run.tip, 0, tree, note, date))
            /\ \E m : run' = [run EXCEPT !.tip = Len(db) + 1, !.rest = @ \ {Oldest}, !.mates = m]
        BY <1>8, <2>4, <3>5 DEF LaySource
      <4>2. run'.tip = Len(db) + 1
        BY <1>r, <4>1 DEF Runs
      <4> QED BY <3>3, <4>1, <4>2
    <3> QED BY <3>4, <3>5
  <2> QED BY <1>2, <2>3, <2>4 DEF Sides
<1>9. CASE StopAtMerge \/ EndPass
  <2>1. /\ run.pc = "lay" /\ db' = db /\ logged' = logged /\ origin' = origin
        /\ ref' = [ref EXCEPT ![run.side] = run.tip]
        /\ \/ \E x : run' = [run EXCEPT !.pc = "asked", !.stop = x, !.last = 0, !.tip = 0, !.rest = {}]
           \/ run' = [run EXCEPT !.pc = "cursor", !.tip = 0]
    BY <1>9 DEF StopAtMerge, EndPass, MoveTo, Working, Worked, At
  <2>2. run'.pc \notin {"lay", "merged"}
    BY <1>r, <2>1 DEF Runs
  <2>3. run.side = "clean" => ref'["clean"] = run.tip
    BY <1>2, <1>3, <2>1
  <2>4. run.side = "history" => ref'["clean"] = ref["clean"]
    BY <1>2, <1>3, <2>1
  <2>5. Sound(db', ref'["clean"])
    BY <1>2, <2>1, <2>3, <2>4 DEF PushInv, Sides
  <2> QED BY <1>1, <2>1, <2>2, <2>5, PushMoved
<1>s. StartOver(run.fake).pc = "clean" /\ StartOver(TRUE).pc = "clean" /\ Idle.pc = "idle"
  <2>1. run.fake \in BOOLEAN
    BY <1>r DEF Runs
  <2> QED BY <2>1, StartOverTyped DEF Idle
<1>10. CASE MoveForwardCursor \/ MergeResolved
  <2>1. /\ logged' = logged /\ origin' = origin
        /\ \E x : ref' = ref \/ ref' = [ref EXCEPT ![Fwd(run.side)] = x]
        /\ \/ run' = Idle
           \/ run' = [run EXCEPT !.pc = "pass", !.side = "history", !.last = 0]
           \/ run' = StartOver(run.fake)
    BY <1>10 DEF MoveForwardCursor, MergeResolved, Finish
  <2>2. ref'["clean"] = ref["clean"]
    BY <1>2, <1>3, <2>1 DEF Fwd
  <2>3. run'.pc \notin {"lay", "merged"}
    <3>1. run' = [run EXCEPT !.pc = "pass", !.side = "history", !.last = 0] => run'.pc = "pass"
      BY <1>r DEF Runs
    <3> QED BY <1>s, <2>1, <3>1
  <2> QED BY <1>1, <2>1, <2>2, <2>3, PushStill
<1>11. CASE AnswerFake \/ AnswerAbort
  <2>1. /\ logged' = logged /\ origin' = origin /\ ref' = ref
        /\ run' = Idle \/ run' = StartOver(TRUE)
    BY <1>11 DEF AnswerFake, AnswerAbort, Finish
  <2>2. run'.pc \notin {"lay", "merged"}
    BY <1>s, <2>1
  <2> QED BY <1>1, <2>1, <2>2, PushStill
<1>12. CASE AnswerAttempt
  <2>1. run.pc = "asked" /\ logged' = logged /\ origin' = origin
    BY <1>12 DEF AnswerAttempt, Answered, At
  <2>2. CASE ref' = ref /\ (run' = run \/ run' = Idle)
    <3>1. run'.pc \notin {"lay", "merged"}
      BY <2>1, <2>2 DEF Idle
    <3> QED BY <1>1, <2>1, <2>2, <3>1, PushStill
  <2>3. CASE /\ db' = Append(db, Attempt) /\ ref' = [ref EXCEPT ![run.side] = Len(db) + 1]
             /\ run' = [run EXCEPT !.pc = "resolved"]
    <3>1. run'.pc \notin {"lay", "merged"}
      BY <1>r, <2>3 DEF Runs
    <3>2. CASE run.side = "history"
      <4>1. ref'["clean"] = ref["clean"]
        BY <1>2, <1>3, <2>3, <3>2
      <4> QED BY <1>1, <2>1, <3>1, <4>1, PushStill
    <3>3. CASE run.side = "clean"
      <4> DEFINE tree == [p \in Paths |-> IF p \in Kept(run.side)
                            THEN MergeTree(db, ref[run.side], Second, NoisyPaths)[p] ELSE Absent]
      <4>1. db' = Append(db, Commit(db, ref[run.side], Second, tree, NoTrailers, db[run.stop].date))
        BY <2>3 DEF Attempt
      <4>2. \A p \in AiPaths : p \in Paths /\ p \notin Kept(run.side)
        BY <3>3, PathsAssumption DEF Kept, Paths
      <4>3. \A p \in AiPaths : tree[p] = Absent
        BY <4>2
      <4> HIDE DEF tree
      <4>4. /\ db'[Len(db) + 1].line = LineOf(db, ref["clean"]) \cup {Len(db) + 1}
            /\ db'[Len(db) + 1].tree = tree
        BY <1>1, <3>3, <4>1, MadeIs
      <4>5. Sound(db', Len(db) + 1)
        BY <1>1, <1>2, <4>3, <4>4, SoundMore DEF PushInv, NoAi
      <4>6. ref'["clean"] = Len(db) + 1
        BY <1>2, <1>3, <2>3, <3>3
      <4> QED BY <1>1, <2>1, <3>1, <4>5, <4>6, PushMoved
    <3> QED BY <1>2, <3>2, <3>3 DEF Sides
  <2> QED BY <1>12, <2>2, <2>3 DEF AnswerAttempt, Go, Finish
<1>13. CASE MergeByHand
  <2>1. /\ <<run.side, "manual">> \in Answers /\ logged' = logged /\ origin' = origin
        /\ ref' = [ref EXCEPT ![run.side] = Len(db) + 1]
        /\ run' = [run EXCEPT !.pc = "merged"]
    BY <1>13 DEF MergeByHand, Answered, Go
  <2>2. run.side = "history"
    BY <1>2, <2>1 DEF CleanKept, Sides
  <2>3. ref'["clean"] = ref["clean"] /\ run'.pc = "merged" /\ run'.side = run.side
    BY <1>2, <1>3, <1>r, <2>1, <2>2 DEF Runs
  <2>4. Sound(db', ref'["clean"])
    BY <1>1, <1>2, <2>3, SoundStays DEF PushInv
  <2> QED BY <1>1, <2>1, <2>3, <2>4, PushMoved
<1>14. CASE AnswerManual
  <2>1. /\ run.pc = "merged" /\ logged' = logged /\ origin' = origin
        /\ ref' = [ref EXCEPT ![run.side] = Len(db) + 1]
        /\ run' = [run EXCEPT !.pc = "resolved"]
    BY <1>14 DEF AnswerManual, Go, At
  <2>2. run.side = "history"
    BY <1>2, <2>1 DEF CleanKept, Sides, PushInv
  <2>3. ref'["clean"] = ref["clean"] /\ run'.pc = "resolved"
    BY <1>2, <1>3, <1>r, <2>1, <2>2 DEF Runs
  <2> QED BY <1>1, <2>1, <2>3, PushStill
<1> QED BY <1>5, <1>6, <1>7, <1>8, <1>9, <1>10, <1>11, <1>12, <1>13, <1>14 DEF ForwardStep


LEMMA PushOther ==
  ASSUME CleanKept, Typed, PushInv, Next, ~ForwardStep
  PROVE  PushInv'
<1>1. /\ WellFormed(db) /\ WellFormed(db') /\ Grown(db, db') /\ Grown(Store, db) /\ Len(db) \in Nat
      /\ [Next]_vars
  BY StoreGrows, RefsAre DEF Typed
<1>2. /\ ref \in [RefNames -> 0..Len(db)] /\ ref["clean"] \in 0..Len(db)
  BY RefsAre DEF Typed, RefNames
<1>r. run \in Runs /\ Idle.pc = "idle"
  BY DEF Typed, Idle
<1>3. {"unclean", "clean", "history", "fork", "fwdClean", "fwdHistory", "revClean", "revHistory"}
        = RefNames
  BY DEF RefNames
<1>4. CASE ReverseStep
  <2>1. /\ run.pc \in {"boot", "rebuild", "rewrite", "again", "build", "revClean", "revHistory"}
        /\ logged' = logged /\ origin' = origin
    BY <1>4 DEF ReverseStep, CreateHistory, ReadSides, RewriteDiverged, ApplyAgain, Rewritten,
       StartRebuild, BuildItem, RebuildUnclean, MoveReverseCursor, Working, Worked, At
  <2>2. ref'["clean"] = ref["clean"]
    <3>1. ref' = ref \/ \E r \in RefNames \ {"clean"} : \E x : ref' = [ref EXCEPT ![r] = x]
      BY <1>3, <1>4 DEF ReverseStep, CreateHistory, ReadSides, RewriteDiverged, ApplyAgain, Rewritten,
         StartRebuild, BuildItem, RebuildUnclean, MoveReverseCursor, MoveTo, Rev
    <3> QED BY <1>2, <1>3, <3>1
  <2>3. run'.pc \notin {"lay", "merged"}
    <3>1. CASE CreateHistory \/ ReadSides
      BY <1>r, <3>1 DEF CreateHistory, ReadSides, Finish, Go, Runs
    <3>2. CASE RewriteDiverged
      BY <1>r, <3>2 DEF RewriteDiverged, Finish, Runs
    <3>3. CASE ApplyAgain \/ Rewritten
      BY <1>r, <2>1, <3>3 DEF ApplyAgain, Rewritten, Make, MoveTo, Runs
    <3>4. CASE StartRebuild \/ RebuildUnclean
      BY <1>r, <3>4 DEF StartRebuild, RebuildUnclean, MoveTo, Runs
    <3>5. CASE BuildItem
      <4>1. \E key : run' = [run EXCEPT !.tip = Len(db) + 1, !.rest = @ \ {key}]
        BY <3>5 DEF BuildItem, Make
      <4> QED BY <1>r, <2>1, <4>1 DEF Runs
    <3>6. CASE MoveReverseCursor
      BY <1>r, <3>6 DEF MoveReverseCursor, Go, Finish, Runs
    <3> QED BY <1>4, <3>1, <3>2, <3>3, <3>4, <3>5, <3>6 DEF ReverseStep
  <2> QED BY <1>1, <2>1, <2>2, <2>3, PushStill
<1>5. CASE RebaseStep
  <2>1. /\ run.pc \in {"idle", "rebase"} /\ origin' = origin
        /\ logged' = logged \/ logged' = ref
        /\ ref' = ref \/ \E x : ref' = [ref EXCEPT !["unclean"] = x]
    BY <1>5 DEF RebaseStep, RebaseBranches, Start, Reapply, EndRebase, MoveTo, Working, Worked, At
  <2>2. ref'["clean"] = ref["clean"]
    BY <1>2, <1>3, <2>1
  <2>3. run'.pc \notin {"lay", "merged"}
    <3>1. CASE RebaseBranches
      BY <3>1 DEF RebaseBranches, Start, Idle
    <3>2. CASE Reapply
      BY <1>r, <3>2 DEF Reapply, Make, Pass, Finish, Working, At, Runs
    <3>3. CASE EndRebase
      BY <1>r, <3>3 DEF EndRebase, MoveTo
    <3> QED BY <1>5, <3>1, <3>2, <3>3 DEF RebaseStep
  <2> QED BY <1>1, <2>1, <2>2, <2>3, PushStill
<1>6. CASE SyncToCleanHistory \/ SyncToUnclean \/ BootstrapBranch
  <2>1. logged' = ref /\ ref' = ref /\ origin' = origin
    BY <1>6 DEF SyncToCleanHistory, SyncToUnclean, BootstrapBranch, Start
  <2>2. run'.pc \in {"clean", "rebuild", "boot"}
    BY <1>6 DEF SyncToCleanHistory, SyncToUnclean, BootstrapBranch, Start, Idle
  <2> QED BY <1>1, <2>1, <2>2, PushStill
<1>7. CASE Crash
  BY <1>1, <1>r, <1>7, PushStill DEF Crash, Finish
<1>8. CASE Undo
  <2>1. /\ run.pc = "idle" /\ logged # <<>> /\ ref' = logged /\ logged' = <<>> /\ db' = db
        /\ run' = run /\ origin' = origin
    BY <1>8 DEF Undo, At
  <2>2. Sound(db', ref'["clean"])
    BY <2>1 DEF PushInv
  <2> QED BY <1>1, <2>1, <2>2, PushMoved
\* An author's commit on top of first, which clean's line has.
<1>9. ASSUME NEW r \in {"unclean", "clean", "history"}, NEW commit, Extend(r, commit),
             r = "clean" => \E first \in 0..Len(db) : \E tree, note, date :
                Sound(db, first) /\ commit = Commit(db, first, 0, tree, note, date)
      PROVE  PushInv'
  <2>1. /\ run.pc = "idle" /\ run' = run /\ logged' = <<>> /\ origin' = origin
        /\ ref' = [ref EXCEPT ![r] = Len(db) + 1] /\ db' = Append(db, commit)
    BY <1>9 DEF Extend, At
  <2>2. CASE r # "clean"
    <3>1. ref'["clean"] = ref["clean"]
      BY <1>2, <1>3, <2>1, <2>2
    <3> QED BY <1>1, <2>1, <3>1, PushStill
  <2>3. CASE r = "clean"
    <3>0. PICK first \in 0..Len(db) : \E tree, note, date :
             Sound(db, first) /\ commit = Commit(db, first, 0, tree, note, date)
      BY <1>9, <2>3
    <3>1. PICK tree, note, date :
             Sound(db, first) /\ commit = Commit(db, first, 0, tree, note, date)
      BY <3>0
    <3>2. db' = Append(db, Commit(db, first, 0, tree, note, date))
      BY <2>1, <3>1
    <3>3. /\ db'[Len(db) + 1].line = LineOf(db, first) \cup {Len(db) + 1}
          /\ db'[Len(db) + 1].merged = 0
      BY <1>1, <3>2, MadeIs
    <3>4. Sound(db', Len(db) + 1)
      BY <1>1, <3>1, <3>3, SoundMore
    <3>5. ref'["clean"] = Len(db) + 1
      BY <1>2, <1>3, <2>1, <2>3
    <3> QED BY <1>1, <2>1, <3>4, <3>5, PushMoved
  <2> QED BY <2>2, <2>3
<1>10. ASSUME NEW r \in {"unclean", "clean", "history"}, AuthorCommit(r) PROVE PushInv'
  <2>1. PICK e, date : Extend(r, Commit(db, ref[r], 0, Edited(e, r), NoTrailers, date))
    BY <1>10 DEF AuthorCommit
  <2>2. Sound(db, ref["clean"]) /\ ref["clean"] \in 0..Len(db)
    BY <1>2 DEF PushInv
  <2> QED BY <1>9, <2>1, <2>2
<1>11. CASE MergeIntoUnclean
  <2>1. \E commit : Extend("unclean", commit)
    BY <1>11 DEF MergeIntoUnclean
  <2> QED BY <1>9, <2>1
<1>12. ASSUME NEW side \in Sides, Amend(side) PROVE PushInv'
  <2>1. PICK e : /\ ref[side] # 0
                 /\ Extend(side, Commit(db, db[ref[side]].first, 0, Edited(e, side),
                                         Tip(side).note, Tip(side).date))
    BY <1>12 DEF Amend, FirstParent
  <2>2. side = "clean" => Sound(db, db[ref["clean"]].first) /\ db[ref["clean"]].first \in 0..Len(db)
    BY <1>1, <1>2, <2>1, SoundBelow DEF PushInv
  <2>3. side \in {"unclean", "clean", "history"}
    BY DEF Sides
  <2> QED BY <1>9, <2>1, <2>2, <2>3
<1>13. CASE Push
  <2> DEFINE base == IF origin = 0 THEN Main ELSE origin
  <2>1. /\ run.pc = "idle" /\ run' = run /\ ref' = ref /\ logged' = logged /\ db' = db
        /\ origin' = ref["clean"] /\ ref["clean"] # 0
        /\ \A i \in Past("clean") \ db[base].anc : ~AiTainted(db, i)
    BY <1>13 DEF Push, At
  <2>2. base \in 1..Len(db) /\ (base = Main \/ base = origin)
    BY <1>1, RefsAre, StoreTyped DEF Typed
  <2> HIDE DEF base
  <2>3. \A j \in LineOf(db, ref["clean"]) : NoAi(db, j)
    BY <2>1, <2>2, PushedClean
  <2> QED BY <2>1, <2>3 DEF PushInv
<1> QED BY <1>4, <1>5, <1>6, <1>7, <1>8, <1>10, <1>11, <1>12, <1>13 DEF Next, AuthorStep

LEMMA PushNext ==
  ASSUME CleanKept, Typed, PushInv, [Next]_vars
  PROVE  PushInv'
<1>1. CASE UNCHANGED vars
  BY <1>1 DEF vars, PushInv
<1>2. CASE Next
  BY <1>2, PushForward, PushOther
<1> QED BY <1>1, <1>2

\* If where clean starts nothing has AI files, and nobody merges into it by hand, then no
\* commit that the pre-push hook has let through leaves an AI file on origin, whatever
\* authors put on clean, amended or synced: what the hook passes over, a merge or what
\* it looked at before, has none.
THEOREM OriginClean ==
  ASSUME CleanKept
  PROVE  Spec => []OriginHasNoAi
<1>1. Typed /\ PushInv => OriginHasNoAi
  <2>1. ASSUME Typed, PushInv, origin # 0, NEW p \in AiPaths
        PROVE  db[origin].tree[p] = db[Main].tree[p]
    <3>1. WellFormed(db) /\ origin \in 0..Len(db) /\ Len(db) \in Nat /\ Grown(Store, db)
      BY <2>1, RefsAre DEF Typed
    <3>2. origin \in LineOf(db, origin)
      BY <2>1, <3>1, LineOfIs
    <3>3. Main \in LineOf(Store, Main) /\ db[Main] = Store[Main]
      BY <3>1, StoreTyped, LineOfIs DEF Grown
    <3> QED BY <2>1, <3>2, <3>3 DEF PushInv, CleanKept, NoAi
  <2> QED BY <2>1 DEF OriginHasNoAi
<1>2. Init => Typed /\ PushInv
  BY TypedInit, PushInit
<1>3. Typed /\ PushInv /\ [Next]_vars => Typed' /\ PushInv'
  BY TypedNext, PushNext
<1> QED BY <1>1, <1>2, <1>3, PTL DEF Spec

-----------------------------------------------------------------------------
(* What no invocation does to a side.                                      *)

\* Files that are not for a side, which its commit i has as commit j has.
Alike(d, i, j, side) == \A p \in Paths \ Kept(side) : d[i].tree[p] = d[j].tree[p]

\* What is laid on a side leaves the files that are not for it.
LayInv == run.pc = "lay" => Alike(db, run.tip, ref[run.side], run.side)

LEMMA AlikeStays ==
  ASSUME NEW d, NEW e, Grown(d, e), NEW i \in 1..Len(d), NEW j \in 1..Len(d), NEW side
  PROVE  Alike(e, i, j, side) = Alike(d, i, j, side)
BY DEF Grown, Alike

\* The steps that begin laying, go on laying, or make a merge by hand are the only ones
\* that leave the run at it.
LEMMA Enters ==
  ASSUME Typed, Next, ~StartPass, ~LaySource, ~MergeByHand
  PROVE  run'.pc \notin {"lay", "merged"}
<1>r. run \in Runs
  BY DEF Typed
<1>1. Idle.pc = "idle" /\ StartOver(run.fake).pc = "clean" /\ StartOver(TRUE).pc = "clean"
  BY <1>r, StartOverTyped DEF Idle, Runs
<1>2. CASE ForwardStep
  <2>1. CASE EnsureClean \/ EnsureHistory \/ MarkForkPoint \/ NothingToReplay
    BY <1>r, <1>1, <2>1 DEF EnsureClean, EnsureHistory, MarkForkPoint, NothingToReplay, Go, Finish, Runs
  <2>2. CASE StopAtMerge \/ EndPass \/ MoveForwardCursor
    BY <1>r, <1>1, <2>2 DEF StopAtMerge, EndPass, MoveTo, MoveForwardCursor, Finish, Runs
  <2>3. CASE AnswerFake \/ AnswerAbort \/ AnswerAttempt
    BY <1>r, <1>1, <2>3 DEF AnswerFake, AnswerAbort, AnswerAttempt, Answered, At, Go, Finish, Runs
  <2>4. CASE AnswerManual \/ MergeResolved
    BY <1>r, <1>1, <2>4 DEF AnswerManual, MergeResolved, Go, Runs
  <2> QED BY <1>2, <2>1, <2>2, <2>3, <2>4 DEF ForwardStep
<1>3. CASE ReverseStep
  <2>1. CASE CreateHistory \/ ReadSides
    BY <1>r, <1>1, <2>1 DEF CreateHistory, ReadSides, Finish, Go, Runs
  <2>2. CASE RewriteDiverged
    BY <1>r, <1>1, <2>2 DEF RewriteDiverged, Finish, Runs
  <2>3. CASE ApplyAgain \/ Rewritten
    BY <1>r, <2>3 DEF ApplyAgain, Rewritten, Make, MoveTo, Working, At, Runs
  <2>4. CASE StartRebuild \/ RebuildUnclean
    BY <1>r, <2>4 DEF StartRebuild, RebuildUnclean, MoveTo, Runs
  <2>5. CASE BuildItem
    <3>1. run.pc = "build" /\ \E key : run' = [run EXCEPT !.tip = Len(db) + 1, !.rest = @ \ {key}]
      BY <2>5 DEF BuildItem, Make, Working, At
    <3> QED BY <1>r, <3>1 DEF Runs
  <2>6. CASE MoveReverseCursor
    BY <1>r, <1>1, <2>6 DEF MoveReverseCursor, Go, Finish, Runs
  <2> QED BY <1>3, <2>1, <2>2, <2>3, <2>4, <2>5, <2>6 DEF ReverseStep
<1>4. CASE RebaseStep
  <2>1. CASE RebaseBranches
    BY <2>1 DEF RebaseBranches, Start, Idle
  <2>2. CASE Reapply
    BY <1>r, <1>1, <2>2 DEF Reapply, Make, Pass, Finish, Working, At, Runs
  <2>3. CASE EndRebase
    BY <1>1, <2>3 DEF EndRebase, MoveTo
  <2> QED BY <1>4, <2>1, <2>2, <2>3 DEF RebaseStep
<1>5. CASE SyncToCleanHistory \/ SyncToUnclean \/ BootstrapBranch
  BY <1>5 DEF SyncToCleanHistory, SyncToUnclean, BootstrapBranch, Start, Idle
<1>6. CASE Crash \/ Undo \/ AuthorStep
  <2>1. CASE Crash
    BY <1>1, <2>1 DEF Crash, Finish
  <2>2. CASE Undo \/ AuthorStep
    <3>1. run.pc = "idle" /\ run' = run
      BY <2>2 DEF Undo, AuthorStep, AuthorCommit, MergeIntoUnclean, Push, Amend, Extend, At
    <3> QED BY <3>1
  <2> QED BY <1>6, <2>1, <2>2
<1> QED BY <1>2, <1>3, <1>4, <1>5, <1>6 DEF Next

LEMMA LayInit ==
  ASSUME Init
  PROVE  LayInv
<1>1. run.pc = "idle"
  BY DEF Init, Idle
<1> QED BY <1>1 DEF LayInv

LEMMA LayNext ==
  ASSUME Typed, LayInv, [Next]_vars
  PROVE  LayInv'
<1>1. /\ WellFormed(db) /\ WellFormed(db') /\ Grown(db, db') /\ Len(db) \in Nat
      /\ Len(db') \in Nat
  BY StoreGrows, RefsAre, StaysRead DEF Typed
<1>2. run \in Runs /\ run.side \in Sides
  BY DEF Typed, Runs
<1>3. CASE StartPass
  <2>1. /\ ref' = ref
        /\ run' = [run EXCEPT !.pc = "lay", !.tip = ref[run.side], !.rest = Sources(run.side),
                              !.last = Max({0} \cup Sources(run.side))]
    BY <1>3 DEF StartPass
  <2>2. run'.tip = ref'[run'.side]
    BY <1>2, <2>1 DEF Runs
  <2> QED BY <2>2 DEF LayInv, Alike
<1>4. CASE LaySource
  <2>1. /\ run.pc = "lay" /\ ref' = ref /\ Oldest \in 1..Len(db)
    BY <1>4, OldestIs DEF LaySource, Working, At, Typed, Staged
  <2>2. run.tip \in 1..Len(db) /\ Laid(Oldest) \in Trees
    BY <2>1, LaidIs
  <2>3. ref[run.side] \in 1..Len(db)
    BY <1>2, <2>1, RefsAre DEF Typed, Staged, Started, Sides
  <2>4. Alike(db', run.tip, ref[run.side], run.side)
    BY <1>1, <2>1, <2>2, <2>3, AlikeStays DEF LayInv
  <2>5. CASE Pass(Oldest)
    <3>1. run' = [run EXCEPT !.rest = @ \ {Oldest}]
      BY <2>5 DEF Pass
    <3>2. run'.tip = run.tip /\ run'.side = run.side
      BY <1>2, <3>1 DEF Runs
    <3> QED BY <2>1, <2>4, <3>2 DEF LayInv
  <2>6. CASE ~Pass(Oldest)
    <3>1. /\ \E note, date : db' = Append(db, Commit(db, run.tip, 0, Laid(Oldest), note, date))
          /\ \/ \E m : run' = [run EXCEPT !.tip = Len(db) + 1, !.rest = @ \ {Oldest}, !.mates = m]
             \/ run' = [run EXCEPT !.tip = Len(db) + 1, !.rest = @ \ {Oldest}]
      BY <1>4, <2>6 DEF LaySource, Make
    <3>2. run'.tip = Len(db) + 1 /\ run'.side = run.side
      BY <1>2, <3>1 DEF Runs
    <3>3. db'[Len(db) + 1].tree = Laid(Oldest)
      <4>1. PICK note, date : db' = Append(db, Commit(db, run.tip, 0, Laid(Oldest), note, date))
        BY <3>1
      <4>2. WellFormed(db)
        BY <1>1
      <4> QED BY <4>1, <4>2, MadeIs
    <3>4. \A p \in Paths \ Kept(run.side) : Laid(Oldest)[p] = db[run.tip].tree[p]
      <4>1. db[run.tip].tree \in Trees
        BY <1>1, <2>2, RecordsTyped
      <4>2. \A p \in Paths : Laid(Oldest)[p] = IF p \in Changed(db, Oldest) \cap Kept(run.side)
                                              THEN db[Oldest].tree[p] ELSE db[run.tip].tree[p]
        BY <1>1, <2>1, <4>1, Overlaid DEF Laid
      <4> QED BY <4>2
    <3>5. db'[run.tip] = db[run.tip]
      BY <1>1, <2>2 DEF Grown
    <3> QED BY <2>1, <2>4, <3>2, <3>3, <3>4, <3>5 DEF LayInv, Alike
  <2> QED BY <2>5, <2>6
<1>5. CASE UNCHANGED vars
  BY <1>5 DEF vars, LayInv
<1>6. CASE MergeByHand
  <2>1. run' = [run EXCEPT !.pc = "merged"]
    BY <1>6 DEF MergeByHand, Go
  <2>2. run'.pc = "merged"
    BY <1>2, <2>1 DEF Runs
  <2> QED BY <2>2 DEF LayInv
<1>7. CASE Next /\ ~StartPass /\ ~LaySource /\ ~MergeByHand
  BY <1>7, Enters DEF LayInv
<1> QED BY <1>3, <1>4, <1>5, <1>6, <1>7

\* No step but an attempted merge.
LEMMA StepKeepsApart ==
  ASSUME Typed, LayInv, [Next]_vars, ~AnswerAttempt
  PROVE  KeepsApart
<1>1. /\ WellFormed(db) /\ WellFormed(db') /\ Grown(db, db') /\ Len(db) \in Nat
      /\ \A i \in 1..Len(db) : db'[i] = db[i]
  BY StoreGrows, RefsAre, StaysRead DEF Typed
<1>2. run \in Runs /\ run.side \in Sides /\ ref \in [RefNames -> 0..Len(db)]
  BY DEF Typed, Runs
<1>3. {"unclean", "clean", "history", "fork", "fwdClean", "fwdHistory", "revClean", "revHistory"}
        = RefNames
  BY DEF RefNames
<1> SUFFICES ASSUME NEW side \in Sides, run.pc # "idle", run'.pc # "merged", ref[side] # 0,
                    NEW p \in Paths \ Kept(side)
             PROVE  db'[ref'[side]].tree[p] = Tip(side).tree[p]
  BY DEF KeepsApart, At
<1>4. ref[side] \in 1..Len(db) /\ side \in RefNames
  BY RefsAre
<1>5. ASSUME ref'[side] = ref[side] PROVE db'[ref'[side]].tree[p] = Tip(side).tree[p]
  BY <1>1, <1>4, <1>5 DEF Tip
<1>6. CASE EnsureClean \/ EnsureHistory \/ CreateHistory
  <2>1. ref'[side] = ref[side]
    BY <1>2, <1>3, <1>4, <1>6 DEF EnsureClean, EnsureHistory, CreateHistory, Sides
  <2> QED BY <1>5, <2>1
<1>7. CASE StopAtMerge \/ EndPass
  <2>1. /\ run.pc = "lay" /\ ref' = [ref EXCEPT ![run.side] = run.tip] /\ db' = db
    BY <1>7 DEF StopAtMerge, EndPass, MoveTo, Working, Worked, At
  <2>2. CASE side = run.side
    <3>1. ref'[side] = run.tip
      BY <1>2, <1>4, <2>1, <2>2
    <3> QED BY <2>1, <2>2, <3>1 DEF LayInv, Alike, Tip
  <2>3. CASE side # run.side
    BY <1>2, <1>4, <1>5, <2>1, <2>3
  <2> QED BY <2>2, <2>3
<1>8. CASE MergeByHand
  <2>1. run' = [run EXCEPT !.pc = "merged"]
    BY <1>8 DEF MergeByHand, Go
  <2> QED BY <1>2, <2>1 DEF Runs
<1>9. CASE AnswerManual
  <2>1. /\ ref' = [ref EXCEPT ![run.side] = Len(db) + 1]
        /\ \E first, merged, note, date :
              db' = Append(db, Commit(db, first, merged, db[ref[run.side]].tree, note, date))
    BY <1>9 DEF AnswerManual
  <2>2. db'[Len(db) + 1].tree = db[ref[run.side]].tree
    BY <1>1, <2>1, MadeIs
  <2>3. CASE side = run.side
    <3>1. ref'[side] = Len(db) + 1
      BY <1>2, <1>4, <2>1, <2>3
    <3> QED BY <2>2, <2>3, <3>1 DEF Tip
  <2>4. CASE side # run.side
    BY <1>2, <1>4, <1>5, <2>1, <2>4
  <2> QED BY <2>3, <2>4
<1>10. CASE UNCHANGED vars
  BY <1>5, <1>10 DEF vars
<1>11. ASSUME Next, ~EnsureClean, ~EnsureHistory, ~CreateHistory, ~StopAtMerge, ~EndPass,
              ~MergeByHand, ~AnswerManual
       PROVE  ref'[side] = ref[side]
  <2>1. ref' = ref \/ \E r \in RefNames \ Sides : \E x : ref' = [ref EXCEPT ![r] = x]
    BY <1>3, <1>11 DEF Next, ForwardStep, ReverseStep, RebaseStep, AuthorStep,
       MarkForkPoint, NothingToReplay, StartPass, LaySource, MoveForwardCursor,
       AnswerFake, AnswerAbort, MergeResolved,
       ReadSides, RewriteDiverged, ApplyAgain, Rewritten, StartRebuild, BuildItem,
       RebuildUnclean, MoveReverseCursor, RebaseBranches, Reapply, EndRebase, Push, MoveTo,
       SyncToCleanHistory, SyncToUnclean, BootstrapBranch, Crash, Undo, Start, AuthorCommit,
       MergeIntoUnclean, Amend, Extend, At, Sides, Fwd, Rev
  <2> QED BY <1>2, <1>4, <2>1
<1> QED BY <1>5, <1>6, <1>7, <1>8, <1>9, <1>10, <1>11


\* Whatever the constants: no step of an invocation changes a file that is not for a
\* side on that side, but for a merge that the author makes by hand and one that is
\* attempted.
THEOREM SidesApartButForAttempts ==
  Spec => [][~AnswerAttempt => KeepsApart]_vars
<1>1. Init => Typed /\ LayInv
  BY TypedInit, LayInit
<1>2. Typed /\ LayInv /\ [Next]_vars => Typed' /\ LayInv'
  BY TypedNext, LayNext
<1>3. Typed /\ LayInv /\ [Next]_vars => [~AnswerAttempt => KeepsApart]_vars
  BY StepKeepsApart
<1> QED BY <1>1, <1>2, <1>3, PTL DEF Spec

\* An attempted merge removes what is not for the side: it is harmless on a side that
\* holds nothing else, which the side does if it starts that way, its authors keep to its
\* files and nobody merges into it by hand.
Plain(d, i, side) == \A p \in Paths \ Kept(side) : d[i].tree[p] = Absent
OneKind(side) ==
  /\ <<side, "manual">> \notin Answers
  /\ Plain(Store, Bound(side), side)
  /\ side = "clean" => \A s \in Scenarios : s.clean # 0 => Plain(Store, s.clean, side)
  /\ \A e \in Edits[side] : \A p \in (DOMAIN e \cap Paths) \ Kept(side) : e[p] = Absent
AttemptsPlain == \A side \in Sides : <<side, "attempt">> \in Answers => OneKind(side)

PlainAt(d, refs, side) == refs[side] # 0 => Plain(d, refs[side], side)
PlainInv ==
  /\ \A side \in Sides : OneKind(side) =>
       /\ PlainAt(db, ref, side)
       /\ logged # <<>> => PlainAt(db, logged, side)
  /\ run.pc = "merged" => <<run.side, "manual">> \in Answers

LEMMA PlainStays ==
  ASSUME NEW d, WellFormed(d), NEW e, Grown(d, e), NEW i \in 1..Len(d), NEW side
  PROVE  Plain(e, i, side) = Plain(d, i, side)
BY DEF Grown, Plain

LEMMA PlainInit ==
  ASSUME Init
  PROVE  PlainInv
<1>1. PICK s \in Scenarios :
      ref = [r \in RefNames |-> IF r = "unclean" THEN s.unclean
                                ELSE IF r = "clean" THEN s.clean ELSE 0]
  BY DEF Init
<1>2. db = Store /\ run.pc = "idle" /\ logged = <<>> /\ ref["clean"] = s.clean /\ ref["history"] = 0
  BY <1>1 DEF Init, Idle, RefNames
<1>3. \A side \in Sides : OneKind(side) => PlainAt(db, ref, side)
  BY <1>2 DEF OneKind, PlainAt, Sides
<1> QED BY <1>2, <1>3 DEF PlainInv

LEMMA PlainNext ==
  ASSUME Typed, LayInv, PlainInv, [Next]_vars
  PROVE  PlainInv'
<1>1. /\ WellFormed(db) /\ WellFormed(db') /\ Grown(db, db') /\ Grown(Store, db)
      /\ Len(db) \in Nat
      /\ \A i \in 1..Len(db) : db'[i] = db[i]
  BY StoreGrows, RefsAre, StaysRead DEF Typed
<1>2. run \in Runs /\ run.side \in Sides /\ ref \in [RefNames -> 0..Len(db)]
  BY DEF Typed, Runs
<1>3. {"unclean", "clean", "history", "fork", "fwdClean", "fwdHistory", "revClean", "revHistory"}
        = RefNames
  BY DEF RefNames
<1>4. \A side \in Sides : /\ ref[side] \in 0..Len(db) /\ side \in RefNames
                          /\ ref[side] # 0 => ref[side] \in 1..Len(db)
  BY RefsAre
<1>5. ASSUME NEW side \in Sides, OneKind(side), ref'[side] \in {ref[side], Bound(side)}
      PROVE  PlainAt(db', ref', side)
  <2>1. Bound(side) \in 1..Len(Store) /\ Plain(Store, Bound(side), side)
    BY <1>5, StoreTyped DEF OneKind, Bound
  <2>2. Plain(db', Bound(side), side)
    BY <1>1, <2>1, RefsAre, StoreTyped, StaysRead, PlainStays
  <2>3. ref[side] # 0 => Plain(db', ref[side], side)
    BY <1>1, <1>4, <1>5, PlainStays DEF PlainInv, PlainAt
  <2> QED BY <1>5, <2>2, <2>3 DEF PlainAt
<1>6. ASSUME NEW side \in Sides, OneKind(side)
      PROVE  PlainAt(db', ref', side)
  <2>a. ref[side] # 0 => Plain(db, ref[side], side)
    BY <1>6 DEF PlainInv, PlainAt
  <2>1. CASE EnsureClean \/ EnsureHistory \/ CreateHistory
    <3>1. ref'[side] \in {ref[side], Bound(side)}
      BY <1>2, <1>3, <2>1 DEF EnsureClean, EnsureHistory, CreateHistory, Sides, Bound
    <3> QED BY <1>5, <1>6, <3>1
  <2>2. CASE StopAtMerge \/ EndPass
    <3>1. /\ run.pc = "lay" /\ ref' = [ref EXCEPT ![run.side] = run.tip] /\ db' = db
      BY <2>2 DEF StopAtMerge, EndPass, MoveTo, Working, Worked, At
    <3>2. CASE side = run.side
      <4>1. ref'[side] = run.tip /\ ref[side] # 0
        BY <1>2, <1>4, <3>1, <3>2 DEF Typed, Staged, Started, Sides
      <4> QED BY <2>a, <3>1, <3>2, <4>1 DEF LayInv, Alike, Plain, PlainAt
    <3>3. CASE side # run.side
      <4>1. ref'[side] = ref[side]
        BY <1>2, <1>4, <3>1, <3>3
      <4> QED BY <1>5, <1>6, <4>1
    <3> QED BY <3>2, <3>3
  <2>3. CASE AnswerAttempt
    <3>1. CASE ref' = ref
      BY <1>5, <1>6, <3>1
    <3>2. CASE db' = Append(db, Attempt) /\ ref' = [ref EXCEPT ![run.side] = Len(db) + 1]
      <4> DEFINE tree == [p \in Paths |-> IF p \in Kept(run.side)
                            THEN MergeTree(db, ref[run.side], Second, NoisyPaths)[p] ELSE Absent]
      <4>1. db' = Append(db, Commit(db, ref[run.side], Second, tree, NoTrailers, db[run.stop].date))
        BY <3>2 DEF Attempt
      <4>2. \A p \in Paths \ Kept(run.side) : tree[p] = Absent
        OBVIOUS
      <4> HIDE DEF tree
      <4>3. db'[Len(db) + 1].tree = tree
        BY <1>1, <4>1, MadeIs
      <4>4. CASE side = run.side
        <5>1. ref'[side] = Len(db) + 1
          BY <1>2, <1>4, <3>2, <4>4
        <5> QED BY <4>2, <4>3, <4>4, <5>1 DEF Plain, PlainAt
      <4>5. CASE side # run.side
        <5>1. ref'[side] = ref[side]
          BY <1>2, <1>4, <3>2, <4>5
        <5> QED BY <1>5, <1>6, <5>1
      <4> QED BY <4>4, <4>5
    <3> QED BY <2>3, <3>1, <3>2 DEF AnswerAttempt
  <2>4. CASE MergeByHand \/ AnswerManual
    <3>1. /\ <<run.side, "manual">> \in Answers
          /\ ref' = [ref EXCEPT ![run.side] = Len(db) + 1]
      BY <2>4 DEF MergeByHand, AnswerManual, Answered, At, PlainInv
    <3>2. side # run.side
      BY <1>6, <3>1 DEF OneKind
    <3>3. ref'[side] = ref[side]
      BY <1>2, <1>4, <3>1, <3>2
    <3> QED BY <1>5, <1>6, <3>3
  <2>5. CASE Undo
    <3>1. /\ logged # <<>> /\ ref' = logged /\ db' = db
      BY <2>5 DEF Undo
    <3> QED BY <1>6, <3>1 DEF PlainInv, PlainAt
  \* An author's commit: on the files of the side that the tip has already.
  <2>6. ASSUME NEW r \in {"unclean", "clean", "history"}, NEW first, NEW e \in Edits[r],
               NEW note, NEW date, ref[r] # 0,
               Extend(r, Commit(db, first, 0, Edited(e, r), note, date))
        PROVE  PlainAt(db', ref', side)
    <3>1. /\ ref' = [ref EXCEPT ![r] = Len(db) + 1]
          /\ db' = Append(db, Commit(db, first, 0, Edited(e, r), note, date))
      BY <2>6 DEF Extend
    <3>2. CASE side = r
      <4>1. ref'[side] = Len(db) + 1
        BY <1>2, <1>4, <3>1, <3>2
      <4>2. db'[Len(db) + 1].tree = Edited(e, r)
        BY <1>1, <3>1, MadeIs
      <4>3. \A p \in Paths \ Kept(side) : Edited(e, r)[p] = Absent
        BY <1>6, <2>a, <2>6, <3>2 DEF OneKind, Edited, Tip, Plain
      <4> QED BY <4>1, <4>2, <4>3 DEF Plain, PlainAt
    <3>3. CASE side # r
      <4>1. ref'[side] = ref[side]
        BY <1>2, <1>3, <1>4, <3>1, <3>3
      <4> QED BY <1>5, <1>6, <4>1
    <3> QED BY <3>2, <3>3
  <2>7. ASSUME NEW r \in {"unclean", "clean", "history"}, AuthorCommit(r)
        PROVE  PlainAt(db', ref', side)
    BY <2>6, <2>7 DEF AuthorCommit
  <2>8. ASSUME NEW s \in Sides, Amend(s) PROVE PlainAt(db', ref', side)
    <3>1. s \in {"unclean", "clean", "history"}
      BY DEF Sides
    <3> QED BY <2>6, <2>8, <3>1 DEF Amend
  <2>9. CASE UNCHANGED vars
    BY <1>5, <1>6, <2>9 DEF vars
  <2>10. ASSUME Next, ~EnsureClean, ~EnsureHistory, ~CreateHistory, ~StopAtMerge, ~EndPass,
                ~AnswerAttempt, ~MergeByHand, ~AnswerManual, ~Undo,
                \A r \in {"unclean", "clean", "history"} : ~AuthorCommit(r),
                \A s \in Sides : ~Amend(s)
         PROVE  ref'[side] = ref[side]
    <3>1. ref' = ref \/ \E r \in RefNames \ Sides : \E x : ref' = [ref EXCEPT ![r] = x]
      BY <1>3, <2>10 DEF Next, ForwardStep, ReverseStep, RebaseStep, AuthorStep,
         MarkForkPoint, NothingToReplay, StartPass, LaySource, MoveForwardCursor,
         AnswerFake, AnswerAbort, MergeResolved,
         ReadSides, RewriteDiverged, ApplyAgain, Rewritten, StartRebuild, BuildItem,
         RebuildUnclean, MoveReverseCursor, RebaseBranches, Reapply, EndRebase, Push, MoveTo,
         SyncToCleanHistory, SyncToUnclean, BootstrapBranch, Crash, Start,
         MergeIntoUnclean, Extend, Sides, Fwd, Rev
    <3> QED BY <1>2, <1>4, <3>1
  <2> QED BY <1>5, <1>6, <2>1, <2>2, <2>3, <2>4, <2>5, <2>7, <2>8, <2>9, <2>10
<1>7. ASSUME NEW side \in Sides, OneKind(side), logged' # <<>>
      PROVE  PlainAt(db', logged', side)
  <2>1. logged' = logged \/ logged' = ref
    BY <1>7 DEF Next, ForwardStep, ReverseStep, RebaseStep, AuthorStep, EnsureClean, EnsureHistory,
       MarkForkPoint, NothingToReplay, StartPass, LaySource, StopAtMerge, EndPass, MoveForwardCursor,
       AnswerFake, AnswerAbort, AnswerAttempt, MergeByHand, AnswerManual, MergeResolved,
       CreateHistory, ReadSides, RewriteDiverged, ApplyAgain, Rewritten, StartRebuild, BuildItem,
       RebuildUnclean, MoveReverseCursor, RebaseBranches, Reapply, EndRebase, Push,
       SyncToCleanHistory, SyncToUnclean, BootstrapBranch, Crash, Undo, Start, AuthorCommit,
       MergeIntoUnclean, Amend, Extend, vars
  <2>2. CASE logged' = ref
    <3>1. ref[side] # 0 => Plain(db', ref[side], side)
      BY <1>1, <1>4, <1>7, PlainStays DEF PlainInv, PlainAt
    <3> QED BY <2>2, <3>1 DEF PlainAt
  <2>3. CASE logged' = logged
    <3>1. logged[side] \in 0..Len(db)
      BY <1>4, <1>7, <2>3 DEF Typed
    <3>2. logged[side] # 0 => Plain(db, logged[side], side) /\ logged[side] \in 1..Len(db)
      BY <1>1, <1>7, <2>3, <3>1 DEF PlainInv, PlainAt
    <3>3. logged[side] # 0 => Plain(db', logged[side], side)
      BY <1>1, <3>2, PlainStays
    <3> QED BY <2>3, <3>3 DEF PlainAt
  <2> QED BY <2>1, <2>2, <2>3
<1>8. run'.pc = "merged" => <<run'.side, "manual">> \in Answers
  <2>1. CASE MergeByHand
    <3>1. run' = [run EXCEPT !.pc = "merged"] /\ <<run.side, "manual">> \in Answers
      BY <2>1 DEF MergeByHand, Go, Answered
    <3> QED BY <1>2, <3>1 DEF Runs
  <2>2. CASE StartPass \/ LaySource
    <3>1. CASE StartPass
      <4>1. run' = [run EXCEPT !.pc = "lay", !.tip = ref[run.side], !.rest = Sources(run.side),
                               !.last = Max({0} \cup Sources(run.side))]
        BY <3>1 DEF StartPass
      <4> QED BY <1>2, <4>1 DEF Runs
    <3>2. CASE LaySource
      BY <1>2, <3>2 DEF LaySource, Working, At, Make, Pass, Runs
    <3> QED BY <2>2, <3>1, <3>2
  <2>3. CASE Next /\ ~StartPass /\ ~LaySource /\ ~MergeByHand
    BY <2>3, Enters
  <2>4. CASE UNCHANGED vars
    BY <2>4 DEF PlainInv, vars
  <2> QED BY <2>1, <2>2, <2>3, <2>4
<1> QED BY <1>6, <1>7, <1>8 DEF PlainInv

\* No invocation changes an AI file on clean or a code file on history, but for a merge
\* made by hand, if merges are attempted only on a side that holds nothing of the other.
THEOREM SidesApart ==
  ASSUME AttemptsPlain
  PROVE  Spec => SidesKeptApart
<1>1. Init => Typed /\ LayInv /\ PlainInv
  BY TypedInit, LayInit, PlainInit
<1>2. Typed /\ LayInv /\ PlainInv /\ [Next]_vars => Typed' /\ LayInv' /\ PlainInv'
  BY TypedNext, LayNext, PlainNext
<1>3. Typed /\ LayInv /\ PlainInv /\ [Next]_vars => [KeepsApart]_vars
  <2> SUFFICES ASSUME Typed, LayInv, PlainInv, [Next]_vars PROVE KeepsApart
    OBVIOUS
  <2>1. CASE ~AnswerAttempt
    BY <2>1, StepKeepsApart
  <2>2. CASE AnswerAttempt
    <3>1. PlainInv' /\ Typed'
      BY PlainNext, TypedNext
    <3>2. \A r \in Sides : ref[r] # 0 /\ r # run.side => ref'[r] = ref[r]
      <4>1. ref' = ref \/ \E x : ref' = [ref EXCEPT ![run.side] = x]
        BY <2>2 DEF AnswerAttempt
      <4>2. ref \in [RefNames -> 0..Len(db)] /\ Sides \subseteq RefNames
        BY DEF Typed, Sides, RefNames
      <4> QED BY <4>1, <4>2
    <3>3. OneKind(run.side) /\ run.side \in Sides
      BY <2>2 DEF AnswerAttempt, Answered, AttemptsPlain, Typed, Runs
    <3>4. \A r \in Sides : ref[r] # 0 => ref[r] \in 1..Len(db) /\ db'[ref[r]] = db[ref[r]]
      BY RefsAre, StaysRead
    <3>5. ref'[run.side] # 0 \/ ref'[run.side] = ref[run.side]
      <4>1. ref' = ref \/ ref' = [ref EXCEPT ![run.side] = Len(db) + 1]
        BY <2>2 DEF AnswerAttempt
      <4>2. ref \in [RefNames -> 0..Len(db)] /\ run.side \in RefNames /\ Len(db) \in Nat
        BY <3>3, RefsAre DEF Typed
      <4> QED BY <4>1, <4>2
    <3>6. ASSUME NEW side \in Sides, ref[side] # 0, NEW p \in Paths \ Kept(side)
          PROVE  db'[ref'[side]].tree[p] = Tip(side).tree[p]
      <4>1. CASE side # run.side
        BY <3>2, <3>4, <3>6, <4>1 DEF Tip
      <4>2. CASE side = run.side
        <5>1. Plain(db, ref[side], side)
          BY <3>3, <3>6, <4>2 DEF PlainInv, PlainAt
        <5>2. ref'[side] # 0
          BY <3>5, <3>6, <4>2
        <5>3. Plain(db', ref'[side], side)
          BY <3>1, <3>3, <4>2, <5>2 DEF PlainInv, PlainAt
        <5> QED BY <5>1, <5>3, <3>6 DEF Plain, Tip
      <4> QED BY <4>1, <4>2
    <3> QED BY <3>6 DEF KeepsApart
  <2> QED BY <2>1, <2>2
<1> QED BY <1>1, <1>2, <1>3, PTL DEF Spec, SidesKeptApart

-----------------------------------------------------------------------------
(* The forward direction keeps the promises of SplitLedger.                *)

\* The scenarios' ground: ai/history/master has master among its first parents, neither
\* names a source, and nothing has been rebuilt.
FreshStart ==
  /\ Main \in Store[HistoryMain].line
  /\ Store[Main].note.source = 0 /\ Store[HistoryMain].note.source = 0
  /\ \A i \in 1..Len(Store) : Store[i].note.recon = 0

\* What a side shows, before its branch is made too, and the commit of unclean that the
\* next pass begins after.
Shown(refs, side) == IF refs[side] = 0 THEN Bound(side) ELSE refs[side]
StartOf(d, refs, side) ==
  IF refs[Fwd(side)] # 0 THEN refs[Fwd(side)]
  ELSE IF d[Shown(refs, side)].note.source # 0 THEN d[Shown(refs, side)].note.source
  ELSE Bound(side)

Flat(d, L, a, b) == \A k \in L : a < k /\ k <= b => d[k].merged = 0
Same(d, side, i, j) == \A p \in Kept(side) : d[i].tree[p] = d[j].tree[p]

\* A side shows a commit of the line L that the next pass gets to before a merge stops it,
\* unless that pass flattens merges.
Follows(d, L, refs, side, fake) ==
  /\ refs[Fwd(side)] \in {0} \cup L
  /\ d[Shown(refs, side)].note.source \in {0} \cup L
  /\ side = "clean" => d[Shown(refs, side)].note.source = 0
  /\ \E n \in L : /\ StartOf(d, refs, side) <= n
                  /\ Same(d, side, Shown(refs, side), n)
                  /\ fake \/ Flat(d, L, StartOf(d, refs, side), n)

\* A pass that has got to commit m: what a commit since its beginning changed is as m has
\* it, the rest as the side had it.
Begun == StartOf(db, ref, run.side)
GotTo(m) ==
  /\ Begun <= m /\ run.rest = {i \in Line : i > m}
  /\ run.fake \/ Flat(db, Line, Begun, m)
  /\ run.side = "clean" => db[run.tip].note.source = 0
  /\ run.side = "history" =>
        db[run.tip].note.source = IF Begun < m THEN m ELSE db[ref["history"]].note.source
  /\ \A p \in Kept(run.side) :
        db[run.tip].tree[p] = IF \E k \in Line : Begun < k /\ k <= m /\ p \in Changed(db, k)
                              THEN db[m].tree[p] ELSE Tip(run.side).tree[p]
LayOk ==
  /\ run.last = IF Begun < ref["unclean"] THEN ref["unclean"] ELSE 0
  /\ \E m \in Line : GotTo(m)
CursorOk ==
  /\ Same(db, run.side, ref[run.side], ref["unclean"])
  /\ run.last = ref["unclean"] \/ (run.last = 0 /\ Begun = ref["unclean"])

Calm == {"idle", "clean", "history", "fork", "pass", "asked"}
LedgerInv == ~foreign =>
  /\ ref["unclean"] # 0 /\ HistoryMain \in Line
  /\ \A i \in 1..Len(db) : db[i].note.recon = 0
  /\ run.pc \in Calm \cup {"lay", "cursor"}
  /\ \A side \in Sides :
        Follows(db, Line, ref, side, run.pc = "cursor" /\ run.side = side /\ run.fake)
  /\ logged # <<>> => /\ logged["unclean"] = ref["unclean"]
                      /\ \A side \in Sides : /\ Follows(db, Line, logged, side, FALSE)
                                             /\ logged[Fwd(side)] <= ref[Fwd(side)]
  /\ run.pc = "lay" => LayOk
  /\ run.pc = "cursor" => CursorOk

\* The first parent of a commit on a line that has commits before it.
LEMMA FirstIs ==
  ASSUME NEW d, WellFormed(d), NEW top \in 1..Len(d), NEW i \in d[top].line,
         NEW a \in d[top].line, a < i
  PROVE  d[i].first \in d[top].line /\ a <= d[i].first /\ d[i].first < i
<1>1. /\ i \in 1..Len(d) /\ a \in d[i].line /\ d[i].line \subseteq d[top].line /\ i \in Nat
      /\ a \in Nat /\ a \in 1..Len(d)
  BY OnLine
<1>2. d[i].line = LineOf(d, d[i].first) \cup {i} /\ d[i].first \in 0..(i - 1)
  BY <1>1, LineFacts, RecordsTyped
<1>3. a \in LineOf(d, d[i].first)
  BY <1>1, <1>2
<1>4. d[i].first # 0 /\ d[i].first \in 1..Len(d)
  <2>1. d[i].first # 0
    BY <1>3 DEF LineOf
  <2> QED BY <1>1, <1>2, <2>1, RecordsTyped
<1>5. LineOf(d, d[i].first) = d[d[i].first].line
  BY <1>4 DEF LineOf
<1>6. d[i].first \in d[d[i].first].line /\ d[d[i].first].line \subseteq 1..d[i].first
  BY <1>4, LineFacts
<1> QED BY <1>1, <1>2, <1>3, <1>5, <1>6

\* A file that no commit of the line changed between two of them is the same at both.
LEMMA UnchangedAlong ==
  ASSUME NEW d, WellFormed(d), NEW top \in 1..Len(d), NEW a \in d[top].line,
         NEW b \in d[top].line, a <= b, NEW p \in Paths,
         \A k \in d[top].line : a < k /\ k <= b => p \notin Changed(d, k)
  PROVE  d[a].tree[p] = d[b].tree[p]
<1> DEFINE S == {n \in d[top].line : a <= n /\ n <= b /\ d[n].tree[p] # d[a].tree[p]}
<1>1. d[top].line \subseteq 1..Len(d)
  BY LineFacts
<1>2. SUFFICES ASSUME S # {} PROVE FALSE
  <2>1. a \in Nat /\ b \in Nat
    BY <1>1
  <2>2. b <= b
    BY <2>1
  <2> QED BY <2>2
<1>3. S \in SUBSET Nat
  BY <1>1
<1>4. PICK n \in S : \A j \in S : n <= j
  <2> HIDE DEF S
  <2> QED BY <1>2, <1>3, Least
<1>5. n \in d[top].line /\ a < n /\ n <= b /\ n \in Nat
  BY <1>1, <1>3, <1>4
<1>6. d[n].first \in d[top].line /\ a <= d[n].first /\ d[n].first < n
  BY <1>5, FirstIs
<1>7. d[n].first \in 1..Len(d) /\ n \in 1..Len(d) /\ d[n].first # 0
  BY <1>1, <1>5, <1>6
<1>8. d[d[n].first].tree[p] = d[a].tree[p]
  <2>1. d[n].first \notin S
    BY <1>1, <1>4, <1>5, <1>6
  <2> QED BY <1>1, <1>5, <1>6, <2>1
<1>9. d[n].tree[p] = d[d[n].first].tree[p]
  <2>1. p \notin Changed(d, n)
    BY <1>5
  <2> QED BY <1>7, <2>1 DEF Changed, FirstParent, TreeOf
<1> QED BY <1>4, <1>8, <1>9

\* What a grown store, a longer line and other branches make of what a side shows.
LEMMA FollowsStays ==
  ASSUME NEW d, WellFormed(d), NEW e, WellFormed(e), Grown(d, e), NEW side \in Sides,
         NEW L, L \subseteq 1..Len(d), NEW M, L \subseteq M,
         \A k \in M : k \in L \/ k > Len(d),
         NEW refs, Shown(refs, side) \in 1..Len(d), NEW new,
         Shown(new, side) = Shown(refs, side), new[Fwd(side)] = refs[Fwd(side)],
         NEW fake, Follows(d, L, refs, side, fake)
  PROVE  /\ Follows(e, M, new, side, fake)
         /\ StartOf(e, new, side) = StartOf(d, refs, side)
<1>1. Len(d) \in Nat /\ \A i \in 1..Len(d) : e[i] = d[i]
  BY RecordsTyped DEF Grown
<1>2. StartOf(e, new, side) = StartOf(d, refs, side)
  BY <1>1 DEF StartOf
<1>3. PICK n \in L : /\ StartOf(d, refs, side) <= n
                     /\ Same(d, side, Shown(refs, side), n)
                     /\ fake \/ Flat(d, L, StartOf(d, refs, side), n)
  BY DEF Follows
<1>4. n \in 1..Len(d) /\ n \in Nat
  BY <1>1
<1>5. Same(e, side, Shown(new, side), n)
  BY <1>1, <1>3, <1>4 DEF Same
<1>6. Flat(d, L, StartOf(d, refs, side), n) => Flat(e, M, StartOf(e, new, side), n)
  <2> SUFFICES ASSUME Flat(d, L, StartOf(d, refs, side), n), NEW k \in M,
                      StartOf(d, refs, side) < k, k <= n
               PROVE  e[k].merged = 0
    BY <1>2 DEF Flat
  <2>1. k \in L
    BY <1>1, <1>4
  <2>2. e[k] = d[k]
    BY <1>1, <2>1
  <2> QED BY <2>1, <2>2 DEF Flat
<1>7. /\ new[Fwd(side)] \in {0} \cup M
      /\ e[Shown(new, side)].note.source \in {0} \cup M
      /\ side = "clean" => e[Shown(new, side)].note.source = 0
  BY <1>1 DEF Follows
<1>8. \E j \in M : /\ StartOf(e, new, side) <= j
                   /\ Same(e, side, Shown(new, side), j)
                   /\ fake \/ Flat(e, M, StartOf(e, new, side), j)
  BY <1>2, <1>3, <1>5, <1>6
<1> QED BY <1>2, <1>7, <1>8 DEF Follows


LEMMA ShownTyped ==
  ASSUME Typed, NEW side \in Sides
  PROVE  /\ Shown(ref, side) \in 1..Len(db) /\ Bound(side) \in 1..Len(db)
         /\ logged # <<>> => Shown(logged, side) \in 1..Len(db)
<1>1. Bound(side) \in 1..Len(db)
  BY RefsAre, StoreTyped DEF Bound
<1>2. ref[side] # 0 => ref[side] \in 1..Len(db)
  BY RefsAre
<1>3. logged # <<>> /\ logged[side] # 0 => logged[side] \in 1..Len(db)
  <2>1. side \in RefNames /\ Len(db) \in Nat
    BY RefsAre
  <2>2. logged # <<>> => logged[side] \in 0..Len(db)
    BY <2>1 DEF Typed
  <2> QED BY <2>1, <2>2
<1> QED BY <1>1, <1>2, <1>3 DEF Shown

\* The commits of unclean, and where the sides stand on them.
LEMMA Grounds ==
  ASSUME FreshStart, Typed, ref["unclean"] # 0, HistoryMain \in Line
  PROVE  /\ ref["unclean"] \in 1..Len(db) /\ Line = db[ref["unclean"]].line
         /\ Line \subseteq 1..Len(db) /\ ref["unclean"] \in Line
         /\ \A i \in Line : i <= ref["unclean"]
         /\ \A side \in Sides : Bound(side) \in Line /\ db[Bound(side)].note.source = 0
<1>1. WellFormed(db) /\ ref["unclean"] \in 1..Len(db) /\ Line = db[ref["unclean"]].line
  BY RefsAre DEF Typed, Line, LineOf, RefNames
<1>2. Line \subseteq 1..Len(db) /\ Line \subseteq 1..ref["unclean"] /\ ref["unclean"] \in Line
  BY <1>1, LineFacts
<1>3. Main \in 1..Len(Store) /\ HistoryMain \in 1..Len(Store)
  BY StoreTyped
<1>4. db[Main] = Store[Main] /\ db[HistoryMain] = Store[HistoryMain]
  BY <1>3 DEF Typed, Grown
<1>5. db[HistoryMain].line \subseteq Line
  BY <1>1, OnLine
<1>6. Main \in Line
  BY <1>4, <1>5 DEF FreshStart
<1> QED BY <1>1, <1>2, <1>4, <1>6 DEF Bound, FreshStart

\* The state of the ledger, and when a step leaves it.
Work == [i \in Line |-> [side \in Sides |-> PartOf(side, i)]]
View == [side \in Sides |-> PartOf(side, IF ref[side] = 0 THEN Bound(side) ELSE ref[side])]
Acked == [side \in Sides |-> IF ref[Fwd(side)] \in Line THEN ref[Fwd(side)] ELSE 0]

LEMMA LineStays ==
  ASSUME Typed, [Next]_vars, ref'["unclean"] = ref["unclean"]
  PROVE  Line' = Line /\ Work' = Work
<1>1. WellFormed(db) /\ WellFormed(db') /\ Grown(db, db') /\ ref["unclean"] \in 0..Len(db)
  BY StoreGrows, RefsAre DEF Typed, RefNames
<1>2. Line' = Line /\ \A i \in Line : db'[i] = db[i]
  BY <1>1, GrownFacts DEF Line
<1> QED BY <1>2 DEF Work, PartOf

LEMMA ViewStays ==
  ASSUME Typed, [Next]_vars, \A side \in Sides : Shown(ref', side) = Shown(ref, side)
  PROVE  View' = View
<1>1. \A side \in Sides : db'[Shown(ref, side)] = db[Shown(ref, side)]
  BY StaysRead, ShownTyped
<1>2. ASSUME NEW side \in Sides
      PROVE  PartOf(side, IF ref[side] = 0 THEN Bound(side) ELSE ref[side])'
              = PartOf(side, IF ref[side] = 0 THEN Bound(side) ELSE ref[side])
  <2>1. /\ Shown(ref, side) = IF ref[side] = 0 THEN Bound(side) ELSE ref[side]
        /\ Shown(ref', side) = IF ref'[side] = 0 THEN Bound(side) ELSE ref'[side]
    BY DEF Shown
  <2>2. db'[Shown(ref', side)] = db[Shown(ref, side)]
    BY <1>1
  <2> QED BY <2>1, <2>2 DEF PartOf
<1> QED BY <1>2 DEF View

LEMMA AckedStays ==
  ASSUME Line' = Line, \A side \in Sides : ref'[Fwd(side)] = ref[Fwd(side)]
  PROVE  Acked' = Acked
BY DEF Acked

\* What the ledger's steps ask of it.
LEMMA LedgerVars ==
  ASSUME Work' = Work, View' = View, Acked' = Acked, foreign' = foreign
  PROVE  [Ledger!Next]_(Ledger!vars)
BY DEF Ledger!vars, Work, View, Acked

LEMMA LedgerDetach ==
  ASSUME foreign'
  PROVE  [Ledger!Next]_(Ledger!vars)
BY DEF Ledger!Next, Ledger!Detach

LEMMA LedgerShow ==
  ASSUME ~foreign, ~foreign', NEW side \in Sides, NEW n \in DOMAIN Work, n >= Acked[side],
         View' = [View EXCEPT ![side] = Work[n][side]], Work' = Work, Acked' = Acked
  PROVE  [Ledger!Next]_(Ledger!vars)
<1>1. Ledger!Show(side)
  BY DEF Ledger!Show, Work, View, Acked
<1> QED BY <1>1 DEF Ledger!Next

LEMMA LedgerAck ==
  ASSUME ~foreign, ~foreign', NEW side \in Sides, NEW n \in DOMAIN Work, n >= Acked[side],
         View[side] = Work[n][side],
         Acked' = [Acked EXCEPT ![side] = n], Work' = Work, View' = View
  PROVE  [Ledger!Next]_(Ledger!vars)
<1>1. Ledger!Ack(side)
  BY DEF Ledger!Ack, Work, View, Acked
<1> QED BY <1>1 DEF Ledger!Next

LEMMA LedgerEdit ==
  ASSUME ~foreign, ~foreign', NEW new \in DOMAIN (Work'), DOMAIN Work = DOMAIN (Work') \ {new},
         \A n \in DOMAIN Work : n < new /\ Work'[n] = Work[n],
         View' = View, Acked' = Acked
  PROVE  [Ledger!Next]_(Ledger!vars)
<1>1. Ledger!Edit
  BY DEF Ledger!Edit, Work, View, Acked
<1> QED BY <1>1 DEF Ledger!Next

LEMMA LedgerUndo ==
  ASSUME ~foreign, ~foreign', Work' = Work,
         \A side \in Sides : /\ Acked'[side] <= Acked[side]
                             /\ \E n \in DOMAIN Work : View'[side] = Work[n][side]
  PROVE  [Ledger!Next]_(Ledger!vars)
<1>1. Ledger!Undo
  BY DEF Ledger!Undo, Work, View, Acked
<1> QED BY <1>1 DEF Ledger!Next


\* A step after which the sides and unclean are as they were.
LEMMA LedgerQuiet ==
  ASSUME FreshStart, Typed, LedgerInv, [Next]_vars, ~foreign, ~foreign', db' = db,
         ref'["unclean"] = ref["unclean"],
         \A side \in Sides : /\ Shown(ref', side) = Shown(ref, side)
                             /\ ref'[Fwd(side)] = ref[Fwd(side)],
         run'.pc \in Calm, ~(run.pc = "cursor" /\ run.fake),
         logged' = logged \/ logged' = <<>> \/ logged' = ref
  PROVE  LedgerInv' /\ [Ledger!Next]_(Ledger!vars)
<1>1. Line' = Line /\ Work' = Work /\ View' = View /\ Acked' = Acked
  BY LineStays, ViewStays, AckedStays
<1>2. WellFormed(db) /\ Grown(db, db)
  BY GrownSame DEF Typed
<1>3. ref["unclean"] # 0 /\ HistoryMain \in Line /\ Line \subseteq 1..Len(db)
  BY Grounds DEF LedgerInv
<1>4. run'.pc \notin {"lay", "cursor"}
  BY DEF Calm
<1>5. ASSUME NEW side \in Sides
      PROVE  /\ Follows(db, Line, ref, side, FALSE) /\ Follows(db, Line, ref', side, FALSE)
             /\ \A fake : Follows(db, Line, ref', side, FALSE) => Follows(db, Line, ref', side, fake)
  <2>1. Follows(db, Line, ref, side, run.pc = "cursor" /\ run.side = side /\ run.fake)
    BY DEF LedgerInv
  <2>2. Follows(db, Line, ref, side, FALSE)
    BY <2>1 DEF Follows
  <2>3. Follows(db, Line, ref', side, FALSE)
    <3>1. Shown(ref, side) \in 1..Len(db)
      BY ShownTyped
    <3> QED BY <1>2, <1>3, <2>2, <3>1, FollowsStays
  <2> QED BY <2>2, <2>3 DEF Follows
<1>6. ASSUME logged' # <<>>
      PROVE  /\ logged'["unclean"] = ref["unclean"]
             /\ \A side \in Sides : /\ Follows(db, Line, logged', side, FALSE)
                                    /\ logged'[Fwd(side)] <= ref[Fwd(side)]
  <2>1. CASE logged' = logged
    BY <1>6, <2>1 DEF LedgerInv
  <2>2. CASE logged' = ref
    <3>1. \A side \in Sides : ref[Fwd(side)] \in 0..Len(db)
      BY RefsAre
    <3>2. \A side \in Sides : ref[Fwd(side)] <= ref[Fwd(side)]
      BY <3>1, RefsAre
    <3> QED BY <1>5, <2>2, <3>2
  <2> QED BY <1>6, <2>1, <2>2
<1>7. \A i \in 1..Len(db) : db[i].note.recon = 0
  BY DEF LedgerInv
<1>8. /\ ref'["unclean"] # 0 /\ HistoryMain \in Line'
      /\ \A i \in 1..Len(db') : db'[i].note.recon = 0
      /\ run'.pc \in Calm \cup {"lay", "cursor"}
      /\ \A side \in Sides :
            Follows(db', Line', ref', side, run'.pc = "cursor" /\ run'.side = side /\ run'.fake)
  BY <1>1, <1>3, <1>5, <1>7
<1>9. logged' # <<>> =>
         /\ logged'["unclean"] = ref'["unclean"]
         /\ \A side \in Sides : /\ Follows(db', Line', logged', side, FALSE)
                                /\ logged'[Fwd(side)] <= ref'[Fwd(side)]
  BY <1>1, <1>6
<1>10. LedgerInv'
  BY <1>4, <1>8, <1>9 DEF LedgerInv
<1>11. foreign' = foreign
  BY TypedNext DEF Typed
<1> QED BY <1>1, <1>10, <1>11, LedgerVars

\* A pass begins at the commit after the cursor.
LEMMA SourcesAfter ==
  ASSUME FreshStart, Typed, LedgerInv, ~foreign, run.pc = "pass"
  PROVE  /\ Begun \in Line
         /\ Sources(run.side) = {i \in Line : i > Begun}
         /\ ref[run.side] # 0
         /\ Max({0} \cup Sources(run.side))
              = IF Begun < ref["unclean"] THEN ref["unclean"] ELSE 0
<1>1. /\ WellFormed(db) /\ Len(db) \in Nat /\ run.side \in Sides
      /\ ref["unclean"] # 0 /\ HistoryMain \in Line
  BY RecordsTyped DEF Typed, Runs, LedgerInv
<1>2. /\ ref["unclean"] \in 1..Len(db) /\ Line = db[ref["unclean"]].line
      /\ Line \subseteq 1..Len(db) /\ ref["unclean"] \in Line
      /\ \A i \in Line : i <= ref["unclean"]
      /\ Bound(run.side) \in Line /\ db[Bound(run.side)].note.source = 0
  BY <1>1, Grounds
<1>3. ref[run.side] # 0
  BY <1>1 DEF Typed, Staged, Started, Sides
<1>4. Shown(ref, run.side) = ref[run.side]
  BY <1>3 DEF Shown
<1>5. /\ ref[Fwd(run.side)] \in {0} \cup Line
      /\ db[ref[run.side]].note.source \in {0} \cup Line
  BY <1>1, <1>4 DEF LedgerInv, Follows
<1>6. Begun \in Line
  BY <1>2, <1>4, <1>5 DEF Begun, StartOf
<1>7. Rebuilt(run.side) = {}
  <2>1. db[ref["unclean"]].anc \subseteq 1..Len(db)
    BY <1>1, <1>2, LineFacts
  <2>2. \A i \in 1..Len(db) : db[i].note.recon = 0
    BY DEF LedgerInv
  <2> QED BY <2>1, <2>2 DEF Rebuilt
<1>8. \A k \in Line : k <= Begun <=> k \in db[Begun].anc
  BY <1>1, <1>2, <1>6, OnLine
<1>9. Line \subseteq db[ref["unclean"]].anc
  BY <1>1, <1>2, LineFacts
<1>10. Sources(run.side) = Line \ db[Begun].anc
  <2>1. CASE ref[Fwd(run.side)] # 0 \/ db[ref[run.side]].note.source # 0
    <3>1. Cursor(run.side) = Begun /\ Begun # 0
      BY <1>4, <2>1 DEF Cursor, Begun, StartOf
    <3> QED BY <1>2, <3>1 DEF Sources
  <2>2. CASE ref[Fwd(run.side)] = 0 /\ db[ref[run.side]].note.source = 0
    <3>1. Cursor(run.side) = 0 /\ Begun = Bound(run.side)
      BY <1>4, <1>7, <2>2 DEF Cursor, Begun, StartOf
    <3>2. Sources(run.side) = Line \ (db[ref["unclean"]].anc \cap db[Begun].anc)
      BY <1>2, <3>1 DEF Sources
    <3> QED BY <1>9, <3>2
  <2> QED BY <2>1, <2>2
<1>11. Line \subseteq Nat /\ Begun \in Nat
  BY <1>1, <1>2, <1>6
<1>12. Sources(run.side) = {i \in Line : i > Begun}
  <2>1. ASSUME NEW i \in Line
        PROVE  i \notin db[Begun].anc <=> i > Begun
    <3>1. (i <= Begun <=> i \in db[Begun].anc) /\ i \in Nat /\ Begun \in Nat
      BY <1>8, <1>11
    <3>2. i > Begun <=> ~(i <= Begun)
      BY <3>1
    <3> QED BY <3>1, <3>2
  <2> QED BY <1>10, <2>1
<1>13. Max({0} \cup Sources(run.side)) = IF Begun < ref["unclean"] THEN ref["unclean"] ELSE 0
  <2>1. /\ Max({0} \cup Sources(run.side)) \in {0} \cup Sources(run.side)
        /\ \A i \in Sources(run.side) : i <= Max({0} \cup Sources(run.side))
    BY <1>1, SourcesAre
  <2>2. CASE Begun < ref["unclean"]
    <3>1. ref["unclean"] \in Sources(run.side)
      BY <1>2, <1>11, <1>12, <2>2
    <3> DEFINE top == Max({0} \cup Sources(run.side))
    <3>2. top \in {0} \cup Line /\ ref["unclean"] <= top
      BY <1>12, <2>1, <3>1
    <3> HIDE DEF top
    <3>3. top = ref["unclean"]
      BY <1>2, <1>11, <3>2
    <3> QED BY <2>2, <3>3 DEF top
  <2>3. CASE ~(Begun < ref["unclean"])
    <3>1. Sources(run.side) = {}
      BY <1>2, <1>11, <1>12, <2>3
    <3> QED BY <2>1, <2>3, <3>1
  <2> QED BY <2>2, <2>3
<1> QED BY <1>3, <1>6, <1>12, <1>13

LEMMA LedgerStarts ==
  ASSUME FreshStart, Typed, LedgerInv, ~foreign, StartPass
  PROVE  LedgerInv' /\ [Ledger!Next]_(Ledger!vars)
<1>1. /\ run.pc = "pass" /\ db' = db /\ ref' = ref /\ logged' = logged /\ foreign' = foreign
      /\ run' = [run EXCEPT !.pc = "lay", !.tip = ref[run.side], !.rest = Sources(run.side),
                            !.last = Max({0} \cup Sources(run.side))]
  BY DEF StartPass, At
<1>2. /\ Begun \in Line
      /\ Sources(run.side) = {i \in Line : i > Begun}
      /\ Max({0} \cup Sources(run.side))
           = IF Begun < ref["unclean"] THEN ref["unclean"] ELSE 0
      /\ ref[run.side] # 0
  BY <1>1, SourcesAfter
<1>r. run \in Runs /\ run.side \in Sides
  BY DEF Typed, Runs
<1>3. /\ run'.pc = "lay" /\ run'.tip = ref[run.side] /\ run'.side = run.side
      /\ run'.fake = run.fake /\ run'.rest = {i \in Line : i > Begun}
      /\ run'.last = IF Begun < ref["unclean"] THEN ref["unclean"] ELSE 0
  BY <1>1, <1>2, <1>r DEF Runs
<1>4. Line' = Line /\ Begun' = Begun
  BY <1>1, <1>3 DEF Line, Begun
<1>5. Begun \in Nat /\ Line \subseteq Nat
  <2>1. Line \subseteq 1..Len(db) /\ Len(db) \in Nat
    BY Grounds, RefsAre DEF LedgerInv
  <2> QED BY <1>2, <2>1
<1>6. GotTo(Begun)'
  <2>1. Flat(db, Line, Begun, Begun)
    BY <1>5 DEF Flat
  <2>2. ~(Begun < Begun) /\ Begun <= Begun /\ \A k \in Line : ~(Begun < k /\ k <= Begun)
    BY <1>5
  <2>3. run.side = "clean" => db[ref[run.side]].note.source = 0
    <3>1. Shown(ref, run.side) = ref[run.side]
      BY <1>2 DEF Shown
    <3>2. run.side = "clean" => db[Shown(ref, run.side)].note.source = 0
      BY <1>r DEF LedgerInv, Follows
    <3> QED BY <3>1, <3>2
  <2> QED BY <1>1, <1>3, <1>4, <2>1, <2>2, <2>3 DEF GotTo, Tip
<1>7. LayOk'
  BY <1>1, <1>2, <1>3, <1>4, <1>6 DEF LayOk
<1>8. run'.pc # "cursor" /\ run'.pc \in Calm \cup {"lay", "cursor"}
  BY <1>3
<1>9. LedgerInv'
  <2>1. \A side \in Sides : Follows(db, Line, ref, side, FALSE)
    BY <1>1 DEF LedgerInv
  <2>2. \A side \in Sides :
           Follows(db', Line', ref', side, run'.pc = "cursor" /\ run'.side = side /\ run'.fake)
    BY <1>1, <1>4, <1>8, <2>1
  <2>3. /\ ref'["unclean"] # 0 /\ HistoryMain \in Line'
        /\ \A i \in 1..Len(db') : db'[i].note.recon = 0
    BY <1>1, <1>4 DEF LedgerInv
  <2>4. logged' # <<>> =>
         /\ logged'["unclean"] = ref'["unclean"]
         /\ \A side \in Sides : /\ Follows(db', Line', logged', side, FALSE)
                                /\ logged'[Fwd(side)] <= ref'[Fwd(side)]
    BY <1>1, <1>4 DEF LedgerInv
  <2> QED BY <1>7, <1>8, <2>2, <2>3, <2>4 DEF LedgerInv
<1>10. Work' = Work /\ View' = View /\ Acked' = Acked
  BY <1>1, <1>4 DEF Work, View, Acked, PartOf
<1> QED BY <1>1, <1>9, <1>10, LedgerVars


LEMMA ChangedStays ==
  ASSUME NEW d, WellFormed(d), NEW e, WellFormed(e), Grown(d, e), NEW i \in 1..Len(d)
  PROVE  Changed(e, i) = Changed(d, i)
<1>1. d[i].first \in 0..Len(d) /\ e[i] = d[i]
  BY RecordsTyped DEF Grown
<1>2. TreeOf(e, d[i].first) = TreeOf(d, d[i].first)
  BY <1>1, GrownFacts
<1> QED BY <1>1, <1>2 DEF Changed, FirstParent

\* The next commit to lay comes right after the one that the pass has got to.
LEMMA NextSource ==
  ASSUME FreshStart, Typed, LedgerInv, ~foreign, run.pc = "lay", run.rest # {},
         NEW m \in Line, GotTo(m)
  PROVE  /\ Oldest \in Line /\ m < Oldest /\ db[Oldest].first = m
         /\ \A j \in Line : j <= Oldest <=> j <= m \/ j = Oldest
         /\ {j \in Line : j > m} \ {Oldest} = {j \in Line : j > Oldest}
         /\ \A p \in Paths \ Changed(db, Oldest) : db[Oldest].tree[p] = db[m].tree[p]
<1>1. /\ WellFormed(db) /\ ref["unclean"] # 0 /\ HistoryMain \in Line /\ Len(db) \in Nat
  BY RecordsTyped DEF Typed, LedgerInv
<1>2. /\ ref["unclean"] \in 1..Len(db) /\ Line = db[ref["unclean"]].line
      /\ Line \subseteq 1..Len(db)
  BY <1>1, Grounds
<1>3. run.rest = {j \in Line : j > m} /\ run.rest \subseteq 1..Len(db)
  BY <1>2 DEF GotTo
<1>4. Oldest \in run.rest /\ \A j \in run.rest : Oldest <= j
  BY <1>3, OldestIs
<1>5. Oldest \in Line /\ m < Oldest /\ Line \subseteq Nat
  BY <1>1, <1>2, <1>3, <1>4
<1>6. db[Oldest].first \in Line /\ m <= db[Oldest].first /\ db[Oldest].first < Oldest
  BY <1>1, <1>2, <1>5, FirstIs
<1>7. db[Oldest].first = m
  <2> DEFINE parent == db[Oldest].first
  <2>1. parent \in Line /\ m <= parent /\ parent < Oldest
    BY <1>6
  <2> HIDE DEF parent
  <2>2. parent \in Nat /\ Oldest \in Nat /\ m \in Nat
    BY <1>5, <2>1
  <2>3. parent \notin run.rest
    BY <1>4, <2>1, <2>2
  <2>4. parent = m
    BY <1>3, <2>1, <2>2, <2>3
  <2> QED BY <2>4 DEF parent
<1>8. ASSUME NEW j \in Line PROVE j <= Oldest <=> j <= m \/ j = Oldest
  <2>1. j > m => Oldest <= j
    BY <1>3, <1>4
  <2> QED BY <1>5, <2>1
<1>9. {j \in Line : j > m} \ {Oldest} = {j \in Line : j > Oldest}
  <2>1. \A j \in Line : j > m => Oldest <= j
    BY <1>3, <1>4
  <2>2. ASSUME NEW j \in Line PROVE j > m /\ j # Oldest <=> j > Oldest
    BY <1>5, <2>1
  <2> QED BY <2>2
<1>10. ASSUME NEW p \in Paths \ Changed(db, Oldest)
       PROVE  db[Oldest].tree[p] = db[m].tree[p]
  <2>1. TreeOf(db, db[Oldest].first) = db[m].tree
    BY <1>2, <1>7 DEF TreeOf
  <2> QED BY <2>1 DEF Changed, FirstParent
<1> QED BY <1>5, <1>7, <1>8, <1>9, <1>10

\* What one commit does to the side it is laid on, whether it becomes a commit or not.
LEMMA LaidOn ==
  ASSUME FreshStart, Typed, LedgerInv, ~foreign, LaySource
  PROVE  /\ run'.rest = run.rest \ {Oldest}
         /\ run'.pc = "lay" /\ run'.side = run.side /\ run'.fake = run.fake
         /\ run'.last = run.last
         /\ run.side = "clean" /\ db[run.tip].note.source = 0 => db'[run'.tip].note.source = 0
         /\ run.side = "history" => db'[run'.tip].note.source = Oldest
         /\ \A p \in Kept(run.side) :
               db'[run'.tip].tree[p] = IF p \in Changed(db, Oldest) THEN db[Oldest].tree[p]
                                       ELSE db[run.tip].tree[p]
         /\ db' # db => Len(db') = Len(db) + 1 /\ db'[Len(db) + 1].note.recon = 0
<1>1. /\ run.pc = "lay" /\ Oldest \in 1..Len(db) /\ ~InTheWay(Oldest)
  BY OldestIs DEF LaySource, Working, At, Typed, Staged
<1>r. run \in Runs /\ run.side \in Sides
  BY DEF Typed, Runs
<1>2. run.tip \in 1..Len(db) /\ WellFormed(db) /\ Len(db) \in Nat
  BY <1>1, LaidIs, RecordsTyped DEF Typed
<1>3. Kept(run.side) \subseteq Paths
  BY DEF Kept, Paths
<1>4. \A p \in Paths : Laid(Oldest)[p] = IF p \in Changed(db, Oldest) \cap Kept(run.side)
                                         THEN db[Oldest].tree[p] ELSE db[run.tip].tree[p]
  <2>1. db[run.tip].tree \in Trees
    BY <1>2, RecordsTyped
  <2> QED BY <1>1, <1>2, <2>1, Overlaid DEF Laid
<1>5. CASE run.side = "clean" /\ (AiOnly(db, Oldest) \/ Laid(Oldest) = db[run.tip].tree)
  <2>1. run' = [run EXCEPT !.rest = @ \ {Oldest}] /\ db' = db
    BY <1>5 DEF LaySource, Pass
  <2>2. /\ run'.rest = run.rest \ {Oldest} /\ run'.pc = "lay" /\ run'.side = run.side
        /\ run'.fake = run.fake /\ run'.last = run.last /\ run'.tip = run.tip
    BY <1>1, <1>r, <2>1 DEF Runs
  <2>3. ASSUME NEW p \in Kept(run.side), p \in Changed(db, Oldest)
        PROVE  db[run.tip].tree[p] = db[Oldest].tree[p]
    <3>1. CASE AiOnly(db, Oldest)
      <4>1. Changed(db, Oldest) \subseteq AiPaths
        BY <3>1 DEF AiOnly, ListedPaths
      <4>2. p \in CodePaths
        BY <1>5 DEF Kept
      <4> QED BY <2>3, <4>1, <4>2, PathsAssumption
    <3>2. CASE Laid(Oldest) = db[run.tip].tree
      BY <1>3, <1>4, <2>3, <3>2
    <3> QED BY <1>5, <3>1, <3>2
  <2> QED BY <1>5, <2>1, <2>2, <2>3
<1>6. CASE ~(run.side = "clean" /\ (AiOnly(db, Oldest) \/ Laid(Oldest) = db[run.tip].tree))
  <2>1. /\ \E mates, note :
              /\ db' = Append(db, Commit(db, run.tip, 0, Laid(Oldest), note, db[Oldest].date))
              /\ \/ run' = [run EXCEPT !.tip = Len(db) + 1, !.rest = @ \ {Oldest}]
                 \/ run' = [run EXCEPT !.tip = Len(db) + 1, !.rest = @ \ {Oldest}, !.mates = mates]
              /\ note.recon = 0
              /\ run.side = "clean" => note.source = 0
              /\ run.side = "history" => note.source = Oldest
    <3>1. CASE run.side = "clean"
      <4>1. /\ db' = Append(db, Commit(db, run.tip, 0, Laid(Oldest), NoTrailers, db[Oldest].date))
            /\ run' = [run EXCEPT !.tip = Len(db) + 1, !.rest = @ \ {Oldest},
                                  !.mates = @ \cup {<<Oldest, Len(db) + 1>>}]
        BY <1>6, <3>1 DEF LaySource
      <4>2. NoTrailers.recon = 0 /\ NoTrailers.source = 0
        BY DEF NoTrailers
      <4>3. run' = [run EXCEPT !.tip = Len(db) + 1, !.rest = @ \ {Oldest},
                               !.mates = run.mates \cup {<<Oldest, Len(db) + 1>>}]
        BY <1>r, <4>1 DEF Runs
      <4>4. "clean" # "history"
        OBVIOUS
      <4> QED BY <3>1, <4>1, <4>2, <4>3, <4>4
    <3>2. CASE run.side # "clean"
      <4> DEFINE note == [source |-> Oldest, mate |-> MateOf(run.mates, Oldest), recon |-> 0]
      <4>1. /\ db' = Append(db, Commit(db, run.tip, 0, Laid(Oldest), note, db[Oldest].date))
            /\ run' = [run EXCEPT !.tip = Len(db) + 1, !.rest = @ \ {Oldest}]
        BY <3>2 DEF LaySource, Make
      <4>2. note.recon = 0 /\ note.source = Oldest
        OBVIOUS
      <4> HIDE DEF note
      <4> QED BY <3>2, <4>1, <4>2
    <3> QED BY <3>1, <3>2
  <2>2. PICK mates, note :
              /\ db' = Append(db, Commit(db, run.tip, 0, Laid(Oldest), note, db[Oldest].date))
              /\ \/ run' = [run EXCEPT !.tip = Len(db) + 1, !.rest = @ \ {Oldest}]
                 \/ run' = [run EXCEPT !.tip = Len(db) + 1, !.rest = @ \ {Oldest}, !.mates = mates]
              /\ note.recon = 0
              /\ run.side = "clean" => note.source = 0
              /\ run.side = "history" => note.source = Oldest
    BY <2>1
  <2>3. /\ run'.rest = run.rest \ {Oldest} /\ run'.pc = "lay" /\ run'.side = run.side
        /\ run'.fake = run.fake /\ run'.last = run.last /\ run'.tip = Len(db) + 1
    BY <1>1, <1>r, <2>2 DEF Runs
  <2>4. /\ Len(db') = Len(db) + 1
        /\ db'[Len(db) + 1].tree = Laid(Oldest) /\ db'[Len(db) + 1].note = note
    <3>1. WellFormed(db)
      BY <1>2
    <3> QED BY <2>2, <3>1, MadeIs
  <2>5. \A p \in Kept(run.side) :
           db'[run'.tip].tree[p] = IF p \in Changed(db, Oldest) THEN db[Oldest].tree[p]
                                   ELSE db[run.tip].tree[p]
    BY <1>3, <1>4, <2>3, <2>4
  <2> QED BY <2>2, <2>3, <2>4, <2>5
<1> QED BY <1>5, <1>6

LEMMA LedgerLays ==
  ASSUME FreshStart, Typed, LedgerInv, ~foreign, LaySource
  PROVE  LedgerInv' /\ [Ledger!Next]_(Ledger!vars)
<1>1. /\ run.pc = "lay" /\ run.rest # {} /\ ~InTheWay(Oldest)
      /\ ref' = ref /\ logged' = logged /\ foreign' = foreign
  BY DEF LaySource, Working, At
<1>2. [Next]_vars
  BY DEF Next, ForwardStep
<1>3. /\ WellFormed(db) /\ WellFormed(db') /\ Grown(db, db') /\ Len(db) \in Nat
      /\ \A j \in 1..Len(db) : db'[j] = db[j]
      /\ \A j \in 1..Len(db) : Changed(db', j) = Changed(db, j)
  BY <1>2, StoreGrows, StaysRead, RecordsTyped, ChangedStays DEF Typed
<1>4. PICK m \in Line : GotTo(m)
  BY <1>1 DEF LedgerInv, LayOk
<1>0. PICK next \in Line : next = Oldest
  BY <1>1, <1>4, NextSource
<1>5. /\ next \in Line /\ m < next
      /\ \A j \in Line : j <= next <=> j <= m \/ j = next
      /\ {j \in Line : j > m} \ {next} = {j \in Line : j > next}
      /\ \A p \in Paths \ Changed(db, next) : db[next].tree[p] = db[m].tree[p]
  BY <1>0, <1>1, <1>4, NextSource
<1>6. /\ run'.rest = run.rest \ {next}
      /\ run'.pc = "lay" /\ run'.side = run.side /\ run'.fake = run.fake /\ run'.last = run.last
      /\ run.side = "clean" /\ db[run.tip].note.source = 0 => db'[run'.tip].note.source = 0
      /\ run.side = "history" => db'[run'.tip].note.source = next
      /\ \A p \in Kept(run.side) :
            db'[run'.tip].tree[p] = IF p \in Changed(db, next) THEN db[next].tree[p]
                                    ELSE db[run.tip].tree[p]
      /\ db' # db => Len(db') = Len(db) + 1 /\ db'[Len(db) + 1].note.recon = 0
  BY <1>0, LaidOn
<1>7. /\ ref["unclean"] \in 1..Len(db) /\ Line = db[ref["unclean"]].line
      /\ Line \subseteq 1..Len(db) /\ Line' = Line /\ Work' = Work
  <2>1. ref["unclean"] # 0 /\ HistoryMain \in Line
    BY DEF LedgerInv
  <2> QED BY <1>1, <1>2, <2>1, Grounds, LineStays
<1>8. View' = View /\ Acked' = Acked
  BY <1>1, <1>2, <1>7, ViewStays, AckedStays
<1>9. run.side \in Sides /\ Kept(run.side) \subseteq Paths
  BY DEF Typed, Runs, Kept, Paths
<1>10. \A side \in Sides : /\ Follows(db', Line, ref, side, FALSE)
                           /\ StartOf(db', ref, side) = StartOf(db, ref, side)
  <2> SUFFICES ASSUME NEW side \in Sides
               PROVE  /\ Follows(db', Line, ref, side, FALSE)
                      /\ StartOf(db', ref, side) = StartOf(db, ref, side)
    OBVIOUS
  <2>1. Follows(db, Line, ref, side, FALSE)
    BY <1>1 DEF LedgerInv
  <2>2. Shown(ref, side) \in 1..Len(db)
    BY ShownTyped
  <2>3. WellFormed(db) /\ WellFormed(db') /\ Grown(db, db') /\ Line \subseteq 1..Len(db)
    BY <1>3, <1>7
  <2>4. Follows(db', Line, ref, side, FALSE)
    BY <2>1, <2>2, <2>3, FollowsStays
  <2>5. StartOf(db', ref, side) = StartOf(db, ref, side)
    BY <1>3, <2>2 DEF StartOf
  <2> QED BY <2>4, <2>5
<1>11. Begun' = Begun
  BY <1>1, <1>6, <1>9, <1>10 DEF Begun
<1>12. Begun \in Nat /\ m \in Nat /\ next \in Nat /\ Line \subseteq Nat /\ Begun <= m
  <2>1. Begun \in Nat
    <3>1. Shown(ref, run.side) \in 1..Len(db) /\ Bound(run.side) \in 1..Len(db)
      BY <1>9, ShownTyped
    <3>2. ref[Fwd(run.side)] \in 0..Len(db)
      BY <1>9, RefsAre
    <3>3. db[Shown(ref, run.side)].note.source \in 0..Len(db)
      BY <1>3, <3>1, RecordsTyped DEF Notes
    <3> QED BY <1>3, <3>1, <3>2, <3>3 DEF Begun, StartOf
  <2> QED BY <1>3, <1>4, <1>5, <1>7, <2>1 DEF GotTo
<1>13. GotTo(next)'
  <2>1. Begun' <= next /\ run'.rest = {j \in Line' : j > next}
    BY <1>4, <1>5, <1>6, <1>7, <1>11, <1>12 DEF GotTo
  <2>2. run'.fake \/ Flat(db', Line', Begun', next)
    <3>1. CASE run.fake
      BY <1>6, <3>1
    <3>2. CASE ~run.fake
      <4>1. Flat(db, Line, Begun, m)
        BY <1>4, <3>2 DEF GotTo
      <4>2. db[next].merged = 0
        BY <1>0, <1>1, <3>2 DEF InTheWay, IsMerge
      <4>3. ASSUME NEW k \in Line, Begun < k, k <= next PROVE db'[k].merged = 0
        <5>1. db'[k] = db[k]
          BY <1>3, <1>7
        <5>2. k <= m \/ k = next
          BY <1>5, <4>3
        <5> QED BY <4>1, <4>2, <4>3, <5>1, <5>2 DEF Flat
      <4> QED BY <1>7, <1>11, <4>3 DEF Flat
    <3> QED BY <3>1, <3>2
  <2>3. run'.side = "clean" => db'[run'.tip].note.source = 0
    BY <1>4, <1>6 DEF GotTo
  <2>4. Begun < next
    BY <1>5, <1>12
  <2>5. ASSUME NEW p \in Kept(run.side)
        PROVE  db'[run'.tip].tree[p] =
                  IF \E k \in Line : Begun < k /\ k <= next /\ p \in Changed(db', k)
                  THEN db'[next].tree[p] ELSE db'[ref'[run'.side]].tree[p]
    <3>1. db'[next] = db[next]
      BY <1>3, <1>5, <1>7
    <3>2. CASE p \in Changed(db, next)
      <4>1. db'[run'.tip].tree[p] = db[next].tree[p]
        BY <1>6, <3>2
      <4>2. Begun < next /\ next <= next /\ p \in Changed(db', next) /\ next \in Line
        BY <1>3, <1>5, <1>7, <1>12, <2>4, <3>2
      <4> QED BY <3>1, <4>1, <4>2
    <3>3. CASE p \notin Changed(db, next)
      <4>1. db'[run'.tip].tree[p] = db[run.tip].tree[p]
        BY <1>6, <3>3
      <4>2. db[next].tree[p] = db[m].tree[p]
        BY <1>5, <1>9, <3>3
      <4>3. (\E k \in Line : Begun < k /\ k <= next /\ p \in Changed(db', k))
              <=> (\E k \in Line : Begun < k /\ k <= m /\ p \in Changed(db, k))
        <5>1. \A k \in Line : Changed(db', k) = Changed(db, k)
          BY <1>3, <1>7
        <5> QED BY <1>5, <3>3, <5>1
      <4>4. db'[ref'[run'.side]] = Tip(run.side)
        <5>1. ref[run.side] \in 1..Len(db)
          <6>1. ref[run.side] # 0
            BY <1>1, <1>9 DEF Typed, Staged, Started, Sides
          <6> QED BY <1>9, <6>1, RefsAre
        <5> QED BY <1>1, <1>3, <1>6, <5>1 DEF Tip
      <4>5. db[run.tip].tree[p] =
               IF \E k \in Line : Begun < k /\ k <= m /\ p \in Changed(db, k)
               THEN db[m].tree[p] ELSE Tip(run.side).tree[p]
        BY <1>4 DEF GotTo
      <4> QED BY <3>1, <4>1, <4>2, <4>3, <4>4, <4>5
    <3> QED BY <3>2, <3>3
  <2>6. run'.side = "history" =>
           db'[run'.tip].note.source = IF Begun' < next THEN next
                                       ELSE db'[ref'["history"]].note.source
    BY <1>6, <1>11, <2>4
  <2>7. \A p \in Kept(run'.side) :
           db'[run'.tip].tree[p] =
              IF \E k \in Line' : Begun' < k /\ k <= next /\ p \in Changed(db', k)
              THEN db'[next].tree[p] ELSE db'[ref'[run'.side]].tree[p]
    BY <1>6, <1>7, <1>11, <2>5
  <2> QED BY <2>1, <2>2, <2>3, <2>6, <2>7 DEF GotTo, Tip
<1>14. LayOk'
  <2>1. run.last = IF Begun < ref["unclean"] THEN ref["unclean"] ELSE 0
    BY <1>1 DEF LedgerInv, LayOk
  <2> QED BY <1>1, <1>5, <1>6, <1>7, <1>11, <1>13, <2>1 DEF LayOk
<1>15. LedgerInv'
  <2>1. /\ ref'["unclean"] # 0 /\ HistoryMain \in Line'
    BY <1>1, <1>7 DEF LedgerInv
  <2>2. \A i \in 1..Len(db') : db'[i].note.recon = 0
    <3>1. \A i \in 1..Len(db) : db'[i].note.recon = 0
      BY <1>3 DEF LedgerInv
    <3> QED BY <1>3, <1>6, <3>1
  <2>3. \A side \in Sides :
           Follows(db', Line', ref', side, run'.pc = "cursor" /\ run'.side = side /\ run'.fake)
    BY <1>1, <1>6, <1>7, <1>10
  <2>4. logged' # <<>> =>
         /\ logged'["unclean"] = ref'["unclean"]
         /\ \A side \in Sides : /\ Follows(db', Line', logged', side, FALSE)
                                /\ logged'[Fwd(side)] <= ref'[Fwd(side)]
    <3> SUFFICES ASSUME logged # <<>>, NEW side \in Sides
                 PROVE  Follows(db', Line, logged, side, FALSE)
      BY <1>1, <1>7 DEF LedgerInv
    <3>1. Follows(db, Line, logged, side, FALSE) /\ Shown(logged, side) \in 1..Len(db)
      BY ShownTyped DEF LedgerInv
    <3>2. WellFormed(db) /\ WellFormed(db') /\ Grown(db, db') /\ Line \subseteq 1..Len(db)
      BY <1>3, <1>7
    <3> QED BY <3>1, <3>2, FollowsStays
  <2> QED BY <1>6, <1>14, <2>1, <2>2, <2>3, <2>4 DEF LedgerInv
<1> QED BY <1>1, <1>7, <1>8, <1>15, LedgerVars


\* What each side shows and has acknowledged, and where its next pass would begin.
LEMMA SideAt ==
  ASSUME FreshStart, Typed, LedgerInv, ~foreign, NEW side \in Sides
  PROVE  /\ ref[Fwd(side)] \in {0} \cup Line
         /\ Acked[side] = ref[Fwd(side)] /\ View[side] = PartOf(side, Shown(ref, side))
         /\ StartOf(db, ref, side) \in Line /\ Acked[side] <= StartOf(db, ref, side)
         /\ DOMAIN Work = Line /\ \A n \in Line : Work[n][side] = PartOf(side, n)
         /\ Line \subseteq 1..Len(db) /\ Line \subseteq Nat
<1>1. /\ Line \subseteq 1..Len(db) /\ Bound(side) \in Line /\ Len(db) \in Nat
  BY Grounds, RefsAre DEF LedgerInv
<1>2. /\ ref[Fwd(side)] \in {0} \cup Line
      /\ db[Shown(ref, side)].note.source \in {0} \cup Line
  BY DEF LedgerInv, Follows
<1>3. Acked[side] = ref[Fwd(side)] /\ View[side] = PartOf(side, Shown(ref, side))
  BY <1>2 DEF Acked, View, Shown
<1>4. Line \subseteq Nat /\ 0 \notin Line
  BY <1>1
<1>5. StartOf(db, ref, side) \in Line
  BY <1>1, <1>2 DEF StartOf
<1>6. Acked[side] <= StartOf(db, ref, side)
  <2>1. CASE ref[Fwd(side)] # 0
    <3>1. StartOf(db, ref, side) = ref[Fwd(side)]
      BY <2>1 DEF StartOf
    <3>2. ref[Fwd(side)] \in Nat
      BY <1>2, <1>4, <2>1
    <3>3. \A n \in Nat : n <= n
      OBVIOUS
    <3> QED BY <1>3, <3>1, <3>2, <3>3
  <2>2. CASE ref[Fwd(side)] = 0
    <3>1. StartOf(db, ref, side) \in Nat
      BY <1>4, <1>5
    <3>2. 0 <= StartOf(db, ref, side)
      BY <3>1
    <3> QED BY <1>3, <2>2, <3>2
  <2> QED BY <2>1, <2>2
<1>7. DOMAIN Work = Line /\ \A n \in Line : Work[n][side] = PartOf(side, n)
  BY DEF Work
<1> QED BY <1>1, <1>2, <1>3, <1>4, <1>5, <1>6, <1>7

\* When a pass stops or ends, the side shows the commit that the pass has got to.
LEMMA GotThere ==
  ASSUME FreshStart, Typed, LedgerInv, ~foreign, run.pc = "lay",
         \/ run.rest = {}
         \/ run.rest # {} /\ InTheWay(Oldest),
         NEW m \in Line, GotTo(m)
  PROVE  Same(db, run.side, run.tip, m)
<1>1. /\ WellFormed(db) /\ run.side \in Sides
      /\ ref["unclean"] \in 1..Len(db) /\ Line = db[ref["unclean"]].line
      /\ ref["unclean"] \in Line /\ Kept(run.side) \subseteq Paths
      /\ \A i \in Line : i <= ref["unclean"]
  BY Grounds DEF LedgerInv, Typed, Runs, Kept, Paths
<1>2. /\ Line \subseteq Nat /\ Begun \in Line
  BY <1>1, SideAt DEF Begun
<1>3. Follows(db, Line, ref, run.side, FALSE)
  <2>1. "lay" # "cursor"
    OBVIOUS
  <2>2. Follows(db, Line, ref, run.side, run.pc = "cursor" /\ run.side = run.side /\ run.fake)
    BY <1>1 DEF LedgerInv
  <2> QED BY <2>1, <2>2 DEF Follows
<1>4. PICK n \in Line : Begun <= n /\ Same(db, run.side, ref[run.side], n) /\ Flat(db, Line, Begun, n)
  <2>1. Shown(ref, run.side) = ref[run.side]
    BY <1>1 DEF Shown, Typed, Staged, Started, Sides
  <2> QED BY <1>3, <2>1 DEF Follows, Begun
<1>5. n <= m
  <2>1. CASE run.rest = {}
    <3>1. ~(n > m)
      BY <2>1 DEF GotTo
    <3> QED BY <1>2, <3>1
  <2>2. CASE run.rest # {} /\ InTheWay(Oldest)
    <3> DEFINE next == Oldest
    <3>1. /\ next \in Line /\ m < next
          /\ {j \in Line : j > m} \ {next} = {j \in Line : j > next}
      BY <2>2, NextSource
    <3>2. db[next].merged # 0
      BY <2>2 DEF InTheWay, IsMerge
    <3> HIDE DEF next
    <3>3. Begun < next
      BY <1>2, <3>1 DEF GotTo
    <3>4. ~(next <= n)
      BY <1>4, <3>1, <3>2, <3>3 DEF Flat
    <3>5. n > m => n = next \/ n > next
      BY <3>1
    <3> QED BY <1>2, <3>1, <3>4, <3>5
  <2> QED BY <2>1, <2>2
<1>6. ASSUME NEW p \in Kept(run.side)
      PROVE  db[run.tip].tree[p] = db[m].tree[p]
  <2>1. CASE \E k \in Line : Begun < k /\ k <= m /\ p \in Changed(db, k)
    BY <2>1 DEF GotTo
  <2>2. CASE ~\E k \in Line : Begun < k /\ k <= m /\ p \in Changed(db, k)
    <3>1. db[run.tip].tree[p] = db[ref[run.side]].tree[p]
      BY <2>2 DEF GotTo, Tip
    <3>2. db[ref[run.side]].tree[p] = db[n].tree[p]
      BY <1>4 DEF Same
    <3>3. \A k \in Line : n < k /\ k <= m => p \notin Changed(db, k)
      BY <1>2, <1>4, <2>2
    <3>4. db[n].tree[p] = db[m].tree[p]
      BY <1>1, <1>5, <3>3, UnchangedAlong
    <3> QED BY <3>1, <3>2, <3>4
  <2> QED BY <2>1, <2>2
<1> QED BY <1>6 DEF Same

LEMMA LedgerShows ==
  ASSUME FreshStart, Typed, LedgerInv, ~foreign, StopAtMerge \/ EndPass
  PROVE  LedgerInv' /\ [Ledger!Next]_(Ledger!vars)
<1> DEFINE side == run.side
<1>r. run \in Runs /\ side \in Sides /\ ref \in [RefNames -> 0..Len(db)] /\ Len(db) \in Nat
  BY RecordsTyped DEF Typed, Runs
<1>1. /\ run.pc = "lay"
      /\ run.rest = {} \/ (run.rest # {} /\ InTheWay(Oldest))
      /\ ref' = [ref EXCEPT ![side] = run.tip] /\ db' = db /\ logged' = logged
      /\ foreign' = foreign
  BY DEF StopAtMerge, EndPass, Working, Worked, At, MoveTo
<1>2. /\ run'.side = side /\ run'.pc \in {"asked", "cursor"} /\ run'.fake = run.fake
      /\ run'.pc = "asked" => ~run.fake
      /\ run'.pc = "cursor" => run.rest = {} /\ run'.last = run.last
  <2>1. CASE StopAtMerge
    <3>1. run' = [run EXCEPT !.pc = "asked", !.stop = Oldest, !.last = 0, !.tip = 0, !.rest = {}]
      BY <2>1 DEF StopAtMerge, MoveTo
    <3>2. ~run.fake
      BY <2>1 DEF StopAtMerge, InTheWay
    <3> QED BY <1>r, <3>1, <3>2 DEF Runs
  <2>2. CASE EndPass
    <3>1. run' = [run EXCEPT !.pc = "cursor", !.tip = 0] /\ run.rest = {}
      BY <2>2 DEF EndPass, MoveTo, Worked
    <3> QED BY <1>r, <3>1 DEF Runs
  <2> QED BY <2>1, <2>2
<1>3. PICK m \in Line : GotTo(m)
  BY <1>1 DEF LedgerInv, LayOk
<1>4. Same(db, side, run.tip, m)
  BY <1>1, <1>3, GotThere
<1>5. /\ run.tip \in 1..Len(db) /\ run.tip # 0
  BY <1>1, <1>r DEF Typed, Staged
<1>6. /\ side \in RefNames /\ ref'[side] = run.tip
      /\ \A r \in RefNames : r # side => ref'[r] = ref[r]
  BY <1>1, <1>r, RefsAre
<1>7. /\ ref'["unclean"] = ref["unclean"]
      /\ \A s \in Sides : ref'[Fwd(s)] = ref[Fwd(s)]
  BY <1>6, <1>r DEF Sides, Fwd, RefNames
<1>8. /\ Shown(ref', side) = run.tip
      /\ \A s \in Sides \ {side} : Shown(ref', s) = Shown(ref, s)
  BY <1>5, <1>6, RefsAre DEF Shown
<1>9. Line' = Line /\ Work' = Work
  BY <1>1, <1>7 DEF Line, Work, PartOf
<1>10. Acked' = Acked
  BY <1>7, <1>9, AckedStays
<1>11. /\ ref[Fwd(side)] \in {0} \cup Line
       /\ Acked[side] = ref[Fwd(side)]
       /\ Begun \in Line /\ Acked[side] <= Begun
       /\ DOMAIN Work = Line /\ Work[m][side] = PartOf(side, m)
       /\ Line \subseteq Nat /\ Line \subseteq 1..Len(db)
  BY <1>r, SideAt DEF Begun
<1>12. Begun <= m
  BY <1>3 DEF GotTo
<1>13. /\ db[run.tip].note.source \in {0} \cup Line
       /\ side = "clean" => db[run.tip].note.source = 0
       /\ StartOf(db, ref', side) \in {Begun, m}
  <2>1. /\ db[Shown(ref, side)].note.source \in {0} \cup Line
        /\ side = "clean" => db[Shown(ref, side)].note.source = 0
    BY <1>r DEF LedgerInv, Follows
  <2>2. Shown(ref, side) = ref[side]
    BY <1>1, <1>r DEF Shown, Typed, Staged, Started, Sides
  <2>3. CASE side = "clean"
    <3>1. db[run.tip].note.source = 0
      BY <1>3, <2>3 DEF GotTo
    <3>2. StartOf(db, ref', side) = Begun
      BY <1>7, <1>8, <1>r, <2>1, <2>3, <3>1 DEF StartOf, Begun
    <3> QED BY <3>1, <3>2
  <2>4. CASE side = "history"
    <3>1. db[run.tip].note.source = IF Begun < m THEN m ELSE db[ref[side]].note.source
      BY <1>3, <2>4 DEF GotTo
    <3>2. db[run.tip].note.source \in {0} \cup Line
      BY <2>1, <2>2, <3>1
    <3>3. StartOf(db, ref', side) \in {Begun, m}
      <4>1. m # 0
        BY <1>11
      <4>2. StartOf(db, ref', side) = IF ref[Fwd(side)] # 0 THEN ref[Fwd(side)]
                                      ELSE IF db[run.tip].note.source # 0 THEN db[run.tip].note.source
                                      ELSE Bound(side)
        BY <1>7, <1>8, <1>r DEF StartOf
      <4>3. Begun = IF ref[Fwd(side)] # 0 THEN ref[Fwd(side)]
                    ELSE IF db[ref[side]].note.source # 0 THEN db[ref[side]].note.source
                    ELSE Bound(side)
        BY <2>2 DEF StartOf, Begun
      <4> QED BY <3>1, <4>1, <4>2, <4>3
    <3>4. "history" # "clean"
      OBVIOUS
    <3> QED BY <2>4, <3>2, <3>3, <3>4
  <2> QED BY <1>r, <2>3, <2>4 DEF Sides
<1>14. Follows(db, Line, ref', side, run'.pc = "cursor" /\ run.fake)
  <2>1. StartOf(db, ref', side) <= m
    BY <1>11, <1>12, <1>13
  <2>2. ~run.fake => Flat(db, Line, StartOf(db, ref', side), m)
    <3>1. ~run.fake => Flat(db, Line, Begun, m)
      BY <1>3 DEF GotTo
    <3>2. Flat(db, Line, m, m)
      BY <1>11 DEF Flat
    <3> QED BY <1>13, <3>1, <3>2
  <2>3. (run'.pc = "cursor" /\ run.fake) \/ Flat(db, Line, StartOf(db, ref', side), m)
    BY <1>2, <2>2
  <2>4. /\ ref'[Fwd(side)] \in {0} \cup Line
        /\ db[Shown(ref', side)].note.source \in {0} \cup Line
        /\ side = "clean" => db[Shown(ref', side)].note.source = 0
    BY <1>7, <1>8, <1>11, <1>13, <1>r
  <2>5. Same(db, side, Shown(ref', side), m)
    BY <1>4, <1>8
  <2> HIDE DEF side
  <2> QED BY <2>1, <2>3, <2>4, <2>5 DEF Follows
<1>15. ASSUME NEW s \in Sides \ {side}
       PROVE  Follows(db, Line, ref', s, FALSE)
  <2>1. Follows(db, Line, ref, s, FALSE)
    BY <1>1 DEF LedgerInv
  <2>2. Shown(ref', s) = Shown(ref, s) /\ ref'[Fwd(s)] = ref[Fwd(s)]
    BY <1>7, <1>8
  <2>3. StartOf(db, ref', s) = StartOf(db, ref, s)
    BY <2>2 DEF StartOf
  <2> QED BY <2>1, <2>2, <2>3 DEF Follows
<1>16. run'.pc = "cursor" => CursorOk'
  <2> SUFFICES ASSUME run'.pc = "cursor" PROVE CursorOk'
    OBVIOUS
  <2>1. run.rest = {} /\ run'.last = run.last
    BY <1>2
  <2>2. ref["unclean"] \in Line /\ \A i \in Line : i <= ref["unclean"]
    BY Grounds DEF LedgerInv
  <2>3. m = ref["unclean"]
    <3>1. ~(ref["unclean"] > m)
      BY <1>3, <2>1, <2>2 DEF GotTo
    <3> QED BY <1>11, <2>2, <3>1
  <2>4. run.last = IF Begun < ref["unclean"] THEN ref["unclean"] ELSE 0
    BY <1>1 DEF LedgerInv, LayOk
  <2>5. Begun' = StartOf(db, ref', side)
    BY <1>1, <1>2 DEF Begun
  <2>6. Same(db', run'.side, ref'[run'.side], ref'["unclean"])
    BY <1>1, <1>2, <1>4, <1>6, <1>7, <2>3
  <2>7. run.last = ref["unclean"] \/ (run.last = 0 /\ Begun' = ref["unclean"])
    BY <1>11, <1>12, <1>13, <2>3, <2>4, <2>5
  <2> QED BY <1>7, <2>1, <2>6, <2>7 DEF CursorOk
<1>17. LedgerInv'
  <2>1. /\ ref'["unclean"] # 0 /\ HistoryMain \in Line'
        /\ \A i \in 1..Len(db') : db'[i].note.recon = 0
    BY <1>1, <1>7, <1>9 DEF LedgerInv
  <2>2. run'.pc \in Calm \cup {"lay", "cursor"} /\ run'.pc # "lay"
    BY <1>2 DEF Calm
  <2>3. \A s \in Sides :
           Follows(db', Line', ref', s, run'.pc = "cursor" /\ run'.side = s /\ run'.fake)
    <3> SUFFICES ASSUME NEW s \in Sides
                 PROVE  Follows(db, Line, ref', s, run'.pc = "cursor" /\ side = s /\ run.fake)
      BY <1>1, <1>2, <1>9
    <3>1. CASE s = side
      BY <1>14, <3>1 DEF Follows
    <3>2. CASE s # side
      <4>1. Follows(db, Line, ref', s, FALSE)
        BY <1>15, <3>2
      <4> QED BY <4>1, <3>2 DEF Follows
    <3> QED BY <3>1, <3>2
  <2>4. logged' # <<>> =>
         /\ logged'["unclean"] = ref'["unclean"]
         /\ \A s \in Sides : /\ Follows(db', Line', logged', s, FALSE)
                             /\ logged'[Fwd(s)] <= ref'[Fwd(s)]
    BY <1>1, <1>7, <1>9 DEF LedgerInv
  <2> QED BY <1>16, <2>1, <2>2, <2>3, <2>4 DEF LedgerInv
<1>18. View' = [View EXCEPT ![side] = Work[m][side]]
  <2>1. \A s \in Sides : View[s] = PartOf(s, Shown(ref, s))
    BY DEF View, Shown
  <2>2. View' = [s \in Sides |-> PartOf(s, Shown(ref', s))]
    BY <1>1 DEF View, Shown, PartOf
  <2>3. PartOf(side, run.tip) = PartOf(side, m)
    BY <1>4 DEF PartOf, Same
  <2>4. View = [s \in Sides |-> View[s]]
    BY DEF View
  <2>5. [View EXCEPT ![side] = Work[m][side]]
          = [s \in Sides |-> IF s = side THEN Work[m][side] ELSE View[s]]
    BY <2>4
  <2> HIDE DEF side
  <2> QED BY <1>8, <1>11, <2>1, <2>2, <2>3, <2>5
<1>19. m >= Acked[side] /\ m \in DOMAIN Work
  <2>1. m \in Nat /\ Begun \in Nat
    BY <1>11
  <2>2. Acked[side] \in Nat
    BY <1>11
  <2> QED BY <1>11, <1>12, <2>1, <2>2
<1>20. ~foreign'
  BY <1>1
<1> HIDE DEF side
<1>21. [Ledger!Next]_(Ledger!vars)
  BY <1>9, <1>10, <1>18, <1>19, <1>20, <1>r, LedgerShow
<1> QED BY <1>17, <1>21


LEMMA LedgerAcks ==
  ASSUME FreshStart, Typed, LedgerInv, ~foreign, MoveForwardCursor
  PROVE  LedgerInv' /\ [Ledger!Next]_(Ledger!vars)
<1> DEFINE side == run.side
           top == ref["unclean"]
<1>r. run \in Runs /\ side \in Sides /\ ref \in [RefNames -> 0..Len(db)] /\ Len(db) \in Nat
  BY RecordsTyped DEF Typed, Runs
<1>1. /\ run.pc = "cursor"
      /\ ref' = IF run.last = 0 THEN ref ELSE [ref EXCEPT ![Fwd(side)] = run.last]
      /\ db' = db /\ logged' = logged /\ foreign' = foreign
  BY DEF MoveForwardCursor, At
<1>2. run'.pc \in {"pass", "idle"}
  <2>1. \/ run' = [run EXCEPT !.pc = "pass", !.side = "history", !.last = 0]
        \/ run' = Idle
    BY DEF MoveForwardCursor, Finish
  <2>2. Idle.pc = "idle"
    BY DEF Idle
  <2> QED BY <1>r, <2>1, <2>2 DEF Runs
<1>3. /\ Same(db, side, ref[side], top)
      /\ run.last = top \/ (run.last = 0 /\ Begun = top)
  BY <1>1 DEF LedgerInv, CursorOk
<1>4. /\ top # 0 /\ HistoryMain \in Line /\ top \in Line /\ Line \subseteq 1..Len(db)
      /\ Line \subseteq Nat /\ \A i \in Line : i <= top
  BY <1>r, Grounds DEF LedgerInv
<1>5. ref[side] # 0
  BY <1>1, <1>r DEF Typed, Staged, Started, Sides
<1>6. \A r \in RefNames : r # Fwd(side) => ref'[r] = ref[r]
  BY <1>1, <1>r
<1>7. /\ ref'["unclean"] = top /\ \A s \in Sides : ref'[s] = ref[s]
      /\ \A s \in Sides \ {side} : ref'[Fwd(s)] = ref[Fwd(s)]
  <2>1. "unclean" \in RefNames /\ "unclean" # Fwd(side)
    BY DEF Fwd, RefNames
  <2>2. \A s \in Sides : s \in RefNames /\ s # Fwd(side)
    BY DEF Fwd, RefNames, Sides
  <2>3. \A s \in Sides \ {side} : Fwd(s) \in RefNames /\ Fwd(s) # Fwd(side)
    BY <1>r DEF Fwd, RefNames, Sides
  <2> HIDE DEF side
  <2> QED BY <1>6, <2>1, <2>2, <2>3
<1>8. \A s \in Sides : Shown(ref', s) = Shown(ref, s)
  BY <1>7 DEF Shown
<1>9. Line' = Line /\ Work' = Work /\ View' = View
  <2>1. Line' = Line
    BY <1>1, <1>7 DEF Line
  <2> QED BY <1>1, <1>7, <2>1 DEF Work, View, PartOf
<1>10. /\ ref[Fwd(side)] \in {0} \cup Line /\ Acked[side] = ref[Fwd(side)]
       /\ View[side] = PartOf(side, ref[side]) /\ DOMAIN Work = Line
       /\ Work[top][side] = PartOf(side, top) /\ Begun \in Line
  <2>1. Shown(ref, side) = ref[side]
    BY <1>5 DEF Shown
  <2> QED BY <1>4, <1>r, <2>1, SideAt DEF Begun
<1>11. /\ ref'[Fwd(side)] = IF run.last = 0 THEN ref[Fwd(side)] ELSE run.last
  <2>1. Fwd(side) \in RefNames
    BY <1>r, RefsAre
  <2> QED BY <1>1, <1>r, <2>1
<1>12. StartOf(db, ref', side) = top /\ ref'[Fwd(side)] \in {0} \cup Line
  <2>1. CASE run.last = 0
    <3>1. StartOf(db, ref', side) = Begun
      BY <1>1, <2>1 DEF Begun
    <3> QED BY <1>3, <1>4, <1>10, <1>11, <2>1, <3>1
  <2>2. CASE run.last # 0
    BY <1>3, <1>4, <1>11, <2>2 DEF StartOf
  <2> QED BY <2>1, <2>2
<1>13. ASSUME NEW s \in Sides PROVE Follows(db, Line, ref', s, FALSE)
  <2>1. CASE s = side
    <3>1. Follows(db, Line, ref, side, run.pc = "cursor" /\ run.side = side /\ run.fake)
      BY <1>r DEF LedgerInv
    <3>2. top <= top /\ Flat(db, Line, top, top)
      BY <1>4 DEF Flat
    <3>3. Same(db, side, Shown(ref', side), top)
      BY <1>3, <1>5, <1>8, <1>r DEF Shown
    <3>4. Shown(ref', side) = Shown(ref, side)
      BY <1>8, <1>r
    <3> HIDE DEF side, top
    <3> QED BY <1>4, <1>12, <2>1, <3>1, <3>2, <3>3, <3>4 DEF Follows
  <2>2. CASE s # side
    <3>1. Follows(db, Line, ref, s, run.pc = "cursor" /\ run.side = s /\ run.fake)
      BY DEF LedgerInv
    <3>2. Shown(ref', s) = Shown(ref, s) /\ ref'[Fwd(s)] = ref[Fwd(s)]
      BY <1>7, <1>8, <2>2
    <3>3. StartOf(db, ref', s) = StartOf(db, ref, s)
      BY <3>2 DEF StartOf
    <3> QED BY <2>2, <3>1, <3>2, <3>3 DEF Follows
  <2> QED BY <2>1, <2>2
<1>14. ref[Fwd(side)] \in Nat /\ ref[Fwd(side)] <= top
  <2>1. top \in Nat
    BY <1>4
  <2>2. ref[Fwd(side)] \in Nat
    <3>1. Line \subseteq Nat /\ ref[Fwd(side)] \in {0} \cup Line
      BY <1>4, <1>10
    <3>2. CASE ref[Fwd(side)] = 0
      BY <3>2
    <3>3. CASE ref[Fwd(side)] \in Line
      BY <3>1, <3>3
    <3> QED BY <3>1, <3>2, <3>3
  <2> QED BY <1>4, <1>10, <2>1, <2>2
<1>15. \A s \in Sides : ref[Fwd(s)] <= ref'[Fwd(s)]
  <2> SUFFICES ASSUME NEW s \in Sides PROVE ref[Fwd(s)] <= ref'[Fwd(s)]
    OBVIOUS
  <2>1. ref[Fwd(s)] \in 0..Len(db)
    BY RefsAre
  <2>2. CASE s # side \/ run.last = 0
    <3>1. ref'[Fwd(s)] = ref[Fwd(s)]
      BY <1>1, <1>7, <2>2
    <3> QED BY <1>r, <2>1, <3>1
  <2>3. CASE s = side /\ run.last # 0
    BY <1>3, <1>11, <1>14, <2>3
  <2> QED BY <2>2, <2>3
<1>16. LedgerInv'
  <2>1. /\ ref'["unclean"] # 0 /\ HistoryMain \in Line'
        /\ \A i \in 1..Len(db') : db'[i].note.recon = 0
    BY <1>1, <1>4, <1>7, <1>9 DEF LedgerInv
  <2>2. run'.pc \in Calm \cup {"lay", "cursor"} /\ run'.pc \notin {"lay", "cursor"}
    BY <1>2 DEF Calm
  <2>3. \A s \in Sides :
           Follows(db', Line', ref', s, run'.pc = "cursor" /\ run'.side = s /\ run'.fake)
    BY <1>1, <1>9, <1>13, <2>2
  <2>4. ASSUME logged' # <<>>, NEW s \in Sides
        PROVE  /\ logged'["unclean"] = ref'["unclean"]
               /\ Follows(db', Line', logged', s, FALSE)
               /\ logged'[Fwd(s)] <= ref'[Fwd(s)]
    <3>1. /\ logged["unclean"] = top /\ Follows(db, Line, logged, s, FALSE)
          /\ logged[Fwd(s)] <= ref[Fwd(s)]
      BY <1>1, <2>4 DEF LedgerInv
    <3>2. /\ logged[Fwd(s)] \in 0..Len(db) /\ ref[Fwd(s)] \in 0..Len(db)
          /\ ref'[Fwd(s)] \in 0..Len(db)
      <4>1. Fwd(s) \in RefNames
        BY RefsAre
      <4>2. ref'[Fwd(s)] \in {ref[Fwd(s)], run.last}
        BY <1>6, <1>11, <4>1
      <4> QED BY <1>1, <2>4, <4>1, <4>2 DEF Typed
    <3>3. logged[Fwd(s)] <= ref'[Fwd(s)]
      <4>1. ref[Fwd(s)] <= ref'[Fwd(s)]
        BY <1>15
      <4> QED BY <1>r, <3>1, <3>2, <4>1
    <3> QED BY <1>1, <1>7, <1>9, <3>1, <3>3
  <2>5. logged' # <<>> => logged'["unclean"] = ref'["unclean"]
    BY <1>1, <1>7 DEF LedgerInv
  <2> QED BY <2>1, <2>2, <2>3, <2>4, <2>5 DEF LedgerInv
<1>17. CASE run.last = 0
  <2>1. Acked' = Acked
    BY <1>1, <1>9, <1>17 DEF Acked
  <2> QED BY <1>1, <1>9, <1>16, <2>1, LedgerVars
<1>18. CASE run.last # 0
  <2>1. Acked' = [Acked EXCEPT ![side] = top]
    <3>1. \A s \in Sides : Acked'[s] = IF s = side THEN top ELSE Acked[s]
      BY <1>3, <1>4, <1>7, <1>9, <1>11, <1>18 DEF Acked
    <3>2. Acked = [s \in Sides |-> Acked[s]] /\ Acked' = [s \in Sides |-> Acked'[s]]
      BY DEF Acked
    <3> HIDE DEF side, top
    <3> QED BY <3>1, <3>2
  <2>2. View[side] = Work[top][side]
    BY <1>3, <1>10 DEF PartOf, Same
  <2>3. top >= Acked[side]
    <3>1. top \in Nat
      BY <1>4
    <3> QED BY <1>10, <1>14, <3>1
  <2>4. ~foreign'
    BY <1>1
  <2> HIDE DEF side, top
  <2> QED BY <1>4, <1>9, <1>10, <1>16, <1>r, <2>1, <2>2, <2>3, <2>4, LedgerAck
<1> QED BY <1>17, <1>18

\* A commit of the author to unclean.
LEMMA LedgerGrows ==
  ASSUME FreshStart, Typed, LedgerInv, [Next]_vars, ~foreign, foreign' = foreign,
         run.pc = "idle", run' = run,
         NEW second, NEW tree, NEW date,
         db' = Append(db, Commit(db, ref["unclean"], second, tree, NoTrailers, date)),
         ref' = [ref EXCEPT !["unclean"] = Len(db) + 1], logged' = <<>>
  PROVE  LedgerInv' /\ [Ledger!Next]_(Ledger!vars)
<1> DEFINE new == Len(db) + 1
<1>1. /\ WellFormed(db) /\ WellFormed(db') /\ Grown(db, db') /\ Len(db) \in Nat
      /\ \A j \in 1..Len(db) : db'[j] = db[j]
      /\ ref \in [RefNames -> 0..Len(db)]
  BY StoreGrows, StaysRead, RecordsTyped DEF Typed
<1>2. /\ Len(db') = new /\ db'[new].line = Line \cup {new}
      /\ db'[new].note = NoTrailers
  <2>1. WellFormed(db)
    BY <1>1
  <2>2. /\ Len(db') = Len(db) + 1
        /\ db'[Len(db) + 1].line = LineOf(db, ref["unclean"]) \cup {Len(db) + 1}
        /\ db'[Len(db) + 1].note = NoTrailers
    <3>1. PICK first, note : /\ first = ref["unclean"] /\ note = NoTrailers
                             /\ db' = Append(db, Commit(db, first, second, tree, note, date))
      OBVIOUS
    <3>2. /\ Len(db') = Len(db) + 1
          /\ db'[Len(db) + 1].line = LineOf(db, first) \cup {Len(db) + 1}
          /\ db'[Len(db) + 1].note = note
      BY <2>1, <3>1, MadeIs
    <3> QED BY <3>1, <3>2
  <2> QED BY <2>2 DEF Line
<1>3. /\ ref'["unclean"] = new
      /\ \A r \in RefNames \ {"unclean"} : ref'[r] = ref[r]
  BY <1>1 DEF RefNames
<1>4. \A side \in Sides : ref'[side] = ref[side] /\ ref'[Fwd(side)] = ref[Fwd(side)]
  BY <1>3 DEF Sides, RefNames, Fwd
<1>5. \A side \in Sides : Shown(ref', side) = Shown(ref, side)
  BY <1>4 DEF Shown
<1>6. Line' = Line \cup {new} /\ new # 0
  BY <1>1, <1>2, <1>3 DEF Line, LineOf
<1>7. HistoryMain \in Line /\ Line \subseteq 1..Len(db) /\ ref["unclean"] # 0
  BY Grounds DEF LedgerInv
<1>8. new \notin Line /\ \A n \in Line : n < new
  BY <1>1, <1>7
<1>9. ASSUME NEW side \in Sides PROVE Follows(db', Line', ref', side, FALSE)
  <2>1. Follows(db, Line, ref, side, FALSE)
    BY DEF LedgerInv
  <2>2. Shown(ref, side) \in 1..Len(db)
    BY ShownTyped
  <2>3. /\ WellFormed(db) /\ WellFormed(db') /\ Grown(db, db') /\ Line \subseteq 1..Len(db)
        /\ Line \subseteq Line' /\ \A k \in Line' : k \in Line \/ k > Len(db)
    BY <1>1, <1>6, <1>7
  <2>4. Shown(ref', side) = Shown(ref, side) /\ ref'[Fwd(side)] = ref[Fwd(side)]
    BY <1>4, <1>5
  <2>5. ASSUME NEW e, WellFormed(e), Grown(db, e), NEW M, Line \subseteq M,
               \A k \in M : k \in Line \/ k > Len(db), NEW refs,
               Shown(refs, side) = Shown(ref, side), refs[Fwd(side)] = ref[Fwd(side)]
        PROVE  Follows(e, M, refs, side, FALSE)
    BY <1>1, <1>7, <2>1, <2>2, <2>5, FollowsStays
  <2> QED BY <2>3, <2>4, <2>5
<1>10. \A i \in 1..Len(db') : db'[i].note.recon = 0
  <2>1. NoTrailers.recon = 0
    BY DEF NoTrailers
  <2>2. \A i \in 1..Len(db) : db'[i].note.recon = 0
    BY <1>1 DEF LedgerInv
  <2> QED BY <1>1, <1>2, <2>1, <2>2
<1>11. LedgerInv'
  BY <1>3, <1>6, <1>7, <1>9, <1>10 DEF LedgerInv, Calm
<1>12. View' = View
  BY <1>5, ViewStays
<1>13. Acked' = Acked
  <2>1. \A side \in Sides : ref[Fwd(side)] \in {0} \cup Line
    BY DEF LedgerInv, Follows
  <2> QED BY <1>4, <1>6, <2>1 DEF Acked
<1>14. /\ new \in DOMAIN (Work') /\ DOMAIN Work = DOMAIN (Work') \ {new}
       /\ \A n \in DOMAIN Work : n < new /\ Work'[n] = Work[n]
  <2>1. DOMAIN Work = Line /\ DOMAIN (Work') = Line'
    BY DEF Work
  <2>2. ASSUME NEW n \in Line PROVE Work'[n] = Work[n]
    <3>1. db'[n] = db[n] /\ n \in Line'
      BY <1>1, <1>6, <1>7
    <3> QED BY <3>1 DEF Work, PartOf
  <2> QED BY <1>6, <1>8, <2>1, <2>2
<1>15. ~foreign'
  OBVIOUS
<1> HIDE DEF new
<1> QED BY <1>11, <1>12, <1>13, <1>14, <1>15, LedgerEdit

\* The undo commands of the recovery log.
LEMMA LedgerFallsBack ==
  ASSUME FreshStart, Typed, LedgerInv, ~foreign, Undo
  PROVE  LedgerInv' /\ [Ledger!Next]_(Ledger!vars)
<1>1. /\ run.pc = "idle" /\ logged # <<>> /\ ref' = logged /\ logged' = <<>> /\ run' = run
      /\ db' = db /\ foreign' = foreign
  BY DEF Undo, At
<1>2. /\ ref'["unclean"] = ref["unclean"]
      /\ \A side \in Sides : /\ Follows(db, Line, ref', side, FALSE)
                             /\ ref'[Fwd(side)] <= ref[Fwd(side)]
  BY <1>1 DEF LedgerInv
<1>3. Line' = Line
  BY <1>1, <1>2 DEF Line
<1>4. Work' = Work
  BY <1>1, <1>3 DEF Work, PartOf
<1>5. LedgerInv'
  BY <1>1, <1>2, <1>3 DEF LedgerInv, Calm
<1>6. ASSUME NEW side \in Sides
      PROVE  /\ Acked'[side] <= Acked[side]
             /\ \E n \in DOMAIN Work : View'[side] = Work[n][side]
  <2>1. ref'[Fwd(side)] \in {0} \cup Line
    BY <1>2 DEF Follows
  <2>2. Acked'[side] = ref'[Fwd(side)]
    BY <1>3, <2>1 DEF Acked
  <2>3. Acked[side] = ref[Fwd(side)] /\ DOMAIN Work = Line
        /\ \A n \in Line : Work[n][side] = PartOf(side, n)
    BY SideAt
  <2>4. PICK n \in Line : Same(db, side, Shown(ref', side), n)
    BY <1>2 DEF Follows
  <2>5. View'[side] = PartOf(side, Shown(ref', side))
    BY <1>1 DEF View, Shown, PartOf
  <2>6. PartOf(side, Shown(ref', side)) = PartOf(side, n)
    BY <2>4 DEF Same, PartOf
  <2> QED BY <1>2, <2>2, <2>3, <2>5, <2>6
<1> QED BY <1>1, <1>4, <1>5, <1>6, LedgerUndo


LEMMA LedgerForward ==
  ASSUME FreshStart, Typed, LedgerInv, ~foreign, ~foreign', ForwardStep
  PROVE  LedgerInv' /\ [Ledger!Next]_(Ledger!vars)
<1>1. /\ run \in Runs /\ run.side \in Sides /\ [Next]_vars
      /\ ref \in [RefNames -> 0..Len(db)]
      /\ run.pc \in Calm \cup {"lay", "cursor"} /\ ref["unclean"] # 0
  BY DEF Typed, Runs, Next, LedgerInv
<1>2. Idle.pc = "idle" /\ StartOver(TRUE).pc = "clean"
  BY StartOverTyped DEF Idle
<1>3. Main # 0 /\ HistoryMain # 0
  BY StoreTyped
<1>4. CASE EnsureClean \/ EnsureHistory \/ MarkForkPoint
  <2>1. /\ run.pc \in {"clean", "history", "fork"}
        /\ db' = db /\ logged' = logged
        /\ \E pc \in {"history", "fork", "pass"} : run' = [run EXCEPT !.pc = pc]
        /\ \/ ref' = [ref EXCEPT !["clean"] = IF @ = 0 THEN Main ELSE @]
           \/ ref' = [ref EXCEPT !["history"] = IF @ = 0 THEN HistoryMain ELSE @]
           \/ ref' = [ref EXCEPT !["fork"] = ref["history"]]
    <3>1. CASE EnsureClean
      BY <3>1 DEF EnsureClean, At, Go
    <3>2. CASE EnsureHistory
      BY <3>2 DEF EnsureHistory, At, Go
    <3>3. CASE MarkForkPoint
      BY <1>1, <3>3 DEF MarkForkPoint, At, Go, Calm
    <3> QED BY <1>4, <3>1, <3>2, <3>3
  <2>2. run'.pc \in Calm /\ run.pc # "cursor"
    BY <1>1, <2>1 DEF Runs, Calm
  <2>3. {"unclean", "clean", "history", "fork", "fwdClean", "fwdHistory"} \subseteq RefNames
    BY DEF RefNames
  <2>4. /\ ref'["unclean"] = ref["unclean"]
        /\ ref'["fwdClean"] = ref["fwdClean"] /\ ref'["fwdHistory"] = ref["fwdHistory"]
        /\ ref'["clean"] = ref["clean"] \/ (ref["clean"] = 0 /\ ref'["clean"] = Main)
        /\ ref'["history"] = ref["history"] \/ (ref["history"] = 0 /\ ref'["history"] = HistoryMain)
    <3>1. CASE ref' = [ref EXCEPT !["clean"] = IF @ = 0 THEN Main ELSE @]
      BY <1>1, <2>3, <3>1
    <3>2. CASE ref' = [ref EXCEPT !["history"] = IF @ = 0 THEN HistoryMain ELSE @]
      BY <1>1, <2>3, <3>2
    <3>3. CASE ref' = [ref EXCEPT !["fork"] = ref["history"]]
      BY <1>1, <2>3, <3>3
    <3> QED BY <2>1, <3>1, <3>2, <3>3
  <2>5. \A side \in Sides : /\ Shown(ref', side) = Shown(ref, side)
                            /\ ref'[Fwd(side)] = ref[Fwd(side)]
    BY <1>3, <2>4 DEF Sides, Shown, Bound, Fwd
  <2> QED BY <1>1, <2>1, <2>2, <2>4, <2>5, LedgerQuiet
<1>5. CASE NothingToReplay
  BY <1>1, <1>5 DEF NothingToReplay
<1>6. CASE StartPass
  BY <1>6, LedgerStarts
<1>7. CASE LaySource
  BY <1>7, LedgerLays
<1>8. CASE StopAtMerge \/ EndPass
  BY <1>8, LedgerShows
<1>9. CASE MoveForwardCursor
  BY <1>9, LedgerAcks
<1>10. CASE AnswerFake \/ AnswerAbort \/ AnswerAttempt
  <2>1. /\ run.pc = "asked" /\ db' = db /\ ref' = ref /\ logged' = logged
        /\ run' \in {run, Idle, StartOver(TRUE)}
    <3>1. CASE AnswerFake
      BY <3>1 DEF AnswerFake, Answered, At
    <3>2. CASE AnswerAbort
      BY <3>2 DEF AnswerAbort, Answered, At, Finish
    <3>3. CASE AnswerAttempt
      BY <3>3 DEF AnswerAttempt, Answered, At, Finish
    <3> QED BY <1>10, <3>1, <3>2, <3>3
  <2>2. run'.pc \in Calm /\ run.pc # "cursor"
    BY <1>2, <2>1 DEF Calm
  <2> QED BY <1>1, <2>1, <2>2, LedgerQuiet
<1>11. CASE MergeByHand
  BY <1>11 DEF MergeByHand
<1>12. CASE AnswerManual \/ MergeResolved
  BY <1>1, <1>12 DEF AnswerManual, MergeResolved, At, Calm
<1> QED BY <1>4, <1>5, <1>6, <1>7, <1>8, <1>9, <1>10, <1>11, <1>12 DEF ForwardStep

\* The steps outside a forward run that leave the sides to it.
LEMMA LedgerOther ==
  ASSUME FreshStart, Typed, LedgerInv, ~foreign, ~foreign', Next, ~ForwardStep
  PROVE  LedgerInv' /\ [Ledger!Next]_(Ledger!vars)
<1>1. /\ run \in Runs /\ [Next]_vars
      /\ run.pc \in Calm \cup {"lay", "cursor"}
      /\ foreign' = foreign
  BY TypedNext DEF Typed, LedgerInv
<1>2. ~SyncToUnclean /\ ~BootstrapBranch /\ ~RebaseBranches /\ ~\E side \in Sides : Amend(side)
  BY DEF SyncToUnclean, BootstrapBranch, RebaseBranches, Amend
<1>3. ~ReverseStep
  <2>1. ~CreateHistory /\ ~ReadSides /\ ~RewriteDiverged /\ ~ApplyAgain /\ ~Rewritten
    BY <1>1 DEF CreateHistory, ReadSides, RewriteDiverged, ApplyAgain, Rewritten, Working,
                Worked, At, Calm
  <2>2. ~StartRebuild /\ ~BuildItem /\ ~RebuildUnclean /\ ~MoveReverseCursor
    BY <1>1 DEF StartRebuild, BuildItem, RebuildUnclean, MoveReverseCursor, Working, Worked, At,
                Calm
  <2> QED BY <2>1, <2>2 DEF ReverseStep
<1>4. ~RebaseStep
  BY <1>1, <1>2 DEF RebaseStep, Reapply, EndRebase, Working, Worked, At, Calm
<1>5. CASE SyncToCleanHistory
  <2>1. /\ run.pc = "idle" /\ db' = db /\ ref' = ref /\ logged' = ref /\ run'.pc = "clean"
    BY <1>5 DEF SyncToCleanHistory, Start, At, Idle
  <2>2. run'.pc \in Calm /\ run.pc # "cursor"
    BY <2>1 DEF Calm
  <2> QED BY <1>1, <2>1, <2>2, LedgerQuiet
<1>6. CASE Crash
  <2>1. /\ db' = db /\ ref' = ref /\ logged' = logged /\ ~run.fake /\ run' = Idle
    BY <1>6 DEF Crash, Finish
  <2>2. run'.pc \in Calm
    BY <2>1 DEF Idle, Calm
  <2> QED BY <1>1, <2>1, <2>2, LedgerQuiet
<1>7. CASE Undo
  BY <1>7, LedgerFallsBack
<1>8. CASE Push
  <2>1. /\ db' = db /\ ref' = ref /\ logged' = logged /\ run' = run /\ run.pc = "idle"
    BY <1>8 DEF Push, At
  <2>2. run'.pc \in Calm /\ run.pc # "cursor"
    BY <2>1 DEF Calm
  <2> QED BY <1>1, <2>1, <2>2, LedgerQuiet
<1>9. ASSUME NEW second, NEW tree, NEW date,
             Extend("unclean", Commit(db, ref["unclean"], second, tree, NoTrailers, date))
      PROVE  LedgerInv' /\ [Ledger!Next]_(Ledger!vars)
  <2>1. /\ run.pc = "idle" /\ run' = run /\ logged' = <<>>
        /\ ref' = [ref EXCEPT !["unclean"] = Len(db) + 1]
    BY <1>9 DEF Extend, At
  <2>2. db' = Append(db, Commit(db, ref["unclean"], second, tree, NoTrailers, date))
    BY <1>9 DEF Extend
  <2> QED BY <1>1, <2>1, <2>2, LedgerGrows
<1>10. CASE \E r \in {"unclean", "clean", "history"} : AuthorCommit(r)
  <2>1. PICK r \in {"unclean", "clean", "history"} : AuthorCommit(r)
    BY <1>10
  <2>2. r = "unclean"
    BY <2>1 DEF AuthorCommit
  <2>3. \E tree, date : Extend(r, Commit(db, ref[r], 0, tree, NoTrailers, date))
    BY <2>1 DEF AuthorCommit
  <2> QED BY <1>9, <2>2, <2>3
<1>11. CASE MergeIntoUnclean
  <2>1. \E theirs, tree, date :
           Extend("unclean", Commit(db, ref["unclean"], theirs, tree, NoTrailers, date))
    BY <1>11 DEF MergeIntoUnclean
  <2> QED BY <1>9, <2>1
<1> QED BY <1>2, <1>3, <1>4, <1>5, <1>6, <1>7, <1>8, <1>10, <1>11 DEF Next, AuthorStep

\* Once somebody else has written to a side, that stays so.
LEMMA ForeignStays ==
  ASSUME Next, foreign
  PROVE  foreign'
<1>1. CASE ForwardStep
  BY <1>1 DEF ForwardStep, EnsureClean, EnsureHistory, MarkForkPoint, NothingToReplay, StartPass,
     LaySource, StopAtMerge, EndPass, MoveForwardCursor, AnswerFake, AnswerAbort, AnswerAttempt,
     MergeByHand, AnswerManual, MergeResolved
<1>2. CASE ReverseStep
  BY <1>2 DEF ReverseStep, CreateHistory, ReadSides, RewriteDiverged, ApplyAgain, Rewritten,
     StartRebuild, BuildItem, RebuildUnclean, MoveReverseCursor
<1>3. CASE RebaseStep
  BY <1>3 DEF RebaseStep, RebaseBranches, Reapply, EndRebase
<1>4. CASE SyncToCleanHistory \/ SyncToUnclean \/ BootstrapBranch \/ Crash \/ Undo
  BY <1>4 DEF SyncToCleanHistory, SyncToUnclean, BootstrapBranch, Crash, Undo
<1>5. CASE AuthorStep
  BY <1>5 DEF AuthorStep, AuthorCommit, MergeIntoUnclean, Push, Amend
<1> QED BY <1>1, <1>2, <1>3, <1>4, <1>5 DEF Next

LEMMA LedgerNext ==
  ASSUME FreshStart, Typed, LedgerInv, [Next]_vars
  PROVE  LedgerInv' /\ [Ledger!Next]_(Ledger!vars)
<1>1. CASE foreign'
  BY <1>1, LedgerDetach DEF LedgerInv
<1>2. CASE ~foreign' /\ UNCHANGED vars
  <2>1. LedgerInv'
    BY <1>2 DEF vars, LedgerInv, Line, LayOk, GotTo, CursorOk, Begun, Tip
  <2>2. Work' = Work /\ View' = View /\ Acked' = Acked /\ foreign' = foreign
    BY <1>2 DEF vars, Work, View, Acked, PartOf, Line
  <2> QED BY <2>1, <2>2, LedgerVars
<1>3. CASE ~foreign' /\ Next
  <2>1. ~foreign
    BY <1>3, ForeignStays
  <2> QED BY <1>3, <2>1, LedgerForward, LedgerOther
<1> QED BY <1>1, <1>2, <1>3

LEMMA LedgerInit ==
  ASSUME FreshStart, Init
  PROVE  LedgerInv /\ Ledger!Init
<1>1. PICK s \in Scenarios :
         /\ db = Store
         /\ ref = [r \in RefNames |-> IF r = "unclean" THEN s.unclean
                                     ELSE IF r = "clean" THEN s.clean ELSE 0]
         /\ run = Idle /\ logged = <<>>
         /\ foreign = (s.unclean # HistoryMain \/ s.clean # 0)
  BY DEF Init
<1>2. Typed
  BY TypedInit
<1>3. SUFFICES ASSUME ~foreign PROVE LedgerInv /\ Ledger!Init
  BY DEF LedgerInv, Ledger!Init
<1>4. /\ ref["unclean"] = HistoryMain
      /\ \A side \in Sides : ref[side] = 0 /\ ref[Fwd(side)] = 0
  BY <1>1, <1>3 DEF RefNames, Sides, Fwd
<1>5. HistoryMain # 0 /\ HistoryMain \in 1..Len(Store) /\ WellFormed(Store)
  BY StoreTyped
<1>6. Line = Store[HistoryMain].line /\ HistoryMain \in Line
  BY <1>1, <1>4, <1>5, LineFacts DEF Line, LineOf
<1>7. /\ Line \subseteq 1..Len(db) /\ Len(db) \in Nat
      /\ \A side \in Sides : Bound(side) \in Line /\ db[Bound(side)].note.source = 0
  BY <1>2, <1>4, <1>5, <1>6, Grounds, RefsAre
<1>8. ASSUME NEW side \in Sides
      PROVE  /\ Shown(ref, side) = Bound(side) /\ StartOf(db, ref, side) = Bound(side)
             /\ Follows(db, Line, ref, side, FALSE)
  <2>1. Shown(ref, side) = Bound(side)
    BY <1>4 DEF Shown
  <2>2. StartOf(db, ref, side) = Bound(side)
    BY <1>4, <1>7, <2>1 DEF StartOf
  <2>3. Bound(side) <= Bound(side) /\ Flat(db, Line, Bound(side), Bound(side))
    <3> DEFINE b == Bound(side)
    <3>1. b \in Nat /\ Line \subseteq Nat
      BY <1>7
    <3> HIDE DEF b
    <3>2. b <= b
      BY <3>1
    <3>3. \A k \in Line : ~(b < k /\ k <= b)
      BY <3>1
    <3>4. Flat(db, Line, b, b)
      BY <3>3 DEF Flat
    <3> QED BY <3>2, <3>4 DEF b
  <2>4. Same(db, side, Bound(side), Bound(side))
    BY DEF Same
  <2> QED BY <1>4, <1>7, <2>1, <2>2, <2>3, <2>4 DEF Follows
<1>9. run.pc = "idle"
  BY <1>1 DEF Idle
<1>10. LedgerInv
  BY <1>1, <1>4, <1>5, <1>6, <1>8, <1>9 DEF LedgerInv, FreshStart, Calm
<1>11. ASSUME NEW side \in Sides
       PROVE  Acked[side] = 0 /\ \E n \in DOMAIN Work : View[side] = Work[n][side]
  <2>1. Acked[side] = ref[Fwd(side)] /\ View[side] = PartOf(side, Shown(ref, side))
        /\ DOMAIN Work = Line /\ \A n \in Line : Work[n][side] = PartOf(side, n)
    BY <1>2, <1>3, <1>10, SideAt
  <2> QED BY <1>4, <1>7, <1>8, <2>1
<1>12. Ledger!Init
  BY <1>11 DEF Ledger!Init, Work, View, Acked
<1> QED BY <1>10, <1>12

\* Whatever is committed to unclean, and however forward runs stop, are answered, killed
\* and undone: as long as nobody else writes to the sides, each shows its part of one
\* commit of unclean at or after its cursor.
THEOREM ImplementsLedger ==
  ASSUME FreshStart
  PROVE  Spec => LedgerSpec
<1>1. Init => Typed /\ LedgerInv /\ Ledger!Init
  BY TypedInit, LedgerInit
<1>2. Typed /\ LedgerInv /\ [Next]_vars => Typed' /\ LedgerInv' /\ [Ledger!Next]_(Ledger!vars)
  BY TypedNext, LedgerNext
<1> QED BY <1>1, <1>2, PTL DEF Spec, LedgerSpec, Ledger!Spec
=============================================================================
