---------------------------- MODULE TarpitProofs ----------------------------
(***************************************************************************)
(* Safety of the tarpit for any number of addresses, accounts, threshold   *)
(* rules, bans and connections.                                            *)
(***************************************************************************)
EXTENDS Tarpit, NaturalBounds, SequenceTheorems, TLAPS

-----------------------------------------------------------------------------
(* The inductive invariants. *)

\* The clock stays within its bound, because each tick uses up one of those left.
Timed == now + left.ticks <= MaxTime

\* What a tally says of the failures it counts.  The last n failures are those of
\* the window that began at since; those before came no later than that, and those
\* more than fail_count - 1 further back belong to a window before the last one.
Fits(t, times, r) ==
  LET older == FailCount[r] - 1
  IN  /\ \A i \in 1 .. Len(times) : times[i] <= now
      /\ t = Nobody => times = <<>>
      /\ t # Nobody =>
           /\ t.n <= older /\ t.n <= Len(times) /\ t.since <= now
           /\ t.n = 0 => times = <<>>
           /\ \A i \in 1 .. Len(times) :
                /\ i + t.n > Len(times) => t.since <= times[i]
                /\ i + t.n <= Len(times) => times[i] <= t.since
                /\ i + t.n + older <= Len(times) => times[i] + Window[r] < t.since
Counted(k, r) ==
  /\ Len(failures[k][r]) <= 2 * FailCount[r] - 1
  /\ Fits(entry[k].tally[r], failures[k][r], r)
CountInv == \A k \in Keys, r \in Thresholds : Counted(k, r)

\* What the accept loop knows of an address is still so when it decides; the second
\* part is KnownGoodNotDripped of one connection.
Good(c) ==
  /\ peer[c].at \in Accepting /\ peer[c].good => AddressOf[c] \in logged
  /\ peer[c].at = "drip" /\ peer[c].good => peer[c].missed

\* Between recording and deciding, one of the two keys is banned for long enough,
\* unless the ban is that of a rule of the administrators; and what another
\* failure may replace it by is no shorter.
Deciding(c) ==
  peer[c].at = "decide" =>
    /\ \A r \in Thresholds : peer[c].ends <= now + Window[r]
    /\ \E k \in KeysOf(c) : \/ peer[c].ends <= entry[k].until
                            \/ \E b \in Bans : BanScope[b] = k /\ BanEnds[b] = entry[k].until

-----------------------------------------------------------------------------
(* What record_failure does to an entry. *)

Rules == [Thresholds -> {"off", "trap", "ban"}]

LEMMA Constants ==
  /\ MaxTime \in Nat /\ Forever \in Nat /\ MaxTime < Forever
  /\ \A r \in Thresholds : /\ FailCount[r] \in Nat /\ FailCount[r] >= 1
                           /\ Window[r] \in Nat /\ Window[r] >= 1 /\ Window[r] <= Forever
  /\ \A b \in Bans : BanScope[b] \in Keys /\ BanEnds[b] \in Nat /\ BanAction[b] \in {"trap", "ban"}
  /\ \A c \in Peers : AddressOf[c] \in Addresses
  /\ Time \subseteq Nat /\ \A x \in Time : x <= MaxTime
  /\ Nobody \notin Keys /\ Nobody \notin Sources /\ Nobody \notin Tally
  /\ Addresses \cap Accounts = {} /\ Budgets \subseteq Budget
<1>1. MaxTime \in Nat /\ Forever \in Nat /\ MaxTime < Forever
  BY TarpitAssumption
<1>2. ASSUME NEW r \in Thresholds
      PROVE  /\ FailCount[r] \in Nat /\ FailCount[r] >= 1
             /\ Window[r] \in Nat /\ Window[r] >= 1 /\ Window[r] <= Forever
  <2>1. FailCount[r] \in Nat \ {0} /\ Window[r] \in Nat \ {0} /\ MaxTime + Window[r] < Forever
    BY TarpitAssumption
  <2> QED BY <1>1, <2>1
<1>3. ASSUME NEW b \in Bans
      PROVE  BanScope[b] \in Keys /\ BanEnds[b] \in Nat /\ BanAction[b] \in {"trap", "ban"}
  BY <1>1, TarpitAssumption DEF Time
<1>4. Time \subseteq Nat /\ \A x \in Time : x <= MaxTime
  BY <1>1 DEF Time
<1>5. \A c \in Peers : AddressOf[c] \in Addresses
  BY TarpitAssumption
<1>6. /\ Nobody \notin Keys /\ Nobody \notin Sources /\ Nobody \notin Tally
      /\ Addresses \cap Accounts = {} /\ Budgets \subseteq Budget
  BY TarpitAssumption
<1> QED BY <1>1, <1>2, <1>3, <1>4, <1>5, <1>6

\* Of some rules that trip, one has the longest window.
LEMMA LongestWindow ==
  ASSUME NEW trips \in SUBSET Thresholds, trips # {}
  PROVE  LET longest == CHOOSE w \in {Window[r] : r \in trips} : \A r \in trips : Window[r] <= w
         IN  \E r \in trips : longest = Window[r]
<1> DEFINE windows == {Window[r] : r \in trips}
<1>1. windows \in SUBSET Nat /\ windows # {} /\ \A w \in windows : w <= Forever
  BY Constants
<1>2. \E w \in windows : \A v \in windows : v <= w
  <2> HIDE DEF windows
  <2> QED BY <1>1, Constants, Greatest
<1>3. \E w \in windows : \A r \in trips : Window[r] <= w
  BY <1>2
<1> QED BY <1>3

\* The tally of a rule after a failure.
Counting(e, rules, r) ==
  CASE r \notin Live(rules) -> e.tally[r]
    [] r \in Tripped(e, rules) -> [n |-> 0, since |-> now]
    [] OTHER -> [n |-> Count(e, r), since |-> IF Stale(e, r) THEN now ELSE e.tally[r].since]

\* A counted failure changes the tallies; the ban and its source change with the
\* trigger count and only then, and come from a rule that trips.
LEMMA Recorded ==
  ASSUME NEW e \in Entry, NEW rules \in Rules, now \in Time, NEW f \in Recordings(e, rules)
  PROVE  /\ f \in Entry
         /\ f.tally = [r \in Thresholds |-> Counting(e, rules, r)]
         /\ \/ f.triggers = e.triggers /\ f.until = e.until /\ f.source = e.source
            \/ /\ f.triggers = e.triggers + 1
               /\ f.source \in Tripped(e, rules)
               /\ \E r \in Thresholds : f.until = now + Window[r]
<1> DEFINE trips == Tripped(e, rules)
           tally == [r \in Thresholds |-> Counting(e, rules, r)]
           counted == [e EXCEPT !.known = TRUE, !.tally = tally]
           longest == CHOOSE w \in {Window[r] : r \in trips} : \A r \in trips : Window[r] <= w
<1>1. trips \in SUBSET Thresholds
  BY DEF Tripped, Live
<1>2. tally \in [Thresholds -> Tally \cup {Nobody}]
  <2> SUFFICES ASSUME NEW r \in Thresholds PROVE Counting(e, rules, r) \in Tally \cup {Nobody}
    OBVIOUS
  <2>1. e.tally[r] \in Tally \cup {Nobody}
    BY DEF Entry
  <2>2. Count(e, r) \in Nat
    BY <2>1 DEF Count, Stale, Tally
  <2>3. (IF Stale(e, r) THEN now ELSE e.tally[r].since) \in Time
    BY <2>1 DEF Stale, Tally
  <2> HIDE DEF trips
  <2> QED BY <2>1, <2>2, <2>3 DEF Counting, Tally
<1>3. counted \in Entry /\ counted.tally = tally /\ counted.triggers = e.triggers
      /\ counted.until = e.until /\ counted.source = e.source
  <2> HIDE DEF tally
  <2> QED BY <1>2 DEF Entry
<1>4. Recordings(e, rules) =
        IF trips = {} THEN {counted}
        ELSE {[counted EXCEPT !.triggers = @ + 1, !.until = now + longest, !.source = r]
                : r \in Winners(trips, rules)}
  BY DEF Recordings, Counting
<1> HIDE DEF counted, tally
<1>5. CASE trips = {}
  BY <1>3, <1>4, <1>5 DEF tally
<1>6. CASE trips # {}
  <2>1. PICK s \in trips : longest = Window[s]
    <3> HIDE DEF trips
    <3> QED BY <1>1, <1>6, LongestWindow
  <2> HIDE DEF longest
  <2>2. PICK r \in Winners(trips, rules) :
          f = [counted EXCEPT !.triggers = @ + 1, !.until = now + longest, !.source = r]
    BY <1>4, <1>6
  <2>3. r \in trips /\ r \in Sources
    BY <1>1, <2>2 DEF Winners, Sources
  <2>4. s \in Thresholds /\ now + longest \in Nat
    BY <1>1, <2>1, Constants
  <2> HIDE DEF trips
  <2>5. counted \in Entry /\ counted.triggers + 1 \in Nat /\ r \in Sources \cup {Nobody}
    BY <1>3, <2>3 DEF Entry
  <2>6. f.tally = counted.tally /\ f.triggers = counted.triggers + 1
        /\ f.until = now + longest /\ f.source = r
    BY <2>2, <2>5 DEF Entry
  <2>7. f \in Entry
    BY <2>2, <2>4, <2>5 DEF Entry
  <2> QED BY <1>3, <2>1, <2>3, <2>4, <2>6, <2>7 DEF tally, trips
<1> QED BY <1>5, <1>6

\* Of a pair of bans, one lasts at least as long as is sure, and so does any ban
\* that a failure at this moment may replace it by.
LEMMA SurelyBanned ==
  ASSUME now \in Time, NEW untils \in SUBSET Nat, untils # {},
         NEW bound \in Nat, \A u \in untils : u <= bound
  PROVE  /\ Surely(untils) \in Nat
         /\ \E u \in untils : Surely(untils) <= u
         /\ \A r \in Thresholds : Surely(untils) <= now + Window[r]
<1> DEFINE latest == CHOOSE u \in untils : \A v \in untils : v <= u
           ends == {latest} \cup {now + Window[r] : r \in Thresholds}
<1>1. latest \in untils
  BY Greatest
<1>2. ends \in SUBSET Nat /\ ends # {}
  <2> HIDE DEF latest
  <2> QED BY <1>1, Constants
<1>3. PICK m \in ends : \A v \in ends : m <= v
  <2> HIDE DEF ends
  <2> QED BY <1>2, Least
<1>4. Surely(untils) = CHOOSE u \in ends : \A v \in ends : u <= v
  BY DEF Surely
<1>5. Surely(untils) \in ends /\ \A v \in ends : Surely(untils) <= v
  <2> HIDE DEF ends
  <2> QED BY <1>3, <1>4
<1>6. latest \in ends /\ \A r \in Thresholds : now + Window[r] \in ends
  OBVIOUS
<1> HIDE DEF latest, ends
<1> QED BY <1>1, <1>2, <1>5, <1>6

-----------------------------------------------------------------------------
(* Types. *)

LEMMA NoConfigTyped == NoConfig \in Config
BY DEF NoConfig, Config

LEMMA NewPeerTyped == NewPeer \in Peer
BY NoConfigTyped DEF NewPeer, Peer, Accepting, Failing, Outcomes

LEMMA NewEntryTyped == NewEntry \in Entry
BY DEF NewEntry, Entry

LEMMA HandledTyped ==
  ASSUME NEW outcome \in Outcomes
  PROVE  Handled(outcome) \in Peer /\ Closed \in Peer
BY NewPeerTyped DEF Handled, Closed, Peer

LEMMA AnsweredTyped ==
  ASSUME NEW p, p.outcome \in Outcomes
  PROVE  Answered(p) \in Peer
BY NewPeerTyped DEF Answered, Peer

LEMMA ResolveTyped ==
  ASSUME NEW source, NEW triggers
  PROVE  Resolve(source, triggers) \in {"ban", "drip", "slow", "shell"}
BY DEF Resolve, RoundRobin

\* A step of one connection's task leaves the others' places alone.
LEMMA BecomesTyped ==
  ASSUME NEW c \in Peers, NEW p \in Peer, peer \in [Peers -> Peer], Becomes(c, p)
  PROVE  /\ peer' \in [Peers -> Peer]
         /\ peer'[c] = p
         /\ \A d \in Peers : d # c => peer'[d] = peer[d]
BY DEF Becomes

LEMMA KeysOfTyped ==
  ASSUME NEW c \in Peers, peer \in [Peers -> Peer]
  PROVE  /\ KeysOf(c) \subseteq Keys /\ AddressOf[c] \in KeysOf(c)
         /\ peer[c].account \in Accounts \cup {Nobody}
         /\ \E a \in Keys : KeysOf(c) = {AddressOf[c], a}
<1>1. peer[c].account \in Accounts \cup {Nobody}
  BY DEF Peer
<1>2. AddressOf[c] \in Keys
  BY Constants DEF Keys
<1>3. CASE peer[c].account = Nobody
  BY <1>1, <1>2, <1>3 DEF KeysOf
<1>4. CASE peer[c].account # Nobody
  <2>1. peer[c].account \in Keys /\ KeysOf(c) = {AddressOf[c], peer[c].account}
    BY <1>1, <1>4 DEF KeysOf, Keys
  <2> QED BY <1>1, <1>2, <2>1
<1> QED BY <1>1, <1>3, <1>4

LEMMA InitTyped == Init => TypeOK /\ Timed
<1> SUFFICES ASSUME Init PROVE TypeOK /\ Timed
  OBVIOUS
<1>1. left \in Budget /\ left.ticks \in Time
  BY Constants DEF Init, Budget
<1>2. now \in Time /\ Timed
  BY <1>1, Constants DEF Init, Time, Timed
<1>3. failures \in [Keys -> [Thresholds -> Seq(Time)]]
  BY DEF Init, NoFailures
<1>4. refresh \in [at : {"switch", "rules", "bans", "publish", "merge"}, first : BOOLEAN,
                   read : Config]
  BY NoConfigTyped DEF Init, Starting
<1>5. entry \in [Keys -> Entry] /\ peer \in [Peers -> Peer] /\ shared \in Config
  BY NewEntryTyped, NewPeerTyped, NoConfigTyped DEF Init
<1> QED BY <1>1, <1>2, <1>3, <1>4, <1>5 DEF Init, TypeOK

LEMMA UsesTyped ==
  ASSUME TypeOK, Timed, NEW what \in {"ticks", "failures", "edits", "restarts", "faults"},
         Uses(what)
  PROVE  /\ left' \in Budget
         /\ left'.ticks = IF what = "ticks" THEN left.ticks - 1 ELSE left.ticks
         /\ left.ticks \in Time /\ (what = "ticks" => left.ticks >= 1)
<1>1. left \in Budget
  BY DEF TypeOK
<1>2. left.ticks \in Time /\ left.ticks \in Nat
  BY <1>1, Constants DEF Budget
<1>3. left[what] \in Nat /\ left[what] >= 1
  <2>1. /\ left["ticks"] \in Nat /\ left["failures"] \in Nat /\ left["edits"] \in Nat
        /\ left["restarts"] \in Nat /\ left["faults"] \in Nat
    BY <1>1, <1>2 DEF Budget
  <2>2. left[what] \in Nat
    BY <2>1
  <2>3. left[what] > 0
    BY DEF Uses
  <2> QED BY <2>2, <2>3
<1>4. what = "ticks" => left.ticks - 1 \in Time
  BY <1>2, <1>3, Constants DEF Time
<1>5. left[what] - 1 \in Nat
  BY <1>3
<1> QED BY <1>1, <1>2, <1>3, <1>4, <1>5 DEF Uses, Budget

LEMMA MayFailTyped ==
  ASSUME TypeOK, Timed, NEW fails, MayFail(fails)
  PROVE  left' \in Budget /\ left'.ticks = left.ticks
<1>1. left \in Budget
  BY DEF TypeOK
<1> QED BY <1>1, UsesTyped DEF MayFail

\* A query of the refresher puts a value of the field's type in its place.
LEMMA ReadsTyped ==
  ASSUME TypeOK, Timed, NEW stage, NEW next \in {"rules", "bans", "publish"},
         NEW field \in {"enabled", "rules", "bans"}, NEW value,
         field = "enabled" => value \in BOOLEAN,
         field = "rules" => value \in Rules,
         field = "bans" => value \in SUBSET Bans,
         Reads(stage, next, field, value)
  PROVE  TypeOK' /\ Timed'
<1>1. PICK fails \in BOOLEAN :
        /\ MayFail(fails)
        /\ refresh' = [refresh EXCEPT !.at = next,
                         !.read[field] = IF fails THEN NoConfig[field] ELSE value]
  BY DEF Reads
<1>2. left' \in Budget /\ left'.ticks = left.ticks
  BY <1>1, MayFailTyped
<1>3. refresh \in [at : {"switch", "rules", "bans", "publish", "merge"}, first : BOOLEAN,
                   read : Config]
  BY DEF TypeOK
<1>4. [refresh.read EXCEPT ![field] = IF fails THEN NoConfig[field] ELSE value] \in Config
  BY <1>3, NoConfigTyped DEF Config, Rules
<1>5. refresh' = [refresh EXCEPT !.at = next, !.read =
                    [refresh.read EXCEPT ![field] = IF fails THEN NoConfig[field] ELSE value]]
  BY <1>1, <1>3
<1>6. refresh' \in [at : {"switch", "rules", "bans", "publish", "merge"}, first : BOOLEAN,
                    read : Config]
  BY <1>3, <1>4, <1>5
<1> QED BY <1>2, <1>6 DEF Reads, tables, TypeOK, Timed

\* Everything but the failures a peer makes: the clock, the tables, the refresher.
LEMMA OutsideTyped ==
  ASSUME TypeOK, Timed, Tick \/ AdminStep \/ RefreshStep \/ Restart
  PROVE  TypeOK' /\ Timed'
<1> USE DEF TypeOK
<1>1. CASE Tick
  <2>1. now' \in Time /\ Timed'
    BY <1>1, UsesTyped, Constants DEF Tick, Timed, Time
  <2> QED BY <1>1, <2>1, UsesTyped DEF Tick, tables
<1>2. CASE AdminStep
  <2>1. RuleEdit /\ thr' \in [Thresholds -> {"off", "trap", "ban"}]
        /\ bans' \in [Bans -> {"none", "there", "deleted"}] /\ switch' \in BOOLEAN
    BY <1>2 DEF AdminStep, SetThreshold, SetBan, SetSwitch
  <2>2. left' \in Budget /\ left'.ticks = left.ticks
    BY <2>1, UsesTyped DEF RuleEdit
  <2> QED BY <2>1, <2>2 DEF RuleEdit, Timed
<1>3. CASE ReadSwitch \/ ReadRules \/ ReadBans
  <2>1. switch \in BOOLEAN /\ thr \in Rules /\ {b \in Bans : InForce(b)} \in SUBSET Bans
    BY DEF Rules
  <2>2. CASE ReadSwitch
    <3>1. Reads("switch", "rules", "enabled", switch)
      BY <2>2 DEF ReadSwitch
    <3> QED BY <2>1, <3>1, ReadsTyped
  <2>3. CASE ReadRules
    <3>1. Reads("rules", "bans", "rules", thr)
      BY <2>3 DEF ReadRules
    <3> QED BY <2>1, <3>1, ReadsTyped
  <2>4. CASE ReadBans
    <3>1. Reads("bans", "publish", "bans", {b \in Bans : InForce(b)})
      BY <2>4 DEF ReadBans
    <3> QED BY <2>1, <3>1, ReadsTyped
  <2> QED BY <1>3, <2>2, <2>3, <2>4
<1>4. CASE Publish
  BY <1>4 DEF Publish, tables, Timed
<1>5. CASE Merge
  <2>1. PICK last \in [Keys -> Bans \cup {Nobody}] :
          entry' = [k \in Keys |->
            IF last[k] = Nobody THEN entry[k]
            ELSE [entry[k] EXCEPT !.known = TRUE, !.until = BanEnds[last[k]],
                                  !.source = last[k]]]
    BY <1>5 DEF Merge
  <2>2. entry' \in [Keys -> Entry]
    <3> SUFFICES ASSUME NEW k \in Keys, last[k] # Nobody
                 PROVE  [entry[k] EXCEPT !.known = TRUE, !.until = BanEnds[last[k]],
                                         !.source = last[k]] \in Entry
      BY <2>1
    <3>1. last[k] \in Sources \cup {Nobody} /\ BanEnds[last[k]] \in Nat
      BY Constants DEF Sources
    <3>2. entry[k] \in Entry
      OBVIOUS
    <3> HIDE DEF TypeOK
    <3> QED BY <3>1, <3>2 DEF Entry
  <2>3. refresh' \in [at : {"switch", "rules", "bans", "publish", "merge"}, first : BOOLEAN,
                      read : Config]
    BY <1>5, NoConfigTyped DEF Merge, Starting
  <2> QED BY <1>5, <2>2, <2>3 DEF Merge, tables, Timed
<1>6. CASE Restart
  <2>1. peer' \in [Peers -> Peer]
    <3>1. Closed \in Peer
      BY HandledTyped DEF Outcomes
    <3> QED BY <1>6, <3>1, NewPeerTyped DEF Restart
  <2>2. failures' \in [Keys -> [Thresholds -> Seq(Time)]]
    BY <1>6 DEF Restart, NoFailures
  <2>3. shared' \in Config /\ entry' \in [Keys -> Entry]
        /\ refresh' \in [at : {"switch", "rules", "bans", "publish", "merge"},
                         first : BOOLEAN, read : Config]
    BY <1>6, NoConfigTyped, NewEntryTyped DEF Restart, Starting
  <2>4. left' \in Budget /\ left'.ticks = left.ticks
    BY <1>6, UsesTyped DEF Restart
  <2> QED BY <1>6, <2>1, <2>2, <2>3, <2>4 DEF Restart, tables, Timed
<1> QED BY <1>1, <1>2, <1>3, <1>4, <1>5, <1>6 DEF RefreshStep

\* What a failure to remember, and what a failed attempt that is recorded, leave.
LEMMA RememberTyped ==
  ASSUME now \in Time, NEW past \in Seq(Time), NEW r, NEW e, NEW rules
  PROVE  Remember(past, r, e, rules) \in Seq(Time)
<1>1. Append(past, now) \in Seq(Time) /\ Append(past, now) # <<>>
  BY AppendProperties
<1>2. Tail(Append(past, now)) \in Seq(Time)
  BY <1>1, HeadTailProperties
<1>3. <<>> \in Seq(Time)
  OBVIOUS
<1> QED BY <1>1, <1>2, <1>3 DEF Remember

\* What record_auth_failure does to the entries, and what it lets the task see.
LEMMA Recordable ==
  ASSUME TypeOK, NEW c \in Peers, Record(c)
  PROVE  /\ \A k \in Keys : \/ entry'[k] = entry[k] /\ failures'[k] = failures[k]
                            \/ /\ k \in KeysOf(c)
                               /\ entry'[k] \in Recordings(entry[k], peer[c].config.rules)
                               /\ failures'[k] = [r \in Thresholds |->
                                    Remember(failures[k][r], r, entry[k], peer[c].config.rules)]
         /\ peer[c].config.rules \in Rules
         /\ entry' \in [Keys -> Entry]
         /\ failures' \in [Keys -> [Thresholds -> Seq(Time)]]
<1> DEFINE rules == peer[c].config.rules
<1>1. rules \in Rules /\ entry \in [Keys -> Entry] /\ now \in Time
      /\ failures \in [Keys -> [Thresholds -> Seq(Time)]]
  BY DEF TypeOK, Peer, Config, Rules
<1>2. \A k \in Keys : \/ entry'[k] = entry[k] /\ failures'[k] = failures[k]
                      \/ /\ k \in KeysOf(c)
                         /\ entry'[k] \in Recordings(entry[k], rules)
                         /\ failures'[k] = [r \in Thresholds |->
                              Remember(failures[k][r], r, entry[k], rules)]
  BY DEF Record
<1>3. DOMAIN entry' = Keys /\ entry' = [k \in Keys |-> entry'[k]]
  BY <1>1 DEF Record
<1>4. DOMAIN failures' = Keys /\ failures' = [k \in Keys |-> failures'[k]]
  BY <1>1 DEF Record
<1> HIDE DEF rules
<1>5. ASSUME NEW k \in Keys
      PROVE  entry'[k] \in Entry /\ failures'[k] \in [Thresholds -> Seq(Time)]
  <2>1. CASE entry'[k] = entry[k] /\ failures'[k] = failures[k]
    BY <1>1, <2>1
  <2>2. CASE /\ entry'[k] \in Recordings(entry[k], rules)
             /\ failures'[k] = [r \in Thresholds |->
                                  Remember(failures[k][r], r, entry[k], rules)]
    <3>1. entry[k] \in Entry /\ \A r \in Thresholds : failures[k][r] \in Seq(Time)
      BY <1>1
    <3>2. entry'[k] \in Entry
      BY <1>1, <2>2, <3>1, Recorded
    <3>3. \A r \in Thresholds : Remember(failures[k][r], r, entry[k], rules) \in Seq(Time)
      BY <1>1, <3>1, RememberTyped
    <3> QED BY <2>2, <3>2, <3>3
  <2> QED BY <1>2, <2>1, <2>2
<1>6. entry' \in [Keys -> Entry] /\ failures' \in [Keys -> [Thresholds -> Seq(Time)]]
  BY <1>3, <1>4, <1>5
<1> QED BY <1>1, <1>2, <1>6 DEF rules

\* The ban a recorded failure leaves, as its task remembers it.
LEMMA BansLeft ==
  ASSUME now \in Time, NEW c \in Peers, peer \in [Peers -> Peer], entry' \in [Keys -> Entry]
  PROVE  LET ends == Surely({entry'[k].until : k \in KeysOf(c)})
         IN  /\ ends \in Nat
             /\ \E k \in KeysOf(c) : ends <= entry'[k].until
             /\ \A r \in Thresholds : ends <= now + Window[r]
<1> DEFINE untils == {entry'[k].until : k \in KeysOf(c)}
<1>1. PICK a \in Keys : KeysOf(c) = {AddressOf[c], a} /\ AddressOf[c] \in Keys
  BY KeysOfTyped
<1>2. entry'[AddressOf[c]].until \in Nat /\ entry'[a].until \in Nat
  BY <1>1 DEF Entry
<1>3. untils = {entry'[AddressOf[c]].until, entry'[a].until}
  BY <1>1
<1> DEFINE bound == entry'[AddressOf[c]].until + entry'[a].until
<1>4. /\ untils \in SUBSET Nat /\ untils # {}
      /\ bound \in Nat /\ \A u \in untils : u <= bound
  <2> HIDE DEF untils
  <2> QED BY <1>2, <1>3
<1>5. /\ Surely(untils) \in Nat
      /\ \E u \in untils : Surely(untils) <= u
      /\ \A r \in Thresholds : Surely(untils) <= now + Window[r]
  <2> HIDE DEF untils, bound
  <2> QED BY <1>4, SurelyBanned
<1> QED BY <1>5

LEMMA PeerTyped ==
  ASSUME TypeOK, Timed, NEW c \in Peers, PeerStep(c)
  PROVE  TypeOK' /\ Timed'
<1> DEFINE Same == UNCHANGED <<now, tables, left, shared, refresh, entry, logged, failures>>
<1>1. peer[c] \in Peer /\ peer \in [Peers -> Peer] /\ entry \in [Keys -> Entry]
      /\ AddressOf[c] \in Keys /\ AddressOf[c] \in Addresses
  BY Constants DEF TypeOK, Keys
<1>2. ASSUME NEW p \in Peer, Becomes(c, p), Same
      PROVE  TypeOK' /\ Timed'
  BY <1>1, <1>2, BecomesTyped DEF TypeOK, Timed, tables
<1>3. CASE Accept(c)
  <2> DEFINE e == entry[AddressOf[c]]
             good == AddressOf[c] \in logged
             p == [peer[c] EXCEPT !.good = good]
             q == [p EXCEPT !.at = "banned",
                            !.seen = [triggers |-> e.triggers, drip |-> e.drip,
                                      source |-> e.source]]
  <2>1. Becomes(c, IF Banned(AddressOf[c]) THEN q ELSE Handled("unset")) /\ Same
    BY <1>3 DEF Accept
  <2>2. e \in Entry
    BY <1>1
  <2>3. [triggers |-> e.triggers, drip |-> e.drip, source |-> e.source]
          \in [triggers : Nat, drip : BOOLEAN, source : Sources \cup {Nobody}]
    BY <2>2 DEF Entry
  <2>6. good \in BOOLEAN
    OBVIOUS
  <2> HIDE DEF e, good
  <2>4. q \in Peer
    BY <1>1, <2>3, <2>6 DEF Peer, Accepting
  <2>5. Handled("unset") \in Peer
    BY HandledTyped DEF Outcomes
  <2> HIDE DEF q, Same
  <2> QED BY <1>2, <2>1, <2>4, <2>5
<1>4. CASE AcceptResolve(c)
  <2> DEFINE p == peer[c]
             outcome == Resolve(p.seen.source, p.seen.triggers)
             q == [p EXCEPT !.at = IF p.seen.drip THEN "history" ELSE "mark",
                            !.seen = NewPeer.seen]
  <2>1. Becomes(c, CASE outcome = "ban" -> Closed
                     [] outcome = "drip" -> q
                     [] OTHER -> Handled(outcome)) /\ Same
    BY <1>4 DEF AcceptResolve
  <2>2. outcome \in {"ban", "drip", "slow", "shell"}
    BY ResolveTyped
  <2>3. outcome \in Outcomes
    BY <2>2 DEF Outcomes
  <2> HIDE DEF outcome
  <2>4. q \in Peer
    BY <1>1, NewPeerTyped DEF Peer, Accepting
  <2>5. Handled(outcome) \in Peer /\ Closed \in Peer
    BY <2>3, HandledTyped
  <2> HIDE DEF q, Same
  <2> QED BY <1>2, <2>1, <2>2, <2>4, <2>5
<1>5. CASE AcceptHistory(c)
  <2>1. PICK fails \in BOOLEAN :
          /\ MayFail(fails)
          /\ Becomes(c, [peer[c] EXCEPT !.missed = fails,
                           !.at = IF ~fails /\ AddressOf[c] \in logged THEN "mark" ELSE "drip"])
    BY <1>5 DEF AcceptHistory
  <2>2. left' \in Budget /\ left'.ticks = left.ticks
    BY <2>1, MayFailTyped
  <2>3. [peer[c] EXCEPT !.missed = fails,
           !.at = IF ~fails /\ AddressOf[c] \in logged THEN "mark" ELSE "drip"] \in Peer
    BY <1>1 DEF Peer, Accepting
  <2>4. peer' \in [Peers -> Peer]
    BY <1>1, <2>1, <2>3, BecomesTyped
  <2> QED BY <1>5, <2>2, <2>4 DEF AcceptHistory, TypeOK, Timed, tables
<1>6. CASE AcceptMark(c)
  <2>1. Handled("slow") \in Peer
    BY HandledTyped DEF Outcomes
  <2>2. peer' \in [Peers -> Peer]
    BY <1>1, <1>6, <2>1, BecomesTyped DEF AcceptMark
  <2>3. entry' \in [Keys -> Entry]
    BY ZenonT(60), <1>1, <1>6 DEF AcceptMark, Entry
  <2> QED BY <1>6, <2>2, <2>3 DEF AcceptMark, TypeOK, Timed, tables
<1>7. ASSUME NEW account \in Accounts \cup {Nobody}, Fail(c, account)
      PROVE  TypeOK' /\ Timed'
  <2>1. [shared EXCEPT !.bans = {}] \in Config
    BY DEF TypeOK, Config
  <2>2. [peer[c] EXCEPT !.at = "record", !.account = account,
                        !.config = [shared EXCEPT !.bans = {}]] \in Peer
    BY <1>1, <2>1 DEF Peer, Failing
  <2>3. peer' \in [Peers -> Peer]
    BY <1>1, <1>7, <2>2, BecomesTyped DEF Fail
  <2>4. left' \in Budget /\ left'.ticks = left.ticks
    BY <1>7, UsesTyped DEF Fail
  <2> QED BY <1>7, <2>3, <2>4 DEF Fail, TypeOK, Timed, tables
<1>8. CASE Record(c)
  <2> DEFINE p == peer[c]
             ends == Surely({entry'[k].until : k \in KeysOf(c)})
             q == [p EXCEPT !.at = "decide", !.config = NoConfig, !.ends = ends]
  <2>1. entry' \in [Keys -> Entry] /\ failures' \in [Keys -> [Thresholds -> Seq(Time)]]
    BY <1>8, Recordable
  <2>2. ends \in Nat
    BY <1>1, <2>1, BansLeft DEF TypeOK
  <2>3. Becomes(c, IF p.outcome = "unset" THEN q ELSE Answered(p))
    BY <1>8 DEF Record
  <2> HIDE DEF ends
  <2>4. q \in Peer
    BY <1>1, <2>2, NoConfigTyped DEF Peer, Failing
  <2>5. Answered(p) \in Peer
    <3>1. p.outcome \in Outcomes
      BY <1>1 DEF Peer
    <3> QED BY <3>1, AnsweredTyped
  <2>6. peer' \in [Peers -> Peer]
    <3> HIDE DEF q
    <3> QED BY <1>1, <2>3, <2>4, <2>5, BecomesTyped
  <2> QED BY <1>8, <2>1, <2>6 DEF Record, TypeOK, Timed, tables
<1>9. CASE Decide(c)
  <2> DEFINE p == peer[c]
             barred == {k \in KeysOf(c) : Banned(k)}
             from == IF barred \cap Accounts = {} THEN AddressOf[c] ELSE p.account
             triggers == {entry[k].triggers : k \in barred}
             most == CHOOSE n \in triggers : \A m \in triggers : m <= n
             q == [p EXCEPT !.at = "resolve",
                            !.seen = [triggers |-> most, drip |-> FALSE,
                                      source |-> entry[from].source]]
             r == [p EXCEPT !.outcome = "none"]
  <2>1. Becomes(c, IF barred = {} THEN Answered(r) ELSE q) /\ Same
    BY <1>9 DEF Decide
  <2>2. Answered(r) \in Peer
    <3>1. r.outcome \in Outcomes
      BY <1>1 DEF Peer, Outcomes
    <3> HIDE DEF r
    <3> QED BY <3>1, AnsweredTyped
  <2>3. ASSUME barred # {} PROVE q \in Peer
    <3>1. PICK a \in Keys : KeysOf(c) = {AddressOf[c], a}
      BY <1>1, KeysOfTyped
    <3>2. entry[AddressOf[c]].triggers \in Nat /\ entry[a].triggers \in Nat
      BY <1>1 DEF Entry
    <3>3. triggers \subseteq {entry[AddressOf[c]].triggers, entry[a].triggers} /\ triggers # {}
      BY <2>3, <3>1
    <3> DEFINE bound == entry[AddressOf[c]].triggers + entry[a].triggers
    <3>4. triggers \in SUBSET Nat /\ bound \in Nat /\ \A n \in triggers : n <= bound
      <4> HIDE DEF triggers
      <4> QED BY <3>2, <3>3
    <3>5. most \in Nat
      <4> HIDE DEF triggers, bound
      <4> QED BY <3>3, <3>4, Greatest
    <3>6. from \in Keys
      <4>1. barred \cap Accounts # {} => p.account \in Accounts
        BY <1>1, Constants DEF KeysOf
      <4> HIDE DEF barred
      <4> QED BY <1>1, <4>1 DEF Keys
    <3>7. entry[from].source \in Sources \cup {Nobody}
      <4> HIDE DEF from
      <4> QED BY <1>1, <3>6 DEF Entry
    <3> HIDE DEF most, from
    <3> QED BY <1>1, <3>5, <3>7 DEF Peer, Failing
  <2> HIDE DEF q, Same, barred, r
  <2> QED BY <1>2, <2>1, <2>2, <2>3
<1>10. CASE DecideResolve(c)
  <2> DEFINE outcome == Resolve(peer[c].seen.source, peer[c].seen.triggers)
             r == [peer[c] EXCEPT !.outcome = IF outcome = "drip" THEN "slow" ELSE outcome]
  <2>1. Becomes(c, Answered(r)) /\ Same
    BY <1>10 DEF DecideResolve
  <2>2. (IF outcome = "drip" THEN "slow" ELSE outcome) \in Outcomes
    BY ResolveTyped DEF Outcomes
  <2>3. Answered(r) \in Peer
    <3> HIDE DEF outcome
    <3>1. r.outcome \in Outcomes
      BY <1>1, <2>2 DEF Peer
    <3> QED BY <3>1, AnsweredTyped
  <2> HIDE DEF r, Same
  <2> QED BY <1>2, <2>1, <2>3
<1>11. ASSUME NEW account \in Accounts, Login(c, account)
       PROVE  TypeOK' /\ Timed'
  <2>1. PICK fails \in BOOLEAN :
          /\ MayFail(fails)
          /\ logged' = IF fails THEN logged ELSE logged \cup {AddressOf[c]}
    BY <1>11 DEF Login
  <2>2. left' \in Budget /\ left'.ticks = left.ticks
    BY <2>1, MayFailTyped
  <2>3. logged' \subseteq Addresses
    BY <1>1, <2>1 DEF TypeOK
  <2>4. [peer[c] EXCEPT !.at = "logged", !.account = account] \in Peer
    BY <1>1 DEF Peer
  <2>5. peer' \in [Peers -> Peer]
    BY <1>1, <1>11, <2>4, BecomesTyped DEF Login
  <2> QED BY <1>11, <2>2, <2>3, <2>5 DEF Login, TypeOK, Timed, tables
<1>12. CASE RecordSuccess(c)
  <2>1. [NewPeer EXCEPT !.at = "in"] \in Peer
    BY NewPeerTyped DEF Peer
  <2>2. peer' \in [Peers -> Peer]
    BY <1>1, <1>12, <2>1, BecomesTyped DEF RecordSuccess
  <2>3. ASSUME NEW k \in Keys
        PROVE  /\ [entry[k] EXCEPT !.tally = NewEntry.tally] \in Entry
               /\ [[entry[k] EXCEPT !.tally = NewEntry.tally] EXCEPT !.drip = FALSE] \in Entry
    BY <1>1, NewEntryTyped DEF Entry
  <2>4. entry' \in [Keys -> Entry]
    <3>1. entry' = [k \in Keys |->
                      IF k \notin KeysOf(c) THEN entry[k]
                      ELSE IF k = AddressOf[c] /\ entry[k].known
                      THEN [[entry[k] EXCEPT !.tally = NewEntry.tally] EXCEPT !.drip = FALSE]
                      ELSE [entry[k] EXCEPT !.tally = NewEntry.tally]]
      BY <1>12 DEF RecordSuccess
    <3> QED BY <1>1, <2>3, <3>1
  <2>5. failures' \in [Keys -> [Thresholds -> Seq(Time)]]
    <3>1. NoFailures \in [Keys -> [Thresholds -> Seq(Time)]]
      BY DEF NoFailures
    <3>2. failures \in [Keys -> [Thresholds -> Seq(Time)]]
      BY DEF TypeOK
    <3>3. failures' = [k \in Keys |-> IF k \in KeysOf(c) THEN NoFailures[k] ELSE failures[k]]
      BY <1>12 DEF RecordSuccess
    <3> HIDE DEF NoFailures
    <3> QED BY <3>1, <3>2, <3>3
  <2> QED BY <1>12, <2>2, <2>4, <2>5 DEF RecordSuccess, TypeOK, Timed, tables
<1>13. CASE Leave(c)
  <2>1. Closed \in Peer
    BY HandledTyped DEF Outcomes
  <2> QED BY <1>2, <1>13, <2>1 DEF Leave
<1> QED BY <1>3, <1>4, <1>5, <1>6, <1>7, <1>8, <1>9, <1>10, <1>11, <1>12, <1>13 DEF PeerStep

\* Every record of the tarpit stays of its type, and the clock within its bound.
THEOREM WellTyped == Spec => [](TypeOK /\ Timed)
<1>1. Init => TypeOK /\ Timed
  BY InitTyped
<1>2. TypeOK /\ Timed /\ [Next]_vars => TypeOK' /\ Timed'
  <2> SUFFICES ASSUME TypeOK, Timed, [Next]_vars PROVE TypeOK' /\ Timed'
    OBVIOUS
  <2>1. CASE UNCHANGED vars
    BY <2>1 DEF vars, tables, TypeOK, Timed
  <2>2. CASE Next
    BY <2>2, OutsideTyped, PeerTyped DEF Next
  <2> QED BY <2>1, <2>2
<1> QED BY <1>1, <1>2, PTL DEF Spec

\* The structs of tarpit/mod.rs keep their shape, whatever order tasks run in.
THEOREM TarpitTyped == Spec => []TypeOK
BY WellTyped, PTL

-----------------------------------------------------------------------------
(* Counting failures within a window. *)

LEMMA RuleConstants ==
  ASSUME NEW r \in Thresholds
  PROVE  /\ FailCount[r] \in Nat /\ FailCount[r] - 1 \in Nat /\ Window[r] \in Nat
         /\ FailCount[r] = (FailCount[r] - 1) + 1 /\ FailCount[r] # 0
<1>1. FailCount[r] \in Nat \ {0} /\ Window[r] \in Nat
  BY TarpitAssumption
<1> QED BY <1>1

LEMMA TallyTyped ==
  ASSUME NEW t \in Tally
  PROVE  t.n \in Nat /\ t.since \in Nat /\ t.since \in Time /\ t # Nobody
<1>1. Time \subseteq Nat /\ Nobody \notin Tally
  BY Constants
<1> QED BY <1>1 DEF Tally

\* A failure that does not trip the rule: the tally before it, and after it.
LEMMA FitsAppended ==
  ASSUME now \in Time, NEW r \in Thresholds, NEW past \in Seq(Time),
         NEW e \in Entry, Fits(e.tally[r], past, r), Count(e, r) < FailCount[r]
  PROVE  Fits([n |-> Count(e, r), since |-> IF Stale(e, r) THEN now ELSE e.tally[r].since],
              Append(past, now), r)
<1> DEFINE t == e.tally[r]
           older == FailCount[r] - 1
           window == Window[r]
           L == Len(past)
           times == Append(past, now)
           n == Count(e, r)
           since == IF Stale(e, r) THEN now ELSE t.since
<1>1. /\ t \in Tally \cup {Nobody} /\ (t # Nobody => t.n \in Nat /\ t.since \in Nat)
      /\ now \in Nat /\ older \in Nat /\ window \in Nat /\ FailCount[r] = older + 1
  <2>1. t \in Tally \cup {Nobody}
    BY DEF Entry
  <2>2. now \in Nat
    BY Constants
  <2> HIDE DEF t
  <2> QED BY <2>1, <2>2, TallyTyped, RuleConstants
<1>2. /\ L \in Nat /\ Len(times) = L + 1 /\ times[L + 1] = now
      /\ \A i \in 1 .. L : times[i] = past[i]
  BY AppendProperties, LenProperties
<1>3. \A i \in 1 .. L : past[i] \in Nat /\ past[i] <= now
  BY ElementOfSeq, Constants DEF Fits
<1>4. /\ t = Nobody => past = <<>>
      /\ t # Nobody =>
           /\ t.n <= older /\ t.n <= L /\ t.since <= now
           /\ \A i \in 1 .. L :
                /\ i + t.n > L => t.since <= past[i]
                /\ i + t.n <= L => past[i] <= t.since
                /\ i + t.n + older <= L => past[i] + window < t.since
  BY DEF Fits
<1>5. Stale(e, r) <=> t = Nobody \/ now - t.since > window
  BY DEF Stale
<1>6. n = (IF Stale(e, r) THEN 1 ELSE t.n + 1) /\ n < older + 1
  BY <1>1 DEF Count
<1>7. since = IF Stale(e, r) THEN now ELSE t.since
  OBVIOUS
<1>8. past = <<>> => L = 0
  OBVIOUS
<1> HIDE DEF t, older, window, L, times, n, since
<1>9. n \in Nat /\ n # 0 /\ n <= older /\ n <= L + 1 /\ since \in Nat /\ since <= now
  <2>1. CASE Stale(e, r)
    <3>1. n = 1 /\ since = now
      BY <1>6, <1>7, <2>1
    <3> QED BY <1>1, <1>2, <1>6, <3>1
  <2>2. CASE ~Stale(e, r)
    <3>1. t # Nobody /\ n = t.n + 1 /\ since = t.since
      BY <1>5, <1>6, <1>7, <2>2
    <3>2. t.n \in Nat /\ t.since \in Nat /\ t.n <= L /\ t.since <= now
      BY <1>1, <1>4, <3>1
    <3>3. PICK m \in Nat : m = t.n
      BY <3>2
    <3> QED BY <1>1, <1>2, <1>6, <3>1, <3>2, <3>3
  <2> QED BY <2>1, <2>2
<1>10. ASSUME NEW i \in 1 .. L + 1
       PROVE  /\ times[i] <= now
              /\ i + n > L + 1 => since <= times[i]
              /\ i + n <= L + 1 => times[i] <= since
              /\ i + n + older <= L + 1 => times[i] + window < since
  <2>1. CASE i = L + 1
    BY <1>1, <1>2, <1>9, <2>1
  <2>2. CASE i \in 1 .. L /\ t = Nobody
    BY <1>4, <1>8, <2>2
  <2>3. CASE i \in 1 .. L /\ t # Nobody
    <3>1. /\ times[i] = past[i] /\ past[i] \in Nat /\ past[i] <= now
          /\ t.n \in Nat /\ t.since \in Nat /\ t.since <= now /\ t.n <= older
          /\ i + t.n > L => t.since <= past[i]
          /\ i + t.n <= L => past[i] <= t.since
          /\ i + t.n + older <= L => past[i] + window < t.since
      BY <1>1, <1>2, <1>3, <1>4, <2>3
    <3>4. PICK m \in Nat, s \in Nat : m = t.n /\ s = t.since
      BY <3>1
    <3>5. i \in Nat /\ i <= L
      BY <1>2, <2>3
    <3>2. CASE Stale(e, r)
      <4>1. n = 1 /\ since = now /\ s + window < now
        BY <1>1, <1>5, <1>6, <1>7, <2>3, <3>2, <3>4
      <4>2. i + older <= L => times[i] <= s
        BY <1>1, <1>2, <3>1, <3>4, <3>5
      <4>3. i + n + older <= L + 1 => i + older <= L
        BY <1>1, <1>2, <3>5, <4>1
      <4>4. PICK x \in Nat : x = times[i]
        BY <3>1
      <4>5. i + n + older <= L + 1 => x + window < now
        BY SMTT(30), <1>1, <3>4, <4>1, <4>2, <4>3, <4>4
      <4>6. ~(i + n > L + 1)
        BY <1>2, <3>5, <4>1
      <4>7. times[i] <= now /\ (i + n + older <= L + 1 => times[i] + window < now)
        BY <3>1, <4>4, <4>5
      <4> QED BY <4>1, <4>6, <4>7
    <3>3. CASE ~Stale(e, r)
      <4>1. n = m + 1 /\ since = s
        BY <1>6, <1>7, <3>3, <3>4
      <4>2. PICK x \in Nat : x = times[i]
        BY <3>1
      <4>3. /\ i + m > L => s <= x
            /\ i + m <= L => x <= s
            /\ i + m + older <= L => x + window < s
        BY <3>1, <3>4, <4>2
      <4>4. /\ i + n > L + 1 <=> i + m > L
            /\ i + n <= L + 1 <=> i + m <= L
            /\ i + n + older <= L + 1 <=> i + m + older <= L
        BY SMTT(30), <1>1, <1>2, <3>4, <3>5, <4>1
      <4>5. x <= now
        BY <3>1, <4>2
      <4> QED BY <4>1, <4>2, <4>3, <4>4, <4>5
    <3> QED BY <3>2, <3>3
  <2> QED BY <1>2, <2>1, <2>2, <2>3
<1>11. [n |-> n, since |-> since] # Nobody
  <2>1. since \in Time
    BY <1>1, <1>5, <1>7 DEF Tally
  <2>2. [n |-> n, since |-> since] \in Tally
    BY <1>9, <2>1 DEF Tally
  <2> QED BY <2>2, Constants
<1>12. Fits([n |-> n, since |-> since], times, r)
  BY <1>2, <1>9, <1>10, <1>11 DEF Fits, older, window
<1> QED BY <1>12 DEF n, since, times, t

\* The oldest failure can be forgotten.
LEMMA FitsTail ==
  ASSUME now \in Time, NEW r \in Thresholds, NEW times \in Seq(Time), NEW t \in Tally,
         Fits(t, times, r), t.n < Len(times)
  PROVE  Fits(t, Tail(times), r)
<1> DEFINE older == FailCount[r] - 1
           rest == Tail(times)
           L == Len(rest)
<1>1. t.n \in Nat /\ t.since \in Nat /\ older \in Nat /\ Window[r] \in Nat /\ t # Nobody
  BY TallyTyped, RuleConstants
<1>2. Len(times) \in Nat /\ times # <<>>
  BY <1>1, LenProperties
<1>3. L \in Nat /\ Len(times) = L + 1 /\ \A i \in 1 .. L : rest[i] = times[i + 1]
  BY <1>2, HeadTailProperties, LenProperties
<1>4. /\ \A i \in 1 .. L + 1 : times[i] <= now
      /\ t.n <= older /\ t.n <= L /\ t.since <= now
      /\ t.n # 0
      /\ \A i \in 1 .. L + 1 :
           /\ i + t.n > L + 1 => t.since <= times[i]
           /\ i + t.n <= L + 1 => times[i] <= t.since
           /\ i + t.n + older <= L + 1 => times[i] + Window[r] < t.since
  BY <1>1, <1>2, <1>3 DEF Fits
<1> HIDE DEF L, older, rest
<1>5. \A i \in 1 .. L : i + 1 \in 1 .. L + 1
  BY <1>3
<1>6. ASSUME NEW i \in 1 .. L
      PROVE  /\ rest[i] <= now
             /\ i + t.n > L => t.since <= rest[i]
             /\ i + t.n <= L => rest[i] <= t.since
             /\ i + t.n + older <= L => rest[i] + Window[r] < t.since
  <2>1. i + 1 \in 1 .. L + 1 /\ rest[i] = times[i + 1]
    BY <1>3, <1>5
  <2>2. /\ times[i + 1] <= now
        /\ i + 1 + t.n > L + 1 => t.since <= times[i + 1]
        /\ i + 1 + t.n <= L + 1 => times[i + 1] <= t.since
        /\ i + 1 + t.n + older <= L + 1 => times[i + 1] + Window[r] < t.since
    BY <1>4, <2>1
  <2> QED BY SMTT(30), <1>1, <1>3, <2>1, <2>2
<1> QED BY <1>1, <1>4, <1>6 DEF Fits, L, older, rest

LEMMA CountUnmoved ==
  ASSUME NEW k, NEW r \in Thresholds, now \in Time, now' \in Time, now <= now',
         failures[k][r] \in Seq(Time), entry[k].tally[r] \in Tally \cup {Nobody}, Counted(k, r),
         entry'[k].tally[r] = entry[k].tally[r], failures'[k][r] = failures[k][r]
  PROVE  Counted(k, r)'
<1> DEFINE t == entry[k].tally[r]
           times == failures[k][r]
<1>1. now \in Nat /\ now' \in Nat /\ \A i \in 1 .. Len(times) : times[i] \in Nat
  BY Constants, ElementOfSeq
<1>2. t # Nobody => t.since \in Nat
  BY TallyTyped
<1>3. /\ Len(times) <= 2 * FailCount[r] - 1
      /\ \A i \in 1 .. Len(times) : times[i] <= now
      /\ t # Nobody => t.since <= now
  BY DEF Counted, Fits
<1>4. /\ \A i \in 1 .. Len(times) : times[i] <= now'
      /\ t # Nobody => t.since <= now'
  <2> HIDE DEF t, times
  <2> QED BY <1>1, <1>2, <1>3
<1> QED BY <1>4 DEF Counted, Fits

LEMMA CountFresh ==
  ASSUME NEW k, NEW r \in Thresholds,
         failures'[k][r] = <<>>,
         \/ entry'[k].tally[r] = Nobody
         \/ now' \in Time /\ entry'[k].tally[r] = [n |-> 0, since |-> now']
  PROVE  Counted(k, r)'
<1>1. FailCount[r] - 1 \in Nat /\ 0 <= 2 * FailCount[r] - 1 /\ 0 <= FailCount[r] - 1
  BY RuleConstants
<1>2. Len(<<>>) = 0 /\ \A i : i \notin 1 .. 0
  OBVIOUS
<1>3. ASSUME now' \in Time PROVE [n |-> 0, since |-> now'] # Nobody /\ now' <= now'
  <2>1. [n |-> 0, since |-> now'] \in Tally
    BY <1>3 DEF Tally
  <2> QED BY <1>3, <2>1, Constants
<1> QED BY <1>1, <1>2, <1>3 DEF Counted, Fits

LEMMA CountRecorded ==
  ASSUME TypeOK, CountInv, NEW c \in Peers, Record(c)
  PROVE  CountInv'
<1> SUFFICES ASSUME NEW k \in Keys, NEW r \in Thresholds PROVE Counted(k, r)'
  BY DEF CountInv
<1> DEFINE rules == peer[c].config.rules
           e == entry[k]
           past == failures[k][r]
<1>1. /\ now \in Time /\ now' = now /\ now <= now'
      /\ e \in Entry /\ past \in Seq(Time) /\ Counted(k, r) /\ rules \in Rules
  <2>1. now \in Time /\ now' = now /\ e \in Entry /\ past \in Seq(Time) /\ Counted(k, r)
    BY DEF TypeOK, Record, CountInv
  <2>2. now <= now
    BY <2>1, Constants
  <2> QED BY <2>1, <2>2, Recordable
<1>2. CASE entry'[k] = e /\ failures'[k] = failures[k]
  <2>1. e.tally[r] \in Tally \cup {Nobody}
    BY <1>1 DEF Entry
  <2> QED BY <1>1, <1>2, <2>1, CountUnmoved
<1>3. CASE /\ entry'[k] \in Recordings(e, rules)
           /\ failures'[k] = [s \in Thresholds |-> Remember(failures[k][s], s, e, rules)]
  <2>1. entry'[k].tally[r] = Counting(e, rules, r) /\ failures'[k][r] = Remember(past, r, e, rules)
    <3> HIDE DEF e, rules
    <3>1. entry'[k].tally = [s \in Thresholds |-> Counting(e, rules, s)]
      BY <1>1, <1>3, Recorded
    <3> QED BY <1>3, <3>1 DEF e
  <2>2. CASE r \notin Live(rules)
    <3>1. entry'[k].tally[r] = e.tally[r] /\ failures'[k][r] = past
      <4>1. r \notin Tripped(e, rules)
        BY <2>2 DEF Tripped
      <4> QED BY <2>1, <2>2, <4>1 DEF Counting, Remember
    <3>2. e.tally[r] \in Tally \cup {Nobody}
      BY <1>1 DEF Entry
    <3> QED BY <1>1, <3>1, <3>2, CountUnmoved
  <2>3. CASE r \in Live(rules) /\ r \in Tripped(e, rules)
    <3>1. entry'[k].tally[r] = [n |-> 0, since |-> now] /\ failures'[k][r] = <<>>
      BY <2>1, <2>3 DEF Counting, Remember
    <3> QED BY <1>1, <3>1, CountFresh
  <2>4. CASE r \in Live(rules) /\ r \notin Tripped(e, rules)
    <3> DEFINE times == Append(past, now)
               t == [n |-> Count(e, r), since |-> IF Stale(e, r) THEN now ELSE e.tally[r].since]
    <3>1. /\ entry'[k].tally[r] = t
          /\ failures'[k][r] = IF Len(times) < 2 * FailCount[r] THEN times ELSE Tail(times)
      BY <2>1, <2>4 DEF Counting, Remember
    <3>2. Count(e, r) \in Nat /\ (IF Stale(e, r) THEN now ELSE e.tally[r].since) \in Time
      <4>1. e.tally[r] \in Tally \cup {Nobody}
        BY <1>1 DEF Entry
      <4>2. ASSUME ~Stale(e, r) PROVE e.tally[r] \in Tally
        BY <4>1, <4>2 DEF Stale
      <4> QED BY <1>1, <4>2, TallyTyped DEF Count
    <3>3. Count(e, r) < FailCount[r]
      BY <2>4, <3>2, RuleConstants DEF Tripped
    <3>4. t \in Tally /\ t.n = Count(e, r)
      BY <3>2 DEF Tally
    <3>5. Fits(t, times, r)
      BY <1>1, <3>3, FitsAppended DEF Counted
    <3>6. times \in Seq(Time) /\ Len(times) = Len(past) + 1 /\ Len(past) \in Nat
      BY <1>1, AppendProperties, LenProperties
    <3>7. Len(past) <= 2 * FailCount[r] - 1
      BY <1>1 DEF Counted
    <3> HIDE DEF t, times, past, e
    <3>8. CASE Len(times) < 2 * FailCount[r]
      <4>1. Len(times) <= 2 * FailCount[r] - 1
        BY <3>6, <3>8, RuleConstants
      <4> QED BY <1>1, <3>1, <3>5, <3>8, <4>1 DEF Counted, Fits
    <3>9. CASE ~(Len(times) < 2 * FailCount[r])
      <4>1. t.n < Len(times)
        BY <3>2, <3>3, <3>4, <3>6, <3>9, RuleConstants
      <4>2. Fits(t, Tail(times), r)
        BY <1>1, <3>4, <3>5, <3>6, <4>1, FitsTail
      <4>3. Len(Tail(times)) <= 2 * FailCount[r] - 1
        <5>1. times # <<>> /\ Len(Tail(times)) = Len(times) - 1
          BY <3>6, <3>2, <3>4, <4>1, HeadTailProperties
        <5> QED BY <3>6, <3>7, <5>1, RuleConstants
      <4> QED BY <1>1, <3>1, <3>9, <4>2, <4>3 DEF Counted, Fits
    <3> QED BY <3>8, <3>9
  <2> QED BY <2>2, <2>3, <2>4
<1> QED BY <1>2, <1>3, Recordable

LEMMA CountKept ==
  ASSUME TypeOK, TypeOK', CountInv, [Next]_vars
  PROVE  CountInv'
<1>1. \A k \in Keys : /\ entry[k] \in Entry /\ failures[k] \in [Thresholds -> Seq(Time)]
                      /\ \A r \in Thresholds : /\ failures[k][r] \in Seq(Time)
                                               /\ entry[k].tally[r] \in Tally \cup {Nobody}
  BY DEF TypeOK, Entry
<1>2. now \in Time /\ now' \in Time
  BY DEF TypeOK
<1>3. ASSUME now <= now',
             \A k \in Keys, r \in Thresholds : /\ entry'[k].tally[r] = entry[k].tally[r]
                                               /\ failures'[k][r] = failures[k][r]
      PROVE  CountInv'
  BY <1>1, <1>2, <1>3, CountUnmoved DEF CountInv
<1>4. now <= now /\ now <= now + 1
  BY <1>2, Constants
<1>5. CASE Tick
  BY <1>3, <1>4, <1>5 DEF Tick
<1>6. CASE UNCHANGED <<now, entry, failures>>
  BY <1>3, <1>4, <1>6
<1>7. CASE Merge
  <2>1. \A k \in Keys : entry'[k].tally = entry[k].tally
    <3>1. PICK last \in [Keys -> Bans \cup {Nobody}] :
            entry' = [k \in Keys |->
              IF last[k] = Nobody THEN entry[k]
              ELSE [entry[k] EXCEPT !.known = TRUE, !.until = BanEnds[last[k]],
                                    !.source = last[k]]]
      BY <1>7 DEF Merge
    <3> QED BY <1>1, <3>1 DEF Entry
  <2> QED BY <1>3, <1>4, <1>7, <2>1 DEF Merge
<1>8. CASE Restart
  <2>1. \A k \in Keys, r \in Thresholds : entry'[k].tally[r] = Nobody /\ failures'[k][r] = <<>>
    BY <1>8 DEF Restart, NewEntry, NoFailures
  <2> QED BY <2>1, CountFresh DEF CountInv
<1>9. ASSUME NEW c \in Peers, AcceptMark(c)
      PROVE  CountInv'
  <2>1. \A k \in Keys : entry'[k].tally = entry[k].tally
    BY <1>1, <1>9 DEF AcceptMark, Entry, TypeOK
  <2> QED BY <1>3, <1>4, <1>9, <2>1 DEF AcceptMark
<1>10. ASSUME NEW c \in Peers, RecordSuccess(c)
       PROVE  CountInv'
  <2> SUFFICES ASSUME NEW k \in Keys, NEW r \in Thresholds PROVE Counted(k, r)'
    BY DEF CountInv
  <2>1. CASE k \in KeysOf(c)
    <3>1. entry'[k].tally = NewEntry.tally /\ failures'[k] = NoFailures[k]
      BY <1>1, <1>10, <2>1 DEF RecordSuccess, Entry
    <3>2. entry'[k].tally[r] = Nobody /\ failures'[k][r] = <<>>
      BY <3>1 DEF NewEntry, NoFailures
    <3> QED BY <3>2, CountFresh
  <2>2. CASE k \notin KeysOf(c)
    <3>1. entry'[k] = entry[k] /\ failures'[k] = failures[k] /\ now' = now
      BY <1>10, <2>2 DEF RecordSuccess
    <3> QED BY <1>1, <1>2, <1>4, <3>1, CountUnmoved DEF CountInv
  <2> QED BY <2>1, <2>2
<1>11. ASSUME NEW c \in Peers, PeerStep(c)
       PROVE  CountInv'
  <2>1. CASE \/ Accept(c) \/ AcceptResolve(c) \/ AcceptHistory(c) \/ Decide(c)
             \/ DecideResolve(c) \/ Leave(c)
             \/ \E account \in Accounts \cup {Nobody} : Fail(c, account)
             \/ \E account \in Accounts : Login(c, account)
    <3>1. UNCHANGED <<now, entry, failures>>
      BY <2>1 DEF Accept, AcceptResolve, AcceptHistory, Decide, DecideResolve, Leave, Fail, Login
    <3> QED BY <1>6, <3>1
  <2>2. CASE Record(c)
    BY <2>2, CountRecorded
  <2> QED BY <1>9, <1>10, <1>11, <2>1, <2>2 DEF PeerStep
<1>12. CASE AdminStep \/ ReadSwitch \/ ReadRules \/ ReadBans \/ Publish \/ UNCHANGED vars
  <2>1. UNCHANGED <<now, entry, failures>>
    BY <1>12 DEF AdminStep, SetThreshold, SetBan, SetSwitch, RuleEdit, ReadSwitch, ReadRules,
                 ReadBans, Reads, Publish, vars
  <2> QED BY <1>6, <2>1
<1> QED BY <1>5, <1>7, <1>8, <1>11, <1>12 DEF Next, RefreshStep

LEMMA InitCounted == Init => CountInv
<1> SUFFICES ASSUME Init, NEW k \in Keys, NEW r \in Thresholds PROVE Counted(k, r)
  BY DEF CountInv
<1>1. entry[k].tally[r] = Nobody /\ failures[k][r] = <<>>
  BY DEF Init, NewEntry, NoFailures
<1>2. FailCount[r] - 1 \in Nat /\ 0 <= 2 * FailCount[r] - 1
  BY RuleConstants
<1> QED BY <1>1, <1>2 DEF Counted, Fits

\* A rule's tally in memory and the history of the failures it counts fit together:
\* the last n of them came since the tally was begun, and of those before at most
\* fail_count - 1 came within the window before that (record_failure).
THEOREM CountsHold == Spec => []CountInv
<1>1. TypeOK /\ TypeOK' /\ CountInv /\ [Next]_vars => CountInv'
  BY CountKept
<1> QED BY <1>1, InitCounted, TarpitTyped, PTL DEF Spec

\* A rule does not miss 2 * fail_count - 1 failures within one window: by then it
\* has banned, because record_failure starts a tally afresh only after the window.
THEOREM BansInTime == Spec => []NoLateBan
<1>1. TypeOK /\ CountInv => NoLateBan
  <2> SUFFICES ASSUME TypeOK, CountInv, NEW k \in Keys, NEW r \in Thresholds,
                      Len(failures[k][r]) >= 2 * FailCount[r] - 1
               PROVE  failures[k][r][1] + Window[r] < failures[k][r][Len(failures[k][r])]
    BY DEF NoLateBan
  <2> DEFINE times == failures[k][r]
             t == entry[k].tally[r]
             older == FailCount[r] - 1
             L == Len(times)
             window == Window[r]
  <2>1. /\ times \in Seq(Time) /\ L \in Nat /\ older \in Nat /\ window \in Nat
        /\ \A i \in 1 .. L : times[i] \in Nat
        /\ t \in Tally \cup {Nobody}
    <3>1. times \in Seq(Time) /\ t \in Tally \cup {Nobody}
      BY DEF TypeOK, Entry
    <3> QED BY <3>1, RuleConstants, LenProperties, ElementOfSeq, Constants
  <2>2. L = 2 * older + 1
    <3>1. L <= 2 * FailCount[r] - 1
      BY DEF CountInv, Counted
    <3>2. FailCount[r] = older + 1
      BY RuleConstants
    <3>3. L >= 2 * FailCount[r] - 1
      OBVIOUS
    <3> HIDE DEF L, older
    <3> QED BY SMTT(30), <2>1, <3>1, <3>2, <3>3 DEF L
  <2>3. times # <<>>
    BY <2>1, <2>2
  <2>4. t \in Tally /\ t.n \in Nat /\ t.since \in Nat /\ t.n # 0 /\ t.n <= older
        /\ \A i \in 1 .. L :
             /\ i + t.n > L => t.since <= times[i]
             /\ i + t.n + older <= L => times[i] + window < t.since
    <3>1. t \in Tally
      BY <2>1, <2>3 DEF CountInv, Counted, Fits
    <3> QED BY <2>3, <3>1, TallyTyped DEF CountInv, Counted, Fits
  <2> HIDE DEF times, t, older, L, window
  <2>5. PICK n \in Nat, since \in Nat : n = t.n /\ since = t.since
    BY <2>4
  <2>6. 1 \in 1 .. L /\ L \in 1 .. L /\ L + n > L /\ 1 + n + older <= L
    BY <2>1, <2>2, <2>4, <2>5
  <2>7. times[1] + window < since /\ since <= times[L]
    BY <2>4, <2>5, <2>6
  <2>8. times[1] + window < times[L]
    <3>1. PICK x \in Nat, y \in Nat : x = times[1] /\ y = times[L]
      BY <2>1, <2>6
    <3>2. x + window < since /\ since <= y
      BY <2>7, <3>1
    <3>3. x + window < y
      BY <2>1, <2>5, <3>2
    <3> QED BY <3>1, <3>3
  <2> QED BY <2>8 DEF times, L, window
<1> QED BY <1>1, TarpitTyped, CountsHold, PTL

\* Only a recorded failure raises the triggers of a key.
LEMMA OnlyRecordTrips ==
  ASSUME TypeOK, [Next]_vars, NEW k \in Keys, entry'[k].triggers > entry[k].triggers
  PROVE  \E c \in Peers : Record(c)
<1>1. entry[k] \in Entry /\ entry \in [Keys -> Entry] /\ entry[k].triggers \in Nat
  BY DEF TypeOK, Entry
<1>2. ASSUME entry'[k].triggers = entry[k].triggers \/ entry'[k].triggers = 0 PROVE FALSE
  BY <1>1, <1>2
<1>3. CASE UNCHANGED entry
  BY <1>2, <1>3
<1>4. CASE Merge
  <2>1. PICK last \in [Keys -> Bans \cup {Nobody}] :
          entry' = [j \in Keys |->
            IF last[j] = Nobody THEN entry[j]
            ELSE [entry[j] EXCEPT !.known = TRUE, !.until = BanEnds[last[j]],
                                  !.source = last[j]]]
    BY <1>4 DEF Merge
  <2>2. entry'[k].triggers = entry[k].triggers
    BY <1>1, <2>1 DEF Entry
  <2> QED BY <1>2, <2>2
<1>5. CASE Restart
  BY <1>2, <1>5 DEF Restart, NewEntry
<1>6. ASSUME NEW c \in Peers, PeerStep(c), ~Record(c)
      PROVE  FALSE
  <2>1. CASE AcceptMark(c)
    <3>1. entry' = [entry EXCEPT ![AddressOf[c]].known = TRUE, ![AddressOf[c]].drip = FALSE]
      BY <2>1 DEF AcceptMark
    <3>2. entry'[k].triggers = entry[k].triggers
      BY <1>1, <3>1 DEF Entry
    <3> QED BY <1>2, <3>2
  <2>2. CASE RecordSuccess(c)
    <3>1. entry'[k].triggers = entry[k].triggers
      BY <1>1, <2>2 DEF RecordSuccess, Entry
    <3> QED BY <1>2, <3>1
  <2>3. CASE ~AcceptMark(c) /\ ~RecordSuccess(c)
    <3>1. \/ Accept(c) \/ AcceptResolve(c) \/ AcceptHistory(c) \/ Decide(c)
          \/ DecideResolve(c) \/ Leave(c)
          \/ \E account \in Accounts \cup {Nobody} : Fail(c, account)
          \/ \E account \in Accounts : Login(c, account)
      <4>1. ~Record(c) /\ PeerStep(c)
        BY <1>6
      <4> QED BY <2>3, <4>1 DEF PeerStep
    <3>2. entry' = entry
      BY <3>1 DEF Accept, AcceptResolve, AcceptHistory, Decide, DecideResolve, Leave, Fail, Login
    <3> QED BY <1>2, <3>2
  <2> QED BY <2>1, <2>2, <2>3
<1>7. CASE Tick \/ AdminStep \/ ReadSwitch \/ ReadRules \/ ReadBans \/ Publish \/ UNCHANGED vars
  <2>1. UNCHANGED entry
    BY <1>7 DEF Tick, AdminStep, SetThreshold, SetBan, SetSwitch, RuleEdit, ReadSwitch, ReadRules,
                ReadBans, Reads, Publish, vars
  <2> QED BY <1>3, <2>1
<1> QED BY <1>4, <1>5, <1>6, <1>7 DEF Next, RefreshStep

\* Which failures trip a rule: fail_count - 1 before this one, all within the window.
LEMMA TripsOnCount ==
  ASSUME TypeOK, CountInv, NEW k \in Keys, NEW r \in Thresholds, NEW rules,
         r \in Tripped(entry[k], rules)
  PROVE  LET past == failures[k][r]
             older == FailCount[r] - 1
         IN  /\ Len(past) >= older
             /\ \A i \in 1 .. Len(past) : i + older > Len(past) => past[i] + Window[r] >= now
<1> DEFINE past == failures[k][r]
           older == FailCount[r] - 1
           t == entry[k].tally[r]
           L == Len(past)
           window == Window[r]
<1>1. /\ t \in Tally \cup {Nobody} /\ past \in Seq(Time) /\ now \in Nat
      /\ \A i \in 1 .. L : past[i] \in Nat
      /\ L \in Nat
  <2>1. t \in Tally \cup {Nobody} /\ past \in Seq(Time) /\ now \in Time
    BY DEF TypeOK, Entry
  <2> QED BY <2>1, LenProperties, ElementOfSeq, Constants
<1>2. older \in Nat /\ window \in Nat /\ FailCount[r] = older + 1
  BY RuleConstants
<1>3. Count(entry[k], r) >= older + 1
  BY <1>2 DEF Tripped
<1>4. CASE Stale(entry[k], r)
  <2>1. 1 >= older + 1
    BY <1>3, <1>4 DEF Count
  <2> HIDE DEF past, older, t, L, window
  <2>2. older = 0
    BY <1>2, <2>1
  <2>3. \A i \in 1 .. L : ~(i + older > L)
    BY <1>1, <2>2
  <2> QED BY <1>1, <2>2, <2>3 DEF past, older, t, L, window
<1>5. CASE ~Stale(entry[k], r)
  <2>1. t # Nobody /\ ~(now - t.since > window) /\ t.n + 1 >= older + 1
    BY <1>3, <1>5 DEF Stale, Count
  <2>2. /\ t.n <= older /\ t.n <= L /\ t.since <= now
        /\ \A i \in 1 .. L : i + t.n > L => t.since <= past[i]
    BY <2>1 DEF CountInv, Counted, Fits
  <2>3. PICK n \in Nat, since \in Nat : n = t.n /\ since = t.since
    BY <1>1, <2>1, TallyTyped
  <2> HIDE DEF past, older, t, L, window
  <2>4. n = older /\ since <= now /\ ~(now - since > window)
    BY <1>2, <2>1, <2>2, <2>3
  <2>5. ASSUME NEW i \in 1 .. L, i + older > L
        PROVE  past[i] + window >= now
    <3>1. PICK x \in Nat : x = past[i]
      BY <1>1
    <3>2. since <= x
      BY <2>2, <2>3, <2>4, <2>5, <3>1
    <3>3. x + window >= now
      BY <1>1, <1>2, <2>4, <3>2
    <3> QED BY <3>1, <3>3
  <2>6. L >= older
    BY <1>1, <1>2, <2>2, <2>3, <2>4
  <2> QED BY <2>5, <2>6 DEF past, older, L, window
<1> QED BY <1>4, <1>5

\* A threshold rule bans only after its fail_count of failures within its window,
\* this one included, whatever the other tasks and keys did between.
THEOREM BansNotEarly == Spec => NoEarlyBan
<1> DEFINE Due(k) == LET r == entry'[k].source
                         past == failures[k][r]
                         older == FailCount[r] - 1
                     IN  /\ Len(past) >= older
                         /\ \A i \in 1 .. Len(past) :
                              i + older > Len(past) => past[i] + Window[r] >= now
           NotEarly == \A k \in Keys : entry'[k].triggers > entry[k].triggers => Due(k)
<1>1. TypeOK /\ CountInv /\ [Next]_vars => NotEarly
  <2> SUFFICES ASSUME TypeOK, CountInv, [Next]_vars, NEW k \in Keys,
                      entry'[k].triggers > entry[k].triggers
               PROVE  Due(k)
    OBVIOUS
  <2>1. PICK c \in Peers : Record(c)
    BY OnlyRecordTrips
  <2> DEFINE rules == peer[c].config.rules
  <2>2. entry[k] \in Entry /\ entry[k].triggers \in Nat /\ now \in Time
    BY DEF TypeOK, Entry
  <2>3. entry'[k] # entry[k] /\ entry'[k].triggers # entry[k].triggers
    BY <2>2
  <2>4. entry'[k] \in Recordings(entry[k], rules) /\ rules \in Rules
    BY <2>1, <2>3, Recordable
  <2> HIDE DEF rules
  <2>5. entry'[k].source \in Tripped(entry[k], rules)
    BY <2>2, <2>3, <2>4, Recorded
  <2>6. entry'[k].source \in Thresholds
    BY <2>5 DEF Tripped, Live
  <2> QED BY <2>5, <2>6, TripsOnCount
<1>2. TypeOK /\ CountInv /\ [Next]_vars => [NotEarly]_vars
  BY <1>1
<1> QED BY <1>2, TarpitTyped, CountsHold, PTL DEF Spec, NoEarlyBan

-----------------------------------------------------------------------------
(* Known good addresses. *)

LEMMA GoodAtRest ==
  ASSUME NEW c \in Peers, peer[c].good = FALSE
  PROVE  Good(c)
BY DEF Good

LEMMA GoodKept ==
  ASSUME TypeOK, \A c \in Peers : Good(c), [Next]_vars
  PROVE  (\A c \in Peers : Good(c))'
<1> SUFFICES ASSUME NEW d \in Peers PROVE Good(d)'
  OBVIOUS
<1>1. /\ peer \in [Peers -> Peer] /\ Good(d)
      /\ \A c \in Peers : peer[c] \in Peer
  BY DEF TypeOK
<1>2. ASSUME peer'[d] = peer[d], logged \subseteq logged'
      PROVE  Good(d)'
  BY <1>1, <1>2 DEF Good
<1>3. ASSUME \/ peer'[d].good = FALSE
             \/ peer'[d].at \notin Accepting \cup {"drip"}
      PROVE  Good(d)'
  BY <1>3 DEF Good
<1>4. Closed.good = FALSE /\ (\A outcome : Handled(outcome).good = FALSE)
      /\ (\A p : Answered(p).good = FALSE) /\ NewPeer.good = FALSE
  BY DEF Closed, Handled, Answered, NewPeer
<1>5. CASE Restart
  BY <1>3, <1>4, <1>5 DEF Restart
<1>6. CASE Tick \/ AdminStep \/ RefreshStep \/ UNCHANGED vars
  <2>1. peer' = peer /\ logged' = logged
    BY <1>6 DEF Tick, AdminStep, SetThreshold, SetBan, SetSwitch, RuleEdit, RefreshStep, ReadSwitch,
                ReadRules, ReadBans, Reads, Publish, Merge, vars
  <2> QED BY <1>2, <2>1
<1>7. ASSUME NEW c \in Peers, PeerStep(c), c # d
      PROVE  Good(d)'
  <2>1. logged \subseteq logged' /\ \E p : peer' = [peer EXCEPT ![c] = p]
    <3>1. CASE \E account \in Accounts : Login(c, account)
      BY <3>1 DEF Login, Becomes
    <3>2. CASE ~ \E account \in Accounts : Login(c, account)
      BY <1>7, <3>2 DEF PeerStep, Accept, AcceptResolve, AcceptHistory, AcceptMark, Fail, Record,
                        Decide, DecideResolve, RecordSuccess, Leave, Becomes
    <3> QED BY <3>1, <3>2
  <2> QED BY <1>1, <1>2, <1>7, <2>1
<1>8. ASSUME PeerStep(d)
      PROVE  Good(d)'
  <2>1. ASSUME NEW p, Becomes(d, p)
        PROVE  peer'[d] = p
    BY <1>1, <2>1 DEF Becomes
  <2>2. ASSUME NEW p, Becomes(d, p), p.good = FALSE \/ p.at \notin Accepting \cup {"drip"}
        PROVE  Good(d)'
    BY <1>3, <2>1, <2>2
  <2>3. CASE Accept(d)
    <3> DEFINE e == entry[AddressOf[d]]
               good == AddressOf[d] \in logged
               q == [[peer[d] EXCEPT !.good = good] EXCEPT !.at = "banned",
                       !.seen = [triggers |-> e.triggers, drip |-> e.drip, source |-> e.source]]
    <3>1. Becomes(d, IF Banned(AddressOf[d]) THEN q ELSE Handled("unset")) /\ logged' = logged
      BY <2>3 DEF Accept
    <3>2. q.good = good /\ q.at = "banned"
      <4> HIDE DEF e, good
      <4> QED BY <1>1 DEF Peer
    <3> HIDE DEF q
    <3>3. CASE Banned(AddressOf[d])
      BY <2>1, <3>1, <3>2, <3>3 DEF Good
    <3>4. CASE ~Banned(AddressOf[d])
      BY <1>4, <2>2, <3>1, <3>4
    <3> QED BY <3>3, <3>4
  <2>4. CASE AcceptResolve(d)
    <3> DEFINE outcome == Resolve(peer[d].seen.source, peer[d].seen.triggers)
               q == [peer[d] EXCEPT !.at = IF peer[d].seen.drip THEN "history" ELSE "mark",
                                    !.seen = NewPeer.seen]
    <3>1. /\ Becomes(d, CASE outcome = "ban" -> Closed
                          [] outcome = "drip" -> q
                          [] OTHER -> Handled(outcome))
          /\ logged' = logged /\ peer[d].at = "banned"
      BY <2>4 DEF AcceptResolve
    <3>2. q.good = peer[d].good /\ q.at \in {"history", "mark"}
      BY <1>1 DEF Peer
    <3> HIDE DEF q, outcome
    <3>3. CASE outcome = "drip"
      <4>1. peer'[d] = q
        BY <2>1, <3>1, <3>3
      <4> QED BY <1>1, <3>1, <3>2, <4>1 DEF Good, Accepting
    <3>4. CASE outcome # "drip"
      BY <1>4, <2>2, <3>1, <3>4
    <3> QED BY <3>3, <3>4
  <2>5. CASE AcceptHistory(d)
    <3>1. PICK fails \in BOOLEAN :
            Becomes(d, [peer[d] EXCEPT !.missed = fails,
                          !.at = IF ~fails /\ AddressOf[d] \in logged THEN "mark" ELSE "drip"])
      BY <2>5 DEF AcceptHistory
    <3>2. /\ peer'[d].good = peer[d].good /\ peer'[d].missed = fails
          /\ peer'[d].at = IF ~fails /\ AddressOf[d] \in logged THEN "mark" ELSE "drip"
      BY <1>1, <3>1 DEF Becomes, Peer
    <3>3. logged' = logged /\ (peer[d].good => AddressOf[d] \in logged)
      BY <1>1, <2>5 DEF AcceptHistory, Good, Accepting
    <3> QED BY <3>2, <3>3 DEF Good
  <2>6. CASE AcceptMark(d) \/ RecordSuccess(d) \/ Leave(d) \/ DecideResolve(d)
    <3>1. [NewPeer EXCEPT !.at = "in"].good = FALSE
      BY DEF NewPeer
    <3> QED BY <1>4, <2>2, <2>6, <3>1 DEF AcceptMark, RecordSuccess, Leave, DecideResolve
  <2>7. ASSUME NEW account, Fail(d, account) \/ Login(d, account)
        PROVE  Good(d)'
    <3>1. CASE Fail(d, account)
      <4>1. [peer[d] EXCEPT !.at = "record", !.account = account,
                            !.config = [shared EXCEPT !.bans = {}]].at = "record"
        BY <1>1 DEF Peer
      <4> QED BY <2>2, <3>1, <4>1 DEF Fail, Accepting
    <3>2. CASE Login(d, account)
      <4>1. [peer[d] EXCEPT !.at = "logged", !.account = account].at = "logged"
        BY <1>1 DEF Peer
      <4> QED BY <2>2, <3>2, <4>1 DEF Login, Accepting
    <3> QED BY <2>7, <3>1, <3>2
  <2>8. CASE Record(d) \/ Decide(d)
    <3>1. \E p : /\ Becomes(d, p)
                 /\ \/ \E q : p = Answered(q)
                    \/ p.at \in {"decide", "resolve"}
      <4>1. CASE Record(d)
        <5>1. \A e : [peer[d] EXCEPT !.at = "decide", !.config = NoConfig, !.ends = e].at = "decide"
          BY <1>1 DEF Peer
        <5> QED BY <4>1, <5>1 DEF Record
      <4>2. CASE Decide(d)
        <5>1. \A s : [peer[d] EXCEPT !.at = "resolve", !.seen = s].at = "resolve"
          BY <1>1 DEF Peer
        <5> QED BY <4>2, <5>1 DEF Decide
      <4> QED BY <2>8, <4>1, <4>2
    <3> QED BY <1>4, <2>2, <3>1 DEF Accepting
  <2> QED BY <1>8, <2>3, <2>4, <2>5, <2>6, <2>7, <2>8 DEF PeerStep
<1> QED BY <1>5, <1>6, <1>7, <1>8 DEF Next

\* An address with a login in the log when its connection came in is not dripped
\* at, whatever was forgotten since, unless the query of the log failed.
THEOREM KnownGoodSafe == Spec => []KnownGoodNotDripped
<1> DEFINE AllGood == \A c \in Peers : Good(c)
<1>1. Init => AllGood
  <2>1. NewPeer.good = FALSE
    BY DEF NewPeer
  <2> QED BY <2>1, GoodAtRest DEF Init
<1>2. TypeOK /\ AllGood /\ [Next]_vars => AllGood'
  BY GoodKept
<1>3. AllGood => KnownGoodNotDripped
  BY DEF Good, KnownGoodNotDripped
<1> HIDE DEF AllGood
<1> QED BY <1>1, <1>2, <1>3, TarpitTyped, PTL DEF Spec

-----------------------------------------------------------------------------
(* A recorded failure is decided by what it left. *)

\* A ban is replaced by that of a threshold rule, or of an administrators' rule.
LEMMA BansReplaced ==
  ASSUME TypeOK, [Next]_vars, ~Restart, NEW k \in Keys
  PROVE  \/ entry'[k].until = entry[k].until
         \/ \E r \in Thresholds : entry'[k].until = now + Window[r]
         \/ \E b \in Bans : BanScope[b] = k /\ BanEnds[b] = entry'[k].until
<1>1. entry[k] \in Entry /\ entry \in [Keys -> Entry] /\ now \in Time
  BY DEF TypeOK
<1>2. CASE entry' = entry
  BY <1>2
<1>3. CASE Merge
  <2> DEFINE due(j) == {b \in refresh.read.bans : BanScope[b] = j /\ now <= BanEnds[b]}
  <2>1. PICK last \in [Keys -> Bans \cup {Nobody}] :
          /\ \A j \in Keys : IF due(j) = {} THEN last[j] = Nobody ELSE last[j] \in due(j)
          /\ entry' = [j \in Keys |->
               IF last[j] = Nobody THEN entry[j]
               ELSE [entry[j] EXCEPT !.known = TRUE, !.until = BanEnds[last[j]],
                                     !.source = last[j]]]
    BY <1>3 DEF Merge
  <2>2. CASE last[k] = Nobody
    BY <2>1, <2>2
  <2>3. CASE last[k] # Nobody
    <3>1. last[k] \in Bans /\ last[k] \in due(k)
      BY <2>1, <2>3
    <3>2. entry'[k].until = BanEnds[last[k]]
      BY <1>1, <2>1, <2>3 DEF Entry
    <3> QED BY <3>1, <3>2
  <2> QED BY <2>2, <2>3
<1>4. ASSUME NEW c \in Peers, AcceptMark(c)
      PROVE  entry'[k].until = entry[k].until
  <2>1. entry' = [entry EXCEPT ![AddressOf[c]].known = TRUE, ![AddressOf[c]].drip = FALSE]
    BY <1>4 DEF AcceptMark
  <2> QED BY <1>1, <2>1 DEF Entry
<1>5. ASSUME NEW c \in Peers, RecordSuccess(c)
      PROVE  entry'[k].until = entry[k].until
  BY <1>1, <1>5 DEF RecordSuccess, Entry
<1>6. ASSUME NEW c \in Peers, Record(c), entry'[k].until # entry[k].until
      PROVE  \E r \in Thresholds : entry'[k].until = now + Window[r]
  <2> DEFINE rules == peer[c].config.rules
  <2>1. entry'[k] \in Recordings(entry[k], rules) /\ rules \in Rules
    BY <1>6, Recordable
  <2> HIDE DEF rules
  <2> QED BY <1>1, <1>6, <2>1, Recorded
<1>7. ASSUME NEW c \in Peers, PeerStep(c), ~AcceptMark(c), ~RecordSuccess(c), ~Record(c)
      PROVE  entry' = entry
  <2>1. \/ Accept(c) \/ AcceptResolve(c) \/ AcceptHistory(c) \/ Decide(c)
        \/ DecideResolve(c) \/ Leave(c)
        \/ \E account \in Accounts \cup {Nobody} : Fail(c, account)
        \/ \E account \in Accounts : Login(c, account)
    BY <1>7 DEF PeerStep
  <2> QED BY <2>1 DEF Accept, AcceptResolve, AcceptHistory, Decide, DecideResolve, Leave, Fail, Login
<1>8. CASE Tick \/ AdminStep \/ ReadSwitch \/ ReadRules \/ ReadBans \/ Publish \/ UNCHANGED vars
  <2>1. entry' = entry
    BY <1>8 DEF Tick, AdminStep, SetThreshold, SetBan, SetSwitch, RuleEdit, ReadSwitch, ReadRules,
                ReadBans, Reads, Publish, vars
  <2> QED BY <2>1
<1> QED BY <1>2, <1>3, <1>4, <1>5, <1>6, <1>7, <1>8 DEF Next, RefreshStep

\* What a step of a connection's own task does to its place and to its outcome: it
\* begins to decide by recording, and finds nothing in force only by deciding.
LEMMA OwnStep ==
  ASSUME TypeOK, NEW c \in Peers, PeerStep(c)
  PROVE  /\ peer'[c].at = "decide" => Record(c)
         /\ peer[c].outcome = "unset" /\ peer'[c].outcome = "none" =>
              peer[c].at = "decide" /\ \A k \in KeysOf(c) : ~Banned(k)
<1>1. peer \in [Peers -> Peer] /\ peer[c] \in Peer
  BY DEF TypeOK
<1>2. ASSUME NEW p, Becomes(c, p) PROVE peer'[c] = p
  BY <1>1, <1>2 DEF Becomes
<1>3. ASSUME NEW p, Becomes(c, p), p.at # "decide",
             p.outcome = peer[c].outcome \/ p.outcome # "none"
      PROVE  peer'[c].at # "decide"
             /\ ~(peer[c].outcome = "unset" /\ peer'[c].outcome = "none")
  BY <1>2, <1>3
<1>4. /\ Closed.at = "closed" /\ Closed.outcome = "unset"
      /\ NewPeer.at = "new" /\ NewPeer.outcome = "unset"
      /\ \A outcome : Handled(outcome).at = "auth" /\ Handled(outcome).outcome = outcome
      /\ \A p : Answered(p).at \in {"shell", "auth"} /\ Answered(p).outcome = p.outcome
  BY DEF Closed, Handled, Answered, NewPeer
<1>5. CASE Accept(c)
  <2> DEFINE e == entry[AddressOf[c]]
             good == AddressOf[c] \in logged
             q == [[peer[c] EXCEPT !.good = good] EXCEPT !.at = "banned",
                     !.seen = [triggers |-> e.triggers, drip |-> e.drip, source |-> e.source]]
  <2>1. Becomes(c, IF Banned(AddressOf[c]) THEN q ELSE Handled("unset"))
    BY <1>5 DEF Accept
  <2>2. q.at = "banned" /\ q.outcome = peer[c].outcome
    <3> HIDE DEF e, good
    <3> QED BY <1>1 DEF Peer
  <2> HIDE DEF q
  <2> QED BY <1>3, <1>4, <2>1, <2>2
<1>6. CASE AcceptResolve(c)
  <2> DEFINE outcome == Resolve(peer[c].seen.source, peer[c].seen.triggers)
             q == [peer[c] EXCEPT !.at = IF peer[c].seen.drip THEN "history" ELSE "mark",
                                  !.seen = NewPeer.seen]
  <2>1. Becomes(c, CASE outcome = "ban" -> Closed
                     [] outcome = "drip" -> q
                     [] OTHER -> Handled(outcome))
    BY <1>6 DEF AcceptResolve
  <2>2. q.at \in {"history", "mark"} /\ q.outcome = peer[c].outcome
    BY <1>1 DEF Peer
  <2>3. outcome # "none"
    BY ResolveTyped
  <2> HIDE DEF q, outcome
  <2>4. CASE outcome = "ban"
    BY <1>3, <1>4, <2>1, <2>4
  <2>5. CASE outcome = "drip"
    BY <1>3, <2>1, <2>2, <2>5
  <2>6. CASE outcome # "ban" /\ outcome # "drip"
    BY <1>3, <1>4, <2>1, <2>3, <2>6
  <2> QED BY <2>4, <2>5, <2>6
<1>7. CASE AcceptHistory(c)
  <2>1. \A fails \in BOOLEAN, place \in {"mark", "drip"} :
          /\ [peer[c] EXCEPT !.missed = fails, !.at = place].at = place
          /\ [peer[c] EXCEPT !.missed = fails, !.at = place].outcome = peer[c].outcome
    BY <1>1 DEF Peer
  <2>2. PICK fails \in BOOLEAN, place \in {"mark", "drip"} :
          Becomes(c, [peer[c] EXCEPT !.missed = fails, !.at = place])
    BY <1>7 DEF AcceptHistory
  <2> QED BY <1>3, <2>1, <2>2
<1>8. CASE AcceptMark(c) \/ RecordSuccess(c) \/ Leave(c)
  <2>1. CASE AcceptMark(c)
    <3>1. Becomes(c, Handled("slow"))
      BY <2>1 DEF AcceptMark
    <3> QED BY <1>3, <1>4, <3>1
  <2>2. CASE RecordSuccess(c)
    <3> DEFINE q == [NewPeer EXCEPT !.at = "in"]
    <3>1. Becomes(c, q) /\ q.at = "in" /\ q.outcome = "unset"
      BY <2>2 DEF RecordSuccess, NewPeer
    <3> HIDE DEF q
    <3> QED BY <1>3, <3>1
  <2>3. CASE Leave(c)
    BY <1>3, <1>4, <2>3 DEF Leave
  <2> QED BY <1>8, <2>1, <2>2, <2>3
<1>9. ASSUME NEW account, Fail(c, account) \/ Login(c, account)
      PROVE  peer'[c].at # "decide"
             /\ ~(peer[c].outcome = "unset" /\ peer'[c].outcome = "none")
  <2>1. CASE Fail(c, account)
    <3> DEFINE q == [peer[c] EXCEPT !.at = "record", !.account = account,
                                    !.config = [shared EXCEPT !.bans = {}]]
    <3>1. q.at = "record" /\ q.outcome = peer[c].outcome
      BY <1>1 DEF Peer
    <3>2. Becomes(c, q)
      BY <2>1 DEF Fail
    <3> HIDE DEF q
    <3> QED BY <1>3, <3>1, <3>2
  <2>2. CASE Login(c, account)
    <3> DEFINE q == [peer[c] EXCEPT !.at = "logged", !.account = account]
    <3>1. q.at = "logged" /\ q.outcome = peer[c].outcome
      BY <1>1 DEF Peer
    <3>2. Becomes(c, q)
      BY <2>2 DEF Login
    <3> HIDE DEF q
    <3> QED BY <1>3, <3>1, <3>2
  <2> QED BY <1>9, <2>1, <2>2
<1>10. CASE Record(c)
  <2> DEFINE ends == Surely({entry'[k].until : k \in KeysOf(c)})
             q == [peer[c] EXCEPT !.at = "decide", !.config = NoConfig, !.ends = ends]
  <2>1. Becomes(c, IF peer[c].outcome = "unset" THEN q ELSE Answered(peer[c]))
    BY <1>10 DEF Record
  <2>2. q.outcome = peer[c].outcome
    <3> HIDE DEF ends
    <3> QED BY <1>1 DEF Peer
  <2> HIDE DEF q
  <2> QED BY <1>2, <1>4, <1>10, <2>1, <2>2
<1>11. CASE Decide(c)
  <2> DEFINE barred == {k \in KeysOf(c) : Banned(k)}
  <2>1. \A s : LET q == [peer[c] EXCEPT !.at = "resolve", !.seen = s]
               IN  q.at = "resolve" /\ q.outcome = peer[c].outcome
    BY <1>1 DEF Peer
  <2>2. CASE barred = {}
    <3>1. Becomes(c, Answered([peer[c] EXCEPT !.outcome = "none"])) /\ peer[c].at = "decide"
      BY <1>11, <2>2 DEF Decide
    <3>2. peer'[c].at # "decide"
      BY <1>2, <1>4, <3>1
    <3> QED BY <2>2, <3>1, <3>2
  <2>3. CASE barred # {}
    <3>1. \E s : Becomes(c, [peer[c] EXCEPT !.at = "resolve", !.seen = s])
      BY <1>11, <2>3 DEF Decide
    <3> QED BY <1>3, <2>1, <3>1
  <2> QED BY <2>2, <2>3
<1>12. CASE DecideResolve(c)
  <2> DEFINE outcome == Resolve(peer[c].seen.source, peer[c].seen.triggers)
             answer == IF outcome = "drip" THEN "slow" ELSE outcome
             q == [peer[c] EXCEPT !.outcome = answer]
  <2>1. Becomes(c, Answered(q))
    BY <1>12 DEF DecideResolve
  <2>2. answer # "none"
    BY ResolveTyped
  <2> HIDE DEF outcome, answer
  <2>3. q.outcome = answer
    BY <1>1 DEF Peer
  <2> HIDE DEF q
  <2> QED BY <1>3, <1>4, <2>1, <2>2, <2>3
<1> QED BY <1>5, <1>6, <1>7, <1>8, <1>9, <1>10, <1>11, <1>12 DEF PeerStep

LEMMA DecidingKept ==
  ASSUME TypeOK, TypeOK', \A c \in Peers : Deciding(c), [Next]_vars
  PROVE  (\A c \in Peers : Deciding(c))'
<1> SUFFICES ASSUME NEW d \in Peers, peer'[d].at = "decide" PROVE Deciding(d)'
  BY DEF Deciding
<1>1. /\ now \in Nat /\ now' \in Nat /\ peer[d] \in Peer
      /\ peer[d].ends \in Nat /\ peer \in [Peers -> Peer]
      /\ \A k \in Keys : entry[k].until \in Nat /\ entry'[k].until \in Nat
      /\ KeysOf(d) \subseteq Keys
      /\ \A r \in Thresholds : Window[r] \in Nat
  <2>1. now \in Nat /\ now' \in Nat
    BY Constants DEF TypeOK
  <2>2. peer \in [Peers -> Peer] /\ peer[d] \in Peer /\ peer[d].ends \in Nat
    BY DEF TypeOK, Peer
  <2>3. \A k \in Keys : entry[k].until \in Nat /\ entry'[k].until \in Nat
    BY DEF TypeOK, Entry
  <2> QED BY <2>1, <2>2, <2>3, KeysOfTyped, RuleConstants
<1>2. ~Restart
  BY DEF Restart, NewPeer, Closed
<1>3. now <= now'
  <2>1. now <= now /\ now <= now + 1
    BY <1>1
  <2>2. now' = now \/ now' = now + 1
    <3>1. CASE Tick \/ AdminStep \/ RefreshStep \/ UNCHANGED vars
      BY <3>1 DEF Tick, AdminStep, SetThreshold, SetBan, SetSwitch, RuleEdit, RefreshStep,
                  ReadSwitch, ReadRules, ReadBans, Reads, Publish, Merge, vars
    <3>2. ASSUME NEW c \in Peers, PeerStep(c) PROVE now' = now
      BY <3>2 DEF PeerStep, Accept, AcceptResolve, AcceptHistory, AcceptMark, Fail, Record,
                  Decide, DecideResolve, Login, RecordSuccess, Leave
    <3> QED BY <1>2, <3>1, <3>2 DEF Next
  <2> QED BY <2>1, <2>2
<1>4. ASSUME peer'[d] = peer[d]
      PROVE  Deciding(d)'
  <2>1. /\ \A r \in Thresholds : peer[d].ends <= now + Window[r]
        /\ \E k \in KeysOf(d) : \/ peer[d].ends <= entry[k].until
                                \/ \E b \in Bans : BanScope[b] = k /\ BanEnds[b] = entry[k].until
    BY <1>4 DEF Deciding
  <2>2. KeysOf(d)' = KeysOf(d)
    BY <1>4 DEF KeysOf
  <2>3. ASSUME NEW r \in Thresholds PROVE peer[d].ends <= now' + Window[r]
    <3>1. peer[d].ends <= now + Window[r] /\ Window[r] \in Nat
      BY <1>1, <2>1
    <3> QED BY <1>1, <1>3, <3>1
  <2>4. PICK k \in KeysOf(d) :
          \/ peer[d].ends <= entry[k].until
          \/ \E b \in Bans : BanScope[b] = k /\ BanEnds[b] = entry[k].until
    BY <2>1
  <2>5. \/ peer[d].ends <= entry'[k].until
        \/ \E b \in Bans : BanScope[b] = k /\ BanEnds[b] = entry'[k].until
    <3>1. CASE entry'[k].until = entry[k].until
      BY <2>4, <3>1
    <3>2. CASE \E r \in Thresholds : entry'[k].until = now + Window[r]
      BY <2>1, <3>2
    <3> QED BY <1>1, <1>2, <3>1, <3>2, BansReplaced
  <2> QED BY <1>4, <2>2, <2>3, <2>5 DEF Deciding
<1>5. CASE Tick \/ AdminStep \/ RefreshStep \/ UNCHANGED vars
  <2>1. peer' = peer
    BY <1>5 DEF Tick, AdminStep, SetThreshold, SetBan, SetSwitch, RuleEdit, RefreshStep, ReadSwitch,
                ReadRules, ReadBans, Reads, Publish, Merge, vars
  <2> QED BY <1>4, <2>1
<1>6. ASSUME NEW c \in Peers, PeerStep(c), c # d
      PROVE  Deciding(d)'
  <2>1. \E p : peer' = [peer EXCEPT ![c] = p]
    BY <1>6 DEF PeerStep, Accept, AcceptResolve, AcceptHistory, AcceptMark, Fail, Record,
                Decide, DecideResolve, Login, RecordSuccess, Leave, Becomes
  <2> QED BY <1>1, <1>4, <1>6, <2>1
<1>7. ASSUME PeerStep(d)
      PROVE  Deciding(d)'
  <2>1. Record(d) /\ now' = now
    BY <1>7, OwnStep DEF Record
  <2> DEFINE ends == Surely({entry'[k].until : k \in KeysOf(d)})
             q == [peer[d] EXCEPT !.at = "decide", !.config = NoConfig, !.ends = ends]
  <2>2. peer'[d] = q
    <3>1. Becomes(d, IF peer[d].outcome = "unset" THEN q ELSE Answered(peer[d]))
      BY <2>1 DEF Record
    <3>2. Answered(peer[d]).at # "decide"
      BY DEF Answered, NewPeer
    <3> HIDE DEF q
    <3> QED BY <1>1, <3>1, <3>2 DEF Becomes
  <2>3. /\ \E k \in KeysOf(d) : ends <= entry'[k].until
        /\ \A r \in Thresholds : ends <= now + Window[r]
    <3>1. now \in Time /\ entry' \in [Keys -> Entry]
      BY DEF TypeOK
    <3> QED BY <1>1, <3>1, BansLeft
  <2> HIDE DEF ends
  <2>4. peer'[d].ends = ends /\ peer'[d].account = peer[d].account
    BY <1>1, <2>2 DEF Peer
  <2>5. KeysOf(d)' = KeysOf(d)
    BY <2>4 DEF KeysOf
  <2> QED BY <2>1, <2>3, <2>4, <2>5 DEF Deciding
<1> QED BY <1>2, <1>5, <1>6, <1>7 DEF Next

\* A failure that leaves its address or account banned is not answered as if it
\* were not, within the shortest window: the outcome is decided after recording,
\* and from both keys.  A ban rule that has ended may have cut the ban short.
THEOREM DecidesByRecord == Spec => FailureDecides
<1> DEFINE AllDeciding == \A c \in Peers : Deciding(c)
           Decided == \A c \in Peers : peer[c].outcome = "unset" /\ peer'[c].outcome = "none" =>
                        \/ now >= peer[c].ends
                        \/ \E b \in Bans : BanScope[b] \in KeysOf(c) /\ BanEnds[b] <= now
<1>1. Init => AllDeciding
  BY DEF Init, NewPeer, Deciding
<1>2. TypeOK /\ TypeOK' /\ AllDeciding /\ [Next]_vars => AllDeciding'
  BY DecidingKept
<1>3. TypeOK /\ AllDeciding /\ [Next]_vars => Decided
  <2> SUFFICES ASSUME TypeOK, AllDeciding, [Next]_vars, NEW c \in Peers,
                      peer[c].outcome = "unset", peer'[c].outcome = "none"
               PROVE  \/ now >= peer[c].ends
                      \/ \E b \in Bans : BanScope[b] \in KeysOf(c) /\ BanEnds[b] <= now
    OBVIOUS
  <2>1. PeerStep(c)
    <3>1. peer \in [Peers -> Peer]
      BY DEF TypeOK
    <3>2. CASE Tick \/ AdminStep \/ RefreshStep \/ UNCHANGED vars
      <4>1. peer' = peer
        BY <3>2 DEF Tick, AdminStep, SetThreshold, SetBan, SetSwitch, RuleEdit, RefreshStep,
                    ReadSwitch, ReadRules, ReadBans, Reads, Publish, Merge, vars
      <4> QED BY <4>1
    <3>3. ~Restart
      BY DEF Restart, NewPeer, Closed
    <3>4. ASSUME NEW d \in Peers, PeerStep(d), d # c
          PROVE  FALSE
      <4>1. \E p : peer' = [peer EXCEPT ![d] = p]
        BY <3>4 DEF PeerStep, Accept, AcceptResolve, AcceptHistory, AcceptMark, Fail, Record,
                    Decide, DecideResolve, Login, RecordSuccess, Leave, Becomes
      <4> QED BY <3>1, <3>4, <4>1
    <3> QED BY <3>2, <3>3, <3>4 DEF Next
  <2>2. peer[c].at = "decide" /\ \A k \in KeysOf(c) : ~Banned(k)
    BY <2>1, OwnStep
  <2>3. PICK k \in KeysOf(c) :
          \/ peer[c].ends <= entry[k].until
          \/ \E b \in Bans : BanScope[b] = k /\ BanEnds[b] = entry[k].until
    BY <2>2 DEF Deciding
  <2>4. ~(now < entry[k].until)
    BY <2>2 DEF Banned
  <2>5. now \in Nat /\ peer[c].ends \in Nat /\ entry[k].until \in Nat
    <3>1. k \in Keys
      BY KeysOfTyped DEF TypeOK
    <3> QED BY <3>1, Constants DEF TypeOK, Peer, Entry
  <2>6. entry[k].until <= now
    BY <2>4, <2>5
  <2> QED BY <2>3, <2>5, <2>6
<1>4. TypeOK /\ AllDeciding /\ [Next]_vars => [Decided]_vars
  BY <1>3
<1> HIDE DEF AllDeciding
<1> QED BY <1>1, <1>2, <1>4, TarpitTyped, PTL DEF Spec, FailureDecides
=============================================================================
