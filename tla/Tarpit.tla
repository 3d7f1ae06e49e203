------------------------------- MODULE Tarpit -------------------------------
(***************************************************************************)
(* The tarpit: failed logins are counted per peer address and per account, *)
(* a threshold rule that is reached bans both for a while, administrators  *)
(* ban addresses and accounts with rules of their own, and every new       *)
(* connection or failed attempt is let through, trapped or refused by what *)
(* the ban in force says.                                                  *)
(*                                                                         *)
(* The counters live in memory and are lost at a restart.  The rules live  *)
(* in the database; a task copies them every thirty seconds.  The accept   *)
(* loop takes one connection at a time, and awaits while it decides; after *)
(* that each connection has a task of its own.  One action is the code     *)
(* from one await to the next.                                             *)
(***************************************************************************)
EXTENDS Naturals, SequencesExt

CONSTANTS
  Addresses, Accounts,  \* who failures are counted for
  Peers,                \* the TCP connections that are ever made
  AddressOf,            \* AddressOf[c]: where connection c comes from
  Thresholds,           \* the rows of tarpit_thresholds
  FailCount, Window,    \* their fail_count and window_seconds
  Bans,                 \* the rows of ban_rules
  BanScope,             \* BanScope[b]: the address or account it is about
  BanAction,            \* BanAction[b]: "trap" or "ban"
  BanEnds,              \* BanEnds[b]: its active_until
  Forever,              \* active_until IS NULL; BanUntil::Forever
  MaxTime,              \* bound: the clock
  Budgets,              \* bounds of what may happen: a set of records [ticks,
                        \* failures, edits of the tables, restarts, faults: queries
                        \* and inserts that fail], one of which holds in a run
  Nobody                \* no account, no rule, no tally

Keys == Addresses \cup Accounts
Time == 0 .. MaxTime
Sources == Thresholds \cup Bans
Budget == [ticks : Time, failures : Nat, edits : Nat, restarts : Nat, faults : Nat]
Tally == [n : Nat, since : Time]

ASSUME TarpitAssumption ==
  /\ AddressOf \in [Peers -> Addresses]
  /\ FailCount \in [Thresholds -> Nat \ {0}]
  /\ Window \in [Thresholds -> Nat \ {0}]
  /\ BanScope \in [Bans -> Keys]
  /\ BanAction \in [Bans -> {"trap", "ban"}]
  /\ BanEnds \in [Bans -> Time \cup {Forever}]
  /\ {MaxTime, Forever} \subseteq Nat
  /\ Budgets \subseteq Budget
  /\ \A r \in Thresholds : MaxTime + Window[r] < Forever
  /\ MaxTime < Forever
  /\ Thresholds \cap Bans = {}
  /\ Addresses \cap Accounts = {}
  /\ Nobody \notin Keys \cup Sources
  /\ Nobody \notin Tally

VARIABLES
  now,       \* the clock
  thr,       \* thr[r]: the action of threshold rule r, or "off": disabled or deleted
  bans,      \* bans[b]: rule b does not exist yet, is there, or is deleted
  switch,    \* the setting tarpit_enabled
  left,      \* what is left of the budget
  shared,    \* ThresholdConfig: the copy the SSH side decides by
  refresh,   \* the refresher: its place and what it has read so far
  entry,     \* TarpitState: entry[k]
  logged,    \* the addresses with a 'correct login' row in connection_logs
  peer,      \* peer[c]: where connection c is and what its task has read
  failures   \* history: failures[k][r], when k failed since its tally was empty

tables == <<thr, bans, switch>>
vars == <<now, tables, left, shared, refresh, entry, logged, peer, failures>>

Config == [enabled : BOOLEAN,
           rules : [Thresholds -> {"off", "trap", "ban"}],
           bans : SUBSET Bans]

\* ThresholdConfig::default().
NoConfig == [enabled |-> TRUE, rules |-> [r \in Thresholds |-> "off"], bans |-> {}]

Entry == [known : BOOLEAN,                        \* the map has the key
          tally : [Thresholds -> Tally \cup {Nobody}],
          triggers : Nat,
          drip : BOOLEAN,                         \* banner_drip_eligible
          until : Nat,                            \* 0: not banned
          source : Sources \cup {Nobody}]

NewEntry == [known |-> FALSE, tally |-> [r \in Thresholds |-> Nobody],
             triggers |-> 0, drip |-> TRUE, until |-> 0, source |-> Nobody]

Outcomes == {"unset", "none", "ban", "drip", "slow", "shell"}
Accepting == {"banned", "history", "mark"}
Failing == {"record", "decide", "resolve"}
Peer == [at : Accepting \cup Failing \cup
              {"new", "auth", "logged", "in", "shell", "drip", "closed"},
         account : Accounts \cup {Nobody},
         outcome : Outcomes,
         config : Config,                         \* the copy taken before recording; only
                                                  \* its switch and its rules are used
         seen : [triggers : Nat, drip : BOOLEAN, source : Sources \cup {Nobody}],
         good : BOOLEAN,                          \* history: the address was in logged
         ends : Nat,                              \* history: its last failure left a ban till then
         missed : BOOLEAN]                        \* history: the query of logged failed

NewPeer == [at |-> "new", account |-> Nobody, outcome |-> "unset", config |-> NoConfig,
            seen |-> [triggers |-> 0, drip |-> TRUE, source |-> Nobody],
            good |-> FALSE, ends |-> 0, missed |-> FALSE]

Starting == [at |-> "switch", first |-> TRUE, read |-> NoConfig]

NoFailures == [k \in Keys |-> [r \in Thresholds |-> <<>>]]

Init ==
  /\ now = 0
  /\ thr = [r \in Thresholds |-> "trap"]
  /\ bans = [b \in Bans |-> "none"]
  /\ switch = TRUE
  /\ left \in Budgets
  /\ shared = NoConfig
  /\ refresh = Starting
  /\ entry = [k \in Keys |-> NewEntry]
  /\ logged = {}
  /\ peer = [c \in Peers |-> NewPeer]
  /\ failures = NoFailures

-----------------------------------------------------------------------------
(* The clock and the administrators. *)

Uses(what) == left[what] > 0 /\ left' = [left EXCEPT ![what] = @ - 1]

Tick ==
  /\ Uses("ticks")
  /\ now' = now + 1
  /\ UNCHANGED <<tables, shared, refresh, entry, logged, peer, failures>>

RuleEdit ==
  /\ Uses("edits")
  /\ UNCHANGED <<now, shared, refresh, entry, logged, peer, failures>>

\* PUT, DELETE and restore of /admin/tarpit-thresholds/:id
SetThreshold(r, action) ==
  /\ RuleEdit
  /\ thr' = [thr EXCEPT ![r] = action]
  /\ UNCHANGED <<bans, switch>>

\* POST /admin/ban-rules, and its DELETE and restore
SetBan(b, from, to) ==
  /\ RuleEdit
  /\ bans[b] = from
  /\ bans' = [bans EXCEPT ![b] = to]
  /\ UNCHANGED <<thr, switch>>

\* PUT /admin/tarpit-settings
SetSwitch ==
  /\ RuleEdit
  /\ switch' = ~switch
  /\ UNCHANGED <<thr, bans>>

AdminStep ==
  \/ \E r \in Thresholds, action \in {"off", "trap", "ban"} : SetThreshold(r, action)
  \/ \E b \in Bans : \/ SetBan(b, "none", "there")
                     \/ SetBan(b, "there", "deleted")
                     \/ SetBan(b, "deleted", "there")
  \/ SetSwitch

\* The database refuses a query.
MayFail(fails) == IF fails THEN Uses("faults") ELSE UNCHANGED left

-----------------------------------------------------------------------------
(* refresh_once.  A query that fails reads as its default. *)

Reads(stage, next, field, value) ==
  /\ refresh.at = stage
  /\ \E fails \in BOOLEAN :
       /\ MayFail(fails)
       /\ refresh' = [refresh EXCEPT !.at = next,
                        !.read[field] = IF fails THEN NoConfig[field] ELSE value]
  /\ UNCHANGED <<now, tables, shared, entry, logged, peer, failures>>

ReadSwitch == Reads("switch", "rules", "enabled", switch)
ReadRules == Reads("rules", "bans", "rules", thr)

InForce(b) == bans[b] = "there" /\ now < BanEnds[b]
ReadBans == Reads("bans", "publish", "bans", {b \in Bans : InForce(b)})

Publish ==
  /\ refresh.at = "publish"
  /\ shared' = refresh.read
  /\ refresh' = [refresh EXCEPT !.at = "merge"]
  /\ UNCHANGED <<now, tables, left, entry, logged, peer, failures>>

\* A rule that ends right now still overwrites the entry; of several rules for
\* one key the oldest is written last, and the order of b here is any.
Merge ==
  /\ refresh.at = "merge"
  /\ LET due(k) == {b \in refresh.read.bans : BanScope[b] = k /\ now <= BanEnds[b]}
     IN  \E last \in [Keys -> Bans \cup {Nobody}] :
           /\ \A k \in Keys : IF due(k) = {} THEN last[k] = Nobody ELSE last[k] \in due(k)
           /\ entry' = [k \in Keys |->
                IF last[k] = Nobody THEN entry[k]
                ELSE [entry[k] EXCEPT !.known = TRUE, !.until = BanEnds[last[k]],
                                      !.source = last[k]]]
  /\ refresh' = [Starting EXCEPT !.first = FALSE]
  /\ UNCHANGED <<now, tables, left, shared, logged, peer, failures>>

RefreshStep == ReadSwitch \/ ReadRules \/ ReadBans \/ Publish \/ Merge

-----------------------------------------------------------------------------
(* What a ban in force means. *)

Banned(k) == now < entry[k].until

RoundRobin(n) == IF n % 3 = 0 THEN "drip" ELSE IF n % 3 = 1 THEN "slow" ELSE "shell"

\* Mutant: the rule's action is returned, not what is to be done.
Resolve_Action(source, triggers) ==
  IF source \in Thresholds THEN shared.rules[source]
  ELSE IF source \in shared.bans THEN BanAction[source] ELSE RoundRobin(triggers)

\* resolve_outcome: a rule that is gone traps.
Resolve(source, triggers) ==
  LET hard == IF source \in Thresholds THEN shared.rules[source] = "ban"
              ELSE source \in shared.bans /\ BanAction[source] = "ban"
  IN  IF hard THEN "ban" ELSE RoundRobin(triggers)

KeysOf(c) == {AddressOf[c]} \cup ({peer[c].account} \ {Nobody})

Becomes(c, p) == peer' = [peer EXCEPT ![c] = p]

Closed == [NewPeer EXCEPT !.at = "closed"]

\* A handler starts, with the outcome of the accept loop if there is one.
Handled(outcome) == [NewPeer EXCEPT !.at = "auth", !.outcome = outcome]

-----------------------------------------------------------------------------
(* The accept loop: decide_pre_auth_tarpit, one connection at a time. *)

Accept(c) ==
  LET e == entry[AddressOf[c]]
      p == [peer[c] EXCEPT !.good = AddressOf[c] \in logged]
  IN  /\ ~refresh.first
      /\ \A d \in Peers : peer[d].at \notin Accepting
      /\ peer[c].at = "new"
      /\ Becomes(c, IF Banned(AddressOf[c])
                    THEN [p EXCEPT !.at = "banned",
                                   !.seen = [triggers |-> e.triggers, drip |-> e.drip,
                                             source |-> e.source]]
                    ELSE Handled("unset"))
      /\ UNCHANGED <<now, tables, left, shared, refresh, entry, logged, failures>>

AcceptResolve(c) ==
  LET p == peer[c]
      outcome == Resolve(p.seen.source, p.seen.triggers)
  IN  /\ p.at = "banned"
      /\ Becomes(c, CASE outcome = "ban" -> Closed
                      [] outcome = "drip" ->
                           [p EXCEPT !.at = IF p.seen.drip THEN "history" ELSE "mark",
                                     !.seen = NewPeer.seen]
                      [] OTHER -> Handled(outcome))
      /\ UNCHANGED <<now, tables, left, shared, refresh, entry, logged, failures>>

\* Mutant: only what memory knows of the address counts.
AcceptHistory_MemoryOnly(c) ==
  /\ peer[c].at = "history"
  /\ Becomes(c, [peer[c] EXCEPT !.at = "drip"])
  /\ UNCHANGED <<now, tables, left, shared, refresh, entry, logged, failures>>

\* peer_ip_has_known_good_history; a query that fails reads as FALSE.
AcceptHistory(c) ==
  /\ peer[c].at = "history"
  /\ \E fails \in BOOLEAN :
       LET good == ~fails /\ AddressOf[c] \in logged
       IN  /\ MayFail(fails)
           /\ Becomes(c, [peer[c] EXCEPT !.missed = fails,
                                         !.at = IF good THEN "mark" ELSE "drip"])
  /\ UNCHANGED <<now, tables, shared, refresh, entry, logged, failures>>

AcceptMark(c) ==
  /\ peer[c].at = "mark"
  /\ entry' = [entry EXCEPT ![AddressOf[c]].known = TRUE, ![AddressOf[c]].drip = FALSE]
  /\ Becomes(c, Handled("slow"))
  /\ UNCHANGED <<now, tables, left, shared, refresh, logged, failures>>

-----------------------------------------------------------------------------
(* A failed attempt: record_this_failure, resolve_tarpit_outcome, the answer. *)

\* The answer to a failed attempt: only a key nobody owns, or a password, is let
\* into the fake shell; everything else is refused and may try again.
Answered(p) == [NewPeer EXCEPT
  !.at = IF p.outcome = "shell" /\ p.account = Nobody THEN "shell" ELSE "auth",
  !.outcome = p.outcome]

\* account is Nobody unless the key offered belongs to somebody.
Fail(c, account) ==
  /\ peer[c].at = "auth"
  /\ Uses("failures")
  /\ Becomes(c, [peer[c] EXCEPT !.at = "record", !.account = account,
                             !.config = [shared EXCEPT !.bans = {}]])
  /\ UNCHANGED <<now, tables, shared, refresh, entry, logged, failures>>

Live(rules) == {r \in Thresholds : rules[r] # "off"}

\* Mutant: a tally is never started afresh.
Stale_Never(e, r) == e.tally[r] = Nobody

\* Mutant: the comparison with the window is the wrong way round.
Stale_Inverted(e, r) == e.tally[r] = Nobody \/ now - e.tally[r].since < Window[r]

Stale(e, r) == e.tally[r] = Nobody \/ now - e.tally[r].since > Window[r]

Count(e, r) == IF Stale(e, r) THEN 1 ELSE e.tally[r].n + 1

Tripped(e, rules) == {r \in Live(rules) : Count(e, r) >= FailCount[r]}

\* Of the rules that trip, a "ban" before a "trap", and then the longest window.
Winners(trips, rules) ==
  LET hard == {r \in trips : rules[r] = "ban"}
      best == IF hard = {} THEN trips ELSE hard
  IN  {r \in best : \A s \in best : Window[s] <= Window[r]}

\* record_failure: the entries that e may become.
Recordings(e, rules) ==
  LET trips == Tripped(e, rules)
      counted == [e EXCEPT
        !.known = TRUE,
        !.tally = [r \in Thresholds |->
          CASE r \notin Live(rules) -> e.tally[r]
            [] r \in trips -> [n |-> 0, since |-> now]
            [] OTHER -> [n |-> Count(e, r),
                         since |-> IF Stale(e, r) THEN now ELSE e.tally[r].since]]]
      longest == CHOOSE w \in {Window[r] : r \in trips} : \A r \in trips : Window[r] <= w
  IN  IF trips = {} THEN {counted}
      ELSE {[counted EXCEPT !.triggers = @ + 1, !.until = now + longest, !.source = r]
              : r \in Winners(trips, rules)}

\* History: what the last 2 * FailCount - 1 failures were that r has not acted on.
Remember(past, r, e, rules) ==
  CASE r \notin Live(rules) -> past
    [] r \in Tripped(e, rules) -> <<>>
    [] OTHER -> LET times == Append(past, now)
                IN  IF Len(times) < 2 * FailCount[r] THEN times ELSE Tail(times)

\* History: how long a key with one of these bans stays banned, even if another
\* failure replaces the ban by that of a rule with a shorter window.
Surely(untils) ==
  LET latest == CHOOSE u \in untils : \A v \in untils : v <= u
      ends == {latest} \cup {now + Window[r] : r \in Thresholds}
  IN  CHOOSE u \in ends : \A v \in ends : u <= v

\* record_auth_failure: the address and the account under one lock.
Record(c) ==
  LET p == peer[c]
      rules == p.config.rules
      keys == KeysOf(c)
  IN  /\ p.at = "record"
      /\ IF ~p.config.enabled THEN UNCHANGED <<entry, failures>>
         ELSE /\ \E new \in [keys -> UNION {Recordings(entry[k], rules) : k \in keys}] :
                   /\ \A k \in keys : new[k] \in Recordings(entry[k], rules)
                   /\ entry' = [k \in Keys |-> IF k \in keys THEN new[k] ELSE entry[k]]
              /\ failures' = [k \in Keys |-> IF k \notin keys THEN failures[k]
                   ELSE [r \in Thresholds |-> Remember(failures[k][r], r, entry[k], rules)]]
      /\ Becomes(c, IF p.outcome = "unset"
                    THEN [p EXCEPT !.at = "decide", !.config = NoConfig,
                                   !.ends = Surely({entry'[k].until : k \in keys})]
                    ELSE Answered(p))
      /\ UNCHANGED <<now, tables, left, shared, refresh, logged>>

\* Mutant: the ban of the account is not looked at.
Decide_AddressOnly(c) ==
  LET e == entry[AddressOf[c]]
  IN  /\ peer[c].at = "decide"
      /\ Becomes(c, IF ~Banned(AddressOf[c]) THEN Answered([peer[c] EXCEPT !.outcome = "none"])
                    ELSE [peer[c] EXCEPT !.at = "resolve",
                                         !.seen = [triggers |-> e.triggers, drip |-> FALSE,
                                                   source |-> e.source]])
      /\ UNCHANGED <<now, tables, left, shared, refresh, entry, logged, failures>>

\* decide_in_auth_tarpit, the entries: the account's source before the address's.
Decide(c) ==
  LET p == peer[c]
      barred == {k \in KeysOf(c) : Banned(k)}
      from == IF barred \cap Accounts = {} THEN AddressOf[c] ELSE p.account
      triggers == {entry[k].triggers : k \in barred}
  IN  /\ p.at = "decide"
      /\ Becomes(c, IF barred = {} THEN Answered([p EXCEPT !.outcome = "none"])
                    ELSE [p EXCEPT !.at = "resolve",
                                   !.seen = [triggers |-> CHOOSE n \in triggers :
                                                            \A m \in triggers : m <= n,
                                             drip |-> FALSE, source |-> entry[from].source]])
      /\ UNCHANGED <<now, tables, left, shared, refresh, entry, logged, failures>>

\* decide_in_auth_tarpit, the rules: no banner can be dripped any more.
DecideResolve(c) ==
  LET outcome == Resolve(peer[c].seen.source, peer[c].seen.triggers)
  IN  /\ peer[c].at = "resolve"
      /\ Becomes(c, Answered([peer[c] EXCEPT
                                !.outcome = IF outcome = "drip" THEN "slow" ELSE outcome]))
      /\ UNCHANGED <<now, tables, left, shared, refresh, entry, logged, failures>>

-----------------------------------------------------------------------------
(* A login: the row of connection_logs, which may fail, and then the entries. *)

Login(c, account) ==
  /\ peer[c].at = "auth"
  /\ Becomes(c, [peer[c] EXCEPT !.at = "logged", !.account = account])
  /\ \E fails \in BOOLEAN :
       /\ MayFail(fails)
       /\ logged' = IF fails THEN logged ELSE logged \cup {AddressOf[c]}
  /\ UNCHANGED <<now, tables, shared, refresh, entry, failures>>

\* record_auth_success: a ban stands, and an address not in the map stays out.
RecordSuccess(c) ==
  LET cleared(k) == [entry[k] EXCEPT !.tally = NewEntry.tally]
      address == AddressOf[c]
  IN  /\ peer[c].at = "logged"
      /\ entry' = [k \in Keys |->
                     IF k \notin KeysOf(c) THEN entry[k]
                     ELSE IF k = address /\ entry[k].known THEN [cleared(k) EXCEPT !.drip = FALSE]
                     ELSE cleared(k)]
      /\ failures' = [k \in Keys |-> IF k \in KeysOf(c) THEN NoFailures[k] ELSE failures[k]]
      /\ Becomes(c, [NewPeer EXCEPT !.at = "in"])
      /\ UNCHANGED <<now, tables, left, shared, refresh, logged>>

-----------------------------------------------------------------------------

Leave(c) ==
  /\ peer[c].at \in {"auth", "in", "shell", "drip"}
  /\ Becomes(c, Closed)
  /\ UNCHANGED <<now, tables, left, shared, refresh, entry, logged, failures>>

PeerStep(c) ==
  \/ Accept(c) \/ AcceptResolve(c) \/ AcceptHistory(c) \/ AcceptMark(c)
  \/ \E account \in Accounts \cup {Nobody} : Fail(c, account)
  \/ Record(c) \/ Decide(c) \/ DecideResolve(c)
  \/ \E account \in Accounts : Login(c, account)
  \/ RecordSuccess(c)
  \/ Leave(c)

\* The process ends and is started again; the database stays.
Restart ==
  /\ Uses("restarts")
  /\ shared' = NoConfig
  /\ refresh' = Starting
  /\ entry' = [k \in Keys |-> NewEntry]
  /\ peer' = [c \in Peers |-> IF peer[c].at = "new" THEN NewPeer ELSE Closed]
  /\ failures' = NoFailures
  /\ UNCHANGED <<now, tables, logged>>

Next == Tick \/ AdminStep \/ RefreshStep \/ Restart \/ \E c \in Peers : PeerStep(c)

Spec == Init /\ [][Next]_vars

-----------------------------------------------------------------------------
(* Properties *)

\* The tarpit's state is well formed (the structs of tarpit/mod.rs).
TypeOK ==
  /\ now \in Time
  /\ thr \in [Thresholds -> {"off", "trap", "ban"}]
  /\ bans \in [Bans -> {"none", "there", "deleted"}]
  /\ switch \in BOOLEAN
  /\ left \in Budget
  /\ shared \in Config
  /\ refresh \in [at : {"switch", "rules", "bans", "publish", "merge"}, first : BOOLEAN,
                  read : Config]
  /\ entry \in [Keys -> Entry]
  /\ logged \subseteq Addresses
  /\ peer \in [Peers -> Peer]
  /\ failures \in [Keys -> [Thresholds -> Seq(Time)]]

\* An address with a login in the log when its connection came in is not
\* dripped at, whatever was forgotten since, unless the query of the log failed.
KnownGoodNotDripped ==
  \A c \in Peers : peer[c].at = "drip" /\ peer[c].good => peer[c].missed

\* A threshold rule bans only after its fail_count of failures, this one
\* included, within its window, whatever the other tasks and keys did between.
NoEarlyBan ==
  [][\A k \in Keys : entry'[k].triggers > entry[k].triggers =>
       LET r == entry'[k].source
           past == failures[k][r]
           older == FailCount[r] - 1
       IN  /\ Len(past) >= older
           /\ \A i \in 1 .. Len(past) : i + older > Len(past) => past[i] + Window[r] >= now]_vars

\* A rule whose counting restarts at a failure can miss some, but never
\* 2 * fail_count - 1 within one window.
NoLateBan ==
  \A k \in Keys, r \in Thresholds :
    LET times == failures[k][r]
    IN  Len(times) >= 2 * FailCount[r] - 1 => times[1] + Window[r] < times[Len(times)]

\* A failure that leaves its address or account banned is not answered as if it
\* were not, within the shortest window: the outcome is decided after recording,
\* and from both keys.  A ban rule that has ended may have cut the ban short.
FailureDecides ==
  [][\A c \in Peers : peer[c].outcome = "unset" /\ peer'[c].outcome = "none" =>
       \/ now >= peer[c].ends
       \/ \E b \in Bans : BanScope[b] \in KeysOf(c) /\ BanEnds[b] <= now]_vars
=============================================================================
