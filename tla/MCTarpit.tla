------------------------------ MODULE MCTarpit ------------------------------
(* Small instances of the tarpit. *)
EXTENDS Tarpit

CONSTANTS ip, user, c1, c2, quick, onIp, onUser

\* Every connection comes from the one address.
OneAddress == [c \in Peers |-> ip]

\* The threshold trips at the second failure of two ticks.
Counts == [r \in Thresholds |-> 2]
Windows == [r \in Thresholds |-> 1]

Scopes == [b \in Bans |-> IF b = onIp THEN ip ELSE user]
Actions == [b \in Bans |-> IF b = onIp THEN "trap" ELSE "ban"]
\* The rule on the address ends, the one on the account does not.
OneEnds == [b \in Bans |-> IF b = onIp THEN MaxTime ELSE Forever]

\* Counting over time with one edit; and a restart and failing queries.
MCBudgets ==
  {[ticks |-> 2, failures |-> 3, edits |-> 1, restarts |-> 0, faults |-> 0],
   [ticks |-> 1, failures |-> 1, edits |-> 1, restarts |-> 1, faults |-> 2]}

Symmetric == Permutations(Peers)
=============================================================================
