---------------------------- MODULE SplitLedger ----------------------------
(***************************************************************************)
(* What the forward direction of sync-splits promises to someone who works *)
(* on ai/UNCLEAN/<branch> only.  The work is a growing collection of       *)
(* numbered states of the tree.  Each side shows its part of one of these  *)
(* states, never a mixture of two, and its cursor never names work that    *)
(* the side has not shown.  What is shown may be shown again, and a side   *)
(* may fall back, but never behind its cursor; only the undo commands of   *)
(* the recovery log take a cursor back.                                    *)
(***************************************************************************)
EXTENDS Integers

CONSTANT LedgerSides

VARIABLES
    work,      \* work[n][side]: the side's part of the state numbered n
    view,      \* view[side]: what the side's branch shows of it
    acked,     \* acked[side]: the cursor, 0 before the first sync
    attached   \* nobody but forward sync has written to the sides

vars == <<work, view, acked, attached>>

Init ==
    attached => \A side \in LedgerSides :
                   /\ acked[side] = 0
                   /\ \E n \in DOMAIN work : view[side] = work[n][side]

\* The author commits to the work branch.
Edit ==
    /\ \E new \in DOMAIN work' :
          /\ DOMAIN work = DOMAIN work' \ {new}
          /\ \A n \in DOMAIN work : n < new /\ work'[n] = work[n]
    /\ UNCHANGED <<view, acked, attached>>

\* A side is brought to a state of the work at or after its cursor.
Show(side) ==
    /\ \E n \in DOMAIN work :
          /\ n >= acked[side]
          /\ view' = [view EXCEPT ![side] = work[n][side]]
    /\ UNCHANGED <<work, acked, attached>>

\* The cursor advances to a state that the side shows.
Ack(side) ==
    /\ \E n \in DOMAIN work :
          /\ n >= acked[side]
          /\ view[side] = work[n][side]
          /\ acked' = [acked EXCEPT ![side] = n]
    /\ UNCHANGED <<work, view, attached>>

\* The logged undo commands put both sides back to where a run found them.
Undo ==
    /\ \A side \in LedgerSides :
          /\ acked'[side] <= acked[side]
          /\ \E n \in DOMAIN work : view'[side] = work[n][side]
    /\ UNCHANGED <<work, attached>>

\* Someone else writes to a side: nothing more is promised.
Detach == ~attached'

Next ==
    \/ attached /\ (Edit \/ Undo \/ \E side \in LedgerSides : Show(side) \/ Ack(side))
    \/ Detach

Spec == Init /\ [][Next]_vars
=============================================================================
