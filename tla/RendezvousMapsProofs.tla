------------------------ MODULE RendezvousMapsProofs ------------------------
(***************************************************************************)
(* The three maps that remember a bridge (bridges, bridge_ids and the      *)
(* shared active_tunnels) agree, and a tunnel of the fast path leaves the  *)
(* dashboard when it ends, for any number of connections and channels.     *)
(***************************************************************************)
EXTENDS RendezvousProofs

USE DEF Resting, NewChannel

\* The task of x's connection is at one of the stages, and at it for x.
Busy(x, stages) == job[x[1]].at \in stages /\ job[x[1]].on = x[2]

\* The callback that opens x has put it into bridges, and into active_tunnels;
\* channel_close has yet to take x out of bridge_ids.
Wired(x) == chan[x].st = "asked" /\ Busy(x, {"list", "index"})
Listed(x) == chan[x].st = "asked" /\ Busy(x, {"index"})
Closing(x) == Busy(x, {"unindex"})

\* Where a channel of the fast path is in the maps, by its state and the place
\* of the callback that works on it.  Drop's task may have cleared the last map.
FastMaps(x) ==
  /\ chan[x].st = "asked" => Busy(x, DirectStages)
  /\ Closing(x) => chan[x].st = "closed"
  /\ late[x] = "none" =>
       /\ x \in bridges <=> (chan[x].st = "confirmed" \/ Wired(x))
       /\ x \in bridgeIds <=> (chan[x].st = "confirmed" \/ Closing(x))
       /\ x \in activeTunnels => (x \in bridgeIds \/ Listed(x))
       /\ Listed(x) => x \in activeTunnels
       /\ x \in bridgeIds /\ phase[x[1]] = "open" => x \in activeTunnels

\* The same for a channel of the slow path: by the place of its own task, which
\* runs on when the client has closed the channel.
LateMaps(x) ==
  late[x] # "none" =>
    /\ chan[x].st \in {"confirmed", "closed"}
    /\ late[x] # "done" => x \notin bridgeIds /\ x \notin doomed[x[1]]
    /\ late[x] # "done" => (x \in activeTunnels <=> late[x] = "index")
    /\ late[x] \in {"list", "index", "done"} /\ chan[x].st = "confirmed" => x \in bridges
    /\ late[x] = "done" =>
         /\ chan[x].st = "confirmed" => x \in bridgeIds
         /\ phase[x[1]] = "open" => (x \in bridgeIds <=> x \in activeTunnels)
    /\ late[x] \notin {"list", "index", "done"} => x \notin bridges

\* Drop's clean-up has collected, and then cleared, every fast tunnel.
SweptMaps(x) ==
  LET c == x[1]
  IN  /\ tunnelSweep[c] # "none" => phase[c] = "dropped"
      /\ tunnelSweep[c] \in {"none", "due"} => x \notin doomed[c]
      /\ \A d \in Conns : x \in doomed[d] => d = c
      /\ late[x] = "none" =>
           /\ tunnelSweep[c] = "sweep" /\ x \in bridgeIds => x \in doomed[c]
           /\ tunnelSweep[c] = "done" => x \notin activeTunnels

Placed(x) == FastMaps(x) /\ LateMaps(x) /\ SweptMaps(x)
MapInv == \A x \in Channels : Placed(x)

-----------------------------------------------------------------------------

LEMMA InitMaps == Init => MapInv
  BY DEF Init, MapInv, Placed, FastMaps, LateMaps, SweptMaps, Busy, Wired, Listed, Closing,
         Channels

LEMMA SetVia ==
  ASSUME TypeOK, NEW x \in Channels, NEW c, chan' = [chan EXCEPT ![x].via = c]
  PROVE  \A y \in Channels : chan'[y].st = chan[y].st
  <1>. chan \in [Channels -> Channel] /\ chan[x] \in Channel
    BY DEF TypeOK
  <1>. QED BY DEF Channel

\* Every step keeps MapInv: a step of another connection or another channel does
\* not disturb where x is.
LEMMA NextMaps ==
  ASSUME TypeOK, Shape, MapInv, [Next]_vars
  PROVE  MapInv'
  <1>. SUFFICES ASSUME NEW x \in Channels PROVE Placed(x)'
    BY DEF MapInv, Channels
  <1>. USE RendezvousAssumption, StageSets
       DEF Placed, FastMaps, LateMaps, SweptMaps, Busy, Wired, Listed, Closing, Current,
           connVars, mapVars, sweepVars
  <1>x. x[1] \in Conns /\ x[2] \in Chans /\ x = <<x[1], x[2]>>
    BY DEF Channels
  <1>ty. /\ job \in [Conns -> Job]
         /\ chan \in [Channels -> Channel]
         /\ late \in [Channels -> {"none", "lapsed", "done"} \cup LateStages]
         /\ phase \in [Conns -> {"new", "open", "dropped"}]
         /\ tunnelSweep \in [Conns -> {"none", "due", "sweep", "done"}]
         /\ doomed \in [Conns -> SUBSET Channels]
    BY DEF TypeOK
  <1>inv. Placed(x)
    BY DEF MapInv
  <1>sh. /\ job[x[1]].at # "idle" => phase[x[1]] = "open"
         /\ chan[x].st # "free" => phase[x[1]] # "new"
         /\ chan[x].st = "free" => late[x] = "none"
         /\ job[x[1]].at \in DirectStages => chan[Current(x[1])].st = "asked"
    BY <1>x DEF Shape
  <1>1. ASSUME NEW c \in Conns, NEW e \in Entities, Login(c, e) PROVE Placed(x)'
    BY <1>1, <1>x, <1>ty, <1>inv, <1>sh DEF Login
  <1>2. ASSUME NEW c \in Conns, NEW p \in Ports, Forward(c, p) PROVE Placed(x)'
    BY <1>2, <1>x, <1>ty, <1>inv, <1>sh DEF Forward, Free, Start
  <1>3. ASSUME NEW c \in Conns, NEW p \in Ports, CancelForward(c, p) PROVE Placed(x)'
    BY <1>3, <1>x, <1>ty, <1>inv, <1>sh DEF CancelForward
  <1>4. ASSUME NEW c \in Conns, NEW h \in Chans, NEW t \in Entities, NEW p \in Ports,
               Dial(c, h, t, p)
        PROVE  Placed(x)'
    <2>1. CASE x = <<c, h>>
      <3>1. chan'[x].st = "asked" /\ job'[c] = [at |-> "target", on |-> h]
        BY <1>4, <1>x, <1>ty, <2>1 DEF Dial, Start
      <3>2. /\ x[1] = c /\ x[2] = h
            /\ job[x[1]].at = "idle" /\ phase[x[1]] = "open"
            /\ chan[x].st = "free" /\ late[x] = "none"
        BY <1>4, <1>sh, <2>1 DEF Dial, Free
      <3>3. x \notin bridges /\ x \notin bridgeIds /\ x \notin activeTunnels
        BY <1>inv, <3>2
      <3>4. FastMaps(x)' /\ LateMaps(x)'
        BY <1>4, <3>1, <3>2, <3>3 DEF Dial
      <3>5. SweptMaps(x)'
        BY <1>4, <1>inv DEF Dial
      <3>. QED BY <3>4, <3>5
    <2>2. CASE x # <<c, h>>
      <3>1. chan'[x] = chan[x]
        BY <1>4, <1>x, <1>ty, <2>2 DEF Dial
      <3>. QED BY <1>4, <1>x, <1>ty, <1>inv, <1>sh, <2>2, <3>1 DEF Dial, Free, Start
    <2>. QED BY <2>1, <2>2
  <1>5. ASSUME NEW c \in Conns, NEW h \in Chans, ClientClose(c, h) PROVE Placed(x)'
    <2>1. CASE x = <<c, h>>
      <3>1. chan'[x].st = "closed" /\ job'[c] = [at |-> "unindex", on |-> h]
        BY <1>5, <1>x, <1>ty, <2>1 DEF ClientClose, Start, Channel
      <3>. QED BY <1>5, <1>x, <1>ty, <1>inv, <1>sh, <2>1, <3>1 DEF ClientClose, Free
    <2>2. CASE x # <<c, h>>
      <3>1. chan'[x] = chan[x]
        BY <1>5, <1>x, <1>ty, <2>2 DEF ClientClose
      <3>. QED BY <1>5, <1>x, <1>ty, <1>inv, <1>sh, <2>2, <3>1 DEF ClientClose, Free, Start
    <2>. QED BY <2>1, <2>2
  <1>6. ASSUME NEW c \in Conns, Disconnect(c) PROVE Placed(x)'
    BY <1>6, <1>x, <1>ty, <1>inv, <1>sh DEF Disconnect, Free
  <1>7. ASSUME NEW c \in Conns, FindConfig(c) \/ CreateConfig(c) PROVE Placed(x)'
    <2>1. PICK to \in {"putSlot", "createConfig"} : Goto(c, to)
      BY <1>7 DEF FindConfig, CreateConfig
    <2>. QED BY ZenonT(60), <1>7, <1>x, <1>ty, <1>inv, <1>sh, <2>1 DEF FindConfig, CreateConfig, Goto
  <1>8. ASSUME NEW c \in Conns, PutSlot(c) PROVE Placed(x)'
    BY <1>8, <1>x, <1>ty, <1>inv, <1>sh DEF PutSlot, Finish
  <1>9. ASSUME NEW c \in Conns,
               FindTarget(c) \/ FindService(c) \/ FindSubscription(c) \/ CheckAccess(c)
        PROVE  Placed(x)'
    <2>1. job[c].at \in CheckStages /\ Current(c) \in Channels
      BY <1>9, CurrentIsChannel
      DEF FindTarget, FindService, FindSubscription, CheckAccess, Passes
    <2>2. PICK to \in CheckStages \cup {"lookup"} : Goto(c, to)
      BY <1>9 DEF FindTarget, FindService, FindSubscription, CheckAccess, Passes
    <2>3. chan'[x].st = chan[x].st
      BY <1>9, <1>ty, <2>1, SetCfg
      DEF FindTarget, FindService, FindSubscription, CheckAccess
    <2>. QED BY <1>9, <1>x, <1>ty, <1>inv, <1>sh, <2>1, <2>2, <2>3
         DEF FindTarget, FindService, FindSubscription, CheckAccess, Passes, Goto
  <1>10. ASSUME NEW c \in Conns, Refuse(c) \/ OpenFailed(c) PROVE Placed(x)'
    <2>1. job[c].at \in CheckStages \cup {"open"} /\ Current(c) \in Channels
      BY <1>10, CurrentIsChannel DEF Refuse, OpenFailed
    <2>2. chan' = [chan EXCEPT ![Current(c)].st = "refused"]
      BY <1>10 DEF Refuse, OpenFailed
    <2>3. /\ x = Current(c) => chan'[x].st = "refused"
          /\ x # Current(c) => chan'[x] = chan[x]
      BY <1>ty, <2>1, <2>2 DEF Channel
    <2>. QED BY SMTT(30), <1>10, <1>x, <1>ty, <1>inv, <1>sh, <2>1, <2>3 DEF Refuse, OpenFailed, Finish
  <1>11. ASSUME NEW c \in Conns, LookUpSlot(c) PROVE Placed(x)'
    <2>1. job[c].at = "lookup" /\ Current(c) \in Channels
      BY <1>11, CurrentIsChannel DEF LookUpSlot
    <2>2. CASE /\ Goto(c, "open")
               /\ chan' = [chan EXCEPT ![Current(c)].via = slots[chan[Current(c)].svc]]
               /\ UNCHANGED late
      <3>1. chan'[x].st = chan[x].st
        BY <2>1, <2>2, SetVia
      <3>. QED BY <1>11, <1>x, <1>ty, <1>inv, <1>sh, <2>1, <2>2, <3>1 DEF LookUpSlot, Goto
    <2>3. CASE /\ Finish(c)
               /\ chan' = [chan EXCEPT ![Current(c)].st = "confirmed"]
               /\ late' = [late EXCEPT ![Current(c)] = "poll"]
      <3>1. /\ x = Current(c) => chan'[x].st = "confirmed" /\ late'[x] = "poll"
            /\ x # Current(c) => chan'[x] = chan[x] /\ late'[x] = late[x]
        BY <1>ty, <2>1, <2>3 DEF Channel
      <3>2. chan[Current(c)].st = "asked"
        BY <2>1 DEF Shape
      <3>. QED BY SMTT(30), <1>11, <1>x, <1>ty, <1>inv, <1>sh, <2>1, <2>3, <3>1, <3>2
           DEF LookUpSlot, Finish
    <2>. QED BY <1>11, <2>2, <2>3 DEF LookUpSlot
  <1>12. ASSUME NEW c \in Conns, Opened(c) \/ Wire(c) \/ List(c) PROVE Placed(x)'
    <2>1. job[c].at \in {"open", "wire", "list"} /\ Current(c) \in Channels
      BY <1>12, CurrentIsChannel DEF Opened, Passes, Wire, List
    <2>2. chan[Current(c)].st = "asked" /\ phase[c] = "open"
      BY <2>1 DEF Shape
    <2>. QED BY <1>12, <1>x, <1>ty, <1>inv, <1>sh, <2>1, <2>2
         DEF Opened, Passes, Wire, List, Goto
  <1>13. ASSUME NEW c \in Conns, Index(c) PROVE Placed(x)'
    <2>1. job[c].at = "index" /\ Current(c) \in Channels
      BY <1>13, CurrentIsChannel DEF Index
    <2>2. chan[Current(c)].st = "asked" /\ phase[c] = "open"
      BY <2>1 DEF Shape
    <2>3. /\ x = Current(c) => chan'[x].st = "confirmed"
          /\ x # Current(c) => chan'[x] = chan[x]
      BY <1>13, <1>ty, <2>1 DEF Index, Channel
    <2>. QED BY <1>13, <1>x, <1>ty, <1>inv, <1>sh, <2>1, <2>2, <2>3 DEF Index, Finish
  <1>14. ASSUME NEW c \in Conns, Unindex(c) PROVE Placed(x)'
    BY <1>14, <1>x, <1>ty, <1>inv, <1>sh DEF Unindex, Finish
  <1>15. ASSUME NEW c \in Conns, SweepStep(c) PROVE Placed(x)'
    <2>1. CASE SweepSlots(c)
      BY <1>x, <1>ty, <1>inv, <1>sh, <2>1 DEF SweepSlots
    <2>2. CASE CollectTunnels(c)
      BY <1>x, <1>ty, <1>inv, <1>sh, <2>2 DEF CollectTunnels
    <2>3. CASE SweepTunnels(c)
      BY <1>x, <1>ty, <1>inv, <1>sh, <2>3 DEF SweepTunnels
    <2>. QED BY <1>15, <2>1, <2>2, <2>3 DEF SweepStep
  <1>16. ASSUME NEW y \in Channels, LateStep(y) \/ LateOpenStep(y) PROVE Placed(x)'
    <2>. USE DEF LateGoto
    <2>1. CASE LateFind(y)
      <3>1. chan'[x].st = chan[x].st
        BY <1>ty, <2>1 DEF LateFind, Channel
      <3>. QED BY <1>x, <1>ty, <1>inv, <1>sh, <2>1, <3>1 DEF LateFind
    <2>2. CASE LateTimeout(y) \/ LateOpened(y) \/ LateOpenFailed(y)
      BY <1>x, <1>ty, <1>inv, <1>sh, <2>2 DEF LateTimeout, LateOpened, LateOpenFailed
    <2>3. CASE LateWire(y)
      BY <1>x, <1>ty, <1>inv, <1>sh, <2>3 DEF LateWire
    <2>4. CASE LateList(y)
      BY <1>x, <1>ty, <1>inv, <1>sh, <2>4 DEF LateList
    <2>5. CASE LateIndex(y)
      BY <1>x, <1>ty, <1>inv, <1>sh, <2>5 DEF LateIndex
    <2>. QED BY <1>16, <2>1, <2>2, <2>3, <2>4, <2>5 DEF LateStep, LateOpenStep
  <1>17. ASSUME EditStep \/ UNCHANGED vars PROVE Placed(x)'
    BY <1>17, <1>inv DEF EditStep, vars
  <1>. QED
    BY <1>1, <1>2, <1>3, <1>4, <1>5, <1>6, <1>7, <1>8, <1>9, <1>10, <1>11, <1>12, <1>13,
       <1>14, <1>15, <1>16, <1>17
    DEF Next, ClientStep, TaskStep, OpenStep

LEMMA MapsHold == Spec => []MapInv
  <1>1. TypeOK /\ Shape /\ MapInv /\ [Next]_vars => MapInv'
    BY NextMaps
  <1>. QED BY <1>1, InitMaps, ShapeHolds, PTL DEF Spec

\* While nobody is at work on a channel of a live connection, bridge_ids and
\* active_tunnels agree about it, and an open channel is in every map.
THEOREM MapsSafe == Spec => []MapsAgree
  <1>1. TypeOK /\ Shape /\ MapInv => MapsAgree
    <2>. SUFFICES ASSUME MapInv, NEW x \in Channels,
                         phase[x[1]] = "open", job[x[1]] = Resting, SetUpFinished(x)
                  PROVE  /\ x \in bridgeIds <=> x \in activeTunnels
                         /\ chan[x].st = "confirmed" => x \in bridges /\ x \in bridgeIds
                         /\ x \in bridges \cup bridgeIds =>
                              chan[x].st = "confirmed" \/ late[x] = "done"
      BY DEF MapsAgree
    <2>1. FastMaps(x) /\ LateMaps(x)
      BY DEF MapInv, Placed
    <2>. QED BY <2>1, StageSets
         DEF FastMaps, LateMaps, Busy, Wired, Listed, Closing, SetUpFinished
  <1>. QED BY <1>1, MapsHold, ShapeHolds, PTL

\* A tunnel of the fast path is off the dashboard when its channel has been closed
\* or its connection has been cleaned up after.
THEOREM TunnelsEndSafe == Spec => []FastTunnelsEnd
  <1>1. TypeOK /\ Shape /\ MapInv => FastTunnelsEnd
    BY StageSets
    DEF TypeOK, MapInv, Placed, FastMaps, SweptMaps, Busy, Listed, Closing, FastTunnelsEnd,
        Ended
  <1>. QED BY <1>1, MapsHold, ShapeHolds, PTL
=============================================================================
