-------------------------- MODULE RendezvousProofs --------------------------
(***************************************************************************)
(* Safety of the rendezvous for any number of machines, ports, services,   *)
(* connections, channels and edits.                                        *)
(***************************************************************************)
EXTENDS Rendezvous, TLAPS

USE DEF Resting, NewChannel, AnyConfig

-----------------------------------------------------------------------------
(* The inductive invariant. *)

\* Only a live connection's task works, only a logged-in connection has channels,
\* and what a callback works on was asked for.  TypeOK is inductive with it.
Shape ==
  /\ \A c \in Conns :
       /\ job[c].at # "idle" => phase[c] = "open"
       /\ phase[c] # "new" => who[c] \in Entities
       /\ slotSweep[c] # "none" => phase[c] = "dropped"
       /\ job[c].at \in DirectStages => chan[Current(c)].st = "asked"
  /\ \A x \in Channels :
       /\ chan[x].st # "free" => /\ chan[x].svc \in Services
                                 /\ phase[x[1]] # "new"
                                 /\ chan[x].asked <= edits
       /\ chan[x].st = "free" => late[x] = "none" /\ x \notin bridges

\* The callback that confirms a channel has its bridges entry in place.
FastInv ==
  /\ FastPathNeverDrops
  /\ \A c \in Conns : job[c].at \in {"list", "index"} => Current(c) \in bridges

\* The connection a channel is being bridged to, or is bridged to, is one of the
\* machine that was dialed.
Routed(x) ==
  /\ chan[x].via \in Conns
  /\ who[chan[x].via] = chan[x].svc[1]
  /\ phase[chan[x].via] # "new"

RouteInv ==
  /\ \A c \in Conns : job[c].at \in SetUpStages => Routed(Current(c))
  /\ \A x \in Channels : late[x] \in SetUpStages \/ x \in bridges => Routed(x)

\* Rows are inserted in the order of their ids.
RowInv ==
  /\ \A i \in ConfigIds : i > created => svcOf[i] = None
  /\ \A i \in enabled : i <= created

\* What the look-ups before stage "at" have established for channel x, as long as
\* nobody has edited the tables since it was asked for.
Knows(x, at) ==
  chan[x].asked = edits =>
    /\ at # "target" => chan[x].svc[1] \notin deleted
    /\ at \in {"subscription", "access"} => IsOldestEnabled(chan[x].cfg, chan[x].svc)
    /\ at = "access" => Subscribed(who[x[1]], chan[x].cfg)
    /\ at \in {"lookup"} \cup SetUpStages => Authorised(who[x[1]], chan[x].svc)

AuthInv ==
  /\ \A c \in Conns : job[c].at \in DirectStages => Knows(Current(c), job[c].at)
  /\ \A x \in Channels : late[x] # "none" \/ x \in bridges => Knows(x, "index")

-----------------------------------------------------------------------------
(* Types. *)

LEMMA CurrentIsChannel ==
  ASSUME TypeOK, NEW c \in Conns, job[c].at \in DirectStages \cup {"unindex"}
  PROVE  Current(c) \in Channels /\ chan[Current(c)] \in Channel
  <1>1. job[c] \in Job
    BY DEF TypeOK
  <1>2. job[c].on \in Chans
    BY <1>1 DEF Job, ForwardStages, DirectStages, CheckStages, SetUpStages
  <1>. QED BY <1>2 DEF Current, Channels, TypeOK

LEMMA CurrentIsPort ==
  ASSUME TypeOK, NEW c \in Conns, job[c].at \in ForwardStages
  PROVE  job[c].on \in Ports
  <1>1. job[c] \in Job
    BY DEF TypeOK
  <1>. QED BY <1>1 DEF Job, ForwardStages, DirectStages, CheckStages, SetUpStages

LEMMA GotoType ==
  ASSUME TypeOK, NEW c \in Conns, NEW stage, Goto(c, stage),
         \/ job[c].at \in ForwardStages /\ stage \in ForwardStages
         \/ job[c].at \in DirectStages /\ stage \in DirectStages
  PROVE  job' \in [Conns -> Job]
  <1>1. job[c] \in Job
    BY DEF TypeOK
  <1>2. [at |-> stage, on |-> job[c].on] \in Job
    <2>1. CASE job[c].at \in ForwardStages
      BY <1>1, <2>1 DEF Job, ForwardStages, DirectStages, CheckStages, SetUpStages
    <2>2. CASE job[c].at \in DirectStages
      BY <1>1, <2>2 DEF Job, ForwardStages, DirectStages, CheckStages, SetUpStages
    <2>. QED BY <2>1, <2>2
  <1>. QED BY <1>2 DEF Goto, TypeOK

LEMMA StartType ==
  ASSUME TypeOK, NEW c \in Conns, NEW stage, NEW on, Start(c, stage, on),
         \/ stage \in ForwardStages /\ on \in Ports
         \/ stage \in DirectStages \cup {"unindex"} /\ on \in Chans
  PROVE  job' \in [Conns -> Job]
  <1>1. [at |-> stage, on |-> on] \in Job
    BY DEF Job
  <1>. QED BY <1>1 DEF Start, TypeOK

LEMMA FinishType ==
  ASSUME TypeOK, NEW c \in Conns, Finish(c)
  PROVE  job' \in [Conns -> Job]
  <1>1. Resting \in Job
    BY DEF Job
  <1>. QED BY <1>1 DEF Finish, TypeOK

\* The initial state is well typed.
LEMMA InitType == Init => TypeOK
  <1>. SUFFICES ASSUME Init PROVE TypeOK
    OBVIOUS
  <1>. USE ServicesAssumption, RendezvousAssumption
  <1>1. ServicesTypeOK
    <2>1. svcOf \in [ConfigIds -> Services \cup {None}]
      BY DEF Init, DbInit, ConfigIds
    <2>2. enabled \subseteq ConfigIds /\ created \in 0 .. MaxConfigs
      BY DEF Init, DbInit, ConfigIds
    <2>3. subs \in [Entities \X ConfigIds -> SubState]
      BY DEF Init, DbInit, SubState
    <2>. QED BY <2>1, <2>2, <2>3 DEF Init, DbInit, ServicesTypeOK
  <1>2. Resting \in Job
    BY DEF Job
  <1>3. NewChannel \in Channel
    BY DEF Channel
  <1>. QED BY <1>1, <1>2, <1>3 DEF Init, TypeOK

\* An edit through a web route keeps the tables well typed.
LEMMA EditType ==
  ASSUME ServicesTypeOK, DbEdit
  PROVE  ServicesTypeOK'
  <1>. USE ServicesAssumption DEF ServicesTypeOK, ConfigIds, Edit, Row
  <1>1. ASSUME NEW s \in Services, NEW on \in BOOLEAN, CreatePort(s, on)
        PROVE  ServicesTypeOK'
    <2>1. created + 1 \in ConfigIds /\ created' \in 0 .. MaxConfigs /\ edits' \in 0 .. MaxEdits
      BY <1>1 DEF CreatePort
    <2>2. svcOf' \in [ConfigIds -> Services \cup {None}] /\ enabled' \subseteq ConfigIds
      BY <1>1, <2>1 DEF CreatePort
    <2>. QED BY <1>1, <2>1, <2>2 DEF CreatePort
  <1>2. ASSUME NEW i \in ConfigIds, NEW p \in Ports, NEW on \in BOOLEAN, UpdatePort(i, p, on)
        PROVE  ServicesTypeOK'
    BY <1>2 DEF UpdatePort, Services
  <1>3. ASSUME NEW i \in ConfigIds, DeletePort(i)
        PROVE  ServicesTypeOK'
    BY <1>3 DEF DeletePort, SubState
  <1>4. ASSUME NEW e \in Entities, NEW i \in ConfigIds, NEW on \in BOOLEAN,
               CreateSubscription(e, i, on)
        PROVE  ServicesTypeOK'
    BY <1>4 DEF CreateSubscription, SubState
  <1>5. ASSUME NEW e \in Entities, NEW i \in ConfigIds, NEW to \in SubState,
               ChangeSubscription(e, i, to)
        PROVE  ServicesTypeOK'
    BY <1>5 DEF ChangeSubscription
  <1>6. ASSUME NEW t \in Entities, NEW ss \in Subjects, NEW i \in ConfigIds \cup {AnyConfig},
               CreateAccess([target |-> t, subjects |-> ss, scope |-> i])
        PROVE  ServicesTypeOK'
    <2>1. ss \subseteq Entities
      BY DEF Subjects, SameOwner
    <2>2. [target |-> t, subjects |-> ss, scope |-> i] \in Grant
      BY <2>1 DEF Grant
    <2>. QED BY <1>6, <2>2 DEF CreateAccess
  <1>7. ASSUME NEW g \in grants, DeleteAccess(g)
        PROVE  ServicesTypeOK'
    BY <1>7 DEF DeleteAccess
  <1>8. ASSUME NEW e \in Entities, DeleteEntity(e)
        PROVE  ServicesTypeOK'
    BY <1>8 DEF DeleteEntity
  <1>. QED BY ZenonT(60), <1>1, <1>2, <1>3, <1>4, <1>5, <1>6, <1>7, <1>8 DEF DbEdit

\* Every step keeps the types: the rows by EditType or CreateConfig, the task's
\* place by the lemmas on Goto, Start and Finish.
LEMMA NextType ==
  ASSUME TypeOK, Shape, [Next]_vars
  PROVE  TypeOK'
  <1>. USE RendezvousAssumption DEF connVars, mapVars, sweepVars
  <1>db. ASSUME UNCHANGED dbVars PROVE ServicesTypeOK'
    BY <1>db DEF TypeOK, ServicesTypeOK, dbVars
  <1>1. ASSUME NEW c \in Conns, NEW e \in Entities, Login(c, e) PROVE TypeOK'
    BY <1>1, <1>db DEF Login, TypeOK
  <1>2. ASSUME NEW c \in Conns, NEW p \in Ports, Forward(c, p) PROVE TypeOK'
    BY <1>2, <1>db, StartType DEF Forward, TypeOK, ForwardStages
  <1>3. ASSUME NEW c \in Conns, NEW p \in Ports, CancelForward(c, p) PROVE TypeOK'
    BY <1>3, <1>db DEF CancelForward, TypeOK
  <1>4. ASSUME NEW c \in Conns, NEW h \in Chans, NEW t \in Entities, NEW p \in Ports,
               Dial(c, h, t, p)
        PROVE  TypeOK'
    <2>1. job' \in [Conns -> Job]
      BY <1>4, StartType DEF Dial, DirectStages, CheckStages
    <2>2. [NewChannel EXCEPT !.st = "asked", !.svc = <<t, p>>, !.asked = edits] \in Channel
      BY DEF Channel, Services, TypeOK, ServicesTypeOK
    <2>3. chan' \in [Channels -> Channel]
      BY <1>4, <2>2 DEF Dial, TypeOK, Channels
    <2>. QED BY <1>4, <1>db, <2>1, <2>3 DEF Dial, TypeOK
  <1>5. ASSUME NEW c \in Conns, NEW h \in Chans, ClientClose(c, h) PROVE TypeOK'
    <2>1. job' \in [Conns -> Job]
      BY <1>5, StartType DEF ClientClose
    <2>2. <<c, h>> \in Channels /\ chan[<<c, h>>] \in Channel
      BY DEF Channels, TypeOK
    <2>3. chan' \in [Channels -> Channel]
      BY <1>5, <2>2 DEF ClientClose, TypeOK, Channel
    <2>. QED BY <1>5, <1>db, <2>1, <2>3 DEF ClientClose, TypeOK
  <1>6. ASSUME NEW c \in Conns, Disconnect(c) PROVE TypeOK'
    BY <1>6, <1>db DEF Disconnect, TypeOK
  <1>7. ASSUME NEW c \in Conns, FindConfig(c) PROVE TypeOK'
    BY <1>7, <1>db, GotoType DEF FindConfig, TypeOK, ForwardStages
  <1>8. ASSUME NEW c \in Conns, CreateConfig(c) PROVE TypeOK'
    <2>1. job' \in [Conns -> Job]
      BY <1>8, GotoType DEF CreateConfig, ForwardStages
    <2>2. ServicesTypeOK'
      <3>1. CASE UNCHANGED <<svcOf, enabled, created>>
        BY <1>8, <3>1 DEF CreateConfig, TypeOK, ServicesTypeOK
      <3>2. ASSUME created < MaxConfigs, created' = created + 1,
                   Row(created + 1, <<who[c], job[c].on>>, TRUE)
            PROVE  ServicesTypeOK'
        <4>1. created + 1 \in ConfigIds /\ created' \in 0 .. MaxConfigs
          BY <3>2, ServicesAssumption DEF ConfigIds, TypeOK, ServicesTypeOK
        <4>2. job[c].on \in Ports
          BY <1>8, CurrentIsPort DEF CreateConfig, ForwardStages
        <4>3. <<who[c], job[c].on>> \in Services
          BY <1>8, <4>2 DEF CreateConfig, Shape, Services
        <4>4. svcOf' \in [ConfigIds -> Services \cup {None}] /\ enabled' \subseteq ConfigIds
          BY <3>2, <4>1, <4>3 DEF Row, TypeOK, ServicesTypeOK
        <4>. QED BY <1>8, <4>1, <4>4 DEF CreateConfig, TypeOK, ServicesTypeOK
      <3>. QED BY <1>8, <3>1, <3>2 DEF CreateConfig
    <2>. QED BY <1>8, <2>1, <2>2 DEF CreateConfig, TypeOK
  <1>9. ASSUME NEW c \in Conns, PutSlot(c) PROVE TypeOK'
    <2>1. job[c].on \in Ports
      BY <1>9, CurrentIsPort DEF PutSlot, ForwardStages
    <2>2. job' \in [Conns -> Job]
      BY <1>9, FinishType DEF PutSlot
    <2>. QED BY <1>9, <1>db, <2>1, <2>2 DEF PutSlot, TypeOK
  <1>10. ASSUME NEW c \in Conns,
                FindTarget(c) \/ FindService(c) \/ FindSubscription(c) \/ CheckAccess(c)
         PROVE  TypeOK'
    <2>. USE DEF Passes
    <2>1. job' \in [Conns -> Job]
      BY <1>10, GotoType
      DEF FindTarget, FindService, FindSubscription, CheckAccess, DirectStages, CheckStages
    <2>2. Current(c) \in Channels /\ chan[Current(c)] \in Channel
      BY <1>10, CurrentIsChannel
      DEF FindTarget, FindService, FindSubscription, CheckAccess, DirectStages, CheckStages
    <2>3. chan' \in [Channels -> Channel]
      <3>1. ASSUME NEW i \in ConfigIds, chan' = [chan EXCEPT ![Current(c)].cfg = i]
            PROVE  chan' \in [Channels -> Channel]
        BY <2>2, <3>1 DEF TypeOK, Channel
      <3>2. CASE UNCHANGED chan
        BY <3>2 DEF TypeOK
      <3>. QED BY <1>10, <3>1, <3>2
           DEF FindTarget, FindService, FindSubscription, CheckAccess
    <2>. QED BY <1>10, <1>db, <2>1, <2>3
         DEF FindTarget, FindService, FindSubscription, CheckAccess, TypeOK
  <1>11. ASSUME NEW c \in Conns, Refuse(c) \/ OpenFailed(c) \/ Index(c) PROVE TypeOK'
    <2>1. job' \in [Conns -> Job]
      BY <1>11, FinishType DEF Refuse, OpenFailed, Index
    <2>2. Current(c) \in Channels /\ chan[Current(c)] \in Channel
      BY <1>11, CurrentIsChannel
      DEF Refuse, OpenFailed, Index, DirectStages, CheckStages, SetUpStages
    <2>3. \E st \in {"refused", "confirmed"} : chan' = [chan EXCEPT ![Current(c)].st = st]
      BY <1>11 DEF Refuse, OpenFailed, Index
    <2>4. chan' \in [Channels -> Channel]
      <3>1. PICK st \in {"refused", "confirmed"} :
              chan' = [chan EXCEPT ![Current(c)].st = st]
        BY <2>3
      <3>2. [chan[Current(c)] EXCEPT !.st = st] \in Channel
        BY <2>2, <3>1 DEF Channel
      <3>. QED BY <3>1, <3>2 DEF TypeOK
    <2>. QED BY <1>11, <1>db, <2>1, <2>2, <2>4 DEF Refuse, OpenFailed, Index, TypeOK
  <1>12. ASSUME NEW c \in Conns, LookUpSlot(c) PROVE TypeOK'
    <2>1. job' \in [Conns -> Job]
      BY <1>12, GotoType, FinishType DEF LookUpSlot, DirectStages, CheckStages, SetUpStages
    <2>2. Current(c) \in Channels /\ chan[Current(c)] \in Channel
      BY <1>12, CurrentIsChannel DEF LookUpSlot, DirectStages
    <2>3. chan[Current(c)].svc \in Services
      BY <1>12, <2>2 DEF LookUpSlot, Shape, DirectStages
    <2>4. slots[chan[Current(c)].svc] \in Conns \cup {None}
      BY <2>3 DEF TypeOK
    <2>5. chan' \in [Channels -> Channel]
      <3>1. CASE chan' = [chan EXCEPT ![Current(c)].st = "confirmed"]
        BY <2>2, <3>1 DEF TypeOK, Channel
      <3>2. CASE chan' = [chan EXCEPT ![Current(c)].via = slots[chan[Current(c)].svc]]
        BY <2>2, <2>4, <3>2 DEF TypeOK, Channel
      <3>. QED BY <1>12, <3>1, <3>2 DEF LookUpSlot
    <2>6. late' \in [Channels -> {"none", "lapsed", "done"} \cup LateStages]
      BY <1>12, <2>2 DEF LookUpSlot, TypeOK, LateStages
    <2>. QED BY <1>12, <1>db, <2>1, <2>5, <2>6 DEF LookUpSlot, TypeOK
  <1>13. ASSUME NEW c \in Conns, Opened(c) \/ Wire(c) \/ List(c) PROVE TypeOK'
    <2>. USE DEF Passes
    <2>1. job' \in [Conns -> Job]
      BY <1>13, GotoType DEF Opened, Wire, List, DirectStages, SetUpStages
    <2>2. Current(c) \in Channels
      BY <1>13, CurrentIsChannel DEF Opened, Wire, List, DirectStages, SetUpStages
    <2>. QED BY <1>13, <1>db, <2>1, <2>2 DEF Opened, Wire, List, TypeOK
  <1>14. ASSUME NEW c \in Conns, Unindex(c) PROVE TypeOK'
    <2>1. job' \in [Conns -> Job]
      BY <1>14, FinishType DEF Unindex
    <2>. QED BY <1>14, <1>db, <2>1 DEF Unindex, TypeOK
  <1>15. ASSUME NEW c \in Conns, SweepStep(c) PROVE TypeOK'
    BY <1>15, <1>db DEF SweepStep, SweepSlots, CollectTunnels, SweepTunnels, TypeOK
  <1>16. ASSUME NEW x \in Channels, LateStep(x) \/ LateOpenStep(x) PROVE TypeOK'
    <2>. USE DEF LateStep, LateOpenStep, LateFind, LateTimeout, LateOpened, LateOpenFailed,
                 LateWire, LateList, LateIndex, LateGoto
    <2>1. late' \in [Channels -> {"none", "lapsed", "done"} \cup LateStages]
      BY <1>16 DEF TypeOK, LateStages, SetUpStages
    <2>2. chan' \in [Channels -> Channel]
      <3>1. CASE UNCHANGED chan
        BY <3>1 DEF TypeOK
      <3>2. CASE LateFind(x)
        <4>1. chan[x] \in Channel
          BY DEF TypeOK
        <4>2. slots[chan[x].svc] \in Conns \cup {None}
          BY <3>2 DEF Shape, TypeOK
        <4>. QED BY <3>2, <4>1, <4>2 DEF TypeOK, Channel
      <3>. QED BY <1>16, <3>1, <3>2
    <2>. QED BY <1>16, <1>db, <2>1, <2>2 DEF TypeOK
  <1>17. ASSUME EditStep PROVE TypeOK'
    BY <1>17, EditType DEF EditStep, TypeOK
  <1>18. CASE UNCHANGED vars
    BY <1>18, <1>db DEF vars, TypeOK
  <1>. QED
    BY <1>1, <1>2, <1>3, <1>4, <1>5, <1>6, <1>7, <1>8, <1>9, <1>10, <1>11, <1>12, <1>13,
       <1>14, <1>15, <1>16, <1>17, <1>18
    DEF Next, ClientStep, TaskStep, OpenStep

-----------------------------------------------------------------------------
(* Shape. *)

LEMMA StageSets ==
  /\ DirectStages = {"target", "config", "subscription", "access", "lookup",
                     "open", "wire", "list", "index"}
  /\ LateStages = {"poll", "open", "wire", "list", "index"}
  /\ ForwardStages = {"findConfig", "createConfig", "putSlot"}
  /\ CheckStages = {"target", "config", "subscription", "access"}
  /\ SetUpStages = {"open", "wire", "list", "index"}
  BY DEF DirectStages, LateStages, ForwardStages, CheckStages, SetUpStages

LEMMA SetCfg ==
  ASSUME TypeOK, NEW x \in Channels, NEW i, chan' = [chan EXCEPT ![x].cfg = i]
  PROVE  /\ chan'[x].cfg = i
         /\ \A y \in Channels : /\ chan'[y].st = chan[y].st
                                /\ chan'[y].svc = chan[y].svc
                                /\ chan'[y].via = chan[y].via
                                /\ chan'[y].asked = chan[y].asked
                                /\ y # x => chan'[y] = chan[y]
  <1>. chan \in [Channels -> Channel] /\ chan[x] \in Channel
    BY DEF TypeOK
  <1>. QED BY DEF Channel

LEMMA EditCounts ==
  ASSUME DbEdit
  PROVE  edits' = edits + 1
  BY DEF DbEdit, CreatePort, UpdatePort, DeletePort, CreateSubscription,
         ChangeSubscription, CreateAccess, DeleteAccess, DeleteEntity, Edit

LEMMA InitShape == Init => Shape
  BY DEF Init, Shape, DirectStages, CheckStages, SetUpStages

\* Every step keeps Shape.
LEMMA NextShape ==
  ASSUME TypeOK, TypeOK', Shape, [Next]_vars
  PROVE  Shape'
  <1>. USE RendezvousAssumption, ServicesAssumption, StageSets
       DEF Shape, Current, Channels, Channel, connVars, mapVars, sweepVars
  <1>ty. /\ job \in [Conns -> Job]
         /\ chan \in [Conns \X Chans -> Channel]
         /\ late \in [Conns \X Chans -> {"none", "lapsed", "done"} \cup LateStages]
         /\ phase \in [Conns -> {"new", "open", "dropped"}]
         /\ who \in [Conns -> Entities \cup {None}]
         /\ slotSweep \in [Conns -> {"none", "due", "done"}]
         /\ edits \in Nat
    BY DEF TypeOK, ServicesTypeOK
  <1>1. ASSUME NEW c \in Conns, NEW e \in Entities, Login(c, e) PROVE Shape'
    BY <1>1, <1>ty DEF Login, dbVars
  <1>2. ASSUME NEW c \in Conns, NEW p \in Ports, Forward(c, p) PROVE Shape'
    BY <1>2, <1>ty DEF Forward, Free, Start, dbVars
  <1>3. ASSUME NEW c \in Conns, NEW p \in Ports, CancelForward(c, p) PROVE Shape'
    BY <1>3, <1>ty DEF CancelForward, dbVars
  <1>4. ASSUME NEW c \in Conns, NEW h \in Chans, NEW t \in Entities, NEW p \in Ports,
               Dial(c, h, t, p)
        PROVE  Shape'
    BY <1>4, <1>ty DEF Dial, Free, Start, dbVars, Services
  <1>5. ASSUME NEW c \in Conns, NEW h \in Chans, ClientClose(c, h) PROVE Shape'
    BY <1>5, <1>ty DEF ClientClose, Free, Start, dbVars
  <1>6. ASSUME NEW c \in Conns, Disconnect(c) PROVE Shape'
    BY <1>6, <1>ty DEF Disconnect, Free, dbVars
  <1>7. ASSUME NEW c \in Conns, FindConfig(c) PROVE Shape'
    <2>1. PICK to \in {"putSlot", "createConfig"} : Goto(c, to)
      BY <1>7 DEF FindConfig
    <2>. QED BY <1>7, <1>ty, <2>1 DEF FindConfig, Goto, dbVars
  <1>8. ASSUME NEW c \in Conns, CreateConfig(c) PROVE Shape'
    BY <1>8, <1>ty DEF CreateConfig, Goto
  <1>9. ASSUME NEW c \in Conns, PutSlot(c) PROVE Shape'
    BY <1>9, <1>ty DEF PutSlot, Finish, dbVars
  <1>10. ASSUME NEW c \in Conns, FindTarget(c) PROVE Shape'
    BY <1>10, <1>ty DEF FindTarget, Passes, Goto, dbVars
  <1>11. ASSUME NEW c \in Conns, FindService(c) PROVE Shape'
    BY <1>11, <1>ty DEF FindService, Passes, Goto, dbVars
  <1>12. ASSUME NEW c \in Conns, FindSubscription(c) PROVE Shape'
    BY <1>12, <1>ty DEF FindSubscription, Passes, Goto, dbVars
  <1>13. ASSUME NEW c \in Conns, CheckAccess(c) PROVE Shape'
    BY <1>13, <1>ty DEF CheckAccess, Passes, Goto, dbVars
  <1>14. ASSUME NEW c \in Conns, Refuse(c) PROVE Shape'
    BY <1>14, <1>ty DEF Refuse, Finish, dbVars
  <1>15. ASSUME NEW c \in Conns, LookUpSlot(c) PROVE Shape'
    <2>1. CASE /\ Goto(c, "open")
               /\ chan' = [chan EXCEPT ![Current(c)].via = slots[chan[Current(c)].svc]]
               /\ UNCHANGED late
      BY SMTT(30), <1>15, <1>ty, <2>1 DEF LookUpSlot, Goto, dbVars
    <2>2. CASE /\ Finish(c)
               /\ chan' = [chan EXCEPT ![Current(c)].st = "confirmed"]
               /\ late' = [late EXCEPT ![Current(c)] = "poll"]
      BY <1>15, <1>ty, <2>2 DEF LookUpSlot, Finish, dbVars
    <2>. QED BY <1>15, <2>1, <2>2 DEF LookUpSlot
  <1>16. ASSUME NEW c \in Conns, Opened(c) PROVE Shape'
    BY <1>16, <1>ty DEF Opened, Passes, Goto, dbVars
  <1>17. ASSUME NEW c \in Conns, OpenFailed(c) PROVE Shape'
    BY <1>17, <1>ty DEF OpenFailed, Finish, dbVars
  <1>18. ASSUME NEW c \in Conns, Wire(c) PROVE Shape'
    BY <1>18, <1>ty DEF Wire, Goto, dbVars
  <1>19. ASSUME NEW c \in Conns, List(c) PROVE Shape'
    BY <1>19, <1>ty DEF List, Goto, dbVars
  <1>20. ASSUME NEW c \in Conns, Index(c) PROVE Shape'
    BY <1>20, <1>ty DEF Index, Finish, dbVars
  <1>21. ASSUME NEW c \in Conns, Unindex(c) PROVE Shape'
    BY <1>21, <1>ty DEF Unindex, Finish, dbVars
  <1>22. ASSUME NEW c \in Conns, SweepStep(c) PROVE Shape'
    BY <1>22, <1>ty DEF SweepStep, SweepSlots, CollectTunnels, SweepTunnels, dbVars
  <1>23. ASSUME NEW x \in Channels, LateFind(x) PROVE Shape'
    BY <1>23, <1>ty DEF LateFind, LateGoto, dbVars
  <1>24. ASSUME NEW x \in Channels,
                LateTimeout(x) \/ LateOpened(x) \/ LateOpenFailed(x) \/ LateWire(x)
                  \/ LateList(x) \/ LateIndex(x)
         PROVE  Shape'
    BY <1>24, <1>ty
    DEF LateTimeout, LateOpened, LateOpenFailed, LateWire, LateList, LateIndex,
        LateGoto, dbVars
  <1>25. ASSUME EditStep PROVE Shape'
    <2>1. edits' = edits + 1
      BY <1>25, EditCounts DEF EditStep
    <2>. QED BY <1>25, <1>ty, <2>1 DEF EditStep
  <1>26. CASE UNCHANGED vars
    BY <1>26, <1>ty DEF vars, dbVars
  <1>. QED
    BY <1>1, <1>2, <1>3, <1>4, <1>5, <1>6, <1>7, <1>8, <1>9, <1>10, <1>11, <1>12, <1>13,
       <1>14, <1>15, <1>16, <1>17, <1>18, <1>19, <1>20, <1>21, <1>22, <1>23, <1>24,
       <1>25, <1>26
    DEF Next, ClientStep, TaskStep, OpenStep, LateStep, LateOpenStep

LEMMA ShapeHolds == Spec => [](TypeOK /\ Shape)
  <1>1. Init => TypeOK /\ Shape
    BY InitType, InitShape
  <1>2. TypeOK /\ Shape /\ [Next]_vars => (TypeOK /\ Shape)'
    BY NextType, NextShape
  <1>. QED BY <1>1, <1>2, PTL DEF Spec

\* Every reachable state is well typed.
THEOREM TypeCorrect == Spec => []TypeOK
  BY ShapeHolds, PTL

-----------------------------------------------------------------------------
(* The slots. *)

LEMMA NextSlots ==
  ASSUME TypeOK, Shape, SlotsNameLiveServers, [Next]_vars
  PROVE  SlotsNameLiveServers'
  <1>. USE RendezvousAssumption DEF SlotsNameLiveServers, connVars, sweepVars
  <1>ty. /\ slots \in [Services -> Conns \cup {None}]
         /\ phase \in [Conns -> {"new", "open", "dropped"}]
         /\ who \in [Conns -> Entities \cup {None}]
         /\ forwarded \in [Conns -> SUBSET Ports]
         /\ slotSweep \in [Conns -> {"none", "due", "done"}]
    BY DEF TypeOK
  <1>1. ASSUME NEW c \in Conns, NEW e \in Entities, Login(c, e)
        PROVE  SlotsNameLiveServers'
    BY <1>1, <1>ty DEF Login, Shape
  <1>2. ASSUME NEW c \in Conns, PutSlot(c) PROVE SlotsNameLiveServers'
    <2>1. phase[c] = "open"
      BY <1>2 DEF PutSlot, Shape
    <2>. QED BY <1>2, <1>ty, <2>1 DEF PutSlot, Services
  <1>3. ASSUME NEW c \in Conns, NEW p \in Ports, CancelForward(c, p)
        PROVE  SlotsNameLiveServers'
    BY <1>3, <1>ty DEF CancelForward, Services
  <1>4. ASSUME NEW c \in Conns, Disconnect(c) PROVE SlotsNameLiveServers'
    BY <1>4, <1>ty DEF Disconnect
  <1>5. ASSUME NEW c \in Conns, SweepSlots(c) PROVE SlotsNameLiveServers'
    BY <1>5, <1>ty DEF SweepSlots
  <1>6. ASSUME UNCHANGED <<slots, phase, who, forwarded, slotSweep>>
        PROVE  SlotsNameLiveServers'
    BY <1>6
  <1>7. ASSUME NEW c \in Conns,
               \/ \E p \in Ports : Forward(c, p)
               \/ \E h \in Chans, t \in Entities, p \in Ports : Dial(c, h, t, p)
               \/ \E h \in Chans : ClientClose(c, h)
               \/ FindConfig(c) \/ CreateConfig(c) \/ FindTarget(c) \/ FindService(c)
               \/ FindSubscription(c) \/ CheckAccess(c) \/ Refuse(c) \/ LookUpSlot(c)
               \/ Opened(c) \/ OpenFailed(c) \/ Wire(c) \/ List(c) \/ Index(c)
               \/ Unindex(c) \/ CollectTunnels(c) \/ SweepTunnels(c)
        PROVE  UNCHANGED <<slots, phase, who, forwarded, slotSweep>>
    BY <1>7
    DEF Forward, Dial, ClientClose, FindConfig, CreateConfig, FindTarget, FindService,
        FindSubscription, CheckAccess, Passes, Refuse, LookUpSlot, Opened, OpenFailed,
        Wire, List, Index, Unindex, CollectTunnels, SweepTunnels
  <1>8. ASSUME NEW x \in Channels, LateStep(x) \/ LateOpenStep(x)
        PROVE  UNCHANGED <<slots, phase, who, forwarded, slotSweep>>
    BY <1>8
    DEF LateStep, LateOpenStep, LateFind, LateTimeout, LateOpened, LateOpenFailed,
        LateWire, LateList, LateIndex, LateGoto
  <1>9. ASSUME EditStep \/ UNCHANGED vars
        PROVE  UNCHANGED <<slots, phase, who, forwarded, slotSweep>>
    BY <1>9 DEF EditStep, vars
  <1>. QED
    BY <1>1, <1>2, <1>3, <1>4, <1>5, <1>6, <1>7, <1>8, <1>9
    DEF Next, ClientStep, TaskStep, OpenStep, SweepStep

\* A slot always names a connection of its own entity that is alive, or about
\* to be swept, and holds the forward.
THEOREM SlotsSafe == Spec => []SlotsNameLiveServers
  <1>1. Init => SlotsNameLiveServers
    BY DEF Init, SlotsNameLiveServers
  <1>2. TypeOK /\ Shape /\ SlotsNameLiveServers /\ [Next]_vars => SlotsNameLiveServers'
    BY NextSlots
  <1>. QED BY <1>1, <1>2, ShapeHolds, PTL DEF Spec

-----------------------------------------------------------------------------
(* The fast path. *)

LEMMA NextFast ==
  ASSUME TypeOK, Shape, FastInv, [Next]_vars
  PROVE  FastInv'
  <1>. USE StageSets
       DEF FastInv, FastPathNeverDrops, Current, Channels, Channel, mapVars
  <1>ty. /\ job \in [Conns -> Job]
         /\ chan \in [Conns \X Chans -> Channel]
         /\ late \in [Conns \X Chans -> {"none", "lapsed", "done"} \cup LateStages]
         /\ bridges \subseteq Conns \X Chans
    BY DEF TypeOK
  <1>on. \A c \in Conns : job[c].at \in DirectStages \cup {"unindex"} =>
           Current(c) \in Channels
    BY CurrentIsChannel
  <1>0. ASSUME UNCHANGED <<job, chan, late, bridges>> PROVE FastInv'
    BY <1>0
  <1>1. ASSUME NEW c \in Conns,
               \/ \E e \in Entities : Login(c, e)
               \/ \E p \in Ports : CancelForward(c, p)
               \/ Disconnect(c) \/ SweepStep(c)
        PROVE  FastInv'
    BY <1>0, <1>1
    DEF Login, CancelForward, Disconnect, SweepStep, SweepSlots, CollectTunnels, SweepTunnels
  <1>2. ASSUME NEW c \in Conns, NEW p \in Ports, Forward(c, p) PROVE FastInv'
    BY <1>2, <1>ty DEF Forward, Free, Start
  <1>3. ASSUME NEW c \in Conns, NEW h \in Chans, NEW t \in Entities, NEW p \in Ports,
               Dial(c, h, t, p)
        PROVE  FastInv'
    BY <1>3, <1>ty DEF Dial, Free, Start
  <1>4. ASSUME NEW c \in Conns, NEW h \in Chans, ClientClose(c, h) PROVE FastInv'
    BY <1>4, <1>ty DEF ClientClose, Free, Start
  <1>5. ASSUME NEW c \in Conns, NEW to \in ForwardStages, Goto(c, to),
               UNCHANGED <<chan, late, bridges>>
        PROVE  FastInv'
    BY <1>5, <1>ty DEF Goto
  <1>6. ASSUME NEW c \in Conns, FindConfig(c) \/ CreateConfig(c) PROVE FastInv'
    BY <1>5, <1>6 DEF FindConfig, CreateConfig
  <1>7. ASSUME NEW c \in Conns, PutSlot(c) PROVE FastInv'
    BY <1>7, <1>ty DEF PutSlot, Finish
  <1>8. ASSUME NEW c \in Conns, FindTarget(c) \/ FindSubscription(c) \/ CheckAccess(c)
        PROVE  FastInv'
    BY <1>8, <1>ty DEF FindTarget, FindSubscription, CheckAccess, Passes, Goto
  <1>9. ASSUME NEW c \in Conns, FindService(c) PROVE FastInv'
    <2>1. PICK i \in ConfigIds : chan' = [chan EXCEPT ![Current(c)].cfg = i]
      BY <1>9 DEF FindService
    <2>2. /\ Current(c) \in Channels
          /\ job' = [job EXCEPT ![c] = [at |-> "subscription", on |-> job[c].on]]
          /\ UNCHANGED <<late, bridges>>
      BY <1>9, <1>on DEF FindService, Passes, Goto
    <2>3. \A y \in Channels : chan'[y].st = chan[y].st
      BY <2>1, <2>2, SetCfg
    <2>. QED BY <1>ty, <2>2, <2>3
  <1>10. ASSUME NEW c \in Conns, Refuse(c) \/ OpenFailed(c) PROVE FastInv'
    <2>1. /\ job[c].at \in DirectStages
          /\ chan' = [chan EXCEPT ![Current(c)].st = "refused"]
          /\ job' = [job EXCEPT ![c] = Resting]
          /\ UNCHANGED <<late, bridges>>
      BY <1>10 DEF Refuse, OpenFailed, Finish
    <2>. QED BY <1>ty, <1>on, <2>1
  <1>11. ASSUME NEW c \in Conns, LookUpSlot(c) PROVE FastInv'
    <2>1. CASE /\ Goto(c, "open")
               /\ chan' = [chan EXCEPT ![Current(c)].via = slots[chan[Current(c)].svc]]
               /\ UNCHANGED late
      BY <1>11, <1>ty, <1>on, <2>1 DEF LookUpSlot, Goto
    <2>2. CASE /\ Finish(c)
               /\ chan' = [chan EXCEPT ![Current(c)].st = "confirmed"]
               /\ late' = [late EXCEPT ![Current(c)] = "poll"]
      BY <1>11, <1>ty, <1>on, <2>2 DEF LookUpSlot, Finish
    <2>. QED BY <1>11, <2>1, <2>2 DEF LookUpSlot
  <1>12. ASSUME NEW c \in Conns, Opened(c) \/ Wire(c) \/ List(c) PROVE FastInv'
    BY <1>12, <1>ty, <1>on DEF Opened, Wire, List, Passes, Goto
  <1>13. ASSUME NEW c \in Conns, Index(c) PROVE FastInv'
    BY <1>13, <1>ty, <1>on DEF Index, Finish
  <1>14. ASSUME NEW c \in Conns, Unindex(c) PROVE FastInv'
    BY <1>14, <1>ty DEF Unindex, Finish
  <1>15. ASSUME NEW x \in Channels, LateFind(x) PROVE FastInv'
    BY <1>15, <1>ty DEF LateFind, LateGoto
  <1>16. ASSUME NEW x \in Channels,
                LateTimeout(x) \/ LateOpened(x) \/ LateOpenFailed(x) \/ LateWire(x)
                  \/ LateList(x) \/ LateIndex(x)
         PROVE  FastInv'
    BY <1>16, <1>ty
    DEF LateTimeout, LateOpened, LateOpenFailed, LateWire, LateList, LateIndex, LateGoto
  <1>17. ASSUME EditStep \/ UNCHANGED vars PROVE FastInv'
    BY <1>0, <1>17 DEF EditStep, vars
  <1>. QED
    BY <1>1, <1>2, <1>3, <1>4, <1>6, <1>7, <1>8, <1>9, <1>10, <1>11, <1>12, <1>13,
       <1>14, <1>15, <1>16, <1>17
    DEF Next, ClientStep, TaskStep, OpenStep, LateStep, LateOpenStep

\* On the fast path no client hears its channel is open before data() can
\* forward what it writes.
THEOREM FastPathSafe == Spec => []FastPathNeverDrops
  <1>1. Init => FastInv
    BY DEF Init, FastInv, FastPathNeverDrops
  <1>2. TypeOK /\ Shape /\ FastInv /\ [Next]_vars => FastInv'
    BY NextFast
  <1>3. FastInv => FastPathNeverDrops
    BY DEF FastInv
  <1>. QED BY <1>1, <1>2, <1>3, ShapeHolds, PTL DEF Spec

-----------------------------------------------------------------------------
(* Where bridges lead. *)

\* Once a connection is logged in, whose it is and that it is stays.
LEMMA LoggedIn ==
  ASSUME TypeOK, [Next]_vars, NEW c \in Conns, phase[c] # "new"
  PROVE  who'[c] = who[c] /\ phase'[c] # "new"
  <1>. USE DEF connVars
  <1>ty. /\ phase \in [Conns -> {"new", "open", "dropped"}]
         /\ who \in [Conns -> Entities \cup {None}]
    BY DEF TypeOK
  <1>1. ASSUME NEW d \in Conns, NEW e \in Entities, Login(d, e)
        PROVE  who'[c] = who[c] /\ phase'[c] # "new"
    BY <1>1, <1>ty DEF Login
  <1>2. ASSUME NEW d \in Conns, Disconnect(d)
        PROVE  who'[c] = who[c] /\ phase'[c] # "new"
    BY <1>2, <1>ty DEF Disconnect
  <1>3. ASSUME NEW d \in Conns,
               \/ \E p \in Ports : Forward(d, p) \/ CancelForward(d, p)
               \/ \E h \in Chans, t \in Entities, p \in Ports : Dial(d, h, t, p)
               \/ \E h \in Chans : ClientClose(d, h)
               \/ TaskStep(d) \/ OpenStep(d) \/ SweepStep(d)
        PROVE  UNCHANGED <<phase, who>>
    BY <1>3
    DEF Forward, CancelForward, Dial, ClientClose, TaskStep, FindConfig, CreateConfig,
        PutSlot, FindTarget, FindService, FindSubscription, CheckAccess, Passes, Refuse,
        LookUpSlot, OpenStep, Opened, OpenFailed, Wire, List, Index, Unindex,
        SweepStep, SweepSlots, CollectTunnels, SweepTunnels
  <1>4. ASSUME NEW x \in Channels, LateStep(x) \/ LateOpenStep(x)
        PROVE  UNCHANGED <<phase, who>>
    BY <1>4
    DEF LateStep, LateOpenStep, LateFind, LateTimeout, LateOpened, LateOpenFailed,
        LateWire, LateList, LateIndex, LateGoto
  <1>5. ASSUME EditStep \/ UNCHANGED vars PROVE UNCHANGED <<phase, who>>
    BY <1>5 DEF EditStep, vars
  <1>. QED BY <1>1, <1>2, <1>3, <1>4, <1>5 DEF Next, ClientStep

LEMMA NextRoute ==
  ASSUME TypeOK, Shape, SlotsNameLiveServers, RouteInv, [Next]_vars
  PROVE  RouteInv'
  <1>. USE StageSets DEF RouteInv, Current, Channels, Channel, mapVars
  <1>ty. /\ job \in [Conns -> Job]
         /\ chan \in [Conns \X Chans -> Channel]
         /\ late \in [Conns \X Chans -> {"none", "lapsed", "done"} \cup LateStages]
         /\ bridges \subseteq Conns \X Chans
    BY DEF TypeOK
  <1>on. \A c \in Conns : job[c].at \in DirectStages \cup {"unindex"} =>
           Current(c) \in Channels
    BY CurrentIsChannel
  <1>keep. ASSUME NEW x \in Channels, Routed(x),
                  chan'[x].via = chan[x].via, chan'[x].svc = chan[x].svc
           PROVE  Routed(x)'
    BY <1>keep, LoggedIn DEF Routed
  <1>new. ASSUME NEW x \in Channels, chan[x].st # "free", slots[chan[x].svc] # None,
                 chan'[x].via = slots[chan[x].svc], chan'[x].svc = chan[x].svc,
                 UNCHANGED connVars
          PROVE  Routed(x)'
    <2>1. chan[x].svc \in Services
      BY <1>new DEF Shape
    <2>2. slots[chan[x].svc] \in Conns
      BY <1>new, <2>1 DEF TypeOK
    <2>3. /\ who[slots[chan[x].svc]] = chan[x].svc[1]
          /\ phase[slots[chan[x].svc]] # "new"
      BY <1>new, <2>1, <2>2 DEF SlotsNameLiveServers, Shape
    <2>. QED BY <1>new, <2>2, <2>3 DEF Routed, connVars
  <1>0. ASSUME UNCHANGED <<job, chan, late, bridges>> PROVE RouteInv'
    BY <1>0, <1>keep, <1>on
  <1>1. ASSUME NEW c \in Conns,
               \/ \E e \in Entities : Login(c, e)
               \/ \E p \in Ports : CancelForward(c, p)
               \/ Disconnect(c) \/ SweepStep(c)
        PROVE  RouteInv'
    BY <1>0, <1>1
    DEF Login, CancelForward, Disconnect, SweepStep, SweepSlots, CollectTunnels, SweepTunnels
  <1>same. ASSUME NEW c \in Conns,
                  \A d \in Conns : d # c => job'[d] = job[d],
                  job'[c].at \in SetUpStages =>
                    job[c].at \in SetUpStages /\ job'[c].on = job[c].on,
                  \A x \in Channels : late[x] \in SetUpStages \/ x \in bridges
                                        \/ (job[x[1]].at \in SetUpStages /\ Current(x[1]) = x) =>
                                      chan'[x].via = chan[x].via /\ chan'[x].svc = chan[x].svc,
                  bridges' \subseteq
                    bridges \cup (IF job[c].at \in SetUpStages THEN {Current(c)} ELSE {}),
                  UNCHANGED late
           PROVE  RouteInv'
    <2>1. ASSUME NEW d \in Conns, job'[d].at \in SetUpStages PROVE Routed(Current(d))'
      BY <1>same, <1>keep, <1>on, <2>1
    <2>2. ASSUME NEW x \in Channels, late'[x] \in SetUpStages \/ x \in bridges'
          PROVE  Routed(x)'
      BY <1>same, <1>keep, <1>on, <2>2
    <2>. QED BY <2>1, <2>2
  <1>2. ASSUME NEW c \in Conns, NEW p \in Ports, Forward(c, p) PROVE RouteInv'
    BY <1>2, <1>ty, <1>same DEF Forward, Start
  <1>3. ASSUME NEW c \in Conns, NEW h \in Chans, NEW t \in Entities, NEW p \in Ports,
               Dial(c, h, t, p)
        PROVE  RouteInv'
    <2>1. late[<<c, h>>] = "none" /\ <<c, h>> \notin bridges
      BY <1>3 DEF Dial, Shape
    <2>2. \A x \in Channels : x # <<c, h>> => chan'[x] = chan[x]
      BY <1>3, <1>ty DEF Dial
    <2>3. job[c] = Resting /\ job' = [job EXCEPT ![c] = [at |-> "target", on |-> h]]
      BY <1>3 DEF Dial, Free, Start
    <2>4. UNCHANGED <<late, bridges>>
      BY <1>3 DEF Dial
    <2>5. ASSUME NEW x \in Channels,
                 late[x] \in SetUpStages \/ x \in bridges
                   \/ (job[x[1]].at \in SetUpStages /\ Current(x[1]) = x)
          PROVE  chan'[x] = chan[x]
      <3>1. x # <<c, h>>
        BY <2>1, <2>3, <2>5
      <3>. QED BY <2>2, <3>1
    <2>6. /\ \A d \in Conns : d # c => job'[d] = job[d]
          /\ job'[c].at \notin SetUpStages
      BY <1>ty, <2>3
    <2>. QED BY <1>same, <2>4, <2>5, <2>6
  <1>4. ASSUME NEW c \in Conns, NEW h \in Chans, ClientClose(c, h) PROVE RouteInv'
    <2>1. \A x \in Channels : chan'[x].via = chan[x].via /\ chan'[x].svc = chan[x].svc
      BY <1>4, <1>ty DEF ClientClose
    <2>. QED BY <1>4, <1>ty, <1>same, <2>1 DEF ClientClose, Start
  <1>5. ASSUME NEW c \in Conns, NEW to \in ForwardStages, Goto(c, to),
               UNCHANGED <<chan, late, bridges>>
        PROVE  RouteInv'
    BY <1>5, <1>ty, <1>same DEF Goto
  <1>6. ASSUME NEW c \in Conns, FindConfig(c) \/ CreateConfig(c) PROVE RouteInv'
    BY <1>5, <1>6 DEF FindConfig, CreateConfig
  <1>7. ASSUME NEW c \in Conns, PutSlot(c) \/ Unindex(c) PROVE RouteInv'
    BY <1>7, <1>ty, <1>same DEF PutSlot, Unindex, Finish
  <1>8. ASSUME NEW c \in Conns, FindTarget(c) \/ FindSubscription(c) \/ CheckAccess(c)
        PROVE  RouteInv'
    BY <1>8, <1>ty, <1>same DEF FindTarget, FindSubscription, CheckAccess, Passes, Goto
  <1>9. ASSUME NEW c \in Conns, FindService(c) PROVE RouteInv'
    <2>1. PICK i \in ConfigIds : chan' = [chan EXCEPT ![Current(c)].cfg = i]
      BY <1>9 DEF FindService
    <2>2. /\ Current(c) \in Channels
          /\ job' = [job EXCEPT ![c] = [at |-> "subscription", on |-> job[c].on]]
          /\ UNCHANGED <<late, bridges>>
      BY <1>9, <1>on DEF FindService, Passes, Goto
    <2>3. \A y \in Channels : chan'[y].via = chan[y].via /\ chan'[y].svc = chan[y].svc
      BY <2>1, <2>2, SetCfg
    <2>. QED BY <1>ty, <1>same, <2>2, <2>3
  <1>10. ASSUME NEW c \in Conns, Refuse(c) \/ OpenFailed(c) \/ Index(c) PROVE RouteInv'
    <2>1. /\ job[c].at \in DirectStages
          /\ \E st \in {"refused", "confirmed"} : chan' = [chan EXCEPT ![Current(c)].st = st]
          /\ job' = [job EXCEPT ![c] = Resting]
          /\ UNCHANGED <<late, bridges>>
      BY <1>10 DEF Refuse, OpenFailed, Index, Finish
    <2>2. Current(c) \in Channels
      BY <1>on, <2>1
    <2>3. \A y \in Channels : chan'[y].via = chan[y].via /\ chan'[y].svc = chan[y].svc
      <3>1. PICK st \in {"refused", "confirmed"} :
              chan' = [chan EXCEPT ![Current(c)].st = st]
        BY <2>1
      <3>. QED BY <1>ty, <2>2, <3>1
    <2>. QED BY <1>ty, <1>same, <2>1, <2>3
  <1>11. ASSUME NEW c \in Conns, LookUpSlot(c) PROVE RouteInv'
    <2>0. /\ job[c].at = "lookup" /\ Current(c) \in Channels
          /\ chan[Current(c)].st # "free"
          /\ UNCHANGED <<connVars, bridges>>
      BY <1>11, <1>on DEF LookUpSlot, Shape
    <2>1. CASE /\ slots[chan[Current(c)].svc] # None
               /\ Goto(c, "open")
               /\ chan' = [chan EXCEPT ![Current(c)].via = slots[chan[Current(c)].svc]]
               /\ UNCHANGED late
      <3>0. PICK x \in Channels : x = Current(c)
        BY <2>0
      <3>1. /\ chan'[x].via = slots[chan[x].svc]
            /\ chan'[x].svc = chan[x].svc
            /\ \A y \in Channels : y # x => chan'[y] = chan[y]
        BY <1>ty, <2>1, <3>0
      <3>2. Routed(x)'
        BY <1>new, <2>0, <2>1, <3>0, <3>1
      <3>3. ASSUME NEW y \in Channels, Routed(y) PROVE Routed(y)'
        BY <1>keep, <3>1, <3>2, <3>3
      <3>4. job' = [job EXCEPT ![c] = [at |-> "open", on |-> job[c].on]]
        BY <2>1 DEF Goto
      <3>5. ASSUME NEW d \in Conns, job'[d].at \in SetUpStages PROVE Routed(Current(d))'
        <4>1. CASE d = c
          BY <1>ty, <3>0, <3>2, <3>4, <4>1
        <4>2. CASE d # c
          <5>1. PICK y \in Channels : y = Current(d) /\ Routed(y)
            BY <1>ty, <1>on, <3>4, <3>5, <4>2
          <5>2. Current(d)' = y
            BY <1>ty, <3>4, <4>2, <5>1
          <5>. QED BY <3>3, <5>1, <5>2
        <4>. QED BY <4>1, <4>2
      <3>6. ASSUME NEW y \in Channels, late'[y] \in SetUpStages \/ y \in bridges'
            PROVE  Routed(y)'
        BY <2>0, <2>1, <3>3, <3>6
      <3>. QED BY <3>5, <3>6
    <2>2. CASE /\ Finish(c)
               /\ chan' = [chan EXCEPT ![Current(c)].st = "confirmed"]
               /\ late' = [late EXCEPT ![Current(c)] = "poll"]
      <3>1. \A y \in Channels : chan'[y].via = chan[y].via /\ chan'[y].svc = chan[y].svc
        BY <1>ty, <2>0, <2>2
      <3>2. job' = [job EXCEPT ![c] = Resting]
        BY <2>2 DEF Finish
      <3>3. ASSUME NEW d \in Conns, job'[d].at \in SetUpStages PROVE Routed(Current(d))'
        BY <1>ty, <1>keep, <1>on, <3>1, <3>2, <3>3
      <3>4. ASSUME NEW x \in Channels, late'[x] \in SetUpStages \/ x \in bridges'
            PROVE  Routed(x)'
        BY <1>ty, <1>keep, <2>0, <2>2, <3>1, <3>4
      <3>. QED BY <3>3, <3>4
    <2>. QED BY <1>11, <2>1, <2>2 DEF LookUpSlot
  <1>12. ASSUME NEW c \in Conns, Opened(c) \/ Wire(c) \/ List(c) PROVE RouteInv'
    BY <1>12, <1>ty, <1>on, <1>same DEF Opened, Wire, List, Passes, Goto
  <1>13. ASSUME NEW x \in Channels, LateFind(x) PROVE RouteInv'
    <2>1. /\ chan[x].st # "free" /\ slots[chan[x].svc] # None
          /\ chan' = [chan EXCEPT ![x].via = slots[chan[x].svc]]
          /\ late' = [late EXCEPT ![x] = "open"]
          /\ UNCHANGED <<connVars, job, bridges>>
      BY <1>13 DEF LateFind, LateGoto, Shape
    <2>2. /\ chan'[x].via = slots[chan[x].svc]
          /\ chan'[x].svc = chan[x].svc
          /\ \A y \in Channels : y # x => chan'[y] = chan[y]
      BY <1>ty, <2>1
    <2>3. Routed(x)'
      BY <1>new, <2>1, <2>2
    <2>4. ASSUME NEW y \in Channels, y # x, Routed(y) PROVE Routed(y)'
      BY <1>keep, <2>2, <2>4
    <2>. QED BY <1>ty, <1>on, <2>1, <2>3, <2>4
  <1>14. ASSUME NEW x \in Channels,
                LateTimeout(x) \/ LateOpened(x) \/ LateOpenFailed(x) \/ LateWire(x)
                  \/ LateList(x) \/ LateIndex(x)
         PROVE  RouteInv'
    <2>1. /\ UNCHANGED <<chan, job>>
          /\ \A y \in Channels : /\ late'[y] \in SetUpStages => late[y] \in SetUpStages
                                 /\ y \in bridges' => y \in bridges \/ late[y] \in SetUpStages
      BY <1>14, <1>ty
      DEF LateTimeout, LateOpened, LateOpenFailed, LateWire, LateList, LateIndex, LateGoto
    <2>. QED BY <1>keep, <1>on, <2>1
  <1>15. ASSUME EditStep \/ UNCHANGED vars PROVE RouteInv'
    BY <1>0, <1>15 DEF EditStep, vars
  <1>. QED
    BY <1>1, <1>2, <1>3, <1>4, <1>6, <1>7, <1>8, <1>9, <1>10, <1>11, <1>12, <1>13,
       <1>14, <1>15
    DEF Next, ClientStep, TaskStep, OpenStep, LateStep, LateOpenStep

\* No client's bytes ever reach a machine other than the one it dialed.
THEOREM RoutingSafe == Spec => []RoutedToTarget
  <1>1. Init => RouteInv
    BY DEF Init, RouteInv, SetUpStages
  <1>2. TypeOK /\ Shape /\ SlotsNameLiveServers /\ RouteInv /\ [Next]_vars => RouteInv'
    BY NextRoute
  <1>3. TypeOK /\ RouteInv => RoutedToTarget
    BY RendezvousAssumption DEF TypeOK, RouteInv, Routed, RoutedToTarget
  <1>. QED BY <1>1, <1>2, <1>3, ShapeHolds, SlotsSafe, PTL DEF Spec

-----------------------------------------------------------------------------
(* The tables. *)

\* A step of the server leaves the tables alone or inserts one row.
LEMMA ServerRows ==
  ASSUME [Next]_vars, ~EditStep
  PROVE  \/ UNCHANGED dbVars
         \/ \E c \in Conns : CreateConfig(c)
  <1>. USE DEF dbVars
  <1>1. ASSUME ClientStep PROVE UNCHANGED dbVars
    BY <1>1 DEF ClientStep, Login, Forward, CancelForward, Dial, ClientClose, Disconnect
  <1>2. ASSUME NEW c \in Conns, TaskStep(c), ~CreateConfig(c) PROVE UNCHANGED dbVars
    BY <1>2
    DEF TaskStep, FindConfig, PutSlot, FindTarget, FindService, FindSubscription,
        CheckAccess, Passes, Refuse, LookUpSlot, Wire, List, Index, Unindex
  <1>3. ASSUME NEW c \in Conns, OpenStep(c) \/ SweepStep(c) PROVE UNCHANGED dbVars
    BY <1>3
    DEF OpenStep, Opened, OpenFailed, Passes, SweepStep, SweepSlots, CollectTunnels,
        SweepTunnels
  <1>4. ASSUME NEW x \in Channels, LateStep(x) \/ LateOpenStep(x) PROVE UNCHANGED dbVars
    BY <1>4
    DEF LateStep, LateOpenStep, LateFind, LateTimeout, LateOpened, LateOpenFailed,
        LateWire, LateList, LateIndex, LateGoto
  <1>5. CASE UNCHANGED vars
    BY <1>5 DEF vars
  <1>. QED BY <1>1, <1>2, <1>3, <1>4, <1>5 DEF Next

LEMMA NextRows ==
  ASSUME TypeOK, RowInv, DbConsistent, [Next]_vars
  PROVE  RowInv' /\ DbConsistent'
  <1>. USE DEF RowInv, DbConsistent, ConfigIds, AnyConfig, Row
  <1>ty. ServicesTypeOK /\ MaxConfigs \in Nat /\ None \notin Services
    BY ServicesAssumption DEF TypeOK
  <1>1. CASE UNCHANGED dbVars
    BY <1>1 DEF dbVars
  <1>2. ASSUME NEW c \in Conns, CreateConfig(c) PROVE RowInv' /\ DbConsistent'
    <2>1. CASE UNCHANGED <<svcOf, enabled, created>>
      BY <1>2, <2>1 DEF CreateConfig
    <2>2. ASSUME created < MaxConfigs, created' = created + 1,
                 svcOf' = [svcOf EXCEPT ![created + 1] = <<who[c], job[c].on>>],
                 enabled' = enabled \cup {created + 1}
          PROVE  RowInv' /\ DbConsistent'
      <3>1. created \in Nat /\ created + 1 \in ConfigIds /\ svcOf[created + 1] = None
        BY <1>ty, <2>2 DEF ServicesTypeOK
      <3>2. \A i \in ConfigIds : i # created + 1 => svcOf'[i] = svcOf[i]
        BY <1>ty, <2>2, <3>1 DEF ServicesTypeOK
      <3>3. RowInv'
        BY <1>ty, <2>2, <3>1, <3>2 DEF ServicesTypeOK
      <3>4. DbConsistent'
        BY <1>2, <1>ty, <3>1, <3>2 DEF CreateConfig, ServicesTypeOK, Grant
      <3>. QED BY <3>3, <3>4
    <2>. QED BY <1>2, <2>1, <2>2 DEF CreateConfig
  <1>3. ASSUME NEW s \in Services, NEW on \in BOOLEAN, CreatePort(s, on)
        PROVE  RowInv' /\ DbConsistent'
    BY <1>3, <1>ty DEF CreatePort, ServicesTypeOK, Grant
  <1>4. ASSUME NEW i \in ConfigIds, NEW p \in Ports, NEW on \in BOOLEAN, UpdatePort(i, p, on)
        PROVE  RowInv' /\ DbConsistent'
    BY <1>4, <1>ty DEF UpdatePort, ServicesTypeOK, Grant, Services
  <1>5. ASSUME NEW i \in ConfigIds, DeletePort(i) PROVE RowInv' /\ DbConsistent'
    BY <1>5, <1>ty DEF DeletePort, ServicesTypeOK, Grant
  <1>6. ASSUME NEW e \in Entities, NEW i \in ConfigIds, NEW on \in BOOLEAN,
               CreateSubscription(e, i, on)
        PROVE  RowInv' /\ DbConsistent'
    BY <1>6, <1>ty DEF CreateSubscription, ServicesTypeOK
  <1>7. ASSUME NEW e \in Entities, NEW i \in ConfigIds, NEW to \in SubState,
               ChangeSubscription(e, i, to)
        PROVE  RowInv' /\ DbConsistent'
    BY <1>7, <1>ty DEF ChangeSubscription, ServicesTypeOK
  <1>8. ASSUME NEW t \in Entities, NEW ss \in Subjects, NEW i \in ConfigIds \cup {AnyConfig},
               CreateAccess([target |-> t, subjects |-> ss, scope |-> i])
        PROVE  RowInv' /\ DbConsistent'
    BY <1>8, <1>ty DEF CreateAccess, ServicesTypeOK
  <1>9. ASSUME NEW g \in grants, DeleteAccess(g) PROVE RowInv' /\ DbConsistent'
    BY <1>9, <1>ty DEF DeleteAccess, ServicesTypeOK
  <1>10. ASSUME NEW e \in Entities, DeleteEntity(e) PROVE RowInv' /\ DbConsistent'
    BY <1>10, <1>ty DEF DeleteEntity, ServicesTypeOK
  <1>. QED
    BY <1>1, <1>2, <1>3, <1>4, <1>5, <1>6, <1>7, <1>8, <1>9, <1>10, ServerRows
    DEF EditStep, DbEdit

\* No edit, and no -R request, leaves a subscription or a grant without its row.
THEOREM RowsSafe == Spec => []DbConsistent
  <1>1. Init => RowInv /\ DbConsistent
    <2>. SUFFICES ASSUME Init PROVE RowInv /\ DbConsistent
      OBVIOUS
    <2>1. Len(SeedConfigs) \in Nat /\ \A i \in 1 .. Len(SeedConfigs) : SeedConfigs[i] # None
      BY ServicesAssumption
    <2>2. RowInv
      BY <2>1, ServicesAssumption DEF Init, DbInit, RowInv, ConfigIds
    <2>3. \A e \in Entities, i \in ConfigIds : subs[<<e, i>>] # "none" => svcOf[i] # None
      <3>. SUFFICES ASSUME NEW e \in Entities, NEW i \in ConfigIds, <<e, i>> \in SeedSubs
                    PROVE  svcOf[i] # None
        BY DEF Init, DbInit
      <3>1. i \in 1 .. Len(SeedConfigs)
        BY ServicesAssumption
      <3>. QED BY <2>1, <3>1 DEF Init, DbInit
    <2>4. \A g \in grants : g.scope # AnyConfig =>
            svcOf[g.scope] # None /\ svcOf[g.scope][1] = g.target
      <3>. SUFFICES ASSUME NEW g \in SeedGrants, g.scope # AnyConfig
                    PROVE  svcOf[g.scope] # None /\ svcOf[g.scope][1] = g.target
        BY DEF Init, DbInit
      <3>1. g.scope \in ConfigIds
        BY ServicesAssumption DEF Grant
      <3>2. g.scope \in 1 .. Len(SeedConfigs) /\ SeedConfigs[g.scope][1] = g.target
        BY <3>1, <2>1, ServicesAssumption DEF ConfigIds
      <3>. QED BY <2>1, <3>1, <3>2 DEF Init, DbInit
    <2>. QED BY <2>2, <2>3, <2>4 DEF DbConsistent
  <1>2. TypeOK /\ RowInv /\ DbConsistent /\ [Next]_vars => (RowInv /\ DbConsistent)'
    BY NextRows
  <1>. QED BY <1>1, <1>2, ShapeHolds, PTL DEF Spec

-----------------------------------------------------------------------------
(* Authorisation. *)

\* Without an edit, what the look-ups found stays true: a row that -R inserts is
\* newer than any other.
LEMMA AuthorisedStays ==
  ASSUME TypeOK, RowInv, [Next]_vars, ~EditStep,
         NEW e \in Entities, NEW s \in Services
  PROVE  /\ UNCHANGED <<subs, grants, deleted, edits>>
         /\ \A i \in ConfigIds : IsOldestEnabled(i, s) => IsOldestEnabled(i, s)'
         /\ Authorised(e, s) => Authorised(e, s)'
  <1>. USE DEF dbVars
  <1>1. UNCHANGED <<subs, grants, deleted, edits>>
    BY ServerRows DEF CreateConfig
  <1>2. ASSUME NEW i \in ConfigIds, IsOldestEnabled(i, s) PROVE IsOldestEnabled(i, s)'
    <2>1. CASE UNCHANGED <<svcOf, enabled>>
      BY <1>2, <2>1 DEF IsOldestEnabled, EnabledRows
    <2>0. MaxConfigs \in Nat
      BY ServicesAssumption
    <2>2. ASSUME NEW c \in Conns, created < MaxConfigs,
                 svcOf' = [svcOf EXCEPT ![created + 1] = <<who[c], job[c].on>>],
                 enabled' = enabled \cup {created + 1}
          PROVE  IsOldestEnabled(i, s)'
      BY <1>2, <2>0, <2>2
      DEF IsOldestEnabled, EnabledRows, RowInv, TypeOK, ServicesTypeOK, ConfigIds
    <2>. QED BY <2>1, <2>2, ServerRows DEF CreateConfig, Row
  <1>3. ASSUME Authorised(e, s) PROVE Authorised(e, s)'
    <2>1. PICK i \in ConfigIds : /\ IsOldestEnabled(i, s)
                                 /\ Subscribed(e, i)
                                 /\ MayReach(e, s[1], i)
      BY <1>3 DEF Authorised
    <2>2. IsOldestEnabled(i, s)' /\ Subscribed(e, i)' /\ MayReach(e, s[1], i)'
      BY <1>1, <1>2, <2>1 DEF Subscribed, MayReach
    <2>. QED BY <1>1, <1>3, <2>2 DEF Authorised
  <1>. QED BY <1>1, <1>2, <1>3

LEMMA NextAuth ==
  ASSUME TypeOK, Shape, RowInv, AuthInv, [Next]_vars
  PROVE  AuthInv'
  <1>. USE StageSets DEF AuthInv, Current, Channels, Channel, mapVars
  <1>ty. /\ job \in [Conns -> Job]
         /\ chan \in [Conns \X Chans -> Channel]
         /\ late \in [Conns \X Chans -> {"none", "lapsed", "done"} \cup LateStages]
         /\ bridges \subseteq Conns \X Chans
    BY DEF TypeOK
  <1>on. \A c \in Conns : job[c].at \in DirectStages \cup {"unindex"} =>
           Current(c) \in Channels
    BY CurrentIsChannel
  <1>used. /\ \A c \in Conns : job[c].at \in DirectStages => chan[Current(c)].st # "free"
           /\ \A x \in Channels : late[x] # "none" \/ x \in bridges => chan[x].st # "free"
    BY DEF Shape
  <1>keep. ASSUME ~EditStep, NEW x \in Channels, NEW at, Knows(x, at), chan[x].st # "free",
                  chan'[x].asked = chan[x].asked, chan'[x].svc = chan[x].svc,
                  chan'[x].cfg = chan[x].cfg
           PROVE  Knows(x, at)'
    <2>. SUFFICES ASSUME chan'[x].asked = edits' PROVE Knows(x, at)'
      BY DEF Knows
    <2>1. PICK e \in Entities, s \in Services : e = who[x[1]] /\ s = chan[x].svc
      BY <1>keep DEF Shape
    <2>2. who'[x[1]] = e /\ chan'[x].svc = s
      BY <1>keep, <2>1, LoggedIn DEF Shape
    <2>3. /\ UNCHANGED <<subs, grants, deleted, edits>>
          /\ \A i \in ConfigIds : IsOldestEnabled(i, s) => IsOldestEnabled(i, s)'
          /\ Authorised(e, s) => Authorised(e, s)'
      BY <1>keep, AuthorisedStays
    <2>4. chan[x].asked = edits
      BY <1>keep, <2>3
    <2>5. at # "target" => s[1] \notin deleted'
      BY <1>keep, <2>1, <2>3, <2>4 DEF Knows
    <2>6. ASSUME at \in {"subscription", "access"}
          PROVE  (IsOldestEnabled(chan[x].cfg, chan[x].svc))'
      <3>1. PICK i \in ConfigIds : i = chan[x].cfg /\ IsOldestEnabled(i, s)
        BY <1>keep, <2>1, <2>4, <2>6 DEF Knows, IsOldestEnabled, EnabledRows, TypeOK,
           ServicesTypeOK
      <3>2. IsOldestEnabled(i, s)' /\ chan'[x].cfg = i
        BY <1>keep, <2>3, <3>1
      <3>. QED BY <2>2, <3>2
    <2>7. at = "access" => Subscribed(who[x[1]], chan[x].cfg)'
      BY <1>keep, <2>1, <2>2, <2>3, <2>4 DEF Knows, Subscribed
    <2>8. at \in {"lookup"} \cup SetUpStages => Authorised(who[x[1]], chan[x].svc)'
      BY <1>keep, <2>1, <2>2, <2>3, <2>4 DEF Knows
    <2>. QED BY <2>2, <2>5, <2>6, <2>7, <2>8 DEF Knows
  <1>0. ASSUME UNCHANGED <<job, chan, late, bridges>>, ~EditStep PROVE AuthInv'
    <2>1. ASSUME NEW c \in Conns, job'[c].at \in DirectStages
          PROVE  Knows(Current(c), job[c].at)'
      <3>1. PICK x \in Channels, at \in DirectStages : x = Current(c) /\ at = job[c].at
        BY <1>0, <1>on, <2>1
      <3>2. Knows(x, at)'
        BY <1>0, <1>keep, <1>used, <3>1
      <3>. QED BY <1>0, <3>1, <3>2
    <2>. QED BY <1>0, <1>keep, <1>used, <2>1
  <1>same. ASSUME ~EditStep, NEW c \in Conns,
                  \A d \in Conns : d # c => job'[d] = job[d],
                  job'[c].at \in DirectStages => Knows(Current(c), job[c].at)',
                  \A x \in Channels : x[1] # c \/ late[x] # "none" \/ x \in bridges =>
                    /\ chan'[x].asked = chan[x].asked
                    /\ chan'[x].svc = chan[x].svc
                    /\ chan'[x].cfg = chan[x].cfg,
                  \A x \in Channels :
                    (late'[x] # "none" => late[x] # "none") \/ Knows(x, "index")',
                  \A x \in Channels :
                    (x \in bridges' => x \in bridges) \/ Knows(x, "index")'
           PROVE  AuthInv'
    <2>1. ASSUME NEW d \in Conns, d # c, job'[d].at \in DirectStages
          PROVE  Knows(Current(d), job[d].at)'
      <3>1. PICK x \in Channels, at \in DirectStages : x = Current(d) /\ at = job[d].at
        BY <1>same, <1>on, <2>1
      <3>2. x[1] # c /\ Knows(x, at) /\ chan[x].st # "free"
        BY <1>same, <1>used, <2>1, <3>1
      <3>3. Knows(x, at)'
        BY <1>same, <1>keep, <3>2
      <3>4. Current(d)' = x /\ job'[d].at = at
        BY <1>same, <2>1, <3>1
      <3>. QED BY <3>3, <3>4
    <2>2. ASSUME NEW x \in Channels, late'[x] # "none" \/ x \in bridges'
          PROVE  Knows(x, "index")'
      BY <1>same, <1>keep, <1>used, <2>2
    <2>. QED BY <1>same, <2>1, <2>2
  <1>1. ASSUME EditStep PROVE AuthInv'
    <2>1. edits' = edits + 1 /\ UNCHANGED <<job, chan, late, bridges>>
      BY <1>1, EditCounts DEF EditStep
    <2>2. ASSUME NEW x \in Channels, chan[x].st # "free", NEW at PROVE Knows(x, at)'
      BY <1>ty, <2>1, <2>2 DEF Knows, Shape, TypeOK, ServicesTypeOK
    <2>3. ASSUME NEW c \in Conns, job'[c].at \in DirectStages
          PROVE  Knows(Current(c), job[c].at)'
      <3>1. PICK x \in Channels, at \in DirectStages : x = Current(c) /\ at = job[c].at
        BY <1>on, <2>1, <2>3
      <3>2. Knows(x, at)'
        BY <1>used, <2>1, <2>2, <2>3, <3>1
      <3>. QED BY <2>1, <3>1, <3>2
    <2>. QED BY <1>used, <2>1, <2>2, <2>3
  <1>. SUFFICES ASSUME ~EditStep PROVE AuthInv'
    BY <1>1
  <1>away. ASSUME NEW c \in Conns,
                  \A d \in Conns : d # c => job'[d] = job[d],
                  job'[c].at \notin DirectStages,
                  UNCHANGED <<chan, late, bridges>>
           PROVE  AuthInv'
    BY <1>away, <1>same
  <1>2. ASSUME NEW c \in Conns,
               \/ \E e \in Entities : Login(c, e)
               \/ \E p \in Ports : CancelForward(c, p)
               \/ Disconnect(c) \/ SweepStep(c)
        PROVE  AuthInv'
    BY <1>0, <1>2
    DEF Login, CancelForward, Disconnect, SweepStep, SweepSlots, CollectTunnels, SweepTunnels
  <1>3. ASSUME NEW c \in Conns, NEW p \in Ports, Forward(c, p) PROVE AuthInv'
    BY <1>3, <1>ty, <1>away DEF Forward, Start
  <1>4. ASSUME NEW c \in Conns, NEW to \in ForwardStages, Goto(c, to),
               UNCHANGED <<chan, late, bridges>>
        PROVE  AuthInv'
    BY <1>4, <1>ty, <1>away DEF Goto
  <1>5. ASSUME NEW c \in Conns, FindConfig(c) \/ CreateConfig(c) PROVE AuthInv'
    BY <1>4, <1>5 DEF FindConfig, CreateConfig
  <1>6. ASSUME NEW c \in Conns, PutSlot(c) \/ Unindex(c) PROVE AuthInv'
    BY <1>6, <1>ty, <1>away DEF PutSlot, Unindex, Finish
  <1>7. ASSUME NEW c \in Conns, NEW h \in Chans, NEW t \in Entities, NEW p \in Ports,
               Dial(c, h, t, p)
        PROVE  AuthInv'
    <2>1. late[<<c, h>>] = "none" /\ <<c, h>> \notin bridges
      BY <1>7 DEF Dial, Shape
    <2>2. \A x \in Channels : x # <<c, h>> => chan'[x] = chan[x]
      BY <1>7, <1>ty DEF Dial
    <2>3. job' = [job EXCEPT ![c] = [at |-> "target", on |-> h]] /\ UNCHANGED <<late, bridges>>
      BY <1>7 DEF Dial, Start
    <2>4. Knows(Current(c), job[c].at)'
      BY <1>ty, <2>3 DEF Knows
    <2>5. \A x \in Channels : x[1] # c \/ late[x] # "none" \/ x \in bridges => chan'[x] = chan[x]
      BY <2>1, <2>2
    <2>. QED BY <1>ty, <1>same, <2>3, <2>4, <2>5
  <1>8. ASSUME NEW c \in Conns, NEW h \in Chans, ClientClose(c, h) PROVE AuthInv'
    <2>1. \A x \in Channels : /\ chan'[x].asked = chan[x].asked
                              /\ chan'[x].svc = chan[x].svc
                              /\ chan'[x].cfg = chan[x].cfg
      BY <1>8, <1>ty DEF ClientClose
    <2>2. /\ job' = [job EXCEPT ![c] = [at |-> "unindex", on |-> h]]
          /\ bridges' \subseteq bridges
          /\ UNCHANGED late
      BY <1>8 DEF ClientClose, Start
    <2>. QED BY <1>ty, <1>same, <2>1, <2>2
  <1>step. ASSUME NEW c \in Conns, NEW x \in Channels, x = Current(c),
                  NEW at \in DirectStages, Goto(c, at),
                  Knows(x, at)', UNCHANGED <<chan, late>>,
                  bridges' \subseteq bridges \cup {y \in {x} : at = "list"}
           PROVE  AuthInv'
    <2>1. Current(c)' = x /\ job'[c].at = at /\ \A d \in Conns : d # c => job'[d] = job[d]
      BY <1>step, <1>ty DEF Goto
    <2>2. at = "list" => Knows(x, "index")'
      BY <1>step DEF Knows
    <2>. QED BY <1>step, <1>same, <2>1, <2>2
  <1>kept. ASSUME NEW x \in Channels, NEW at, Knows(x, at), chan[x].st # "free", UNCHANGED chan
           PROVE  Knows(x, at)'
    BY <1>kept, <1>keep
  <1>9. ASSUME NEW c \in Conns, FindTarget(c) PROVE AuthInv'
    <2>1. PICK x \in Channels : x = Current(c) /\ chan[x].st # "free"
      BY <1>9, <1>on, <1>used DEF FindTarget, Passes
    <2>2. Knows(x, "config")
      BY <1>9, <2>1 DEF FindTarget, Target, Knows
    <2>. QED BY <1>9, <1>kept, <1>step, <2>1, <2>2 DEF FindTarget, Passes
  <1>10. ASSUME NEW c \in Conns, FindService(c) PROVE AuthInv'
    <2>1. PICK x \in Channels : x = Current(c) /\ chan[x].st # "free" /\ Knows(x, "config")
      BY <1>10, <1>on, <1>used DEF FindService, Passes
    <2>2. PICK i \in ConfigIds : /\ IsOldestEnabled(i, chan[x].svc)
                                 /\ chan' = [chan EXCEPT ![x].cfg = i]
      BY <1>10, <2>1 DEF FindService
    <2>3. /\ chan'[x].cfg = i
          /\ \A y \in Channels : /\ chan'[y].svc = chan[y].svc
                                 /\ chan'[y].asked = chan[y].asked
                                 /\ y # x => chan'[y] = chan[y]
      BY ZenonT(60), <2>2, SetCfg
    <2>4. /\ job' = [job EXCEPT ![c] = [at |-> "subscription", on |-> job[c].on]]
          /\ UNCHANGED <<late, bridges, dbVars>>
      BY <1>10 DEF FindService, Passes, Goto
    <2>5. Knows(x, "subscription")'
      BY <2>1, <2>2, <2>3, <2>4 DEF Knows, dbVars, IsOldestEnabled, EnabledRows
    <2>6. Current(c)' = x /\ job'[c].at = "subscription"
      BY <1>ty, <2>1, <2>4
    <2>7. ASSUME NEW y \in Channels, late[y] # "none" \/ y \in bridges PROVE Knows(y, "index")'
      <3>1. CASE y # x
        BY <1>keep, <1>used, <2>3, <2>7, <3>1
      <3>2. CASE y = x
        <4>1. Knows(x, "index")
          BY <2>7, <3>2
        <4>2. chan[x].svc \in Services /\ who[x[1]] \in Entities
          BY <2>1 DEF Shape
        <4>3. Knows(x, "index")'
          <5>. SUFFICES ASSUME chan'[x].asked = edits' PROVE Knows(x, "index")'
            BY DEF Knows
          <5>1. PICK e \in Entities, s \in Services : e = who[x[1]] /\ s = chan[x].svc
            BY <4>2
          <5>2. who'[x[1]] = e /\ chan'[x].svc = s
            BY <1>10, <2>3, <5>1 DEF FindService, Passes, connVars
          <5>3. Authorised(e, s)'
            BY <2>3, <2>4, <4>1, <5>1, AuthorisedStays DEF Knows, dbVars
          <5>4. s[1] \notin deleted'
            BY <5>3 DEF Authorised
          <5>. QED BY <5>2, <5>3, <5>4 DEF Knows
        <4>. QED BY <3>2, <4>3
      <3>. QED BY <3>1, <3>2
    <2>8. ASSUME NEW d \in Conns, d # c, job'[d].at \in DirectStages
          PROVE  Knows(Current(d), job[d].at)'
      <3>1. PICK y \in Channels, at \in DirectStages : y = Current(d) /\ at = job[d].at
        BY <1>ty, <1>on, <2>4, <2>8
      <3>2. y # x /\ Knows(y, at) /\ chan[y].st # "free"
        BY <1>ty, <1>used, <2>1, <2>4, <2>8, <3>1
      <3>3. Knows(y, at)'
        BY <1>keep, <2>3, <3>2
      <3>4. Current(d)' = y /\ job'[d].at = at
        BY <1>ty, <2>4, <2>8, <3>1
      <3>. QED BY <3>3, <3>4
    <2>. QED BY <2>1, <2>4, <2>5, <2>6, <2>7, <2>8
  <1>11. ASSUME NEW c \in Conns, FindSubscription(c) PROVE AuthInv'
    <2>1. PICK x \in Channels : /\ x = Current(c) /\ chan[x].st # "free" /\ x[1] = c
                                /\ Knows(x, "subscription")
      BY <1>11, <1>on, <1>used DEF FindSubscription, Passes
    <2>2. Knows(x, "access")
      BY <1>11, <2>1 DEF FindSubscription, Knows
    <2>. QED BY <1>11, <1>kept, <1>step, <2>1, <2>2 DEF FindSubscription, Passes
  <1>12. ASSUME NEW c \in Conns, CheckAccess(c) PROVE AuthInv'
    <2>1. PICK x \in Channels : /\ x = Current(c) /\ chan[x].st # "free" /\ x[1] = c
                                /\ Knows(x, "access")
      BY <1>12, <1>on, <1>used DEF CheckAccess, Passes
    <2>2. Knows(x, "lookup")
      BY <1>12, <2>1
      DEF CheckAccess, Target, Knows, Authorised, IsOldestEnabled, EnabledRows, TypeOK,
          ServicesTypeOK
    <2>. QED BY <1>12, <1>kept, <1>step, <2>1, <2>2 DEF CheckAccess, Passes
  <1>13. ASSUME NEW c \in Conns, Refuse(c) \/ OpenFailed(c) \/ Index(c) PROVE AuthInv'
    <2>1. /\ job[c].at \in DirectStages
          /\ \E st \in {"refused", "confirmed"} : chan' = [chan EXCEPT ![Current(c)].st = st]
          /\ job' = [job EXCEPT ![c] = Resting]
          /\ UNCHANGED <<late, bridges>>
      BY <1>13 DEF Refuse, OpenFailed, Index, Finish
    <2>2. Current(c) \in Channels
      BY <1>on, <2>1
    <2>3. \A y \in Channels : /\ chan'[y].asked = chan[y].asked
                              /\ chan'[y].svc = chan[y].svc
                              /\ chan'[y].cfg = chan[y].cfg
      <3>1. PICK st \in {"refused", "confirmed"} :
              chan' = [chan EXCEPT ![Current(c)].st = st]
        BY <2>1
      <3>. QED BY <1>ty, <2>2, <3>1
    <2>. QED BY <1>ty, <1>same, <2>1, <2>3
  <1>14. ASSUME NEW c \in Conns, LookUpSlot(c) PROVE AuthInv'
    <2>1. PICK x \in Channels : /\ x = Current(c) /\ chan[x].st # "free"
                                /\ Knows(x, "lookup")
      BY <1>14, <1>on, <1>used DEF LookUpSlot
    <2>2. Knows(x, "open") /\ Knows(x, "index")
      BY <2>1 DEF Knows
    <2>3. CASE /\ Goto(c, "open")
               /\ chan' = [chan EXCEPT ![Current(c)].via = slots[chan[Current(c)].svc]]
               /\ UNCHANGED late
      <3>1. \A y \in Channels : /\ chan'[y].asked = chan[y].asked
                                /\ chan'[y].svc = chan[y].svc
                                /\ chan'[y].cfg = chan[y].cfg
        BY <1>ty, <2>1, <2>3
      <3>2. Knows(x, "open")'
        BY <1>keep, <2>1, <2>2, <3>1
      <3>3. /\ Current(c)' = x /\ job'[c].at = "open"
            /\ \A d \in Conns : d # c => job'[d] = job[d]
        BY <1>ty, <2>1, <2>3 DEF Goto
      <3>4. UNCHANGED <<late, bridges>>
        BY <1>14, <2>3 DEF LookUpSlot
      <3>. QED BY <1>same, <3>1, <3>2, <3>3, <3>4
    <2>4. CASE /\ Finish(c)
               /\ chan' = [chan EXCEPT ![Current(c)].st = "confirmed"]
               /\ late' = [late EXCEPT ![Current(c)] = "poll"]
      <3>1. \A y \in Channels : /\ chan'[y].asked = chan[y].asked
                                /\ chan'[y].svc = chan[y].svc
                                /\ chan'[y].cfg = chan[y].cfg
        BY <1>ty, <2>1, <2>4
      <3>2. Knows(x, "index")'
        BY <1>keep, <2>1, <2>2, <3>1
      <3>3. job' = [job EXCEPT ![c] = Resting]
        BY <2>4 DEF Finish
      <3>4. \A y \in Channels : y # x => late'[y] = late[y]
        BY <1>ty, <2>1, <2>4
      <3>5. UNCHANGED bridges
        BY <1>14 DEF LookUpSlot
      <3>6. ASSUME NEW y \in Channels
            PROVE  (late'[y] # "none" => late[y] # "none") \/ Knows(y, "index")'
        BY <3>2, <3>4
      <3>7. job'[c].at \notin DirectStages /\ \A d \in Conns : d # c => job'[d] = job[d]
        BY <1>ty, <3>3
      <3>. QED BY <1>same, <3>1, <3>5, <3>6, <3>7
    <2>. QED BY <1>14, <2>3, <2>4 DEF LookUpSlot
  <1>15. ASSUME NEW c \in Conns, Opened(c) \/ Wire(c) \/ List(c) PROVE AuthInv'
    <2>1. PICK x \in Channels : /\ x = Current(c) /\ chan[x].st # "free"
                                /\ Knows(x, "wire") /\ Knows(x, "list") /\ Knows(x, "index")
      BY <1>15, <1>on, <1>used DEF Opened, Wire, List, Passes, Knows
    <2>2. Knows(x, "wire")' /\ Knows(x, "list")' /\ Knows(x, "index")'
      BY <1>15, <1>kept, <2>1 DEF Opened, Wire, List, Passes
    <2>. QED BY <1>15, <1>step, <2>1, <2>2 DEF Opened, Wire, List, Passes
  <1>16. ASSUME NEW x \in Channels, LateStep(x) \/ LateOpenStep(x) PROVE AuthInv'
    <2>. USE DEF LateStep, LateOpenStep, LateFind, LateTimeout, LateOpened, LateOpenFailed,
                 LateWire, LateList, LateIndex, LateGoto
    <2>1. /\ UNCHANGED job
          /\ late[x] # "none"
          /\ \A y \in Channels : /\ late'[y] # "none" => late[y] # "none"
                                 /\ y \in bridges' => y \in bridges \/ y = x
      BY <1>16, <1>ty
    <2>2. \A y \in Channels : /\ chan'[y].asked = chan[y].asked
                              /\ chan'[y].svc = chan[y].svc
                              /\ chan'[y].cfg = chan[y].cfg
      <3>1. CASE UNCHANGED chan
        BY <3>1
      <3>2. CASE chan' = [chan EXCEPT ![x].via = slots[chan[x].svc]]
        BY <1>ty, <3>2
      <3>. QED BY <1>16, <3>1, <3>2
    <2>3. ASSUME NEW c \in Conns, job'[c].at \in DirectStages
          PROVE  Knows(Current(c), job[c].at)'
      <3>1. PICK y \in Channels, at \in DirectStages : y = Current(c) /\ at = job[c].at
        BY <1>on, <2>1, <2>3
      <3>2. Knows(y, at)'
        BY <1>keep, <1>used, <2>1, <2>2, <2>3, <3>1
      <3>. QED BY <2>1, <3>1, <3>2
    <2>. QED BY <1>keep, <1>used, <2>1, <2>2, <2>3
  <1>17. CASE UNCHANGED vars
    BY <1>0, <1>17 DEF vars
  <1>. QED
    BY <1>2, <1>3, <1>5, <1>6, <1>7, <1>8, <1>9, <1>10, <1>11, <1>12, <1>13, <1>14,
       <1>15, <1>16, <1>17
    DEF Next, ClientStep, TaskStep, OpenStep

\* Every bridge was authorised by the tables as they were when it was asked for.
THEOREM AuthorisationSafe == Spec => []NoUnauthorisedBridge
  <1>1. Init => RowInv /\ AuthInv
    <2>. SUFFICES ASSUME Init PROVE RowInv /\ AuthInv
      OBVIOUS
    <2>1. RowInv
      BY ServicesAssumption DEF Init, DbInit, RowInv, ConfigIds
    <2>. QED BY <2>1, StageSets DEF Init, AuthInv
  <1>2. TypeOK /\ RowInv /\ DbConsistent /\ [Next]_vars => RowInv'
    BY NextRows
  <1>3. TypeOK /\ Shape /\ RowInv /\ AuthInv /\ [Next]_vars => AuthInv'
    BY NextAuth
  <1>4. TypeOK /\ AuthInv => NoUnauthorisedBridge
    BY StageSets DEF AuthInv, NoUnauthorisedBridge, Knows, TypeOK
  <1>. QED BY <1>1, <1>2, <1>3, <1>4, ShapeHolds, RowsSafe, PTL DEF Spec
=============================================================================
