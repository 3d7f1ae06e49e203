----------------------------- MODULE Rendezvous -----------------------------
(***************************************************************************)
(* The SSH server: connections that register reverse forwards (ssh -R) in  *)
(* the shared map server_slots, connections that dial them (ssh -L), and   *)
(* the bridges between the two.                                            *)
(*                                                                         *)
(* russh runs every callback of one connection on one task, so a callback  *)
(* that awaits keeps every other callback, and every request that arrives  *)
(* through the connection's Handle, waiting.  job[c] is that task's place  *)
(* in the callback it runs; one action is the code from one await to the   *)
(* next.  The slow path of channel_open_direct_tcpip and the clean-up of   *)
(* Drop run in spawned tasks, whose places are late[x] and slotSweep[c],   *)
(* tunnelSweep[c].                                                         *)
(*                                                                         *)
(* A channel is <<connection, channel id>>.  russh never reuses an id, and *)
(* one channel is bridged at most once, so a channel also stands for its   *)
(* bridge_id.                                                              *)
(***************************************************************************)
EXTENDS Services

CONSTANTS
  Conns,        \* the SSH connections that are ever made
  Chans,        \* the channel ids a client may open on one connection
  Forwards,     \* which <<entity, port>> the ssh clients ask for with -R
  Dials         \* which <<client, target, port>> they ask for with -L

Channels == Conns \X Chans

ASSUME RendezvousAssumption ==
  /\ None \notin Conns
  /\ None \notin Chans
  /\ Forwards \subseteq Services
  /\ Dials \subseteq Entities \X Entities \X Ports

VARIABLES
  phase,         \* phase[c]: not logged in yet, logged in, or Drop has run
  who,           \* who[c]: T2tHandler.entity
  job,           \* job[c]: where c's task is, and the port or channel it is about
  forwarded,     \* forwarded[c]: the ports whose -R was granted and not cancelled
  chan,          \* chan[x]: the channel and what its callback has looked up
  late,          \* late[x]: where the task spawned by the slow path is
  slots,         \* server_slots: the connection that answers for a service
  bridges,       \* the channels in their connection's bridges map
  bridgeIds,     \* the channels in their connection's bridge_ids map
  activeTunnels, \* the channels in the shared active_tunnels map
  slotSweep,     \* Drop's task that clears server_slots
  tunnelSweep,   \* Drop's task that clears active_tunnels
  doomed         \* the bridge ids that task collected

connVars == <<phase, who, forwarded>>
mapVars == <<bridges, bridgeIds, activeTunnels>>
sweepVars == <<slotSweep, tunnelSweep, doomed>>
vars == <<dbVars, connVars, job, chan, late, slots, mapVars, sweepVars>>

ForwardStages == {"findConfig", "createConfig", "putSlot"}
CheckStages == {"target", "config", "subscription", "access"}
SetUpStages == {"open", "wire", "list", "index"}
DirectStages == CheckStages \cup {"lookup"} \cup SetUpStages
LateStages == {"poll"} \cup SetUpStages

Job == [at : {"idle"}, on : {None}]
       \cup [at : ForwardStages, on : Ports]
       \cup [at : DirectStages \cup {"unindex"}, on : Chans]

Channel == [st : {"free", "asked", "confirmed", "refused", "closed"},
            svc : Services \cup {None},
            cfg : ConfigIds \cup {0},
            via : Conns \cup {None},
            asked : 0 .. MaxEdits]

NewChannel == [st |-> "free", svc |-> None, cfg |-> 0, via |-> None, asked |-> 0]

Resting == [at |-> "idle", on |-> None]

Init ==
  /\ DbInit
  /\ phase = [c \in Conns |-> "new"]
  /\ who = [c \in Conns |-> None]
  /\ job = [c \in Conns |-> Resting]
  /\ forwarded = [c \in Conns |-> {}]
  /\ chan = [x \in Channels |-> NewChannel]
  /\ late = [x \in Channels |-> "none"]
  /\ slots = [s \in Services |-> None]
  /\ bridges = {}
  /\ bridgeIds = {}
  /\ activeTunnels = {}
  /\ slotSweep = [c \in Conns |-> "none"]
  /\ tunnelSweep = [c \in Conns |-> "none"]
  /\ doomed = [c \in Conns |-> {}]

-----------------------------------------------------------------------------
(* The connection and its task. *)

\* The task of c can take the next packet or the next request of a Handle.
Free(c) == phase[c] = "open" /\ job[c] = Resting

Goto(c, stage) == job' = [job EXCEPT ![c] = [at |-> stage, on |-> job[c].on]]
Start(c, stage, on) == job' = [job EXCEPT ![c] = [at |-> stage, on |-> on]]
\* Mutant: the task rests but still names its channel.
Finish_KeepsChannel(c) == Goto(c, "idle")

Finish(c) == job' = [job EXCEPT ![c] = Resting]

\* The channel c's task is working on.
Current(c) == <<c, job[c].on>>

\* auth_publickey accepted a key of entity e.
Login(c, e) ==
  /\ phase[c] = "new"
  /\ e \notin deleted
  /\ phase' = [phase EXCEPT ![c] = "open"]
  /\ who' = [who EXCEPT ![c] = e]
  /\ UNCHANGED <<dbVars, forwarded, job, chan, late, slots, mapVars, sweepVars>>

-----------------------------------------------------------------------------
(* tcpip_forward and cancel_tcpip_forward. *)

Forward(c, p) ==
  /\ Free(c)
  /\ <<who[c], p>> \in Forwards
  /\ Start(c, "findConfig", p)
  /\ UNCHANGED <<dbVars, connVars, chan, late, slots, mapVars, sweepVars>>

\* A failing query is logged and the forward registered all the same.
FindConfig(c) ==
  /\ job[c].at = "findConfig"
  /\ \/ Goto(c, "putSlot")
     \/ /\ EnabledRows(<<who[c], job[c].on>>) = {}
        /\ Goto(c, "createConfig")
  /\ UNCHANGED <<dbVars, connVars, chan, late, slots, mapVars, sweepVars>>

\* The look-up is not repeated: whatever happened since, a row is inserted.
CreateConfig(c) ==
  /\ job[c].at = "createConfig"
  /\ \/ /\ created < MaxConfigs
        /\ created' = created + 1
        /\ Row(created + 1, <<who[c], job[c].on>>, TRUE)
     \/ UNCHANGED <<svcOf, enabled, created>>
  /\ Goto(c, "putSlot")
  /\ UNCHANGED <<subs, grants, deleted, edits>>
  /\ UNCHANGED <<connVars, chan, late, slots, mapVars, sweepVars>>

\* The insert replaces the entry of any other connection of the entity.
PutSlot(c) ==
  /\ job[c].at = "putSlot"
  /\ slots' = [slots EXCEPT ![<<who[c], job[c].on>>] = c]
  /\ forwarded' = [forwarded EXCEPT ![c] = @ \cup {job[c].on}]
  /\ Finish(c)
  /\ UNCHANGED <<dbVars, phase, who, chan, late, mapVars, sweepVars>>

\* The remove does not look whose entry it is.
CancelForward(c, p) ==
  /\ Free(c)
  /\ p \in forwarded[c]
  /\ slots' = [slots EXCEPT ![<<who[c], p>>] = None]
  /\ forwarded' = [forwarded EXCEPT ![c] = @ \ {p}]
  /\ UNCHANGED <<dbVars, phase, who, job, chan, late, mapVars, sweepVars>>

-----------------------------------------------------------------------------
(* channel_open_direct_tcpip up to the look-up of the slot. *)

Dial(c, h, t, p) ==
  /\ Free(c)
  /\ chan[<<c, h>>].st = "free"
  /\ <<who[c], t, p>> \in Dials
  /\ chan' = [chan EXCEPT ![<<c, h>>] =
                [NewChannel EXCEPT !.st = "asked", !.svc = <<t, p>>, !.asked = edits]]
  /\ Start(c, "target", h)
  /\ UNCHANGED <<dbVars, connVars, late, slots, mapVars, sweepVars>>

Target(c) == chan[Current(c)].svc[1]

Passes(c, stage, next) ==
  /\ job[c].at = stage
  /\ Goto(c, next)
  /\ UNCHANGED <<dbVars, connVars, late, slots, mapVars, sweepVars>>

\* resolve_target_entity found the machine by its id, alias or unique name, and
\* find_by_id_only loads it.
FindTarget(c) ==
  /\ Passes(c, "target", "config")
  /\ Target(c) \notin deleted
  /\ UNCHANGED chan

\* Mutant: a disabled row is found too.
FindService_Disabled(c) ==
  /\ Passes(c, "config", "subscription")
  /\ \E i \in ConfigIds :
       /\ svcOf[i] = chan[Current(c)].svc
       /\ chan' = [chan EXCEPT ![Current(c)].cfg = i]

FindService(c) ==
  /\ Passes(c, "config", "subscription")
  /\ \E i \in ConfigIds :
       /\ IsOldestEnabled(i, chan[Current(c)].svc)
       /\ chan' = [chan EXCEPT ![Current(c)].cfg = i]

FindSubscription(c) ==
  /\ Passes(c, "subscription", "access")
  /\ Subscribed(who[c], chan[Current(c)].cfg)
  /\ UNCHANGED chan

CheckAccess(c) ==
  /\ Passes(c, "access", "lookup")
  /\ MayReach(who[c], Target(c), chan[Current(c)].cfg)
  /\ UNCHANGED chan

\* Ok(false): a check found nothing, or its query failed.  Within one account
\* there is nothing to check.
Refuse(c) ==
  /\ job[c].at \in CheckStages
  /\ job[c].at = "access" => Owner[who[c]] # Owner[Target(c)]
  /\ chan' = [chan EXCEPT ![Current(c)].st = "refused"]
  /\ Finish(c)
  /\ UNCHANGED <<dbVars, connVars, late, slots, mapVars, sweepVars>>

\* Registered: open the forwarded channel at once.  Not registered: spawn the
\* task that waits, and confirm the channel.
LookUpSlot(c) ==
  /\ job[c].at = "lookup"
  /\ LET x == Current(c)
         s == slots[chan[x].svc]
     IN  \/ /\ s # None
            /\ chan' = [chan EXCEPT ![x].via = s]
            /\ Goto(c, "open")
            /\ UNCHANGED late
         \/ /\ s = None
            /\ chan' = [chan EXCEPT ![x].st = "confirmed"]
            /\ late' = [late EXCEPT ![x] = "poll"]
            /\ Finish(c)
  /\ UNCHANGED <<dbVars, connVars, slots, mapVars, sweepVars>>

-----------------------------------------------------------------------------
(* The fast path: the callback itself sets the bridge up. *)

\* The ssh client behind the slot answers the forwarded-tcpip channel open.  The
\* request and its answer both pass through that connection's task.
ServerAnswers(x) == Free(chan[x].via)

\* ... or that connection is gone and its Handle is closed.
ServerGone(x) == phase[chan[x].via] = "dropped"

\* Mutant: the callback returns Ok(true) and leaves the rest to a spawned task.
Opened_ConfirmsFirst(c) ==
  /\ job[c].at = "open"
  /\ ServerAnswers(Current(c))
  /\ chan' = [chan EXCEPT ![Current(c)].st = "confirmed"]
  /\ Goto(c, "wire")
  /\ UNCHANGED <<dbVars, connVars, late, slots, mapVars, sweepVars>>

Opened(c) ==
  /\ Passes(c, "open", "wire")
  /\ ServerAnswers(Current(c))
  /\ UNCHANGED chan

\* Mutant: a closed Handle is waited for like a live one.
OpenFailed_OnlyAnswers(c) ==
  /\ job[c].at = "open"
  /\ ServerAnswers(Current(c))
  /\ chan' = [chan EXCEPT ![Current(c)].st = "refused"]
  /\ Finish(c)
  /\ UNCHANGED <<dbVars, connVars, late, slots, mapVars, sweepVars>>

OpenFailed(c) ==
  /\ job[c].at = "open"
  /\ ServerAnswers(Current(c)) \/ ServerGone(Current(c))
  /\ chan' = [chan EXCEPT ![Current(c)].st = "refused"]
  /\ Finish(c)
  /\ UNCHANGED <<dbVars, connVars, late, slots, mapVars, sweepVars>>

Wire(c) ==
  /\ job[c].at = "wire"
  /\ bridges' = bridges \cup {Current(c)}
  /\ Goto(c, "list")
  /\ UNCHANGED <<dbVars, connVars, chan, late, slots, bridgeIds, activeTunnels, sweepVars>>

List(c) ==
  /\ job[c].at = "list"
  /\ activeTunnels' = activeTunnels \cup {Current(c)}
  /\ Goto(c, "index")
  /\ UNCHANGED <<dbVars, connVars, chan, late, slots, bridges, bridgeIds, sweepVars>>

\* The callback returns Ok(true) and russh confirms the channel.
Index(c) ==
  /\ job[c].at = "index"
  /\ bridgeIds' = bridgeIds \cup {Current(c)}
  /\ chan' = [chan EXCEPT ![Current(c)].st = "confirmed"]
  /\ Finish(c)
  /\ UNCHANGED <<dbVars, connVars, late, slots, bridges, activeTunnels, sweepVars>>

-----------------------------------------------------------------------------
(* The slow path: the same in a spawned task, which nothing stops. *)

LateGoto(x, stage, next) ==
  /\ late[x] = stage
  /\ late' = [late EXCEPT ![x] = next]
  /\ UNCHANGED <<dbVars, connVars, job, slots, sweepVars>>

\* Mutant: the task takes its own connection's handle for the server's.
LateFind_OwnHandle(x) ==
  /\ LateGoto(x, "poll", "open")
  /\ slots[chan[x].svc] # None
  /\ chan' = [chan EXCEPT ![x].via = x[1]]
  /\ UNCHANGED mapVars

LateFind(x) ==
  /\ LateGoto(x, "poll", "open")
  /\ slots[chan[x].svc] # None
  /\ chan' = [chan EXCEPT ![x].via = slots[chan[x].svc]]
  /\ UNCHANGED mapVars

\* Mutant: the deadline is set anew at every poll.
LateTimeout_Again(x) ==
  /\ LateGoto(x, "poll", "poll")
  /\ slots[chan[x].svc] = None
  /\ UNCHANGED <<chan, mapVars>>

\* Twelve seconds passed; the task asks the client to close the channel.
LateTimeout(x) ==
  /\ LateGoto(x, "poll", "lapsed")
  /\ slots[chan[x].svc] = None
  /\ UNCHANGED <<chan, mapVars>>

LateOpened(x) ==
  /\ LateGoto(x, "open", "wire")
  /\ ServerAnswers(x)
  /\ UNCHANGED <<chan, mapVars>>

LateOpenFailed(x) ==
  /\ LateGoto(x, "open", "lapsed")
  /\ ServerAnswers(x) \/ ServerGone(x)
  /\ UNCHANGED <<chan, mapVars>>

LateWire(x) ==
  /\ LateGoto(x, "wire", "list")
  /\ bridges' = bridges \cup {x}
  /\ UNCHANGED <<chan, bridgeIds, activeTunnels>>

LateList(x) ==
  /\ LateGoto(x, "list", "index")
  /\ activeTunnels' = activeTunnels \cup {x}
  /\ UNCHANGED <<chan, bridges, bridgeIds>>

LateIndex(x) ==
  /\ LateGoto(x, "index", "done")
  /\ bridgeIds' = bridgeIds \cup {x}
  /\ UNCHANGED <<chan, bridges, activeTunnels>>

-----------------------------------------------------------------------------
(* channel_close, and the end of the connection. *)

\* The client closes a confirmed channel: the bridges entry goes first.
ClientClose(c, h) ==
  /\ Free(c)
  /\ chan[<<c, h>>].st = "confirmed"
  /\ chan' = [chan EXCEPT ![<<c, h>>].st = "closed"]
  /\ bridges' = bridges \ {<<c, h>>}
  /\ Start(c, "unindex", h)
  /\ UNCHANGED <<dbVars, connVars, late, slots, bridgeIds, activeTunnels, sweepVars>>

\* Mutant: the active_tunnels entry stays.
Unindex_LeavesTunnel(c) ==
  /\ job[c].at = "unindex"
  /\ bridgeIds' = bridgeIds \ {Current(c)}
  /\ Finish(c)
  /\ UNCHANGED <<dbVars, connVars, chan, late, slots, bridges, activeTunnels, sweepVars>>

\* The bridge_ids lock is held until the active_tunnels entry is gone too.
Unindex(c) ==
  /\ job[c].at = "unindex"
  /\ bridgeIds' = bridgeIds \ {Current(c)}
  /\ activeTunnels' = IF Current(c) \in bridgeIds
                      THEN activeTunnels \ {Current(c)} ELSE activeTunnels
  /\ Finish(c)
  /\ UNCHANGED <<dbVars, connVars, chan, late, slots, bridges, sweepVars>>

\* The client hangs up or is lost; russh drops the handler, whose Drop spawns
\* the two tasks.  bridges and bridge_ids live on while a task holds them.
Disconnect(c) ==
  /\ Free(c)
  /\ phase' = [phase EXCEPT ![c] = "dropped"]
  /\ slotSweep' = [slotSweep EXCEPT ![c] = "due"]
  /\ tunnelSweep' = [tunnelSweep EXCEPT ![c] = "due"]
  /\ UNCHANGED <<dbVars, who, forwarded, job, chan, late, slots, mapVars, doomed>>

\* Mutant: retain keeps what it should remove.
SweepSlots_Inverted(c) ==
  /\ slotSweep[c] = "due"
  /\ slots' = [s \in Services |-> IF s[1] = who[c] THEN slots[s] ELSE None]
  /\ slotSweep' = [slotSweep EXCEPT ![c] = "done"]
  /\ UNCHANGED <<dbVars, connVars, job, chan, late, mapVars, tunnelSweep, doomed>>

\* Removes every slot of the entity, whichever connection put it there.
SweepSlots(c) ==
  /\ slotSweep[c] = "due"
  /\ slots' = [s \in Services |-> IF s[1] = who[c] THEN None ELSE slots[s]]
  /\ slotSweep' = [slotSweep EXCEPT ![c] = "done"]
  /\ UNCHANGED <<dbVars, connVars, job, chan, late, mapVars, tunnelSweep, doomed>>

\* Mutant: the clean-up skips channels whose bridges entry is still there.
CollectTunnels_SkipsBridged(c) ==
  /\ tunnelSweep[c] = "due"
  /\ doomed' = [doomed EXCEPT ![c] = {x \in bridgeIds : x[1] = c /\ x \notin bridges}]
  /\ tunnelSweep' = [tunnelSweep EXCEPT ![c] = "sweep"]
  /\ UNCHANGED <<dbVars, connVars, job, chan, late, slots, mapVars, slotSweep>>

CollectTunnels(c) ==
  /\ tunnelSweep[c] = "due"
  /\ doomed' = [doomed EXCEPT ![c] = {x \in bridgeIds : x[1] = c}]
  /\ tunnelSweep' = [tunnelSweep EXCEPT ![c] = "sweep"]
  /\ UNCHANGED <<dbVars, connVars, job, chan, late, slots, mapVars, slotSweep>>

SweepTunnels(c) ==
  /\ tunnelSweep[c] = "sweep"
  /\ activeTunnels' = activeTunnels \ doomed[c]
  /\ tunnelSweep' = [tunnelSweep EXCEPT ![c] = "done"]
  /\ UNCHANGED <<dbVars, connVars, job, chan, late, slots, bridges, bridgeIds>>
  /\ UNCHANGED <<slotSweep, doomed>>

-----------------------------------------------------------------------------

\* What the ssh clients do.
ClientStep ==
  \E c \in Conns :
    \/ \E e \in Entities : Login(c, e)
    \/ \E p \in Ports : Forward(c, p) \/ CancelForward(c, p)
    \/ \E h \in Chans, t \in Entities, p \in Ports : Dial(c, h, t, p)
    \/ \E h \in Chans : ClientClose(c, h)
    \/ Disconnect(c)

\* What the task of c does without waiting for another connection.
TaskStep(c) ==
  \/ FindConfig(c) \/ CreateConfig(c) \/ PutSlot(c)
  \/ FindTarget(c) \/ FindService(c) \/ FindSubscription(c) \/ CheckAccess(c)
  \/ Refuse(c) \/ LookUpSlot(c)
  \/ Wire(c) \/ List(c) \/ Index(c) \/ Unindex(c)

OpenStep(c) == Opened(c) \/ OpenFailed(c)

LateStep(x) ==
  \/ LateFind(x) \/ LateTimeout(x)
  \/ LateWire(x) \/ LateList(x) \/ LateIndex(x)

LateOpenStep(x) == LateOpened(x) \/ LateOpenFailed(x)

SweepStep(c) == SweepSlots(c) \/ CollectTunnels(c) \/ SweepTunnels(c)

EditStep ==
  /\ DbEdit
  /\ UNCHANGED <<connVars, job, chan, late, slots, mapVars, sweepVars>>

Next ==
  \/ ClientStep
  \/ \E c \in Conns : TaskStep(c) \/ OpenStep(c) \/ SweepStep(c)
  \/ \E x \in Channels : LateStep(x) \/ LateOpenStep(x)
  \/ EditStep

Spec == Init /\ [][Next]_vars

(***************************************************************************)
(* The runtime's scheduling: a task that can run does run, and a request   *)
(* queued at a connection whose task is free again and again is served in  *)
(* the end (tokio's select! is fair, the queue is first in first out, and  *)
(* an ssh client answers every channel open).  Clients and the web         *)
(* interface owe nothing.                                                  *)
(***************************************************************************)
Fairness ==
  /\ \A c \in Conns : /\ WF_vars(TaskStep(c))
                      /\ WF_vars(SweepSlots(c))
                      /\ WF_vars(CollectTunnels(c))
                      /\ WF_vars(SweepTunnels(c))
                      /\ SF_vars(OpenStep(c))
  /\ \A x \in Channels : /\ WF_vars(LateStep(x))
                         /\ SF_vars(LateOpenStep(x))

FairSpec == Spec /\ Fairness

-----------------------------------------------------------------------------
(* Properties. *)

TypeOK ==
  /\ ServicesTypeOK
  /\ phase \in [Conns -> {"new", "open", "dropped"}]
  /\ who \in [Conns -> Entities \cup {None}]
  /\ job \in [Conns -> Job]
  /\ forwarded \in [Conns -> SUBSET Ports]
  /\ chan \in [Channels -> Channel]
  /\ late \in [Channels -> {"none", "lapsed", "done"} \cup LateStages]
  /\ slots \in [Services -> Conns \cup {None}]
  /\ bridges \subseteq Channels
  /\ bridgeIds \subseteq Channels
  /\ activeTunnels \subseteq Channels
  /\ slotSweep \in [Conns -> {"none", "due", "done"}]
  /\ tunnelSweep \in [Conns -> {"none", "due", "sweep", "done"}]
  /\ doomed \in [Conns -> SUBSET Channels]

\* A slot names a connection of the very entity it is for, which registered the
\* port and has not cancelled it, and which is alive or about to be swept: no
\* dialer is ever sent to another entity's machine, nor for good to a dead one.
SlotsNameLiveServers ==
  \A s \in Services :
    slots[s] # None =>
      /\ who[slots[s]] = s[1]
      /\ s[2] \in forwarded[slots[s]]
      /\ phase[slots[s]] = "open" \/ slotSweep[slots[s]] = "due"

\* Every bridge was authorised when it was asked for, by all four look-ups
\* together: if no route edited the tables since, they still allow it, however
\* the other connections' -R requests inserted rows meanwhile.
NoUnauthorisedBridge ==
  \A x \in bridges : chan[x].asked = edits => Authorised(who[x[1]], chan[x].svc)

\* A bridge ends at a connection of the entity that was dialed.
RoutedToTarget ==
  \A x \in bridges : chan[x].via # None /\ who[chan[x].via] = chan[x].svc[1]

\* On the fast path the client hears its channel is open only when data() has
\* somewhere to forward the first bytes to.
FastPathNeverDrops ==
  \A x \in Channels : chan[x].st = "confirmed" /\ late[x] = "none" => x \in bridges

SetUpFinished(x) == late[x] \in {"none", "done"}

\* When neither the connection's task nor the slow path's is at work on a channel
\* of a live connection, bridge_ids and active_tunnels agree, an open channel is
\* in all the maps, and on the fast path no other channel is in any.
MapsAgree ==
  \A x \in Channels :
    phase[x[1]] = "open" /\ job[x[1]] = Resting /\ SetUpFinished(x) =>
      /\ x \in bridgeIds <=> x \in activeTunnels
      /\ chan[x].st = "confirmed" => x \in bridges /\ x \in bridgeIds
      /\ x \in bridges \cup bridgeIds => chan[x].st = "confirmed" \/ late[x] = "done"

\* The channel was closed and channel_close has run, or Drop's clean-up is over.
Ended(x) ==
  \/ chan[x].st = "closed" /\ job[x[1]].at # "unindex"
  \/ tunnelSweep[x[1]] = "done"

\* A tunnel made on the fast path is off the dashboard when it has ended.
FastTunnelsEnd == \A x \in activeTunnels : late[x] = "none" => ~Ended(x)

\* Every -L request is answered.  (Where no machine both serves and dials; see
\* HandlersReturn.)
RequestsAnswered ==
  \A x \in Channels : chan[x].st = "asked" ~> chan[x].st # "asked"

\* The slow path's wait always ends.
WaitsEnd ==
  \A x \in Channels : late[x] \in LateStages ~> late[x] \in {"lapsed", "done"}

\* The slots of a dropped connection are given up, and stay so.
DroppedServersForgotten ==
  \A c \in Conns, s \in Services : phase[c] = "dropped" ~> [](slots[s] # c)

-----------------------------------------------------------------------------
(* What the code's comments promise and the code does not keep. *)

\* ai/plans/005: a Handle's confirmation calls must never be awaited inline from
\* a Handler callback, it "deadlocks permanently".  Every callback returns.
HandlersReturn == \A c \in Conns : job[c].at # "idle" ~> job[c].at = "idle"

\* "Clean up server slots when a server entity disconnects": a server that is
\* connected and holds a granted -R stays registered.
ConnectedServersReachable ==
  \A c \in Conns, p \in Ports :
    phase[c] = "open" /\ p \in forwarded[c] => slots[<<who[c], p>>] # None
=============================================================================
