------------------------------ MODULE Services ------------------------------
(***************************************************************************)
(* The rows of the database that a tunnel is authorised against, and the   *)
(* web routes that edit them: entities, port_configs ("my services"),      *)
(* port_subscriptions and entity_access grants.  The SSH server only reads *)
(* them, except that an -R request may insert a port_configs row (see      *)
(* Rendezvous).                                                            *)
(*                                                                         *)
(* One action is one HTTP handler.  Each writes with one SQL statement;    *)
(* what it looked up before (the ownership check, and check_access before  *)
(* a subscription is inserted) is its guard, so the model has no edit      *)
(* between a handler's look-ups and its write.  That loses no state of     *)
(* these tables: a subscription inserted just after its grant was deleted  *)
(* is the one inserted just before, and the unique and foreign keys refuse *)
(* the other late inserts.                                                 *)
(***************************************************************************)
EXTENDS Naturals, Sequences

CONSTANTS
  Entities,     \* the machines that log in with an SSH key
  Ports,        \* proxy ports
  Owner,        \* Owner[e] is the account that owns entity e
  MaxConfigs,   \* bound: port_configs rows ever inserted
  MaxEdits,     \* bound: edits made through the web routes
  SeedConfigs,  \* the port_configs rows of the initial database, oldest first
  SeedEnabled,  \* those of them whose enabled flag is set
  SeedSubs,     \* the <<subscriber, config>> pairs subscribed in it
  SeedGrants,   \* the entity_access rows in it
  None          \* no row, no entity, no connection

Services == Entities \X Ports
ConfigIds == 1 .. MaxConfigs      \* ids in order of created_at
AnyConfig == 0                    \* entity_access.port_config_id IS NULL

(***************************************************************************)
(* An entity_access row.  Its subject_type and subject columns are         *)
(* abstracted to the set of client entities they cover, and rows that      *)
(* cover the same are one row.                                             *)
(***************************************************************************)
Grant == [target : Entities, subjects : SUBSET Entities,
          scope : ConfigIds \cup {AnyConfig}]

SameOwner(e) == {f \in Entities : Owner[f] = Owner[e]}

\* What the four subject types can cover: 'public_lite' every entity,
\* 'all_mine' and 'all_user_entities' those of one account, 'entity' one.
Subjects == {Entities} \cup {SameOwner(e) : e \in Entities}
                       \cup {{e} : e \in Entities}

SubState == {"none", "off", "on"}

ASSUME ServicesAssumption ==
  /\ MaxConfigs \in Nat
  /\ MaxEdits \in Nat
  /\ SeedConfigs \in Seq(Services)
  /\ Len(SeedConfigs) <= MaxConfigs
  /\ SeedEnabled \subseteq 1 .. Len(SeedConfigs)
  /\ SeedSubs \subseteq Entities \X (1 .. Len(SeedConfigs))
  /\ SeedGrants \subseteq Grant
  /\ \A g \in SeedGrants : g.scope # AnyConfig =>
       g.scope <= Len(SeedConfigs) /\ SeedConfigs[g.scope][1] = g.target
  /\ None \notin Services
  /\ None \notin Entities

VARIABLES
  svcOf,     \* svcOf[i]: the (entity, proxy port) of port_configs row i, or None
  enabled,   \* the rows whose enabled flag is set
  created,   \* how many rows were ever inserted
  subs,      \* subs[<<e, i>>]: the port_subscriptions row of e for config i
  grants,    \* the entity_access rows
  deleted,   \* the entities whose deleted_at is set
  edits      \* how many edits were made

dbVars == <<svcOf, enabled, created, subs, grants, deleted, edits>>

ServicesTypeOK ==
  /\ svcOf \in [ConfigIds -> Services \cup {None}]
  /\ enabled \subseteq ConfigIds
  /\ created \in 0 .. MaxConfigs
  /\ subs \in [Entities \X ConfigIds -> SubState]
  /\ grants \subseteq Grant
  /\ deleted \subseteq Entities
  /\ edits \in 0 .. MaxEdits

DbInit ==
  /\ svcOf = [i \in ConfigIds |->
                IF i <= Len(SeedConfigs) THEN SeedConfigs[i] ELSE None]
  /\ enabled = SeedEnabled
  /\ created = Len(SeedConfigs)
  /\ subs = [s \in Entities \X ConfigIds |-> IF s \in SeedSubs THEN "on" ELSE "none"]
  /\ grants = SeedGrants
  /\ deleted = {}
  /\ edits = 0

-----------------------------------------------------------------------------
(* The queries. *)

EnabledRows(s) == {i \in enabled : svcOf[i] = s}

\* PortConfig::find_enabled_by_entity_and_proxy_port returns row i:
\* ... AND enabled = true ORDER BY created_at LIMIT 1.
IsOldestEnabled(i, s) ==
  /\ i \in EnabledRows(s)
  /\ \A j \in EnabledRows(s) : i <= j

\* PortSubscription::find_by_subscriber_and_port_config finds an enabled row.
Subscribed(e, i) == subs[<<e, i>>] = "on"

\* EntityAccess::check_access for client e, target t, config i.
MayReach(e, t, i) ==
  \/ Owner[e] = Owner[t]
  \/ \E g \in grants : /\ g.target = t
                       /\ g.scope \in {AnyConfig, i}
                       /\ e \in g.subjects

\* What channel_open_direct_tcpip's steps 1 to 3 together ask for.
Authorised(e, s) ==
  /\ s[1] \notin deleted
  /\ \E i \in ConfigIds : /\ IsOldestEnabled(i, s)
                          /\ Subscribed(e, i)
                          /\ MayReach(e, s[1], i)

-----------------------------------------------------------------------------
(* The edits. *)

Edit == edits < MaxEdits /\ edits' = edits + 1

Row(i, s, on) ==
  /\ svcOf' = [svcOf EXCEPT ![i] = s]
  /\ enabled' = IF on THEN enabled \cup {i} ELSE enabled \ {i}

\* POST /entities/:id/ports
CreatePort(s, on) ==
  /\ Edit
  /\ s[1] \notin deleted
  /\ created < MaxConfigs
  /\ created' = created + 1
  /\ Row(created + 1, s, on)
  /\ UNCHANGED <<subs, grants, deleted>>

\* PUT /entities/:id/ports/:port_id rewrites every column but the owner.
UpdatePort(i, p, on) ==
  /\ Edit
  /\ svcOf[i] # None
  /\ svcOf[i][1] \notin deleted
  /\ Row(i, <<svcOf[i][1], p>>, on)
  /\ UNCHANGED <<created, subs, grants, deleted>>

\* Mutant: no cascade to entity_access.
DeletePort_NoCascade(i) ==
  /\ Edit
  /\ svcOf[i] # None
  /\ svcOf[i][1] \notin deleted
  /\ Row(i, None, FALSE)
  /\ subs' = [s \in Entities \X ConfigIds |-> IF s[2] = i THEN "none" ELSE subs[s]]
  /\ UNCHANGED <<created, grants, deleted>>

\* DELETE /entities/:id/ports/:port_id; the foreign keys of port_subscriptions
\* and entity_access cascade.
DeletePort(i) ==
  /\ Edit
  /\ svcOf[i] # None
  /\ svcOf[i][1] \notin deleted
  /\ Row(i, None, FALSE)
  /\ subs' = [s \in Entities \X ConfigIds |-> IF s[2] = i THEN "none" ELSE subs[s]]
  /\ grants' = {g \in grants : g.scope # i}
  /\ UNCHANGED <<created, deleted>>

\* POST /entities/:id/subscriptions asks check_access before it inserts;
\* UNIQUE (port_config_id, subscriber_entity_id) refuses a second row.
CreateSubscription(e, i, on) ==
  /\ Edit
  /\ e \notin deleted
  /\ svcOf[i] # None
  /\ svcOf[i][1] \notin deleted
  /\ MayReach(e, svcOf[i][1], i)
  /\ subs[<<e, i>>] = "none"
  /\ subs' = [subs EXCEPT ![<<e, i>>] = IF on THEN "on" ELSE "off"]
  /\ UNCHANGED <<svcOf, enabled, created, grants, deleted>>

\* PUT and DELETE /entities/:id/subscriptions/:subscription_id
ChangeSubscription(e, i, to) ==
  /\ Edit
  /\ e \notin deleted
  /\ subs[<<e, i>>] # "none"
  /\ subs' = [subs EXCEPT ![<<e, i>>] = to]
  /\ UNCHANGED <<svcOf, enabled, created, grants, deleted>>

\* POST /entities/:id/access
CreateAccess(g) ==
  /\ Edit
  /\ g.target \notin deleted
  /\ g.scope # AnyConfig => /\ svcOf[g.scope] # None
                            /\ svcOf[g.scope][1] = g.target
  /\ grants' = grants \cup {g}
  /\ UNCHANGED <<svcOf, enabled, created, subs, deleted>>

\* DELETE /access/:id leaves the subscriptions the grant allowed in place.
DeleteAccess(g) ==
  /\ Edit
  /\ g.target \notin deleted
  /\ grants' = grants \ {g}
  /\ UNCHANGED <<svcOf, enabled, created, subs, deleted>>

\* DELETE /entities/:id sets deleted_at and touches no other row.
DeleteEntity(e) ==
  /\ Edit
  /\ e \notin deleted
  /\ deleted' = deleted \cup {e}
  /\ UNCHANGED <<svcOf, enabled, created, subs, grants>>

DbEdit ==
  \/ \E s \in Services, on \in BOOLEAN : CreatePort(s, on)
  \/ \E i \in ConfigIds, p \in Ports, on \in BOOLEAN : UpdatePort(i, p, on)
  \/ \E i \in ConfigIds : DeletePort(i)
  \/ \E e \in Entities, i \in ConfigIds, on \in BOOLEAN : CreateSubscription(e, i, on)
  \/ \E e \in Entities, i \in ConfigIds, to \in SubState : ChangeSubscription(e, i, to)
  \/ \E t \in Entities, ss \in Subjects, i \in ConfigIds \cup {AnyConfig} :
       CreateAccess([target |-> t, subjects |-> ss, scope |-> i])
  \/ \E g \in grants : DeleteAccess(g)
  \/ \E e \in Entities : DeleteEntity(e)

-----------------------------------------------------------------------------
(* Properties. *)

\* The rows that name a service name one that exists, and a grant is scoped only
\* to a service of the machine it opens: neither an edit of a port nor its
\* removal leaves a subscription or a grant behind.
DbConsistent ==
  /\ \A e \in Entities, i \in ConfigIds : subs[<<e, i>>] # "none" => svcOf[i] # None
  /\ \A g \in grants : g.scope # AnyConfig =>
       svcOf[g.scope] # None /\ svcOf[g.scope][1] = g.target
=============================================================================
