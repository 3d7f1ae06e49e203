---------------------------- MODULE MCRendezvous ----------------------------
(***************************************************************************)
(* Instances of Rendezvous for TLC: two machines of two accounts, one that *)
(* serves and one that dials.                                              *)
(***************************************************************************)
EXTENDS Rendezvous, TLC

CONSTANTS client, server, port

MCEntities == {client, server}
MCPorts == {port}
MCOwner == [e \in MCEntities |-> e]
ServerConfig == << <<server, port>> >>
FirstEnabled == {1}
ClientSubscribed == {<<client, 1>>}
ClientGranted == {[target |-> server, subjects |-> {client}, scope |-> AnyConfig]}
ClientGrantedOne == {[target |-> server, subjects |-> {client}, scope |-> 1]}
ServerForwards == {<<server, port>>}
ClientDials == {<<client, server, port>>}

\* Each machine serves the port and dials the other's.
BothConfigs == << <<server, port>>, <<client, port>> >>
BothEnabled == {1, 2}
BothSubscribed == {<<client, 1>>, <<server, 2>>}
BothGranted == {[target |-> t, subjects |-> MCEntities, scope |-> AnyConfig] : t \in MCEntities}
BothForward == MCEntities \X MCPorts
BothDial == {<<client, server, port>>, <<server, client, port>>}

Symmetry == Permutations(Conns)
=============================================================================
