------------------------------ MODULE UdpLink ------------------------------
(***************************************************************************)
(* The two UDP flows between the Vatic server and client: code outside     *)
(* src/, modelled from how its two ends use it (sendto and recvfrom in     *)
(* Vatic.cpp, Client.cpp, server_program.cpp and client_program.cpp).      *)
(* A flow is the set of datagrams sent and not yet received, in the        *)
(* network or in the receiving socket.                                     *)
(***************************************************************************)
EXTENDS Integers, FiniteSets

CONSTANTS
  Ordered,      \* TRUE for a path that keeps the order of datagrams
  Duplicating,  \* TRUE for a path that may deliver a datagram again
  MaxDrops      \* bound: how many packets may be lost, either way

ASSUME LinkAssumption ==
  /\ Ordered \in BOOLEAN
  /\ Duplicating \in BOOLEAN
  /\ MaxDrops \in Nat

VARIABLES
  toClient,  \* datagrams under way to the client
  toServer,  \* datagrams under way to the server
  dropped    \* ids of the packets that were lost, themselves or their ACK

linkVars == <<toClient, toServer, dropped>>

\* PKT_TYPE as the receivers tell it apart: "DATA" stands for every value of
\* the byte but PKT_TYPE::ACK.
Datagrams == [type : {"DATA", "ACK"}, id : Nat]

\* The datagrams recvfrom may return next.
Deliverable(flow) ==
  IF Ordered THEN {m \in flow : \A n \in flow : m.id <= n.id} ELSE flow

\* What may be left of a flow after it delivered m.
Leftovers(flow, m) ==
  {flow \ {m}} \union (IF Duplicating THEN {flow} ELSE {})

LinkInit ==
  /\ toClient = {}
  /\ toServer = {}
  /\ dropped = {}

Lose ==
  /\ Cardinality(dropped) < MaxDrops
  /\ \E m \in toClient \union toServer :
       /\ dropped' = dropped \union {m.id}
       /\ \/ m \in toClient /\ toClient' = toClient \ {m} /\ UNCHANGED toServer
          \/ m \in toServer /\ toServer' = toServer \ {m} /\ UNCHANGED toClient

LinkTypeOK ==
  /\ toClient \subseteq Datagrams
  /\ toServer \subseteq [type : {"ACK"}, id : Nat]
  /\ dropped \subseteq Nat /\ IsFiniteSet(dropped)
=============================================================================
