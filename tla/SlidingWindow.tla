--------------------------- MODULE SlidingWindow ---------------------------
(***************************************************************************)
(* What the Vatic server promises the network, whatever its threads, the   *)
(* link and the RTT classifier do: it numbers its packets consecutively,   *)
(* sends one only if it fits in the window beside everything that is not   *)
(* acknowledged, and an acknowledgement clears its packet and all older    *)
(* ones.  The window moves between its initial size and its maximum.       *)
(***************************************************************************)
EXTENDS Integers, Functions, Totals

CONSTANTS
  MinWindow, MaxWindow,  \* least and greatest window, in bytes
  MaxLen                 \* length of the longest packet

VARIABLES
  window,   \* bytes that may be unacknowledged
  unacked,  \* id -> length of each unacknowledged packet
  nextId    \* id of the next packet

Send(len) ==
  /\ Total(unacked, DOMAIN unacked) + len <= window
  /\ unacked' = [id \in DOMAIN unacked \union {nextId} |->
                   IF id = nextId THEN len ELSE unacked[id]]
  /\ nextId' = nextId + 1
  /\ UNCHANGED window

Acknowledge(id) ==
  /\ unacked' = Restrict(unacked, {k \in DOMAIN unacked : k > id})
  /\ UNCHANGED <<window, nextId>>

Resize(size) ==
  /\ window' = size
  /\ UNCHANGED <<unacked, nextId>>

Init ==
  /\ window = MinWindow
  /\ unacked = [id \in {} |-> 0]
  /\ nextId = 1

Next ==
  \/ \E len \in 1 .. MaxLen : Send(len)
  \/ \E id \in DOMAIN unacked : Acknowledge(id)
  \/ \E size \in MinWindow .. MaxWindow : Resize(size)

Spec == Init /\ [][Next]_<<window, unacked, nextId>>
=============================================================================
