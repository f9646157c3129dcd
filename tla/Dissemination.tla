---------------------------- MODULE Dissemination ----------------------------
(***************************************************************************)
(* What a broadcast layer promises the hosts of a mesh, whatever links,    *)
(* datagrams and timers it uses: a host is given only messages that some   *)
(* host broadcast, and a message it has been given (or broadcast itself)   *)
(* again only after its node has forgotten it.                             *)
(***************************************************************************)
EXTENDS Naturals

CONSTANTS Node, Message

VARIABLES origin,     \* origin[m]: the nodes whose hosts broadcast m
          held,       \* held[n]: the messages n remembers
          delivered   \* delivered[n][m]: deliveries of m to n's host, 2 for more

vars == <<origin, held, delivered>>

Init == /\ origin = [m \in Message |-> {}]
        /\ held = [n \in Node |-> {}]
        /\ delivered = [n \in Node |-> [m \in Message |-> 0]]

\* A node that starts to remember m may forget other messages.
Remember(n, m) == \E kept \in SUBSET held[n] : held' = [held EXCEPT ![n] = kept \cup {m}]

Broadcast(n, m) == /\ origin[m] = {}
                   /\ origin' = [origin EXCEPT ![m] = {n}]
                   /\ Remember(n, m)
                   /\ UNCHANGED delivered

Deliver(n, m) == /\ origin[m] # {} /\ m \notin held[n]
                 /\ Remember(n, m)
                 /\ delivered' = [delivered EXCEPT ![n][m] = IF @ < 2 THEN @ + 1 ELSE @]
                 /\ UNCHANGED origin

Forget(n) == /\ \E kept \in SUBSET held[n] : held' = [held EXCEPT ![n] = kept]
             /\ UNCHANGED <<origin, delivered>>

Next == \E n \in Node : Forget(n) \/ \E m \in Message : Broadcast(n, m) \/ Deliver(n, m)

Spec == Init /\ [][Next]_vars
=============================================================================
