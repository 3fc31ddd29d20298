----------------------------- MODULE Consignments -----------------------------
(***************************************************************************)
(* What a transfer between two stores promises, whoever clicks what and    *)
(* when: its goods leave the source at most once, and then they are on the *)
(* road until they land exactly once, at the destination with at most what *)
(* was sent or back at the source complete.                                *)
(***************************************************************************)
EXTENDS Integers

CONSTANTS
    Consignments,   \* the transfers
    Stores,         \* the shops and the online store
    SKUs            \* what is counted

VARIABLES
    shelf,          \* units at each store
    leg,            \* how far each consignment has come
    route,          \* the stores it runs between
    load            \* its units that are on the road

vars == <<shelf, leg, route, load>>

Legs == {"unknown", "planned", "onroad", "over"}
Empty == [p \in SKUs |-> 0]
Route == [from : Stores, to : Stores]

Init ==
    /\ shelf \in [Stores -> [SKUs -> Int]]
    /\ leg = [c \in Consignments |-> "unknown"]
    /\ route \in [Consignments -> Route]
    /\ load = [c \in Consignments |-> Empty]

\* c goes from leg a to leg b.
Progress(c, a, b) == leg[c] = a /\ leg' = [leg EXCEPT ![c] = b]

\* Only c changes its load, and only store s changes its shelf.
Only(c, s) ==
    /\ \A d \in Consignments \ {c} : load'[d] = load[d]
    /\ \A t \in Stores \ {s} : shelf'[t] = shelf[t]

Plan(c) ==
    /\ Progress(c, "unknown", "planned")
    /\ \E r \in Route : r.from # r.to /\ route' = [route EXCEPT ![c] = r]
    /\ UNCHANGED <<shelf, load>>

Depart(c) ==
    /\ Progress(c, "planned", "onroad")
    /\ Only(c, route[c].from)
    /\ \A p \in SKUs :
          /\ load'[c][p] >= 0
          /\ shelf'[route[c].from][p] = shelf[route[c].from][p] - load'[c][p]
    /\ UNCHANGED route

Arrive(c) ==
    /\ Progress(c, "onroad", "over")
    /\ Only(c, route[c].to)
    /\ load'[c] = Empty
    /\ \A p \in SKUs :
          /\ shelf'[route[c].to][p] >= shelf[route[c].to][p]
          /\ shelf'[route[c].to][p] <= shelf[route[c].to][p] + load[c][p]
    /\ UNCHANGED route

ComeBack(c) ==
    /\ Progress(c, "onroad", "over")
    /\ Only(c, route[c].from)
    /\ load'[c] = Empty
    /\ \A p \in SKUs : shelf'[route[c].from][p] = shelf[route[c].from][p] + load[c][p]
    /\ UNCHANGED route

CallOff(c) ==
    /\ Progress(c, "planned", "over")
    /\ UNCHANGED <<shelf, route, load>>

\* Everything else that happens at one store.
Trade(s) ==
    /\ \A t \in Stores \ {s} : shelf'[t] = shelf[t]
    /\ UNCHANGED <<leg, route, load>>

Next ==
    \/ \E c \in Consignments :
          Plan(c) \/ Depart(c) \/ Arrive(c) \/ ComeBack(c) \/ CallOff(c)
    \/ \E s \in Stores : Trade(s)

Spec == Init /\ [][Next]_vars
=============================================================================
