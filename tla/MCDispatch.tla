----------------------------- MODULE MCDispatch -----------------------------
(* An instance of Dispatch.  430 is the number of a service and a subject, *)
(* 8191 the last subject, 65535 an unset port.                             *)
EXTENDS Dispatch, TLC

CONSTANTS p1, p2

Publishers == <<p1, p2>>

Ports == {0, 430, 2100, 8191, 65535}
Peers == {7, CANARD_NODE_ID_UNSET}
Apps == Permutations(App)

(* A frame of the older protocol and two with the reserved bit set.        *)
Strays ==
    LET request == txMakeCANID([priority |-> 4, kind |-> "request", port |-> 430,
                                remote |-> Me], 7, 0)
        message == txMakeCANID([priority |-> 4, kind |-> "message", port |-> 2100,
                                remote |-> CANARD_NODE_ID_UNSET], 7, 0)
        Frame(id, toggle) == [id |-> id, size |-> 8, start |-> TRUE, end |-> TRUE,
                              toggle |-> toggle]
    IN  {Frame(message, FALSE), Frame(request + Reserved23, TRUE),
         Frame(message + Reserved23, TRUE)}
=============================================================================
