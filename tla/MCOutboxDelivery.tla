--------------------------- MODULE MCOutboxDelivery ---------------------------
\* Small instances of OutboxDelivery: two messages while batches end before
\* their leases, one message, a crash and a raising hook when they may not.
EXTENDS OutboxDelivery

CONSTANTS m1, m2, p1, p2

MCMessages == {m1, m2}
MCRuntimes == {p1, p2}
MCSettings ==
    {[rough |-> FALSE, messages |-> {m1, m2}, processes |-> {p1}, crashes |-> 0]} \cup
    [rough : BOOLEAN, messages : {{m1}}, processes : {{p1, p2}}, crashes : {1}]
=============================================================================
