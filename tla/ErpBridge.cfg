\* Three connections: one to break, one to stop, one to recover on.  Three
\* events overflow a queue of two while its head is being sent.
CONSTANTS
    QueueMax = 2
    DelayMin = 1
    DelayMax = 3
    MaxEvents = 3
    MaxConns = 3
SPECIFICATION FairSpec
INVARIANTS TypeOK NothingVanishes NoResendAfterAck OrderedPerConnection
           NoLostWakeup OneLiveSocket
PROPERTIES ImplementsOutbox EventuallySettled EventuallyReconnects
