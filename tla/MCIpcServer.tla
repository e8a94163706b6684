----------------------------- MODULE MCIpcServer -----------------------------
EXTENDS IpcServer

CONSTANTS c1, c2

\* One client subscribes and ticks, the other queries and runs commands; both
\* may listen, and both may send what the server does not understand.
MCClients == {c1, c2}
MCKinds == [c \in MCClients |-> IF c = c1 THEN {"subscribe", "send_tick", "garbage"}
                                ELSE {"subscribe_bad", "command", "get_tree", "unknown"}]
==============================================================================
