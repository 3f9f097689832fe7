------------------------- MODULE MCServerLifecycle ---------------------------
(* ServerLifecycle for TLC: a handful of configuration files.               *)
EXTENDS ServerLifecycle

Service(n, t) == [name |-> n, type |-> t]

\* All combinations of keys, each with one or with the default two threads.
MCGroupConfs ==
    UNION {[ks -> {0, 1}] : ks \in {{}, {"conn", "accept"}, {"accept"}, {"db", "client"},
                                    {"redis", "fiber", "accept", "client"}}}

\* An item of the file, and one without a name.
Item(n, t) == [service_name |-> n, service_type |-> t]
Nameless(t) == [service_type |-> t]

MCServiceArrays ==
    {<< >>,
     << Item("tcp_server", "tcp_server"), Item("web", "http_server") >>,
     << Item("peers", "tcp_client"), Item("hub", "tcp_server"), Item("peers", "tcp_client") >>,
     << Item("hub", "tcp_server"), Item("hub", "tcp_client") >>,
     << Item("vault", "secure_tcp_server"), Item("tcp_client", "tcp_client"),
        Nameless("tcp_server") >>}

MCFactoryLists ==
    {<< >>,
     << Service("hub", "tcp_server"), Service("peers", "tcp_client"),
        Service("web", "http_server"), Service("hub", "tcp_client"),
        Service("vault", "secure_tcp_server") >>}
=============================================================================
