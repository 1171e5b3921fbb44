------------------------ MODULE MCListenerLifecycle ------------------------
(* Instances of ListenerLifecycle for TLC. *)
EXTENDS ListenerLifecycle

\* A wildcard address and two of one interface, one of them on its port.
MixedHosts == { [host |-> "0.0.0.0", port |-> 1],
                [host |-> "127.0.0.1", port |-> 1],
                [host |-> "127.0.0.1", port |-> 2] }

\* relay.listen_*: on the port of one of the proxy's addresses.
RelayPort == { [host |-> "0.0.0.0", port |-> 2] }
=============================================================================
