---------------------------- MODULE MCLightMonitor ----------------------------
(***************************************************************************)
(* The network on which LightMonitor is checked: wit hears both src and    *)
(* the relay of the messages to dst.                                       *)
(***************************************************************************)
EXTENDS LightMonitor

CONSTANTS src, wit, rel, dst

Diamond == {{src, rel}, {rel, dst}, {src, wit}, {wit, rel}}
FromSrc == [x \in Messages |-> src]
ToDst == [x \in Messages |-> dst]

\* On this network one neighbour of src at most relays a message to dst.
ASSUME OneRelayAssumption == \A m \in Messages : OneRelay(m)
=============================================================================
