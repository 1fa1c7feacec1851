------------------------------ MODULE MCLibrary ------------------------------
(* Parts of Library for TLC: every class of messages sent directly and     *)
(* through a proxy, the heartbeat's by its wrappers too; every class of    *)
(* options; a client that looks sockets up in a list where a name is       *)
(* missing, one is of another kind, and one of a proxy.                    *)
EXTENDS Library

MCSenders ==
  {[class |-> c, kind |-> "direct"] : c \in DOMAIN Classes}
    \cup {[class |-> "Text", kind |-> "proxy"], [class |-> "Status", kind |-> "heartbeat"]}

MCConfigured == DOMAIN OptionsOf

MCFiles ==
  {[name |-> "one", frontendAddress |-> f, backendAddress |-> b,
    frontendHighWaterMark |-> h, pingIntervals |-> p,
    clientAccessAddress |-> f, verbosity |-> "INFO", address |-> f,
    zapOptions |-> "Woodhouse"] :
     f \in {"", "one"}, b \in {"one", "two"}, h \in {-2, 1}, p \in {<< >>, <<30, 10, 30>>}}

ASocket(type) == [New(SocketFields[type]) EXCEPT !.address = "one"]

Listing(name, type, s) ==
  [name |-> name, connectionType |-> "Service", socket |-> [type |-> type, socket |-> s]]

MCListed ==
  <<Listing("one", "Reply", ASocket("Reply")),
    Listing("two", "Proxy", [types |-> <<"Router", "Dealer">>,
                             frontend |-> ASocket("Router"), backend |-> ASocket("Dealer")])>>

MCSought ==
  {[name |-> name, type |-> "Router", side |-> 1] : name \in {"one", "two", "three"}}
    \cup {[name |-> "two", type |-> type, side |-> 2] : type \in {"Router", "Dealer"}}
===============================================================================
