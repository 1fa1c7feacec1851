---------------------------- MODULE Configuration ----------------------------
(***************************************************************************)
(* A program that configures one of its sockets, proxies or services: it   *)
(* sets options, in any order and again, clears them, reads some of them   *)
(* from its initialization file, and initializes the component with them,  *)
(* which takes a copy and, when it is a proxy, binds both of its addresses.*)
(***************************************************************************)
EXTENDS OptionClasses

CONSTANTS
  Configured,   \* the names of the classes of options that are configured
  Files,        \* what an initialization file may have: fields with values
  MaxCalls      \* bound: calls of setters, of clear() and of the parser

VARIABLES
  optionClass,  \* the class of the options
  options,      \* the program's options
  calls,        \* how many calls it has made
  frontendLast, \* the frontend's address was set after the backend's
  component     \* new, refused, initialized or, of a proxy, failed to bind

configurationVars == <<optionClass, options, calls, frontendLast, component>>

OptionsOf ==
  [SocketOptions |-> SocketOptions,
   RouterOptions |-> RouterOptions,
   RequestOptions |-> RequestOptions,
   DealerRequestOptions |-> DealerRequestOptions,
   DealerReplyOptions |-> DealerReplyOptions,
   PublisherOptions |-> PublisherOptions,
   SubscriberOptions |-> SubscriberOptions,
   XPublisherOptions |-> XPublisherOptions,
   XSubscriberOptions |-> XSubscriberOptions,
   HeartbeatPublisherOptions |-> HeartbeatPublisherOptions,
   HeartbeatSubscriberOptions |-> HeartbeatSubscriberOptions,
   PublisherProcessOptions |-> PublisherProcessOptions,
   XPubXSubProxyOptions |-> XPubXSubProxyOptions,
   RouterDealerProxyOptions |-> RouterDealerProxyOptions,
   BroadcastProxyOptions |-> BroadcastProxyOptions,
   ServiceProxyOptions |-> ServiceProxyOptions,
   CommandProxyOptions |-> CommandProxyOptions,
   ReplierOptions |-> ReplierOptions,
   RequestorOptions |-> RequestorOptions,
   ConnectionServiceOptions |-> ConnectionServiceOptions,
   ConnectionRequestorOptions |-> ConnectionRequestorOptions,
   LocalServiceOptions |-> LocalServiceOptions,
   LocalRequestorOptions |-> LocalRequestorOptions,
   LocalModuleDetails |-> LocalModuleDetails]

ASSUME ConfiguredAssumption == Configured \subseteq DOMAIN OptionsOf

Class == OptionsOf[optionClass]

HasAddresses == BothAddresses \subseteq DOMAIN Class.fields

(* The classes with a parseInitializationFile().                           *)
IsParsed == optionClass \in {"BroadcastProxyOptions", "ServiceProxyOptions",
                             "CommandProxyOptions", "ConnectionServiceOptions",
                             "ConnectionRequestorOptions"}

NoConfigurationInit ==
  /\ optionClass = "PublisherOptions"
  /\ options = New(PublisherOptions.fields)
  /\ calls = MaxCalls
  /\ frontendLast = FALSE
  /\ component = "none"

ConfigurationInit ==
  /\ optionClass \in Configured
  /\ options = New(OptionsOf[optionClass].fields)
  /\ calls = 0
  /\ frontendLast = FALSE
  /\ component = "new"

-------------------------------------------------------------------------------

(* The component has a copy: what is done to the options later is about    *)
(* the next component.                                                     *)
Call(new, last) ==
  /\ calls < MaxCalls
  /\ calls' = calls + 1
  /\ options' = new
  /\ frontendLast' = last
  /\ component' = "new"
  /\ UNCHANGED optionClass

(* A setter that does not throw.                                           *)
SetOption ==
  \E f \in DOMAIN Class.fields : \E v \in DOMAIN Class.fields[f].takes :
    \E k \in KeptOption(Class, options, f, v) :
      Call([options EXCEPT ![f] = k],
           CASE f = "frontendAddress" -> TRUE
             [] f = "backendAddress" -> FALSE
             [] OTHER -> frontendLast)

(* clear() is a new pImpl, or a field by field one that leaves a field out.*)
Cleared ==
  IF optionClass = "ConnectionServiceOptions"
  THEN [New(Class.fields) EXCEPT !.zapOptions = options.zapOptions]
  ELSE New(Class.fields)

ClearOptions == Call(Cleared, FALSE)

(* The file's addresses are set frontend first.                            *)
ParseFile ==
  /\ IsParsed
  /\ \E file \in Files : \E parsed \in Parsed(Class, file) : Call(parsed, FALSE)

(* initialize() throws where something is missing.  That of a proxy binds  *)
(* the backend and then the frontend: the second bind of one address fails.*)
InitializeComponent ==
  /\ component = "new"
  /\ component' =
       IF ~ IsWanted(Class, options) THEN "refused"
       ELSE IF HasAddresses /\ options.frontendAddress = options.backendAddress
       THEN "failed" ELSE "initialized"
  /\ UNCHANGED <<optionClass, options, calls, frontendLast>>

ConfigurationNext == SetOption \/ ClearOptions \/ ParseFile \/ InitializeComponent

-------------------------------------------------------------------------------

(* Whatever the order of the calls, options with which a component can be  *)
(* initialized fit together: the two ends of a proxy for services have     *)
(* different addresses; those of the registry of modules too unless the    *)
(* frontend's was set last, and only where nothing compares them does the  *)
(* second bind of a proxy fail; the intervals at which modules are pinged  *)
(* ascend, so that the last one is the longest, as the proxy takes it to   *)
(* be; and a number that stands for a limit is not negative.               *)
OptionsFit ==
  /\ component = "failed" =>
       \/ optionClass \in {"XPubXSubProxyOptions", "BroadcastProxyOptions"}
       \/ optionClass = "CommandProxyOptions" /\ frontendLast
  /\ optionClass = "CommandProxyOptions" =>
       options.pingIntervals # << >> /\ IsAscending(options.pingIntervals)
  /\ \A f \in DOMAIN options :
       f \in {"highWaterMark", "sendHighWaterMark", "receiveHighWaterMark",
              "frontendHighWaterMark", "backendHighWaterMark"} => options[f] >= 0
===============================================================================
