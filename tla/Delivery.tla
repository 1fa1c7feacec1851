------------------------------- MODULE Delivery -------------------------------
(***************************************************************************)
(* A program that publishes messages of one class, or of another, and a    *)
(* program that subscribes to them: messaging/publisherSubscriber, the     *)
(* same with a broadcast proxy between them                                *)
(* (messaging/xPublisherXSubscriber), and the heartbeat's pair of wrappers *)
(* that send and receive one class only (proxyBroadcasts/heartbeat).       *)
(*                                                                         *)
(* The sender fills an object in with the setters of its class and sends   *)
(* it as two frames, its type and its packed contents.  The receiver has a *)
(* registry of the formats it handles (messageFormats/messages.cpp), a copy*)
(* of which tells the socket what to subscribe to and makes the object that*)
(* a message is read into.  A publisher does not wait for anyone: what     *)
(* comes too early, or too fast for the high water mark, is lost.          *)
(***************************************************************************)
EXTENDS ConnectionDetails

CONSTANT
  Senders       \* pairs of a class and of the kind of publisher it is sent by

VARIABLES
  sender,       \* the one of them that this is about
  object,       \* the sender's object: its class and its fields
  publishing,   \* mInitialized of the publisher
  formats,      \* the types in the subscribing program's Messages
  handled,      \* those in the subscriber's copy, mMessageTypes
  subscriptions,\* those that its socket is subscribed to
  listening,    \* mInitialized of the subscriber
  wire,         \* the message on its way, if any
  outcome       \* what receive() has last done

deliveryVars == <<sender, object, publishing, formats, handled, subscriptions,
                  listening, wire, outcome>>

(* The classes that travel, by name.                                       *)
Classes ==
  [CommandRequest |-> CommandRequest,
   CommandResponse |-> CommandResponse,
   AvailableCommandsRequest |-> AvailableCommandsRequest,
   AvailableCommandsResponse |-> AvailableCommandsResponse,
   TerminateRequest |-> TerminateRequest,
   TerminateResponse |-> TerminateResponse,
   RegistrationRequest |-> RegistrationRequest,
   RegistrationResponse |-> RegistrationResponse,
   AvailableModulesRequest |-> AvailableModulesRequest,
   AvailableModulesResponse |-> AvailableModulesResponse,
   Failure |-> Failure,
   Text |-> Text,
   PingRequest |-> PingRequest,
   PingResponse |-> PingResponse,
   ModuleTerminateRequest |-> ModuleTerminateRequest,
   ModuleTerminateResponse |-> ModuleTerminateResponse,
   Status |-> Status,
   AvailableConnectionsRequest |-> AvailableConnectionsRequest,
   AvailableConnectionsResponse |-> AvailableConnectionsResponse]

ASSUME SendersAssumption == \A s \in Senders : s.class \in DOMAIN Classes

(* What have...() looks for is nothing that a caller can offer.            *)
ASSUME UnsetAssumption ==
  \A c \in DOMAIN Classes : \A f \in DOMAIN Classes[c].fields :
    Unset \notin DOMAIN Classes[c].fields[f].takes

(* A program that is not about the heartbeat also sends texts.             *)
Sent == {sender.class} \cup IF sender.kind = "heartbeat" THEN {} ELSE {"Text"}

None == [is |-> "none"]

NoDeliveryInit ==
  /\ sender = [class |-> "Text", kind |-> "none"]
  /\ object = [class |-> "Text", fields |-> New(TextFields)]
  /\ publishing = FALSE
  /\ formats = {}
  /\ handled = {}
  /\ subscriptions = {}
  /\ listening = FALSE
  /\ wire = << >>
  /\ outcome = None

DeliveryInit ==
  /\ sender \in Senders
  /\ object = [class |-> sender.class, fields |-> New(Classes[sender.class].fields)]
  /\ publishing = FALSE
  /\ formats = IF sender.kind = "heartbeat" THEN {"Status"} ELSE {}
  /\ handled = {}
  /\ subscriptions = {}
  /\ listening = FALSE
  /\ wire = << >>
  /\ outcome = None

-------------------------------------------------------------------------------

(* Only the sender's object changes, and what came of its last message is  *)
(* looked at no more.  It changes while no message is on its way: what is  *)
(* sent is packed by then, so that nothing is lost by that.                *)
Change(new) ==
  /\ wire = << >>
  /\ object' = new
  /\ outcome' = None
  /\ UNCHANGED <<sender, publishing, formats, handled, subscriptions, listening,
                 wire>>

Made(c) == [class |-> c, fields |-> New(Classes[c].fields)]

(* A new object, of a class of the sender's.                               *)
Make == \E c \in Sent : Change(Made(c))

(* A setter that does not throw.                                           *)
SetField ==
  LET fields == Classes[object.class].fields IN
  \E f \in DOMAIN fields : \E v \in DOMAIN fields[f].takes : \E k \in Kept(fields, f, v) :
    Change([object EXCEPT !.fields[f] = k])

(* clear() makes a new pImpl, whose stamp is not that of the constructor.  *)
ClearObject ==
  LET new == Made(object.class) IN
  Change(IF object.class = "Status" THEN [new EXCEPT !.fields.timeStamp = Epoch] ELSE new)

(* at() and operator[] give a module of the response to change: cleared, it*)
(* has no name any more.                                                   *)
ClearModule ==
  /\ object.class = "AvailableModulesResponse"
  /\ \E i \in DOMAIN object.fields.modules :
       Change([object EXCEPT !.fields.modules[i] = New(ModuleDetailsFields)])

-------------------------------------------------------------------------------

(* The registry of formats: a second one of a type throws, as does the     *)
(* removal of one that is not there.                                       *)
ChangeFormats(new) ==
  /\ sender.kind # "heartbeat"
  /\ formats' = new
  /\ UNCHANGED <<sender, object, publishing, handled, subscriptions, listening,
                 wire, outcome>>

AddFormat == \E c \in Sent \ formats : ChangeFormats(formats \cup {c})

RemoveFormat == \E c \in formats : ChangeFormats(formats \ {c})

ClearFormats == ChangeFormats({})

-------------------------------------------------------------------------------

Publishing(does) ==
  /\ publishing' = does
  /\ UNCHANGED <<sender, object, formats, handled, subscriptions, listening, wire,
                 outcome>>

(* Publisher::initialize gives up the old end point and binds, which fails *)
(* where another socket is bound.                                          *)
PublisherBinds ==
  /\ sender.kind = "direct"
  /\ \E binds \in BOOLEAN : Publishing(binds)

(* With a proxy in between it connects, or throws; and it can disconnect.  *)
PublisherConnects ==
  /\ sender.kind # "direct"
  /\ \E connects \in BOOLEAN : Publishing(connects)

PublisherDisconnect ==
  /\ sender.kind # "direct"
  /\ publishing
  /\ Publishing(FALSE)

(* toMessage() throws where a getter does.                                 *)
CanPack(o) ==
  /\ Packs(Classes[o.class], o.fields)
  /\ o.class = "AvailableModulesResponse" =>
       \A i \in DOMAIN o.fields.modules :
         Packs(PackedModuleDetails, o.fields.modules[i])

(* The two frames; "of" is what was sent, which only the properties read.  *)
Frames(o) ==
  [type |-> Classes[o.class].type,
   contents |-> IF o.class = "AvailableConnectionsResponse"
                THEN ResponseToJSON(o.fields)
                ELSE Packed(Classes[o.class], o.fields).contents,
   of |-> o]

(* The message is on its way to a subscriber that is connected, or lost.   *)
(* ZeroMQ compares the first frame with the subscriptions as prefixes, but *)
(* no type of the library is a prefix of another.                          *)
Send ==
  /\ publishing
  /\ wire = << >>
  /\ CanPack(object)
  /\ \/ /\ listening
        /\ object.class \in subscriptions
        /\ wire' = <<Frames(object)>>
     \/ wire' = << >>
  /\ outcome' = None
  /\ UNCHANGED <<sender, object, publishing, formats, handled, subscriptions,
                 listening>>

-------------------------------------------------------------------------------

(* Subscriber::initialize wants a format at least.  It gives up the old end*)
(* point with what was on its way from there, connects or throws, and adds *)
(* the subscriptions to those that the socket has.                         *)
SubscriberInitialize ==
  /\ formats # {}
  /\ wire' = << >>
  /\ \/ /\ listening' = TRUE
        /\ handled' = formats
        /\ subscriptions' = subscriptions \cup formats
     \/ /\ listening' = FALSE
        /\ UNCHANGED <<handled, subscriptions>>
  /\ outcome' = None
  /\ UNCHANGED <<sender, object, publishing, formats>>

SubscriberDisconnect ==
  /\ listening
  /\ listening' = FALSE
  /\ wire' = << >>
  /\ UNCHANGED <<sender, object, publishing, formats, handled, subscriptions,
                 outcome>>

(* The stamp of a cleared status is not in the format that it is scanned   *)
(* for: all but its year is what the variables happened to hold, which the *)
(* setters' checks may or may not refuse.                                  *)
IsGarbled(m) == m.of.class = "Status" /\ m.of.fields.timeStamp = Epoch

(* A setter that fromMessage() calls throws.                               *)
CannotUnpack(m) ==
  IF m.of.class = "AvailableConnectionsResponse"
  THEN \E i \in DOMAIN m.contents.Details : ~ AreValid(JSONToDetails(m.contents.Details[i]))
  ELSE ~ IsGarbled(m) /\ ~ Reads(Classes[m.of.class], m)

(* The object that is read from the message.                               *)
Unpack(m) ==
  IF m.of.class = "AvailableConnectionsResponse"
  THEN JSONToResponse(m.contents)
  ELSE Read(Classes[m.of.class],
            IF IsGarbled(m) THEN [m EXCEPT !.contents.timeStamp = Unset] ELSE m)

(* Subscriber::receive: a type without a format throws, a time out returns *)
(* nothing, and the wrappers cast what they get.                           *)
Receive ==
  /\ listening
  /\ wire # << >>
  /\ wire' = << >>
  /\ LET m == Head(wire)
         threw == [is |-> "threw", of |-> m.of]
         returned == [is |-> "returned", of |-> m.of, object |-> Unpack(m)]
     IN
     IF m.of.class \notin handled \/ CannotUnpack(m)
     THEN outcome' = threw
     ELSE outcome' = returned \/ (outcome' = threw /\ IsGarbled(m))
  /\ UNCHANGED <<sender, object, publishing, formats, handled, subscriptions, listening>>

DeliveryNext ==
  \/ Make \/ SetField \/ ClearObject \/ ClearModule
  \/ AddFormat \/ RemoveFormat \/ ClearFormats
  \/ PublisherBinds \/ PublisherConnects \/ PublisherDisconnect \/ Send
  \/ SubscriberInitialize \/ SubscriberDisconnect \/ Receive

-------------------------------------------------------------------------------

(* What a program sends is what the other one gets: every object that can  *)
(* be packed can be read again by its class and has the same fields, the   *)
(* security of each socket of a connection among them; and receive() throws*)
(* only for a type that was subscribed to by an earlier initialize() and is*)
(* handled no more, or for the stamp of a cleared status.                  *)
DeliveredAsSent ==
  /\ outcome.is = "returned" =>
       \A f \in DOMAIN outcome.of.fields :
         \/ outcome.object[f] = outcome.of.fields[f]
         \/ f = "timeStamp" /\ outcome.of.fields[f] = Epoch
  /\ outcome.is = "threw" =>
       \/ outcome.of.class \in subscriptions \ handled
       \/ outcome.of.class = "Status" /\ outcome.of.fields.timeStamp = Epoch
===============================================================================
