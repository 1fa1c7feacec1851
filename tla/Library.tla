-------------------------------- MODULE Library --------------------------------
(***************************************************************************)
(* The parts of the library that a program uses inside its own process,    *)
(* each by itself: it publishes and subscribes (Delivery), configures a    *)
(* component (Configuration), requests and replies (RequestReply), or keeps*)
(* a user, an account or keys (Credentials).  The parts share no state, so *)
(* that a behaviour is about one of them: interleaving them would multiply *)
(* the states and add no behaviour to any of the parts.                    *)
(***************************************************************************)
EXTENDS Delivery, Configuration, RequestReply, Credentials

VARIABLE
  part        \* the part that the program uses

vars == <<part, deliveryVars, configurationVars, requestReplyVars, credentialVars>>

(* Of the files with keys only that with the client's public one matters to*)
(* a user.  A program that secures sockets has the client's private one.   *)
FirstFiles ==
  CASE part = "user" -> {{}, {"clientPublic"}}
    [] part = "security" -> {{"clientPrivate"}}
    [] OTHER -> {{}}

Init ==
  /\ part \in
       {"delivery", "configuration", "requests", "user", "account", "security"}
  /\ IF part = "delivery" THEN DeliveryInit ELSE NoDeliveryInit
  /\ IF part = "configuration" THEN ConfigurationInit ELSE NoConfigurationInit
  /\ IF part = "requests" THEN RequestReplyInit ELSE NoRequestReplyInit
  /\ CredentialInit(FirstFiles)

Next ==
  \/ /\ part = "delivery"
     /\ DeliveryNext
     /\ UNCHANGED <<part, configurationVars, requestReplyVars, credentialVars>>
  \/ /\ part = "configuration"
     /\ ConfigurationNext
     /\ UNCHANGED <<part, deliveryVars, requestReplyVars, credentialVars>>
  \/ /\ part = "requests"
     /\ RequestReplyNext
     /\ UNCHANGED <<part, deliveryVars, configurationVars, credentialVars>>
  \/ /\ part = "user" /\ UserNext
     /\ UNCHANGED <<part, deliveryVars, configurationVars, requestReplyVars>>
  \/ /\ part = "account" /\ AccountNext
     /\ UNCHANGED <<part, deliveryVars, configurationVars, requestReplyVars>>
  \/ /\ part = "security" /\ SecurityNext
     /\ UNCHANGED <<part, deliveryVars, configurationVars, requestReplyVars>>

Spec == Init /\ [][Next]_vars
===============================================================================
