---------------------------- MODULE MessageClasses ----------------------------
(***************************************************************************)
(* The messages of the command services, of the registry of modules and of *)
(* the broadcasts, class by class: what a field of a new object holds, what*)
(* its setter refuses, what must be set before the object can be packed.   *)
(* Each class is two definitions, its fields with their setters and the    *)
(* conversion to and from a message.  Codes and numbers have two or three  *)
(* values that stand for them all.                                         *)
(***************************************************************************)
EXTENDS ValueClass

Codes == {"Success", "Failed"}

Numbers == {0, 1}

-------------------------------------------------------------------------------

(* The messages of a local command service, and the same ones at a remote  *)
(* module.  A response is any text, a command must not be blank.           *)
CommandRequestFields == [command |-> Name(Unset)]
CommandRequest ==
  Message("Services::Command::CommandRequest", CommandRequestFields, {"command"})

CommandResponseFields ==
  [response |-> Stored(Unset, Texts), returnCode |-> Stored(Unset, Codes)]
CommandResponse ==
  Message("Services::Command::CommandResponse", CommandResponseFields,
          {"response", "returnCode"})

AvailableCommandsRequest ==
  Message("Services::Command::AvailableCommandsRequest", << >>, {})

AvailableCommandsResponseFields == [commands |-> Stored("blank", Texts)]
AvailableCommandsResponse ==
  Message("Services::Command::AvailableCommandsResponse",
          AvailableCommandsResponseFields, {})

TerminateRequest == Message("Services::Command::TerminateRequest", << >>, {})

TerminateResponseFields == [returnCode |-> Stored(Unset, Codes)]
TerminateResponse ==
  Message("Services::Command::TerminateResponse", TerminateResponseFields,
          {"returnCode"})

-------------------------------------------------------------------------------

(* What the registry knows of a module.  A new object describes the        *)
(* process that makes it, only the name has to be given.                   *)
ModuleDetailsFields ==
  [name |-> Name(Unset), instance |-> Stored(0, Numbers),
   machine |-> Stored("this", Texts), executable |-> Stored("this", Texts),
   processIdentifier |-> Stored(1, Numbers),
   parentProcessIdentifier |-> Stored(1, Numbers)]

(* pack and unpack: every field travels, and the name must be set.         *)
PackedModuleDetails ==
  Message("ModuleDetails", ModuleDetailsFields, {"name"})

(* Some of the details a caller has: new, named, and of another process.   *)
SomeModuleDetails ==
  LET named == [New(ModuleDetailsFields) EXCEPT !.name = "one"] IN
  {New(ModuleDetailsFields), named,
   [named EXCEPT !.instance = 1, !.machine = "two", !.executable = "blank",
                 !.processIdentifier = 0, !.parentProcessIdentifier = 0]}

IsNamed(details) == details.name # Unset

RegistrationRequestFields ==
  [registrationType |-> Stored("Register", {"Register", "Deregister"}),
   moduleDetails |-> Checked(Unset, SomeModuleDetails,
                             LAMBDA d : IF IsNamed(d) THEN {d} ELSE {})]
RegistrationRequest ==
  Message("ProxyServices::Command::RegistrationRequest",
          RegistrationRequestFields, {"moduleDetails"})

RegistrationResponseFields == [returnCode |-> Stored(Unset, Codes)]
RegistrationResponse ==
  Message("ProxyServices::Command::RegistrationResponse",
          RegistrationResponseFields, {"returnCode"})

AvailableModulesRequestFields == [identifier |-> Stored(0, Numbers)]
AvailableModulesRequest ==
  Message("ProxyServices::Command::AvailableModulesRequest",
          AvailableModulesRequestFields, {})

(* No modules travel as null, which is read as no modules.                 *)
AvailableModulesResponseFields ==
  [identifier |-> Stored(0, Numbers),
   modules |-> Checked(<< >>,
                       {<< >>} \cup {<<d>> : d \in SomeModuleDetails}
                               \cup {<<d, e>> : d, e \in SomeModuleDetails},
                       LAMBDA s : IF \A i \in DOMAIN s : IsNamed(s[i]) THEN {s} ELSE {})]
AvailableModulesResponse ==
  Message("ProxyServices::Command::AvailableModulesResponse",
          AvailableModulesResponseFields, {})

-------------------------------------------------------------------------------

(* The formats that any program may use, and the ping and the termination  *)
(* between the registry's proxy and a module.  clear() empties the text.   *)
FailureFields == [details |-> Stored("blank", Texts)]
Failure == Message("MessageFormats::Failure", FailureFields, {})

TextFields == [contents |-> Stored("blank", Texts)]
Text == Message("MessageFormats::Text", TextFields, {})

PingFields == [time |-> Stored(1, Numbers)]
PingRequest == Message("::PingRequest", PingFields, {})
PingResponse == Message("::PingResponse", PingFields, {})

ModuleTerminateRequest == Message("::TerminateRequest", << >>, {})
ModuleTerminateResponse == Message("::TerminateResponse", << >>, {})

-------------------------------------------------------------------------------

(* The time stamp of a status is its year, month, day, hour, minute, second*)
(* and millisecond.  A cleared status has the stamp of pImpl, whose date is*)
(* written with colons: reading it leaves all but the year unassigned.     *)
Epoch == <<1970>>

Ranges == <<0 .. 9999, 1 .. 12, 1 .. 31, 0 .. 23, 0 .. 59, 0 .. 59, 0 .. 999>>

IsStamp(t) == \A i \in DOMAIN Ranges : t[i] \in Ranges[i]

Stamps == {<<2022, 12, 31, 23, 59, 59, 999>>, <<2023, 1, 1, 0, 0, 0, 0>>,
           <<2023, 1, 1, 0, 1, 0, 0>>, <<2023, 13, 1, 0, 0, 0, 0>>,
           <<2023, 1, 1, 24, 0, 0, 0>>}

Now == <<2023, 1, 1, 0, 0, 0, 0>>

StatusFields ==
  [module |-> Name("unknown"), hostName |-> Name("this"),
   moduleStatus |-> Stored("Unknown", {"Alive", "Died"}),
   timeStamp |-> Checked(Now, Stamps, LAMBDA t : IF IsStamp(t) THEN {t} ELSE {})]
Status == Message("ProxyBroadcasts::Heartbeat::Status", StatusFields, {})
===============================================================================
