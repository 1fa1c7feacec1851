----------------------------- MODULE Credentials -----------------------------
(***************************************************************************)
(* What a program proves who it is with, and what it knows of others: the  *)
(* user of authentication/user.cpp, with the hash of a password; the user  *)
(* name and the password of certificate/userNameAndPassword.cpp; the pairs *)
(* of keys of certificate/keys.cpp and their files; and the security       *)
(* options of authentication/zapOptions.cpp, which are made of them or read*)
(* with an initialization file, and are applied to sockets.                *)
(*                                                                         *)
(* A hash stands for the password that it is of; a key is there or it is   *)
(* not.                                                                    *)
(***************************************************************************)
EXTENDS ValueClass

CONSTANT
  Passwords    \* those that a caller may offer, "" among them

ASSUME PasswordsAssumption == Unset \notin Passwords

VARIABLES
  user,        \* a User
  matching,    \* its mMatchingPassword, "" while there is none
  account,     \* a UserNameAndPassword
  keys,        \* the program's Keys: those of the server and of the client
  keyFiles,    \* what the files for keys hold
  zap,         \* its ZAPOptions
  socket,      \* the mechanism of the security of a socket
  result       \* what the last call has returned

credentialVars == <<user, matching, account, keys, keyFiles, zap, socket, result>>

(* A user.  The key is a text of 40 characters, the hash has a largest     *)
(* length and must not be blank.                                           *)
UserFields ==
  [name |-> Name(Unset), email |-> Name(Unset),
   publicKey |-> Checked(Unset, {"blank", "40 characters", "41 characters"},
                         LAMBDA k : IF k = "40 characters" THEN {k} ELSE {}),
   hashedPassword |-> Checked(Unset, Passwords \cup {"blank", "too long"},
                              LAMBDA h : IF h \in {"blank", "too long"} THEN {} ELSE {h}),
   identifier |-> Stored(Unset, {0}),
   privileges |-> Stored("ReadOnly", {"ReadWrite", "Administrator"})]

Levels == {"Interactive", "Moderate", "Sensitive"}

NewAccount == [userName |-> Unset, password |-> Unset, hashes |-> [l \in Levels |-> Unset]]

NoKeys == [publicKey |-> FALSE, privateKey |-> FALSE]

NewZAP == [level |-> "Grasslands", server |-> FALSE, account |-> NewAccount,
           serverKeys |-> NoKeys, clientKeys |-> NoKeys]

Nothing == [is |-> "nothing"]

(* With these sets of files to begin with.                                 *)
CredentialInit(files) ==
  /\ user = New(UserFields)
  /\ matching = ""
  /\ account = NewAccount
  /\ keys = [server |-> NoKeys, client |-> NoKeys]
  /\ keyFiles \in files
  /\ zap = NewZAP
  /\ socket = "none"
  /\ result = Nothing

-------------------------------------------------------------------------------

othersThanUser == <<account, keys, keyFiles, zap, socket>>

(* The other setters of a user do not concern its password.                *)
SetUser ==
  /\ \E f \in DOMAIN UserFields \ {"hashedPassword"} : \E v \in DOMAIN UserFields[f].takes :
       \E k \in Kept(UserFields, f, v) : user' = [user EXCEPT ![f] = k]
  /\ result' = Nothing
  /\ UNCHANGED <<matching, othersThanUser>>

(* Mutant: the password that matched the old hash is not forgotten.        *)
SetHashedPasswordOnly ==
  /\ \E v \in DOMAIN UserFields.hashedPassword.takes :
       \E k \in Kept(UserFields, "hashedPassword", v) :
         user' = [user EXCEPT !.hashedPassword = k]
  /\ result' = Nothing
  /\ UNCHANGED <<matching, othersThanUser>>

SetHashedPassword ==
  /\ \E v \in DOMAIN UserFields.hashedPassword.takes :
       \E k \in Kept(UserFields, "hashedPassword", v) :
         user' = [user EXCEPT !.hashedPassword = k]
  /\ matching' = ""
  /\ result' = Nothing
  /\ UNCHANGED othersThanUser

ClearUser ==
  /\ user' = New(UserFields)
  /\ matching' = ""
  /\ result' = Nothing
  /\ UNCHANGED othersThanUser

(* doesPasswordMatch: without a hash nothing matches.  A password that has *)
(* matched is kept, so that the hash is not computed again.                *)
DoesPasswordMatch ==
  /\ \E p \in Passwords :
       LET matches == IF user.hashedPassword = Unset THEN FALSE
                      ELSE IF matching # "" THEN p = matching
                      ELSE p = user.hashedPassword
       IN
       /\ result' = [is |-> "compared", with |-> p, matches |-> matches]
       /\ matching' = IF matches /\ matching = "" THEN p ELSE matching
  /\ UNCHANGED <<user, othersThanUser>>

(* toMessage writes null for what is not set; fromMessage wants texts, and *)
(* throws there, but takes no identifier for one that is not set.          *)
CarryUser ==
  /\ IF \E f \in {"name", "email", "publicKey", "hashedPassword"} : user[f] = Unset
     THEN result' = [is |-> "threw"] /\ UNCHANGED <<user, matching>>
     ELSE result' = Nothing /\ UNCHANGED user /\ matching' = ""
  /\ UNCHANGED othersThanUser

(* uUserTable makes a user of a JSON file: of a password in it nothing     *)
(* becomes, a file with a public key is read.                              *)
LoadUser ==
  /\ \E name, email \in {t \in Texts : ~ IsEmpty(t)}, withKey \in BOOLEAN,
        privileges \in {"ReadOnly", "ReadWrite", "Administrator"} :
       /\ withKey => "clientPublic" \in keyFiles
       /\ user' = [New(UserFields) EXCEPT
                     !.name = name, !.email = email, !.privileges = privileges,
                     !.publicKey = IF withKey THEN "40 characters" ELSE @]
  /\ matching' = ""
  /\ result' = Nothing
  /\ UNCHANGED othersThanUser

-------------------------------------------------------------------------------

othersThanAccount == <<user, matching, keys, keyFiles, zap, socket>>

(* The setters take any text.  A new password forgets the hashes.          *)
SetAccount(passwords) ==
  /\ \/ account' = [account EXCEPT !.userName = "one"]
     \/ \E p \in passwords :
          account' = [account EXCEPT !.password = p, !.hashes = NewAccount.hashes]
     \/ account' = NewAccount
  /\ result' = Nothing
  /\ UNCHANGED othersThanAccount

(* getHashedPassword hashes once for each level.                           *)
GetHashedPassword ==
  /\ account.password # Unset
  /\ \E level \in Levels :
       LET hash == IF account.hashes[level] # Unset THEN account.hashes[level]
                   ELSE account.password
       IN
       /\ account' = [account EXCEPT !.hashes[level] = hash]
       /\ result' = [is |-> "hashed", hash |-> hash]
  /\ UNCHANGED othersThanAccount

-------------------------------------------------------------------------------

othersThanKeys == <<user, matching, account, zap, socket>>

(* The setters of a key: the flag is down while the key is converted, and  *)
(* stays down when that fails.  setPair() and create() set both keys, the  *)
(* public one first; clear() takes both flags down.                        *)
SetKeys ==
  /\ \E whose \in {"server", "client"} :
       \/ \E key \in {"publicKey", "privateKey"}, converts \in BOOLEAN :
            keys' = [keys EXCEPT ![whose][key] = converts]
       \/ \E converts \in BOOLEAN :
            keys' = [keys EXCEPT ![whose] = [publicKey |-> TRUE, privateKey |-> converts]]
       \/ keys' = [keys EXCEPT ![whose] = NoKeys]
  /\ result' = Nothing
  /\ UNCHANGED <<keyFiles, othersThanKeys>>

FileOf(whose, key) ==
  CASE whose = "server" /\ key = "publicKey" -> "serverPublic"
    [] whose = "server" /\ key = "privateKey" -> "serverPrivate"
    [] whose = "client" /\ key = "publicKey" -> "clientPublic"
    [] OTHER -> "clientPrivate"

(* A key that is not there is not written.                                 *)
WriteKey ==
  /\ \E whose \in {"server", "client"}, key \in {"publicKey", "privateKey"} :
       /\ keys[whose][key]
       /\ keyFiles' = keyFiles \cup {FileOf(whose, key)}
  /\ result' = Nothing
  /\ UNCHANGED <<keys, othersThanKeys>>

(* A file adds its key to those that are there; one without a key, or with *)
(* one of the wrong size, leaves them.                                     *)
Loaded(pair, whose, key) ==
  IF FileOf(whose, key) \in keyFiles THEN [pair EXCEPT ![key] = TRUE] ELSE pair

LoadKey ==
  /\ \E whose \in {"server", "client"}, key \in {"publicKey", "privateKey"} :
       /\ FileOf(whose, key) \in keyFiles
       /\ keys' = [keys EXCEPT ![whose] = Loaded(@, whose, key)]
  /\ result' = Nothing
  /\ UNCHANGED <<keyFiles, othersThanKeys>>

-------------------------------------------------------------------------------

othersThanZAP == <<user, matching, account, keys, keyFiles>>

Both(pair) == pair.publicKey /\ pair.privateKey

(* The setters of a level, for a server or a client.  What an earlier one  *)
(* has stored stays; what is missing throws before anything is stored.     *)
Secured(options, level, server, theAccount, theKeys) ==
  LET set == [options EXCEPT !.level = level, !.server = server] IN
  CASE level = "Woodhouse" /\ ~ server ->
         {[set EXCEPT !.account = a] :
            a \in {a \in {theAccount} : a.userName # Unset /\ a.password # Unset}}
    [] level = "Stonehouse" /\ server ->
         {[set EXCEPT !.serverKeys = k] : k \in {k \in {theKeys.server} : Both(k)}}
    [] level = "Stonehouse" /\ ~ server ->
         {[set EXCEPT !.serverKeys = k.server, !.clientKeys = k.client] :
            k \in {k \in {theKeys} : k.server.publicKey /\ Both(k.client)}}
    [] OTHER -> {set}

(* The domain, a text that everything else leaves alone, is left out.      *)
SecurityLevels == {"Grasslands", "Strawhouse", "Woodhouse", "Stonehouse"}

SetSecurity ==
  /\ \/ \E level \in SecurityLevels, server \in BOOLEAN :
          zap' \in Secured(zap, level, server, account, keys)
     \/ zap' = NewZAP
  /\ result' = Nothing
  /\ UNCHANGED <<socket, othersThanZAP>>

(* The operator's initialization file: the level, the account of a client, *)
(* which the environment or nothing stands in for, and the names of the    *)
(* files with the keys, which must exist.                                  *)
ReadSecurity ==
  /\ \E level \in SecurityLevels, server \in BOOLEAN :
       LET needed == IF level # "Stonehouse" THEN {}
                     ELSE IF server THEN {"serverPublic", "serverPrivate"}
                     ELSE {"serverPublic", "clientPublic", "clientPrivate"}
           given == [NewAccount EXCEPT !.userName = "one", !.password = ""]
           read(whose) == Loaded(Loaded(NoKeys, whose, "publicKey"), whose, "privateKey")
           loaded == [server |-> IF server THEN read("server")
                                 ELSE Loaded(NoKeys, "server", "publicKey"),
                      client |-> read("client")]
       IN
       /\ needed \subseteq keyFiles
       /\ zap' \in Secured(NewZAP, level, server, given, loaded)
  /\ result' = Nothing
  /\ UNCHANGED <<socket, othersThanZAP>>

(* setSocketOptions gets what it needs for the level through getters that  *)
(* throw where it is not there.                                            *)
CanSecure ==
  CASE zap.level = "Woodhouse" /\ ~ zap.server ->
         zap.account.userName # Unset /\ zap.account.password # Unset
    [] zap.level = "Stonehouse" /\ zap.server -> Both(zap.serverKeys)
    [] zap.level = "Stonehouse" /\ ~ zap.server ->
         zap.serverKeys.publicKey /\ Both(zap.clientKeys)
    [] OTHER -> TRUE

Mechanism(level, server) ==
  IF level = "Woodhouse"
  THEN IF server THEN "plain server" ELSE "plain client"
  ELSE IF server THEN "curve server" ELSE "curve client"

(* The two lower levels do not touch the mechanism: a socket that is set   *)
(* again, as those of a component that is initialized again, keeps it.     *)
SecureSocket ==
  /\ IF CanSecure
     THEN /\ result' = Nothing
          /\ socket' = IF zap.level \in {"Woodhouse", "Stonehouse"}
                       THEN Mechanism(zap.level, zap.server)
                       ELSE socket
     ELSE result' = [is |-> "unsecured"] /\ UNCHANGED socket
  /\ UNCHANGED <<zap, othersThanZAP>>

UserNext ==
  SetUser \/ SetHashedPassword \/ ClearUser \/ DoesPasswordMatch \/ CarryUser \/ LoadUser

AccountNext == SetAccount(Passwords) \/ GetHashedPassword

(* Which password it is matters no more.                                   *)
SecurityNext ==
  SetAccount({""}) \/ SetKeys \/ WriteKey \/ LoadKey \/ SetSecurity \/ ReadSecurity \/ SecureSocket

-------------------------------------------------------------------------------

(* What is kept so as not to compute a hash twice is never stale: a        *)
(* password matches a user whenever it is the one that the user's hash is  *)
(* of, and a hash is always of the account's present password.  And        *)
(* security options can be applied to a socket whatever calls they come    *)
(* from: no order of the setters leaves a level without the keys, or the   *)
(* account, that it takes.                                                 *)
CredentialsHold ==
  /\ result.is = "compared" => result.matches = (user.hashedPassword = result.with)
  /\ result.is = "hashed" => result.hash = account.password
  /\ result.is # "unsecured"
===============================================================================
