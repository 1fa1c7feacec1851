------------------------------ MODULE ValueClass ------------------------------
(***************************************************************************)
(* What the classes of values have in common.  Messages, options, users    *)
(* and the details of a connection are written the same way: a class hides *)
(* its fields behind pImpl; a setter throws or keeps what it is given; a   *)
(* getter throws while have...() is false; clear() makes a new pImpl.  A   *)
(* class that travels packs its fields, through its getters, in a CBOR     *)
(* object that names its type, and reads them back, through its setters,   *)
(* into a new object that then replaces the old one.                       *)
(*                                                                         *)
(* A class is described by the function of its fields.  A field has the    *)
(* value of a new object, and for each value that a caller may offer what  *)
(* the setter keeps: a set of one value, or of none when the setter throws.*)
(***************************************************************************)
EXTENDS Integers, FiniteSets, Sequences

CONSTANT
  Unset      \* what a field holds while its have...() is false

(* A field whose setter checks or changes what it is given.                *)
Checked(first, offers, Keeps(_)) ==
  [first |-> first, takes |-> [v \in offers |-> Keeps(v)]]

(* A value that a new object has may be offered as well as the others.     *)
OrFirst(first, offers) == offers \cup ({first} \ {Unset})

(* A field whose setter stores whatever it is given.                       *)
Stored(first, offers) == Checked(first, OrFirst(first, offers), LAMBDA v : {v})

(* Texts: isEmpty is true of the blank one, an empty text or one of spaces *)
(* only; the others are a plain one and another.                           *)
Texts == {"blank", "one", "two"}

IsEmpty(text) == text = "blank"

NotBlank(text) == IF IsEmpty(text) THEN {} ELSE {text}

(* A text that must not be blank and that have...() looks for.             *)
Name(first) == Checked(first, OrFirst(first, Texts), NotBlank)

(* Numbers: the setters that check them refuse the negative ones.          *)
NotNegative(n) == IF n < 0 THEN {} ELSE {n}

-------------------------------------------------------------------------------

(* A new object, and one that clear() has given a new pImpl.               *)
New(fields) == [f \in DOMAIN fields |-> fields[f].first]

(* What the setter of a field keeps of a value.                            *)
Kept(fields, f, v) ==
  IF v \in DOMAIN fields[f].takes THEN fields[f].takes[v] ELSE {}

(* The values that a field of an object may have.                          *)
Values(fields, f) == {fields[f].first} \cup UNION {fields[f].takes[v] : v \in DOMAIN fields[f].takes}

(* A class that travels: its fields, and those that the packing cannot do  *)
(* without, their getters throwing while they are not set.                 *)
Message(type, fields, needed) ==
  [type |-> type, fields |-> fields, needed |-> needed]

(* toMessage: throws, or makes a message of the class's type.              *)
Packs(class, object) == \A f \in class.needed : object[f] # Unset

Packed(class, object) == [type |-> class.type, contents |-> object]

(* fromMessage: throws when the message is of another type or when one of  *)
(* the setters throws.  Of an object that has the fields of the message a  *)
(* field that is not set is left alone.                                    *)
Reads(class, message) ==
  /\ message.type = class.type
  /\ \A f \in DOMAIN class.fields :
       \/ message.contents[f] = Unset
       \/ Kept(class.fields, f, message.contents[f]) # {}

Read(class, message) ==
  [f \in DOMAIN class.fields |->
     IF message.contents[f] = Unset
     THEN class.fields[f].first
     ELSE CHOOSE v \in Kept(class.fields, f, message.contents[f]) : TRUE]
===============================================================================
