---------------------------- MODULE ModuleTable -----------------------------
(***************************************************************************)
(* The table of local modules: class ModuleTable of                        *)
(* services/command/moduleTable.cpp.  It is one SQLite file that every     *)
(* module on the machine opens.  The module's name is the primary key; of  *)
(* a row only the process identifier matters here, and a process stands    *)
(* for its identifier.  Each operator is one SQL statement, which SQLite   *)
(* makes atomic; the C++ mutex is local to a process and orders nothing    *)
(* between processes.                                                      *)
(***************************************************************************)
CONSTANTS
  Names,       (* names of modules                                         *)
  Processes,   (* processes, each with its own identifier                  *)
  NoRow        (* the table has no row for a name                          *)

ASSUME RowAssumption == NoRow \notin Processes

Tables == [Names -> Processes \cup {NoRow}]

EmptyTable == [n \in Names |-> NoRow]

(* SELECT EXISTS: haveModule. *)
HaveModule(table, n) == table[n] # NoRow

(* INSERT: the caller has made sure that the key is free. *)
Added(table, n, p) == [table EXCEPT ![n] = p]

(* UPDATE ... WHERE: without a row of that name nothing is updated. *)
Updated(table, n, p) ==
  IF HaveModule(table, n) THEN [table EXCEPT ![n] = p] ELSE table

(* DELETE: without a row of that name nothing is deleted. *)
Deleted(table, n) == [table EXCEPT ![n] = NoRow]

(* SELECT *: queryAllModules. *)
ListedModules(table) == {n \in Names : HaveModule(table, n)}
=============================================================================
