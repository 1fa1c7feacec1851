-------------------------- MODULE LocalCommand_proofs -------------------------
(***************************************************************************)
(* What holds of the local command services of any number of modules,      *)
(* processes and clients: the type of the state, the safety invariants     *)
(* and the two action properties of LocalCommand.                          *)
(*                                                                         *)
(* Each has an inductive invariant of its own about the processes of one   *)
(* name: where a router's thread can be (RouterOK), whose identifiers rows *)
(* and starts hold (RowsOK), who still has to take a row or a file away    *)
(* (OwedOK), and what a process that shares its name with no living one    *)
(* relies on (ExclusiveOK).                                                *)
(***************************************************************************)
EXTENDS LocalCommand, TLAPS

-----------------------------------------------------------------------------
(* The state has its type: where a start checks whether the process in the *)
(* row lives, it has read one.                                             *)
THEOREM TypeInvariant == Spec => []TypeOK
<1>1. Init => TypeOK
  BY FileAssumption DEF Init, TypeOK, Tables, EmptyTable, Places
<1>2. TypeOK /\ [Next]_vars => TypeOK'
  <2> SUFFICES ASSUME TypeOK, [Next]_vars PROVE TypeOK'
    OBVIOUS
  <2> USE NameAssumption DEF TypeOK, Tables, Places
  <2>1. ASSUME NEW p \in Processes, Initializes(p) \/ OpenTableFails(p) PROVE TypeOK'
    BY <2>1 DEF Initializes, OpenTableFails, Goes, Overlaps, routerVars, clientVars
  <2>2. ASSUME NEW p \in Processes,
               StartLooks(p) \/ StartQueries(p) \/ StartChecks(p) \/ StartUpdates(p)
        PROVE  TypeOK'
    BY <2>2 DEF StartLooks, StartQueries, StartChecks, StartUpdates, Goes, HaveModule,
       StartUnchanged, routerVars, clientVars
  <2>3. ASSUME NEW p \in Processes,
               StartOverwrites(p) \/ StartAdds(p) \/ StartFindsRow(p) \/ StartFails(p)
        PROVE  TypeOK'
    BY <2>3 DEF StartOverwrites, StartAdds, StartFindsRow, StartFails, Goes, Spawns,
       Updated, Added, StartUnchanged, routerVars, clientVars
  <2>4. ASSUME NEW p \in Processes, RouterRuns(p) PROVE TypeOK'
    <3>1. CASE RouterServes(p) \/ RouterLeaves(p)
      BY <3>1 DEF RouterServes, RouterLeaves, RouterUnchanged, clientVars
    <3>2. ASSUME NEW c \in Clients, RouterTakes(p, c) PROVE TypeOK'
      BY <3>2 DEF RouterTakes, RouterUnchanged
    <3>3. CASE RouterReplies(p)
      BY <3>3 DEF RouterReplies, Answers, RouterUnchanged
    <3> QED BY <2>4, <3>1, <3>2, <3>3 DEF RouterRuns
  <2>5. ASSUME NEW p \in Processes, Stops(p) \/ Joins(p) \/ DeleteLooks(p) \/ Drops(p) \/ Leaves(p)
        PROVE  TypeOK'
    BY <2>5 DEF Stops, Joins, Unlists, DeleteLooks, Drops, Leaves, Goes, Deleted,
       EndUnchanged, routerVars, clientVars
  <2>6. ASSUME NEW p \in Processes, DestructorThrows(p) \/ Crashes(p) \/ Recycles(p)
        PROVE  TypeOK'
    BY <2>6 DEF DestructorThrows, Crashes, Dies, Recycles, routerVars, clientVars
  <2>7. ASSUME NEW c \in Clients, NEW n \in Names, Connects(c, n) PROVE TypeOK'
    BY <2>7 DEF Connects, ListedModules, ClientUnchanged, processVars, routerVars
  <2>8. ASSUME NEW c \in Clients, Issues(c) \/ Quits(c) \/ HangsUp(c) \/ TimesOut(c)
        PROVE  TypeOK'
    BY <2>8 DEF Issues, Quits, HangsUp, TimesOut, ClientUnchanged, processVars, routerVars
  <2>9. CASE UNCHANGED vars
    BY <2>9 DEF vars, processVars, routerVars, clientVars
  <2> QED BY <2>1, <2>2, <2>3, <2>4, <2>5, <2>6, <2>7, <2>8, <2>9 DEF Next, Proceeds
<1> QED BY <1>1, <1>2, PTL DEF Spec

-----------------------------------------------------------------------------
(* The steps that leave rows, files and processes where they are.          *)

tableVars == <<table, endpoint, place, seen, overlapped>>

Begins(p) == Initializes(p) \/ OpenTableFails(p)

MovesOn(p) == Begins(p) \/ Proceeds(p) \/ Stops(p) \/ Crashes(p)

LEMMA LocalSteps ==
  ASSUME [Next]_vars
  PROVE  UNCHANGED tableVars \/ \E p \in Processes : MovesOn(p)
<1>1. ASSUME NEW p \in Processes, RouterRuns(p) \/ Recycles(p) PROVE UNCHANGED tableVars
  BY <1>1 DEF RouterRuns, RouterServes, RouterTakes, RouterReplies, Answers, RouterLeaves,
     RouterUnchanged, Recycles, tableVars
<1>2. ASSUME NEW c \in Clients, NEW n \in Names, Connects(c, n) PROVE UNCHANGED tableVars
  BY <1>2 DEF Connects, ClientUnchanged, processVars, tableVars
<1>3. ASSUME NEW c \in Clients, Issues(c) \/ Quits(c) \/ HangsUp(c) \/ TimesOut(c)
      PROVE  UNCHANGED tableVars
  BY <1>3 DEF Issues, Quits, HangsUp, TimesOut, ClientUnchanged, processVars, tableVars
<1>4. CASE UNCHANGED vars
  BY <1>4 DEF vars, processVars, tableVars
<1> QED BY <1>1, <1>2, <1>3, <1>4 DEF Next, MovesOn, Begins

-----------------------------------------------------------------------------
(* The router's thread.                                                    *)

RouterOK ==
  \A p \in Processes :
    /\ handling[p] # NoClient => router[p] \in {"serving", "stopping"}
    /\ router[p] \notin {"none", "left"} => place[p] \in {"running", "joining"}

(* The thread has a request in its callback only while it is in its loop,  *)
(* and a process is past the join only when the thread has left.           *)
THEOREM RouterInvariant == Spec => []RouterOK
<1>1. Init => RouterOK
  BY DEF Init, RouterOK
<1>2. TypeOK /\ RouterOK /\ [Next]_vars => RouterOK'
  <2> SUFFICES ASSUME TypeOK, RouterOK, [Next]_vars PROVE RouterOK'
    OBVIOUS
  <2> USE DEF TypeOK, RouterOK
  <2>1. ASSUME NEW p \in Processes, Begins(p) PROVE RouterOK'
    BY <2>1 DEF Begins, Initializes, OpenTableFails, Goes, routerVars
  <2>2. ASSUME NEW p \in Processes,
               \/ StartLooks(p) \/ StartQueries(p) \/ StartChecks(p) \/ StartUpdates(p)
               \/ StartFindsRow(p) \/ StartFails(p)
        PROVE  RouterOK'
    BY <2>2 DEF StartLooks, StartQueries, StartChecks, StartUpdates, StartFindsRow,
       StartFails, Goes, routerVars
  <2>3. ASSUME NEW p \in Processes, StartOverwrites(p) \/ StartAdds(p) PROVE RouterOK'
    BY <2>3 DEF StartOverwrites, StartAdds, Goes, Spawns
  <2>4. ASSUME NEW p \in Processes, RouterRuns(p) PROVE RouterOK'
    <3>1. CASE RouterServes(p) \/ RouterLeaves(p)
      BY <3>1 DEF RouterServes, RouterLeaves, RouterUnchanged
    <3>2. ASSUME NEW c \in Clients, RouterTakes(p, c) PROVE RouterOK'
      BY <3>2 DEF RouterTakes, RouterUnchanged
    <3>3. CASE RouterReplies(p)
      BY <3>3 DEF RouterReplies, Answers, RouterUnchanged
    <3> QED BY <2>4, <3>1, <3>2, <3>3 DEF RouterRuns
  <2>5. ASSUME NEW p \in Processes, Stops(p) PROVE RouterOK'
    BY <2>5 DEF Stops, Goes
  <2>6. ASSUME NEW p \in Processes, Joins(p) PROVE RouterOK'
    BY <2>6 DEF Joins, Joined, Unlists, Goes, routerVars
  <2>7. ASSUME NEW p \in Processes, DeleteLooks(p) \/ Drops(p) \/ Leaves(p) PROVE RouterOK'
    BY <2>7 DEF DeleteLooks, Drops, Leaves, Goes, routerVars
  <2>8. ASSUME NEW p \in Processes, DestructorThrows(p) \/ Crashes(p) PROVE RouterOK'
    BY <2>8 DEF DestructorThrows, Crashes, Dies
  <2>9. ASSUME UNCHANGED <<place, routerVars>> PROVE RouterOK'
    BY <2>9 DEF routerVars
  <2>10. ASSUME NEW p \in Processes, Recycles(p) PROVE RouterOK'
    BY <2>9, <2>10 DEF Recycles
  <2>11. ASSUME NEW c \in Clients, NEW n \in Names, Connects(c, n) PROVE RouterOK'
    BY <2>9, <2>11 DEF Connects, ClientUnchanged, processVars
  <2>12. ASSUME NEW c \in Clients, Issues(c) \/ Quits(c) \/ HangsUp(c) \/ TimesOut(c)
         PROVE  RouterOK'
    BY <2>9, <2>12 DEF Issues, Quits, HangsUp, TimesOut, ClientUnchanged, processVars
  <2>13. CASE UNCHANGED vars
    BY <2>9, <2>13 DEF vars, processVars
  <2> QED BY <2>1, <2>2, <2>3, <2>4, <2>5, <2>6, <2>7, <2>8, <2>10, <2>11, <2>12, <2>13
          DEF Next, Proceeds, Begins
<1> QED BY <1>1, <1>2, TypeInvariant, PTL DEF Spec

(* A process is gone only after its router has sent the answer to the      *)
(* request it had in its callback, that to terminate among them.           *)
THEOREM TerminateIsAnsweredInvariant == Spec => []TerminateIsAnswered
<1>1. RouterOK => TerminateIsAnswered
  BY DEF RouterOK, TerminateIsAnswered
<1> QED BY <1>1, RouterInvariant, PTL

-----------------------------------------------------------------------------
(* Whose identifiers there are.                                            *)

Started == {"running", "joining", "deleting", "dropping", "closing", "gone", "crashed"}

RowsOK ==
  /\ \A n \in Names : table[n] # NoRow => NameOf[table[n]] = n /\ place[table[n]] \in Started
  /\ \A p \in Processes :
       /\ seen[p] # NoRow =>
            /\ NameOf[seen[p]] = NameOf[p] /\ place[seen[p]] \in Started
            /\ place[p] \in {"checking", "updating", "overwriting", "adding"}
       /\ place[p] \in {"updating", "overwriting"} => seen[p] # NoRow /\ Ended(seen[p])

(* A row has the identifier of a process of its name that did start, and   *)
(* so has a start that read it; one that goes on to take the row over has  *)
(* found that process dead.                                                *)
THEOREM RowsInvariant == Spec => []RowsOK
<1>1. Init => RowsOK
  BY DEF Init, RowsOK, EmptyTable
<1>2. TypeOK /\ RowsOK /\ [Next]_vars => RowsOK'
  <2> SUFFICES ASSUME TypeOK, RowsOK, [Next]_vars PROVE RowsOK'
    OBVIOUS
  <2> USE NameAssumption DEF TypeOK, Tables, RowsOK, Started, Ended
  <2>1. CASE UNCHANGED tableVars
    BY <2>1 DEF tableVars
  <2>2. ASSUME NEW p \in Processes, Begins(p) PROVE RowsOK'
    BY <2>2 DEF Begins, Initializes, OpenTableFails, Goes
  <2>3. ASSUME NEW p \in Processes, StartLooks(p) \/ StartUpdates(p) PROVE RowsOK'
    BY <2>3 DEF StartLooks, StartUpdates, Goes, HaveModule
  <2>4. ASSUME NEW p \in Processes, StartQueries(p) PROVE RowsOK'
    BY <2>4 DEF StartQueries, Goes, HaveModule
  <2>5. ASSUME NEW p \in Processes, StartChecks(p) PROVE RowsOK'
    BY <2>5 DEF StartChecks, Goes, Exists, Alive
  <2>6. ASSUME NEW p \in Processes, StartOverwrites(p) \/ StartAdds(p) PROVE RowsOK'
    BY <2>6 DEF StartOverwrites, StartAdds, Goes, Spawns, Updated, Added
  <2>7. ASSUME NEW p \in Processes, StartFindsRow(p) \/ StartFails(p) PROVE RowsOK'
    BY <2>7 DEF StartFindsRow, StartFails, Goes
  <2>8. ASSUME NEW p \in Processes, Stops(p) \/ Joins(p) \/ DeleteLooks(p) \/ Drops(p) \/ Leaves(p)
        PROVE  RowsOK'
    BY <2>8 DEF Stops, Joins, Unlists, DeleteLooks, Drops, Leaves, Goes, Deleted, EndUnchanged
  <2>9. ASSUME NEW p \in Processes, DestructorThrows(p) \/ Crashes(p) PROVE RowsOK'
    BY <2>9 DEF DestructorThrows, Crashes, Dies
  <2> QED BY <2>1, <2>2, <2>3, <2>4, <2>5, <2>6, <2>7, <2>8, <2>9, LocalSteps
          DEF MovesOn, Proceeds
<1> QED BY <1>1, <1>2, TypeInvariant, PTL DEF Spec

(* A running module loses its row to itself, to a process of its name that *)
(* ends without having been the owner, or to one that is taking over from  *)
(* an earlier, dead owner: never to one whose start looked at it.          *)
THEOREM DisplacedByStaleStartHolds == Spec => DisplacedByStaleStart
<1>1. ASSUME TypeOK, RowsOK, [Next]_vars, NEW p \in Processes,
             Running(p), Listed(p), ~Listed(p)'
      PROVE  \E q \in Processes \ {p} :
               \/ place[q] = "dropping"
               \/ place[q] = "overwriting" /\ seen[q] # p
  <2> USE <1>1, NameAssumption, RowAssumption DEF TypeOK, Tables, Running, Listed
  <2>1. PICK q \in Processes : MovesOn(q)
    BY LocalSteps DEF tableVars
  <2>2. StartOverwrites(q) \/ StartAdds(q) \/ Drops(q)
    BY <2>1 DEF MovesOn, Begins, Initializes, OpenTableFails, Proceeds, StartLooks,
       StartQueries, StartChecks, StartUpdates, StartFindsRow, StartFails, Joins, Unlists,
       DeleteLooks, Leaves, DestructorThrows, Crashes, Dies, Stops
  <2>3. CASE StartOverwrites(q)
    <3>1. place[q] = "overwriting" /\ Ended(seen[q])
      BY <2>3 DEF StartOverwrites, Goes, RowsOK
    <3> QED BY <3>1 DEF Ended
  <2>4. CASE StartAdds(q)
    <3>1. table[NameOf[q]] = NoRow /\ table' = [table EXCEPT ![NameOf[q]] = q]
      BY <2>4 DEF StartAdds, HaveModule, Added
    <3> QED BY <3>1
  <2>5. CASE Drops(q)
    BY <2>5 DEF Drops, Goes
  <2> QED BY <2>2, <2>3, <2>4, <2>5
<1>2. TypeOK /\ RowsOK /\ [Next]_vars =>
        \A p \in Processes :
          Running(p) /\ Listed(p) /\ ~Listed(p)' =>
            \E q \in Processes \ {p} :
              \/ place[q] = "dropping"
              \/ place[q] = "overwriting" /\ seen[q] # p
  BY <1>1
<1> QED BY <1>2, TypeInvariant, RowsInvariant, PTL DEF Spec, DisplacedByStaleStart

-----------------------------------------------------------------------------
(* What is left to be taken away.                                          *)

OwedOK ==
  \A n \in Names :
    /\ table[n] # NoRow =>
         \E p \in Processes : NameOf[p] = n
           /\ place[p] \in {"running", "joining", "deleting", "dropping", "crashed"}
    /\ endpoint[n] # NoFile =>
         \E p \in Processes : NameOf[p] = n /\ place[p] \notin {"absent", "gone"}

(* While there is a row of a name, a process of it that may have claimed it*)
(* has yet to look whether there is one, or crashed; and while there is a  *)
(* file, some process has yet to remove it, or crashed.                    *)
THEOREM OwedInvariant == Spec => []OwedOK
<1>1. Init => OwedOK
  <2> SUFFICES ASSUME Init, NEW n \in Names PROVE table[n] = NoRow /\ endpoint[n] = NoFile
    BY DEF OwedOK
  <2> QED BY DEF Init, EmptyTable
<1>2. TypeOK /\ OwedOK /\ [Next]_vars => OwedOK'
  <2> SUFFICES ASSUME TypeOK, OwedOK, [Next]_vars PROVE OwedOK'
    OBVIOUS
  <2> USE NameAssumption DEF TypeOK, Tables
  <2>1. CASE UNCHANGED tableVars
    BY <2>1 DEF tableVars, OwedOK
  <2>2. ASSUME NEW p \in Processes, Begins(p) PROVE OwedOK'
    BY <2>2 DEF Begins, Initializes, OpenTableFails, Goes, OwedOK
  <2>3. ASSUME NEW p \in Processes,
               \/ StartLooks(p) \/ StartQueries(p) \/ StartChecks(p) \/ StartUpdates(p)
               \/ StartFindsRow(p) \/ StartFails(p)
        PROVE  OwedOK'
    BY <2>3 DEF StartLooks, StartQueries, StartChecks, StartUpdates, StartFindsRow,
       StartFails, Goes, StartUnchanged, OwedOK
  <2>4. ASSUME NEW p \in Processes, StartOverwrites(p) \/ StartAdds(p) PROVE OwedOK'
    BY <2>4 DEF StartOverwrites, StartAdds, Goes, Updated, Added, HaveModule,
       StartUnchanged, OwedOK
  <2>5. ASSUME NEW p \in Processes, Stops(p) \/ DeleteLooks(p) PROVE OwedOK'
    BY <2>5 DEF Stops, DeleteLooks, Goes, OwedOK
  <2>6. ASSUME NEW p \in Processes, Joins(p) PROVE OwedOK'
    BY <2>6 DEF Joins, Unlists, Goes, HaveModule, OwedOK
  <2>7. ASSUME NEW p \in Processes, Drops(p) \/ Leaves(p) PROVE OwedOK'
    BY <2>7 DEF Drops, Leaves, Goes, Deleted, OwedOK
  <2>8. ASSUME NEW p \in Processes, DestructorThrows(p) \/ Crashes(p) PROVE OwedOK'
    BY <2>8 DEF DestructorThrows, Crashes, Dies, OwedOK
  <2> QED BY <2>1, <2>2, <2>3, <2>4, <2>5, <2>6, <2>7, <2>8, LocalSteps
          DEF MovesOn, Proceeds
<1> QED BY <1>1, <1>2, TypeInvariant, PTL DEF Spec

(* When all processes of a name left in an orderly way, neither row nor    *)
(* file is left, however their starts and their ends overlapped.           *)
THEOREM CleanExitLeavesNothingInvariant == Spec => []CleanExitLeavesNothing
<1>1. OwedOK => CleanExitLeavesNothing
  BY DEF OwedOK, CleanExitLeavesNothing
<1> QED BY <1>1, OwedInvariant, PTL

-----------------------------------------------------------------------------
(* Processes that succeed one another.                                     *)

AloneOK(p) ==
  /\ \A q \in Processes : NameOf[q] = NameOf[p] /\ Alive(q) => q = p
  /\ place[p] # "hung" => endpoint[NameOf[p]] = p
  /\ place[p] \in {"querying", "overwriting"} => HaveModule(table, NameOf[p])
  /\ place[p] = "adding" => ~HaveModule(table, NameOf[p])
  /\ Running(p) => Listed(p)

ExclusiveOK ==
  \A p \in Processes : Alive(p) /\ NameOf[p] \notin overlapped => AloneOK(p)

(* A process whose name no two living ones ever shared finds the row as it *)
(* has left it, and the file is its own.                                   *)
THEOREM ExclusiveInvariant == Spec => []ExclusiveOK
<1>1. Init => ExclusiveOK
  BY DEF Init, ExclusiveOK, Alive
<1>2. TypeOK /\ ExclusiveOK /\ [Next]_vars => ExclusiveOK'
  <2> SUFFICES ASSUME TypeOK, ExclusiveOK, [Next]_vars,
                      NEW p \in Processes, Alive(p)', NameOf[p] \notin overlapped'
               PROVE  AloneOK(p)'
    BY DEF ExclusiveOK
  <2> USE NameAssumption, RowAssumption DEF TypeOK, Tables
  <2>1. CASE UNCHANGED tableVars
    BY <2>1 DEF tableVars, ExclusiveOK, AloneOK, Alive, Ended, Running, Listed
  <2>2. ASSUME NEW q \in Processes, Begins(q) PROVE AloneOK(p)'
    <3>1. CASE q = p
      BY <2>2, <3>1 DEF Begins, Initializes, OpenTableFails, Goes, Overlaps,
         AloneOK, Alive, Ended, Running, Listed
    <3>2. CASE q # p
      BY <2>2, <3>2 DEF Begins, Initializes, OpenTableFails, Goes, Overlaps,
         ExclusiveOK, AloneOK, Alive, Ended, Running, Listed
    <3> QED BY <3>1, <3>2
  <2>3. ASSUME NEW q \in Processes, Proceeds(q) \/ Stops(q) \/ Crashes(q)
        PROVE  AloneOK(p)'
    <3>1. /\ Alive(q) /\ overlapped' = overlapped
          /\ \A r \in Processes \ {q} : place'[r] = place[r]
          /\ \A n \in Names \ {NameOf[q]} :
               table'[n] = table[n] /\ endpoint'[n] = endpoint[n]
      BY <2>3 DEF Proceeds, Stops, Crashes, StartLooks, StartQueries, StartChecks,
         StartUpdates, StartOverwrites, StartAdds, StartFindsRow, StartFails, Joins, Unlists,
         DeleteLooks, Drops, Leaves, DestructorThrows, Dies, Goes, Updated, Added, Deleted,
         StartUnchanged, EndUnchanged, Alive, Ended
    <3>2. Alive(p) /\ AloneOK(p)
      BY <3>1 DEF ExclusiveOK, Alive, Ended
    <3>3. \A r \in Processes : NameOf[r] = NameOf[p] /\ Alive(r)' => r = p
      BY <3>1, <3>2 DEF AloneOK, Alive, Ended
    <3>4. CASE q # p
      <4>1. NameOf[q] # NameOf[p]
        BY <3>1, <3>2, <3>4 DEF AloneOK
      <4> QED BY <3>1, <3>2, <3>3, <3>4, <4>1 DEF AloneOK, HaveModule, Running, Listed
    <3>5. CASE q = p
      <4> USE <3>2, <3>3, <3>5 DEF AloneOK, Alive, Ended, Goes, HaveModule, Running, Listed
      <4>1. CASE StartLooks(q) \/ StartQueries(q) \/ StartChecks(q) \/ StartUpdates(q)
        BY <4>1 DEF StartLooks, StartQueries, StartChecks, StartUpdates, StartUnchanged
      <4>2. CASE StartOverwrites(q) \/ StartAdds(q) \/ StartFindsRow(q) \/ StartFails(q)
        BY <4>2 DEF StartOverwrites, StartAdds, StartFindsRow, StartFails, Updated, Added,
           StartUnchanged
      <4>3. CASE Stops(q) \/ Joins(q) \/ DeleteLooks(q) \/ Drops(q)
        BY <4>3 DEF Stops, Joins, Unlists, DeleteLooks, Drops, Deleted
      <4>4. CASE Leaves(q) \/ DestructorThrows(q) \/ Crashes(q)
        BY <4>4 DEF Leaves, DestructorThrows, Crashes, Dies
      <4> QED BY <2>3, <4>1, <4>2, <4>3, <4>4 DEF Proceeds
    <3> QED BY <3>4, <3>5
  <2> QED BY <2>1, <2>2, <2>3, LocalSteps DEF MovesOn
<1> QED BY <1>1, <1>2, TypeInvariant, PTL DEF Spec

(* A user finds a running module under its name, if its processes have     *)
(* succeeded one another, whatever died in the middle of what.             *)
THEOREM ReachableIfExclusiveInvariant == Spec => []ReachableIfExclusive
<1>1. ExclusiveOK => ReachableIfExclusive
  BY DEF ExclusiveOK, AloneOK, ReachableIfExclusive, ReachableIn, Running, Alive, Ended
<1> QED BY <1>1, ExclusiveInvariant, PTL

(* Where the processes of a name succeed one another, start is refused     *)
(* only when the table is locked or the identifier in a stale row was      *)
(* given away.                                                             *)
THEOREM RefusedForCauseHolds == Spec => RefusedForCause
<1>1. ASSUME TypeOK, RowsOK, ExclusiveOK, [Next]_vars, NEW p \in Processes,
             NameOf[p] \notin overlapped, place'[p] = "refused", place[p] # "refused"
      PROVE  Busy(p) \/ seen[p] \in recycled
  <2> USE <1>1, NameAssumption DEF TypeOK, Tables
  <2>1. PICK q \in Processes : MovesOn(q)
    BY LocalSteps DEF tableVars
  <2>2. q = p /\ (StartQueries(p) \/ StartChecks(p) \/ StartFindsRow(p) \/ StartFails(p))
    BY <2>1 DEF MovesOn, Begins, Initializes, OpenTableFails, Proceeds, StartLooks,
       StartQueries, StartChecks, StartUpdates, StartOverwrites, StartAdds, StartFindsRow,
       StartFails, Joins, Unlists, DeleteLooks, Drops, Leaves, DestructorThrows, Crashes,
       Dies, Stops, Goes
  <2>3. Alive(p) /\ AloneOK(p)
    BY <2>2 DEF StartQueries, StartChecks, StartFindsRow, StartFails, Goes, Alive, Ended,
       ExclusiveOK
  <2>4. CASE StartQueries(p) \/ StartFindsRow(p)
    BY <2>3, <2>4 DEF AloneOK, StartQueries, StartFindsRow, Goes
  <2>5. CASE StartChecks(p)
    <3>1. place[p] = "checking" /\ Exists(seen[p]) /\ seen[p] \in Processes
      BY <2>5 DEF StartChecks, Goes
    <3>2. NameOf[seen[p]] = NameOf[p] /\ place[seen[p]] \in Started
      BY <3>1 DEF RowsOK
    <3>3. seen[p] # p
      BY <3>1, <3>2 DEF Started
    <3>4. ~Alive(seen[p])
      BY <2>3, <3>1, <3>2, <3>3 DEF AloneOK
    <3> QED BY <3>1, <3>4 DEF Exists
  <2>6. CASE StartFails(p)
    BY <2>6 DEF StartFails
  <2> QED BY <2>2, <2>4, <2>5, <2>6
<1>2. TypeOK /\ RowsOK /\ ExclusiveOK /\ [Next]_vars =>
        \A p \in Processes :
          NameOf[p] \notin overlapped /\ place'[p] = "refused" /\ place[p] # "refused" =>
            Busy(p) \/ seen[p] \in recycled
  BY <1>1
<1> QED BY <1>2, TypeInvariant, RowsInvariant, ExclusiveInvariant, PTL
        DEF Spec, RefusedForCause
=============================================================================
