------------------------------ MODULE TaskList ------------------------------
(***************************************************************************)
(* tasks.Service.List, by which a client looks through the tasks of its    *)
(* organization page after page, while tasks are created, run and end.     *)
(* Each page is a query of its own, with an offset; the list shifts under  *)
(* the client between two of them.                                         *)
(***************************************************************************)
EXTENDS Queue

CONSTANTS Limit      \* what the client asks for

ASSUME LimitIsANumber == Limit \in Int

VARIABLES
  lister,        \* the organization of a client that lists, or nobody
  wanted,        \* the tasks that existed when it began
  shown,         \* the tasks on the pages so far
  offset         \* how many rows these pages had

listVars == <<lister, wanted, shown, offset>>

Nobody == [lists |-> FALSE]

-----------------------------------------------------------------------------
(* Limits that make no sense are replaced by the default. *)
PageSize == IF Limit <= 0 \/ Limit > 100 THEN 20 ELSE Limit

(* Mutant: tasks that have ended are not listed. *)
ListedUnended(o) == {t \in Task : TaskOrg[t] = o /\ status[t] \in {"queued", "running"}}

Listed(o) == {t \in Task : TaskOrg[t] = o /\ status[t] # "none"}

(* order by created_at desc, and nothing else: what n rows come first is   *)
(* open where two transactions began at one time.  A query that begins     *)
(* behind `from' rows orders anew the rows that the last one ordered.      *)
FirstRows(o, n) ==
  {S \in SUBSET Listed(o) :
     /\ Cardinality(S) <= n
     /\ Cardinality(S) < n => S = Listed(o)
     /\ \A t \in S, u \in Listed(o) : CreatedAt[u] > CreatedAt[t] => u \in S}

Pages(o, from) ==
  {q[2] \ q[1] : q \in {p \in FirstRows(o, from) \X FirstRows(o, from + PageSize) :
                          p[1] \subseteq p[2]}}

FirstPage(o) ==
  /\ lister = Nobody
  /\ \E page \in Pages(o, 0) :
       /\ lister' = [of |-> o, done |-> page = {}]
       /\ shown' = page
       /\ offset' = Cardinality(page)
  /\ wanted' = Listed(o)
  /\ UNCHANGED vars

(* The client goes on behind the rows it has got, until it gets none. *)
NextPage ==
  /\ lister # Nobody /\ ~lister.done
  /\ \E page \in Pages(lister.of, offset) :
       /\ lister' = [lister EXCEPT !.done = page = {}]
       /\ shown' = shown \cup page
       /\ offset' = offset + Cardinality(page)
  /\ UNCHANGED <<wanted, vars>>

ListInit ==
  /\ Init
  /\ lister = Nobody /\ wanted = {} /\ shown = {} /\ offset = 0

LeaveList ==
  /\ lister # Nobody
  /\ lister' = Nobody /\ wanted' = {} /\ shown' = {} /\ offset' = 0
  /\ UNCHANGED vars

ListNext ==
  \/ Next /\ UNCHANGED listVars
  \/ \E o \in Org : FirstPage(o)
  \/ NextPage \/ LeaveList

ListSpec == ListInit /\ [][ListNext]_<<vars, listVars>> /\ Fairness

-----------------------------------------------------------------------------
(* A client that turns the pages to the end has seen every task there was  *)
(* when it began and that no other of its organization has the created_at  *)
(* of: rows come in before the ones it has read, or behind, but none       *)
(* leaves.  Of tasks with one created_at (it is not unique, and List has   *)
(* no second column to order by) the query may put another first on every  *)
(* page, and then one is missed.  (With a status in the filter rows do     *)
(* leave, and some are missed.)                                            *)
Alone(t) == \A u \in Listed(TaskOrg[t]) \ {t} : CreatedAt[u] # CreatedAt[t]
PagesMissNothing ==
  lister # Nobody /\ lister.done => \A t \in wanted : Alone(t) => t \in shown
=============================================================================
