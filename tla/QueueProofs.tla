---------------------------- MODULE QueueProofs -----------------------------
(***************************************************************************)
(* The row lock of claimQueued and the pages of the list, proved for every *)
(* number of tasks, slots and workers, and every size of a page.           *)
(***************************************************************************)
EXTENDS TaskList, SumProofs

(* A worker knows a task exactly between its selection and the claim. *)
PickInv ==
  /\ status = [t \in Task |-> status[t]]
  /\ at = [w \in Worker |-> at[w]]
  /\ picked \in [Worker -> Task \cup {NoTask}]
  /\ \A w \in Worker : at[w] = "reserve" <=> picked[w] # NoTask
  /\ PickedStaysQueued

LEMMA PickInit == Init => PickInv
  BY DEF Init, PickInv, PickedStaysQueued

(* Selecting respects the locks of the others; claiming takes one's own    *)
(* task out of the queue; the rest leaves locked tasks alone.              *)
LEMMA PickStep == PickInv /\ [Next]_vars => PickInv'
<1>1. SUFFICES ASSUME PickInv, [Next]_vars PROVE PickInv'
  OBVIOUS
<1>2. NoTask \notin Task
  BY QueueConstants
<1>3. ASSUME NEW w \in Worker, SelectTask(w) PROVE PickInv'
  <2>1. PICK t \in First : /\ at' = [at EXCEPT ![w] = "reserve"]
                           /\ picked' = [picked EXCEPT ![w] = t]
                           /\ UNCHANGED status
    BY <1>3 DEF SelectTask
  <2>2. t \in Task /\ status[t] = "queued" /\ \A v \in Worker : picked[v] # t
    BY DEF First, Selectable, Waits, Unlocked
  <2>3. QED
    BY <1>1, <1>2, <2>1, <2>2 DEF PickInv, PickedStaysQueued
<1>4. ASSUME NEW w \in Worker, Claim(w) PROVE PickInv'
  <2>1. /\ picked[w] \in Task
        /\ status' = [status EXCEPT ![picked[w]] = "running"]
        /\ at' = [at EXCEPT ![w] = "select"]
        /\ picked' = [picked EXCEPT ![w] = NoTask]
    BY <1>1, <1>4 DEF Claim, PickInv
  <2>2. \A v \in Worker \ {w} : picked[v] # picked[w]
    BY <1>1, <1>2, <2>1 DEF PickInv, PickedStaysQueued
  <2>3. QED
    BY <1>1, <1>2, <2>1, <2>2 DEF PickInv, PickedStaysQueued
<1>5. ASSUME NEW w \in Worker, SelectNothing(w) \/ ClaimFails(w) \/ WakeUp(w)
      PROVE  PickInv'
  BY <1>1, <1>2, <1>5 DEF SelectNothing, ClaimFails, WakeUp, PickInv, PickedStaysQueued
<1>6. ASSUME NEW t \in Task, Arrive(t) \/ End(t) \/ CancelQueued(t) PROVE PickInv'
  <2>1. /\ UNCHANGED <<at, picked>>
        /\ \E new : status' = [status EXCEPT ![t] = new]
        /\ status'[t] = "queued" \/ \A w \in Worker : picked[w] # t
    BY <1>1, <1>2, <1>6 DEF Arrive, End, CancelQueued, Unlocked, PickInv, PickedStaysQueued
  <2>2. QED
    BY <1>1, <2>1 DEF PickInv, PickedStaysQueued
<1>7. CASE UNCHANGED vars
  BY <1>1, <1>7 DEF vars, PickInv, PickedStaysQueued
<1>8. QED
  BY <1>1, <1>3, <1>4, <1>5, <1>6, <1>7 DEF Next, Poll

(* The task a worker is about to seat stays queued and is no other's       *)
(* (for update of t skip locked in claimQueued).                           *)
THEOREM PickedTasksStayQueued == Spec => []PickedStaysQueued
<1>1. PickInv => PickedStaysQueued
  BY DEF PickInv
<1>2. QED
  BY <1>1, PickInit, PickStep, PTL DEF Spec

(* The same with a client that lists tasks, as the run has it. *)
THEOREM PickedStaysQueuedWhileListed == ListSpec => []PickedStaysQueued
<1>1. [ListNext]_<<vars, listVars>> => [Next]_vars
  BY DEF ListNext, FirstPage, NextPage, LeaveList, listVars, vars
<1>2. PickInv => PickedStaysQueued
  BY DEF PickInv
<1>3. ListInit => Init
  BY DEF ListInit
<1>4. QED
  BY <1>1, <1>2, <1>3, PickInit, PickStep, PTL DEF ListSpec

-----------------------------------------------------------------------------
(* The pages.                                                              *)
Rows == {t \in Task : status[t] # "none"}

(* A task has as many rows before it as there are newer tasks of its       *)
(* organization, and no fewer.                                             *)
Newer(t) == {u \in Listed(TaskOrg[t]) : CreatedAt[u] > CreatedAt[t]}
Position(t) == Cardinality(Newer(t))

(* Why: what it has not seen of these tasks is behind the rows it has got. *)
PageInv ==
  /\ IsFiniteSet(Rows)
  /\ lister # Nobody =>
       /\ lister \in [of : Org, done : BOOLEAN]
       /\ wanted \subseteq Listed(lister.of)
       /\ offset \in Nat
       /\ \A t \in wanted : Alone(t) => t \in shown \/ Position(t) >= offset
       /\ PagesMissNothing

LEMMA PageSizeIsPositive == PageSize \in Nat /\ PageSize > 0
  BY LimitIsANumber DEF PageSize

LEMMA Positions ==
  ASSUME IsFiniteSet(Rows), NEW t \in Task
  PROVE  IsFiniteSet(Newer(t)) /\ Position(t) \in Nat
<1>1. Newer(t) \in SUBSET Rows
  BY DEF Newer, Listed, Rows
<1>2. QED
  BY <1>1, FS_Subset, FS_CardinalityType DEF Position

(* A task that stands alone is among the first n exactly when fewer than n *)
(* are newer: with it come all newer ones, and without it only newer ones. *)
LEMMA FirstRowsAreNewest ==
  ASSUME IsFiniteSet(Rows), NEW o \in Org, NEW n \in Nat, NEW S \in FirstRows(o, n)
  PROVE  /\ IsFiniteSet(S) /\ Cardinality(S) \in 0 .. n
         /\ S # Listed(o) => Cardinality(S) = n
         /\ \A t \in S : Position(t) < n
         /\ \A t \in Listed(o) \ S : Alone(t) => Position(t) >= n
<1> USE DEF Position
<1>1. /\ S \subseteq Listed(o) /\ Cardinality(S) <= n
      /\ Cardinality(S) < n => S = Listed(o)
      /\ \A t \in S, u \in Listed(o) : CreatedAt[u] > CreatedAt[t] => u \in S
  BY DEF FirstRows
<1>2. Listed(o) \subseteq Rows /\ \A t \in Listed(o) : t \in Task /\ TaskOrg[t] = o
  BY DEF Listed, Rows
<1>3. IsFiniteSet(S) /\ Cardinality(S) \in Nat
  BY <1>1, <1>2, FS_Subset, FS_CardinalityType
<1>4. CreatedAt \in [Task -> Nat]
  BY QueueConstants
<1>5. ASSUME NEW t \in S PROVE Position(t) < n
  <2>1. t \in Task /\ TaskOrg[t] = o
    BY <1>1, <1>2
  <2>2. Newer(t) \subseteq S
    BY <1>1, <2>1 DEF Newer
  <2>3. t \notin Newer(t)
    BY <1>4, <2>1 DEF Newer
  <2>4. /\ Cardinality(Newer(t)) <= Cardinality(S)
        /\ Cardinality(Newer(t)) = Cardinality(S) => Newer(t) = S
    BY <1>3, <2>2, FS_Subset
  <2>5. Position(t) \in Nat
    BY <2>1, Positions
  <2>6. QED
    BY <1>1, <1>3, <2>3, <2>4, <2>5
<1>6. ASSUME NEW t \in Listed(o) \ S, Alone(t) PROVE Position(t) >= n
  <2>1. t \in Task /\ TaskOrg[t] = o
    BY <1>2
  <2>2. ASSUME NEW u \in S PROVE u \in Newer(t)
    <3>1. u \in Listed(o) /\ u \in Task
      BY <1>1, <1>2
    <3>2. CreatedAt[u] # CreatedAt[t] /\ ~ (CreatedAt[t] > CreatedAt[u])
      BY <1>1, <1>6, <2>1, <3>1 DEF Alone
    <3>3. CreatedAt[u] \in Nat /\ CreatedAt[t] \in Nat
      BY <1>4, <2>1, <3>1
    <3>4. QED
      BY <2>1, <3>1, <3>2, <3>3 DEF Newer
  <2>3. Cardinality(S) <= Cardinality(Newer(t))
    BY <2>1, <2>2, Positions, FS_Subset
  <2>4. QED
    BY <1>1, <1>3, <1>6, <2>1, <2>3, Positions
<1>7. QED
  BY <1>1, <1>3, <1>5, <1>6

(* What stands alone and is not before a page is on it, or behind it; and  *)
(* then the page is not empty.                                             *)
LEMMA PageRows ==
  ASSUME IsFiniteSet(Rows), NEW o \in Org, NEW from \in Nat, NEW page \in Pages(o, from)
  PROVE  /\ Cardinality(page) \in Nat
         /\ \A t \in Listed(o) :
              Alone(t) /\ Position(t) >= from =>
                page # {} /\ (t \in page \/ Position(t) >= from + Cardinality(page))
<1>1. PICK A \in FirstRows(o, from), B \in FirstRows(o, from + PageSize) :
         A \subseteq B /\ page = B \ A
  BY DEF Pages
<1>2. from + PageSize \in Nat /\ PageSize \in Nat /\ PageSize > 0
  BY PageSizeIsPositive
<1>3. /\ IsFiniteSet(A) /\ Cardinality(A) \in 0 .. from
      /\ A # Listed(o) => Cardinality(A) = from
      /\ \A t \in A : Position(t) < from
  BY <1>1, FirstRowsAreNewest
<1>4. /\ IsFiniteSet(B) /\ Cardinality(B) \in 0 .. from + PageSize
      /\ B # Listed(o) => Cardinality(B) = from + PageSize
      /\ \A t \in Listed(o) \ B : Alone(t) => Position(t) >= from + PageSize
  BY <1>1, <1>2, FirstRowsAreNewest
<1>5. Cardinality(page) \in Nat /\ Cardinality(page) = Cardinality(B) - Cardinality(A)
  <2>1. B \cap A = A
    BY <1>1
  <2>2. /\ IsFiniteSet(B \ A)
        /\ Cardinality(B \ A) = Cardinality(B) - Cardinality(B \cap A)
    BY <1>4, FS_Difference, Zenon
  <2>3. Cardinality(page) = Cardinality(B) - Cardinality(A)
    BY <1>1, <2>1, <2>2
  <2>4. Cardinality(page) \in Nat
    BY <1>1, <2>2, FS_CardinalityType
  <2>5. QED
    BY <2>3, <2>4
<1>6. ASSUME NEW t \in Listed(o), Alone(t), Position(t) >= from
      PROVE  page # {} /\ (t \in page \/ Position(t) >= from + Cardinality(page))
  <2>1. Position(t) \in Nat
    BY Positions DEF Listed
  <2>2. t \notin A /\ Cardinality(A) = from
    BY <1>3, <1>6, <2>1
  <2>3. CASE t \in B
    BY <1>1, <2>2, <2>3
  <2>4. CASE t \notin B
    <3>1. Cardinality(B) = from + PageSize /\ Position(t) >= from + PageSize
      BY <1>4, <1>6, <2>4
    <3>2. Cardinality(page) = PageSize
      BY <1>2, <1>5, <2>2, <3>1
    <3>3. page # {}
      BY <1>2, <3>2, FS_EmptySet
    <3>4. QED
      BY <3>1, <3>2, <3>3
  <2>5. QED
    BY <2>3, <2>4
<1>7. QED
  BY <1>5, <1>6

LEMMA PageInit == ListInit => PageInv
<1>1. SUFFICES ASSUME ListInit PROVE PageInv
  OBVIOUS
<1>2. Rows = {} /\ lister = Nobody
  BY <1>1 DEF ListInit, Init, Rows
<1>3. QED
  BY <1>2, FS_EmptySet DEF PageInv

(* Rows come in one by one, and none goes: positions only grow.            *)
LEMMA RowsGrow ==
  ASSUME PickInv, IsFiniteSet(Rows), [Next]_vars
  PROVE  /\ IsFiniteSet(Rows')
         /\ \A o \in Org : Listed(o) \subseteq Listed(o)'
         /\ \A t \in Task : Position(t)' \in Nat /\ Position(t)' >= Position(t)
         /\ \A t \in Task : Alone(t)' => Alone(t)
<1>1. \/ \E t \in Task : \E new : status' = [status EXCEPT ![t] = new] /\ new # "none"
      \/ UNCHANGED status
  <2>1. ASSUME NEW w \in Worker, Poll(w)
        PROVE  \/ \E t \in Task : status' = [status EXCEPT ![t] = "running"]
               \/ UNCHANGED status
    <3>1. CASE Claim(w)
      BY <3>1 DEF Claim, PickInv
    <3>2. CASE SelectTask(w) \/ SelectNothing(w) \/ ClaimFails(w) \/ WakeUp(w)
      BY <3>2 DEF SelectTask, SelectNothing, ClaimFails, WakeUp
    <3>3. QED
      BY <2>1, <3>1, <3>2 DEF Poll
  <2>2. ASSUME NEW t \in Task, Arrive(t) \/ End(t) \/ CancelQueued(t)
        PROVE  \/ status' = [status EXCEPT ![t] = "queued"]
               \/ status' = [status EXCEPT ![t] = "ended"]
    BY <2>2 DEF Arrive, End, CancelQueued
  <2>3. QED
    BY <2>1, <2>2 DEF Next, vars
<1>2. PICK t \in Task \cup {NoTask} : Rows' \subseteq Rows \cup {t}
  <2>1. CASE UNCHANGED status
    BY <2>1 DEF Rows
  <2>2. CASE \E t \in Task : \E new : status' = [status EXCEPT ![t] = new] /\ new # "none"
    <3>1. PICK t \in Task : \E new : status' = [status EXCEPT ![t] = new]
      BY <2>2
    <3>2. Rows' \subseteq Rows \cup {t}
      BY <3>1 DEF Rows, PickInv
    <3>3. QED
      BY <3>2
  <2>3. QED
    BY <1>1, <2>1, <2>2
<1>3. IsFiniteSet(Rows')
  <2>1. IsFiniteSet(Rows \cup {t})
    BY FS_AddElement
  <2>2. QED
    BY <1>2, <2>1, FS_Subset
<1>4. ASSUME NEW o \in Org PROVE Listed(o) \subseteq Listed(o)'
  BY <1>1 DEF Listed, PickInv
<1>5. ASSUME NEW u \in Task PROVE Position(u)' \in Nat /\ Position(u)' >= Position(u)
  <2>1. Newer(u) \subseteq Newer(u)'
    <3>1. TaskOrg[u] \in Org
      BY QueueConstants
    <3>2. QED
      BY <1>4, <3>1 DEF Newer
  <2>2. Newer(u)' \subseteq Rows'
    BY DEF Newer, Listed, Rows
  <2>3. IsFiniteSet(Newer(u)')
    BY <1>3, <2>2, FS_Subset
  <2>4. Cardinality(Newer(u)') \in Nat /\ Cardinality(Newer(u)) <= Cardinality(Newer(u)')
    BY <2>1, <2>3, FS_Subset, FS_CardinalityType
  <2>5. QED
    BY <2>4 DEF Position
<1>6. ASSUME NEW u \in Task, Alone(u)' PROVE Alone(u)
  BY <1>4, <1>6, QueueConstants DEF Alone
<1>7. QED
  BY <1>3, <1>4, <1>5, <1>6

LEMMA PageStep == PickInv /\ PageInv /\ [ListNext]_<<vars, listVars>> => PageInv'
<1>1. SUFFICES ASSUME PickInv, PageInv, [ListNext]_<<vars, listVars>> PROVE PageInv'
  OBVIOUS
<1>2. IsFiniteSet(Rows)
  BY <1>1 DEF PageInv, Rows
<1>3. Nobody \notin [of : Org, done : BOOLEAN]
  BY DEF Nobody
<1>4. CASE [Next]_vars /\ UNCHANGED listVars
  <2>1. /\ IsFiniteSet(Rows')
        /\ \A o \in Org : Listed(o) \subseteq Listed(o)'
        /\ \A t \in Task : Position(t)' \in Nat /\ Position(t)' >= Position(t)
        /\ \A t \in Task : Alone(t)' => Alone(t)
    BY <1>1, <1>2, <1>4, RowsGrow
  <2>2. ASSUME lister # Nobody
        PROVE  /\ wanted \subseteq Listed(lister.of)'
               /\ \A t \in wanted : Alone(t)' => t \in shown \/ Position(t)' >= offset
               /\ lister.done => \A t \in wanted : Alone(t)' => t \in shown
    <3>1. /\ lister.of \in Org /\ wanted \subseteq Listed(lister.of) /\ offset \in Nat
          /\ \A t \in wanted : Alone(t) => t \in shown \/ Position(t) >= offset
          /\ lister.done => \A t \in wanted : Alone(t) => t \in shown
      BY <1>1, <2>2 DEF PageInv, PagesMissNothing
    <3>2. \A t \in wanted : t \in Task /\ Position(t) \in Nat
      BY <1>2, <3>1, Positions DEF Listed
    <3>3. \A t \in wanted : /\ Position(t)' \in Nat /\ Position(t)' >= Position(t)
                            /\ Alone(t)' => Alone(t)
      BY <2>1, <3>2
    <3>4. wanted \subseteq Listed(lister.of)'
      BY <1>4, <2>1, <3>1 DEF listVars
    <3>5. QED
      BY <3>1, <3>2, <3>3, <3>4
  <2>3. QED
    BY <1>1, <1>4, <2>1, <2>2 DEF PageInv, PagesMissNothing, listVars, Rows
<1>5. ASSUME NEW o \in Org, FirstPage(o) PROVE PageInv'
  <2>1. PICK page \in Pages(o, 0) :
          /\ lister' = [of |-> o, done |-> page = {}]
          /\ wanted' = Listed(o) /\ shown' = page
          /\ offset' = Cardinality(page)
          /\ UNCHANGED status
    BY <1>5 DEF FirstPage, vars
  <2>2. \A t \in Listed(o) : t \in Task /\ Position(t) \in Nat
    BY <1>2, Positions DEF Listed
  <2>3. /\ Cardinality(page) \in Nat
        /\ \A t \in Listed(o) :
             Alone(t) => page # {} /\ (t \in page \/ Position(t) >= Cardinality(page))
    BY <1>2, <2>2, PageRows
  <2>4. /\ \A t \in Task : Position(t)' = Position(t) /\ Alone(t)' = Alone(t)
        /\ Rows' = Rows
    BY <2>1 DEF Position, Newer, Alone, Listed, Rows
  <2>5. lister' \in [of : Org, done : BOOLEAN] /\ lister'.of = o
    BY <2>1
  <2>6. wanted' \subseteq Listed(lister.of)'
    BY <2>1, <2>5 DEF Listed
  <2>7. \A t \in wanted' : Alone(t)' => t \in shown' \/ Position(t)' >= offset'
    BY <2>1, <2>2, <2>3, <2>4
  <2>8. PagesMissNothing'
    BY <2>1, <2>2, <2>3, <2>4 DEF PagesMissNothing
  <2>9. QED
    BY <1>2, <2>1, <2>3, <2>4, <2>5, <2>6, <2>7, <2>8 DEF PageInv, Rows
<1>6. CASE NextPage
  <2>1. PICK page \in Pages(lister.of, offset) :
          /\ lister # Nobody /\ ~lister.done /\ UNCHANGED <<wanted, status>>
          /\ lister' = [lister EXCEPT !.done = page = {}]
          /\ shown' = shown \cup page
          /\ offset' = offset + Cardinality(page)
    BY <1>6 DEF NextPage, vars
  <2>2. /\ lister \in [of : Org, done : BOOLEAN]
        /\ wanted \subseteq Listed(lister.of) /\ offset \in Nat
        /\ \A t \in wanted : Alone(t) => t \in shown \/ Position(t) >= offset
    BY <1>1, <2>1 DEF PageInv
  <2>3. /\ Cardinality(page) \in Nat
        /\ \A t \in Listed(lister.of) :
             Alone(t) /\ Position(t) >= offset =>
               page # {} /\ (t \in page \/ Position(t) >= offset + Cardinality(page))
    BY <1>2, <2>2, PageRows
  <2>4. \A t \in wanted : t \in Task /\ Position(t) \in Nat
    BY <1>2, <2>2, Positions DEF Listed
  <2>5. /\ \A t \in Task : Position(t)' = Position(t) /\ Alone(t)' = Alone(t)
        /\ Rows' = Rows
    BY <2>1 DEF Position, Newer, Alone, Listed, Rows
  <2>6. lister' \in [of : Org, done : BOOLEAN] /\ lister'.of = lister.of /\ lister'.done = (page = {})
    BY <2>1, <2>2
  <2>7. wanted' \subseteq Listed(lister.of)'
    BY <2>1, <2>2, <2>6 DEF Listed
  <2>8. \A t \in wanted' : Alone(t)' => t \in shown' \/ Position(t)' >= offset'
    BY <2>1, <2>2, <2>3, <2>4, <2>5
  <2>9. PagesMissNothing'
    BY <2>1, <2>2, <2>3, <2>4, <2>5, <2>6 DEF PagesMissNothing
  <2>10. QED
    BY <1>2, <2>1, <2>2, <2>3, <2>5, <2>6, <2>7, <2>8, <2>9 DEF PageInv, Rows
<1>7. CASE LeaveList
  BY <1>1, <1>7 DEF LeaveList, PageInv, vars, PagesMissNothing, Rows
<1>8. CASE UNCHANGED <<vars, listVars>>
  BY <1>4, <1>8 DEF vars, listVars
<1>9. QED
  BY <1>1, <1>4, <1>5, <1>6, <1>7, <1>8 DEF ListNext

(* A client that reaches an empty page has seen every task that existed    *)
(* when it began and shares its created_at with no other of the            *)
(* organization, whatever the queries do with those that share one         *)
(* (tasks.Service.List with limit and offset).                             *)
THEOREM NoTaskIsSkipped == ListSpec => []PagesMissNothing
<1>1. [ListNext]_<<vars, listVars>> => [Next]_vars
  BY DEF ListNext, FirstPage, NextPage, LeaveList, listVars, vars
<1>2. ListInit => Init
  BY DEF ListInit
<1>3. PageInv => PagesMissNothing
  BY DEF PageInv, PagesMissNothing
<1>4. QED
  BY <1>1, <1>2, <1>3, PickInit, PickStep, PageInit, PageStep, PTL DEF ListSpec
=============================================================================
