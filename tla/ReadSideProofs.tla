--------------------------- MODULE ReadSideProofs ---------------------------
(***************************************************************************)
(* What a client is shown and an approver decides upon, proved for every   *)
(* set of tasks, calls and workers, and every approval chain.  The readers *)
(* do not disturb the system, so that IInv and GateInv hold with them too; *)
(* on top of these ViewInv is inductive, because what was read first stays *)
(* true or is only moved on from.                                          *)
(***************************************************************************)
EXTENDS ReadSide, CallProofs

-----------------------------------------------------------------------------
(* Which queries an answer still lacks                                     *)

LEMMA Counts == Cardinality({}) = 0 /\ \A x : Cardinality({x}) = 1
  BY FS_EmptySet, FS_Singleton

LEMMA CompleteTask ==
  ASSUME NEW v, v.get = "task"
  PROVE  Complete(v) <=> {"task", "calls"} \subseteq DOMAIN v.seen
<1>1. Queries(v.get) = <<"task", "calls">>
  BY DEF Queries, TaskQueries
<1>2. QED
  BY <1>1 DEF Complete

LEMMA CompleteRequest ==
  ASSUME NEW v, v.get = "approval"
  PROVE  Complete(v) <=> {"summary", "decisions"} \subseteq DOMAIN v.seen
<1>1. Queries(v.get) = <<"summary", "decisions">>
  BY DEF Queries, RequestQueries
<1>2. QED
  BY <1>1 DEF Complete

LEMMA CompleteList ==
  ASSUME NEW v, v.get = "list"
  PROVE  Complete(v) <=> "summary" \in DOMAIN v.seen
<1>1. Queries(v.get) = <<"summary">>
  BY DEF Queries
<1>2. QED
  BY <1>1 DEF Complete

(* The answer to the first query, and to the second.                       *)
LEMMA FirstQuery ==
  ASSUME NEW get \in {"task", "approval", "list"}, NEW id
  PROVE  LET v == NextQuery([get |-> get, id |-> id, seen |-> << >>])
             q == IF get = "task" THEN "task" ELSE "summary" IN
           /\ v.get = get /\ v.id = id
           /\ DOMAIN v.seen = {q} /\ v.seen[q] = Query(q, id)
<1> DEFINE v0 == [get |-> get, id |-> id, seen |-> << >>]
           q == IF get = "task" THEN "task" ELSE "summary"
<1>1. DOMAIN v0.seen = {}
  OBVIOUS
<1>2. Cardinality(DOMAIN v0.seen) + 1 = 1
  BY <1>1, Counts
<1>3. Queries(v0.get)[1] = q
  <2>1. CASE get = "task"
    BY <2>1 DEF Queries, TaskQueries
  <2>2. CASE get = "approval"
    BY <2>2 DEF Queries, RequestQueries
  <2>3. CASE get = "list"
    BY <2>3 DEF Queries
  <2>4. QED
    BY <2>1, <2>2, <2>3
<1>4. NextQuery(v0) =
        [get |-> get, id |-> id,
         seen |-> [r \in {q} |-> IF r = q THEN Query(q, id) ELSE v0.seen[r]]]
  BY <1>1, <1>2, <1>3 DEF NextQuery
<1>5. QED
  BY <1>4

LEMMA SecondQuery ==
  ASSUME NEW v, NEW first, NEW q,
         DOMAIN v.seen = {first}, first # q, Queries(v.get)[2] = q
  PROVE  /\ NextQuery(v).get = v.get /\ NextQuery(v).id = v.id
         /\ DOMAIN NextQuery(v).seen = {first, q}
         /\ NextQuery(v).seen[first] = v.seen[first]
         /\ NextQuery(v).seen[q] = Query(q, v.id)
<1>1. Cardinality(DOMAIN v.seen) + 1 = 2
  <2>1. Cardinality(DOMAIN v.seen) = 1
    BY Counts, Zenon
  <2>2. QED
    BY <2>1
<1>2. NextQuery(v) =
        [get |-> v.get, id |-> v.id,
         seen |-> [r \in {first, q} |-> IF r = q THEN Query(q, v.id) ELSE v.seen[r]]]
  <2>1. DOMAIN v.seen \cup {q} = {first, q}
    OBVIOUS
  <2>2. QED
    BY <1>1, <2>1 DEF NextQuery
<1>3. QED
  BY <1>2

-----------------------------------------------------------------------------
(* What the system does while somebody reads                               *)

(* Nothing happens to the calls of a task that has ended, but that one of  *)
(* a cancelled task may still have a request to be rejected.               *)
LEMMA EndedCallsStay ==
  ASSUME IInv, GateInv, [Next]_vars, NEW c \in Call, taskStatus[TaskOf[c]] \in Terminal
  PROVE  \/ callStatus'[c] = callStatus[c]
         \/ /\ taskStatus[TaskOf[c]] = "cancelled"
            /\ callStatus[c] = "awaiting_approval" /\ callStatus'[c] = "rejected"
<1>1. TypeOK /\ TaskOf[c] \in Task /\ ~Active(TaskOf[c])
  BY ColumnTypes DEF IInv, StatusesAgree, Active, Terminal
<1>2. ASSUME reqStatus[c] = "pending"
      PROVE  taskStatus[TaskOf[c]] = "cancelled" /\ callStatus[c] = "awaiting_approval"
  <2>1. callStatus[c] = "awaiting_approval"
    BY <1>2 DEF GateInv, CallAwaitsRequest
  <2>2. execStatus[TaskOf[c]] = "cancelled"
    BY <1>1, <1>2 DEF GateInv, TaskAwaitsRequest, PendingOf, Active
  <2>3. QED
    BY <1>1, <2>1, <2>2 DEF IInv, StatusesAgree
<1>3. GateEffect
  BY EveryStepHasAGateEffect
<1>4. ASSUME NEW d \in Call, NEW status, Runs(d, status) \/ Raises(d)
      PROVE  callStatus'[c] = callStatus[c]
  BY <1>1, <1>4 DEF Runs, Raises, TypeOK, Active
<1>5. ASSUME NEW d \in Call, NEW role, NEW a, Rejects(d, role, a)
      PROVE  \/ callStatus'[c] = callStatus[c]
             \/ reqStatus[c] = "pending" /\ callStatus'[c] = "rejected"
  BY <1>1, <1>5 DEF Rejects, TypeOK
<1>6. QED
  BY <1>2, <1>3, <1>4, <1>5 DEF GateEffect, Idles, Advances, Approves

(* Once raised, a request never goes back.                                 *)
LEMMA RequestsMoveOn ==
  ASSUME IInv, GateInv, [Next]_vars, NEW c \in Call, reqStatus[c] # "none"
  PROVE  reqStatus'[c] # "none" /\ reqStep'[c] >= reqStep[c]
<1>1. TypeOK /\ reqStep[c] \in Nat
  BY DEF IInv, TypeOK
<1>2. GateEffect
  BY EveryStepHasAGateEffect
<1>3. ASSUME NEW d \in Call, Raises(d) PROVE d # c
  BY <1>3 DEF Raises, GateInv, CallAwaitsRequest
<1>4. ASSUME NEW d \in Call, Raises(d)
      PROVE  reqStatus'[c] # "none" /\ reqStep'[c] >= reqStep[c]
  <2>1. reqStatus'[c] = reqStatus[c] /\ reqStep'[c] = reqStep[c]
    BY <1>1, <1>3, <1>4 DEF Raises, TypeOK
  <2>2. QED
    BY <1>1, <2>1
<1>5. ASSUME NEW d \in Call, NEW role, NEW a,
             Advances(d, role, a) \/ Approves(d, role) \/ Rejects(d, role, a)
      PROVE  reqStatus'[c] # "none" /\ reqStep'[c] >= reqStep[c]
  <2>1. reqStatus'[c] \in {reqStatus[c], "approved", "rejected"}
    BY <1>1, <1>5 DEF Advances, Approves, Rejects, TypeOK
  <2>2. reqStep'[c] \in {reqStep[c], reqStep[c] + 1}
    BY <1>1, <1>5 DEF Advances, Approves, Rejects, TypeOK
  <2>3. QED
    BY <1>1, <2>1, <2>2
<1>6. ASSUME UNCHANGED <<reqStatus, reqStep>>
      PROVE  reqStatus'[c] # "none" /\ reqStep'[c] >= reqStep[c]
  BY <1>1, <1>6
<1>7. QED
  BY <1>2, <1>4, <1>5, <1>6 DEF GateEffect, Idles, Runs

LEMMA StepsDecidedStep ==
  ASSUME IInv, GateInv, [Next]_vars, NEW c \in Call, StepsAreDecided(c)
  PROVE  StepsAreDecided(c)'
<1>1. /\ TypeOK /\ reqStep[c] \in Nat
      /\ decisions[c] \in Seq(Decision) /\ Len(decisions[c]) \in Nat
  BY DEF IInv, TypeOK
<1>2. GateEffect
  BY EveryStepHasAGateEffect
<1>3. CASE UNCHANGED <<reqStatus, reqStep, decisions>>
  BY <1>3 DEF StepsAreDecided
<1>4. ASSUME NEW d \in Call, Raises(d) PROVE StepsAreDecided(c)'
  BY <1>1, <1>4 DEF Raises, StepsAreDecided, TypeOK
<1>5. ASSUME NEW d \in Call, NEW role \in Role \cup {"system"},
             NEW a \in {"approved", "rejected", "timeout_escalated", "timeout_rejected"},
             Advances(d, role, a) \/ Approves(d, role) \/ Rejects(d, role, a)
      PROVE  StepsAreDecided(c)'
  <2>1. CASE d # c
    BY <1>1, <1>5, <2>1 DEF Advances, Approves, Rejects, StepsAreDecided, TypeOK
  <2>2. CASE d = c
    <3>1. /\ reqStatus[c] = "pending" /\ StepsAreDecided(c)
          /\ Len(decisions[c]) = reqStep[c] - 1
      BY <1>5, <2>2 DEF Advances, Approves, Rejects, GateInv, ChainIsWalked, Walked
    <3>2. PICK b \in {a, "approved"} : decisions'[c] = Append(decisions[c], Answer(c, role, b))
      <4>1. \/ decisions' = [decisions EXCEPT ![c] = Append(@, Answer(c, role, a))]
            \/ decisions' = [decisions EXCEPT ![c] = Append(@, Answer(c, role, "approved"))]
        BY <1>5, <2>2 DEF Advances, Approves, Rejects
      <4>2. QED
        BY <1>1, <4>1 DEF TypeOK
    <3>3. reqStep'[c] \in {reqStep[c], reqStep[c] + 1}
      BY <1>1, <1>5, <2>2 DEF Advances, Approves, Rejects, TypeOK
    <3>4. /\ Len(decisions'[c]) = reqStep[c]
          /\ decisions'[c][reqStep[c]].step = reqStep[c]
          /\ \A i \in 1 .. reqStep[c] - 1 : decisions'[c][i] = decisions[c][i]
      <4>1. /\ Len(Append(decisions[c], Answer(c, role, b))) = Len(decisions[c]) + 1
            /\ Append(decisions[c], Answer(c, role, b))[Len(decisions[c]) + 1] = Answer(c, role, b)
            /\ \A i \in 1 .. Len(decisions[c]) :
                 Append(decisions[c], Answer(c, role, b))[i] = decisions[c][i]
        BY <1>1
      <4>2. QED
        BY <1>1, <3>1, <3>2, <4>1 DEF Answer
    <3>5. \A i \in 1 .. reqStep[c] : decisions'[c][i].step = i
      <4>1. \A i \in 1 .. reqStep[c] - 1 : decisions[c][i].step = i
        BY <3>1 DEF StepsAreDecided
      <4>2. QED
        BY <1>1, <3>4, <4>1
    <3>6. /\ Len(decisions'[c]) >= reqStep'[c] - 1
          /\ \A i \in 1 .. reqStep'[c] - 1 : i \in 1 .. reqStep[c]
      BY <1>1, <3>3, <3>4
    <3>7. QED
      BY <3>5, <3>6 DEF StepsAreDecided
  <2>3. QED
    BY <2>1, <2>2
<1>6. QED
  BY <1>2, <1>3, <1>4, <1>5 DEF GateEffect, Idles, Runs

-----------------------------------------------------------------------------
(* ViewInv is inductive                                                    *)

LEMMA SystemKeepsView ==
  ASSUME IInv, GateInv, ViewInv, [Next]_vars, view' = view
  PROVE  ViewInv'
<1>1. \A c \in Call : StepsAreDecided(c)'
  BY StepsDecidedStep DEF ViewInv
<1>2. ASSUME TaskIsShown PROVE TaskIsShown'
  <2> DEFINE t == view.id
             told == view.seen["task"]
  <2>1. t \in Task
    BY <1>2 DEF TaskIsShown
  <2>2. SUFFICES ASSUME told \in Terminal
                 PROVE  /\ taskStatus'[t] = told
                        /\ "calls" \in DOMAIN view.seen => CallsAsShown'
    BY <1>2, <2>1 DEF TaskIsShown
  <2>3. taskStatus[t] = told /\ ("calls" \in DOMAIN view.seen => CallsAsShown)
    BY <1>2, <2>2 DEF TaskIsShown
  <2>4. taskStatus'[t] = told
    BY <2>1, <2>2, <2>3, EndedTasksStay
  <2>5. ASSUME CallsAsShown, NEW c \in CallsOf(t)
        PROVE  \/ callStatus'[c] = view.seen["calls"][c]
               \/ /\ told = "cancelled" /\ view.seen["calls"][c] = "awaiting_approval"
                  /\ callStatus'[c] = "rejected"
    <3>1. c \in Call /\ TaskOf[c] = t
      BY DEF CallsOf
    <3>2. \/ callStatus'[c] = callStatus[c]
          \/ /\ told = "cancelled"
             /\ callStatus[c] = "awaiting_approval" /\ callStatus'[c] = "rejected"
      BY <2>2, <2>3, <3>1, EndedCallsStay
    <3>3. \/ callStatus[c] = view.seen["calls"][c]
          \/ /\ told = "cancelled" /\ view.seen["calls"][c] = "awaiting_approval"
             /\ callStatus[c] = "rejected"
      BY <2>5 DEF CallsAsShown, MayStillBeRejected
    <3>4. QED
      BY <3>2, <3>3
  <2>6. CallsAsShown => CallsAsShown'
    BY <2>5 DEF CallsAsShown, MayStillBeRejected, CallsOf
  <2>7. QED
    BY <2>3, <2>4, <2>6
<1>3. ASSUME RequestIsShown PROVE RequestIsShown'
  <2>1. view.id \in Call /\ reqStatus[view.id] # "none"
    BY <1>3 DEF RequestIsShown
  <2>2. reqStatus'[view.id] # "none" /\ reqStep'[view.id] >= reqStep[view.id]
    BY <2>1, RequestsMoveOn
  <2>3. reqStep[view.id] \in Nat /\ reqStep'[view.id] \in Nat
    BY <2>1, InductiveStep DEF IInv, TypeOK
  <2>4. QED
    BY <1>3, <2>2, <2>3 DEF RequestIsShown
<1>4. QED
  BY <1>1, <1>2, <1>3 DEF ViewInv

LEMMA AskKeepsView ==
  ASSUME IInv, ViewInv, UNCHANGED vars,
         \/ \E t \in Task : GetTask(t)
         \/ \E c \in Call : GetApproval(c) \/ ListApprovals(c)
  PROVE  ViewInv'
<1>1. \A c \in Call : StepsAreDecided(c)'
  BY DEF ViewInv, StepsAreDecided, vars, reqVars
<1>2. ASSUME NEW t \in Task, GetTask(t) PROVE ViewInv'
  <2> DEFINE v == NextQuery([get |-> "task", id |-> t, seen |-> << >>])
  <2>1. /\ v.get = "task" /\ v.id = t /\ DOMAIN v.seen = {"task"}
        /\ v.seen["task"] = Query("task", t)
    BY FirstQuery
  <2>2. view' = v
    BY <1>2 DEF GetTask, Ask
  <2>3. Query("task", t) = taskStatus'[t]
    BY DEF Query, vars
  <2>4. view'.get = "task" /\ TaskIsShown'
    BY <2>1, <2>2, <2>3 DEF TaskIsShown
  <2>5. QED
    BY <1>1, <2>4 DEF ViewInv
<1>3. ASSUME NEW c \in Call, NEW get \in {"approval", "list"},
             reqStatus[c] # "none", Ask(get, c)
      PROVE  ViewInv'
  <2> DEFINE v == NextQuery([get |-> get, id |-> c, seen |-> << >>])
  <2>1. /\ v.get = get /\ v.id = c /\ DOMAIN v.seen = {"summary"}
        /\ v.seen["summary"] = Query("summary", c)
    BY FirstQuery
  <2>2. view' = v
    BY <1>3 DEF Ask
  <2>3. Query("summary", c) = reqStep'[c] /\ reqStatus'[c] # "none"
    BY <1>3 DEF Query, vars, reqVars
  <2>4. reqStep'[c] \in 1 .. reqStep'[c]
    <3>1. reqStep[c] \in 1 .. Len(ChainOf(c)) /\ Len(ChainOf(c)) \in Nat
      BY <1>3, ChainType DEF IInv, RequestsInChain
    <3>2. QED
      BY <3>1 DEF vars, reqVars
  <2>5. view'.get \in {"approval", "list"} /\ RequestIsShown'
    BY <2>1, <2>2, <2>3, <2>4 DEF RequestIsShown
  <2>6. QED
    BY <1>1, <2>5 DEF ViewInv
<1>4. QED
  BY <1>2, <1>3 DEF GetApproval, ListApprovals

LEMMA ReadOnKeepsView ==
  ASSUME IInv, GateInv, ViewInv, UNCHANGED vars, ReadOn
  PROVE  ViewInv'
<1> DEFINE v == NextQuery(view)
<1>1. \A c \in Call : StepsAreDecided(c)'
  BY DEF ViewInv, StepsAreDecided, vars, reqVars
<1>2. view # NoView /\ ~Complete(view) /\ view' = v
  BY DEF ReadOn
<1>3. CASE view.get = "task" /\ TaskIsShown
  <2>1. DOMAIN view.seen = {"task"} /\ view.id \in Task
    BY <1>2, <1>3, CompleteTask DEF TaskIsShown
  <2>2. Queries(view.get)[2] = "calls"
    BY <1>3 DEF Queries, TaskQueries
  <2>3. /\ v.get = "task" /\ v.id = view.id /\ DOMAIN v.seen = {"task", "calls"}
        /\ v.seen["task"] = view.seen["task"]
        /\ v.seen["calls"] = Query("calls", view.id)
    BY <1>3, <2>1, <2>2, SecondQuery
  <2>4. Query("calls", view.id) = [c \in CallsOf(view.id) |-> callStatus'[c]]
    BY DEF Query, vars
  <2>5. CallsAsShown'
    BY <1>2, <2>3, <2>4 DEF CallsAsShown, CallsOf
  <2>6. TaskIsShown'
    BY <1>2, <1>3, <2>1, <2>3, <2>5 DEF TaskIsShown, vars
  <2>7. QED
    BY <1>1, <1>2, <2>3, <2>6 DEF ViewInv
<1>4. CASE view.get \in {"approval", "list"} /\ RequestIsShown
  <2> DEFINE c == view.id
             n == view.seen["summary"]
  <2>1. /\ DOMAIN view.seen = {"summary"} /\ view.get = "approval"
        /\ c \in Call /\ reqStatus[c] # "none" /\ n \in 1 .. reqStep[c]
    BY <1>2, <1>4, CompleteRequest, CompleteList DEF RequestIsShown
  <2>2. Queries(view.get)[2] = "decisions"
    BY <2>1 DEF Queries, RequestQueries
  <2>3. /\ v.get = "approval" /\ v.id = c /\ DOMAIN v.seen = {"summary", "decisions"}
        /\ v.seen["summary"] = n
        /\ v.seen["decisions"] = Query("decisions", c)
    BY <2>1, <2>2, SecondQuery
  <2>4. Query("decisions", c) = {decisions[c][i].step : i \in 1 .. Len(decisions[c])}
    BY DEF Query
  <2>5. 1 .. n - 1 \subseteq Query("decisions", c)
    <3>1. reqStep[c] \in Nat /\ Len(decisions[c]) \in Nat
      BY <2>1 DEF IInv, TypeOK
    <3>2. StepsAreDecided(c)
      BY <2>1 DEF ViewInv
    <3>3. ASSUME NEW i \in 1 .. n - 1
          PROVE  i \in 1 .. Len(decisions[c]) /\ decisions[c][i].step = i
      BY <2>1, <3>1, <3>2 DEF StepsAreDecided
    <3>4. QED
      BY <2>4, <3>3
  <2>6. view'.get \in {"approval", "list"} /\ RequestIsShown'
    BY <1>2, <2>1, <2>3, <2>5 DEF RequestIsShown, vars, reqVars
  <2>7. QED
    BY <1>1, <2>6 DEF ViewInv
<1>5. QED
  BY <1>2, <1>3, <1>4 DEF ViewInv

(* The request is read on top of what was shown before.                    *)
LEMMA DetailKeepsView ==
  ASSUME ViewInv, UNCHANGED vars, ReadApproval
  PROVE  ViewInv'
<1>1. \A c \in Call : StepsAreDecided(c)'
  BY DEF ViewInv, StepsAreDecided, vars, reqVars
<1>2. /\ view.get = "task" /\ view # NoView /\ DOMAIN view.seen = {"task", "calls"}
      /\ \E status :
           view' = [view EXCEPT !.seen =
                      [q \in DOMAIN @ \cup {"request"} |-> IF q = "request" THEN status ELSE @[q]]]
  BY DEF ReadApproval, AwaitsDetail
<1>3. TaskIsShown
  BY <1>2 DEF ViewInv
<1>4. PICK status :
        view' = [view EXCEPT !.seen =
                   [q \in DOMAIN @ \cup {"request"} |-> IF q = "request" THEN status ELSE @[q]]]
  BY <1>2
<1>5. /\ view'.get = "task" /\ view'.id = view.id
      /\ DOMAIN view'.seen = {"task", "calls", "request"}
      /\ view'.seen["task"] = view.seen["task"] /\ view'.seen["calls"] = view.seen["calls"]
  BY <1>2, <1>4
<1>6. CallsAsShown => CallsAsShown'
  BY <1>5 DEF CallsAsShown, MayStillBeRejected, CallsOf, vars
<1>7. TaskIsShown'
  BY <1>2, <1>3, <1>5, <1>6 DEF TaskIsShown, vars
<1>8. QED
  BY <1>1, <1>5, <1>7 DEF ViewInv

(* An approver acts through the same three transactions as everybody.      *)
LEMMA ActIsAStep ==
  ASSUME IInv, ViewInv, Act
  PROVE  /\ [Next]_vars
         /\ view' = NoView
         /\ view.id \in Call
         /\ \E role \in Role :
              ApproveStep(view.id, role) \/ ApproveLast(view.id, role) \/ Reject(view.id, role)
<1> DEFINE c == view.id
           n == view.seen["summary"]
           role == ChainOf(c)[n].role
<1>1. view.get \in {"approval", "list"} /\ view' = NoView
  BY DEF Act, Shown
<1>2. view # NoView
  BY <1>1 DEF NoView
<1>3. c \in Call /\ n \in 1 .. reqStep[c] /\ reqStatus[c] # "none"
  BY <1>1, <1>2 DEF ViewInv, RequestIsShown
<1>4. role \in Role
  <2>1. /\ reqStep[c] \in 1 .. Len(ChainOf(c))
        /\ ChainOf(c) \in Seq(ChainStep) /\ Len(ChainOf(c)) \in Nat
    BY <1>3, ChainType DEF IInv, RequestsInChain
  <2>2. ChainOf(c)[n] \in ChainStep
    BY <1>3, <2>1
  <2>3. QED
    BY <2>2 DEF ChainStep
<1>5. ApproveStep(c, role) \/ ApproveLast(c, role) \/ Reject(c, role)
  BY DEF Act
<1>6. QED
  BY <1>1, <1>3, <1>4, <1>5 DEF Next

LEMMA ViewInit == Init /\ view = NoView => ViewInv
BY DEF Init, ViewInv, StepsAreDecided

LEMMA ViewStep ==
  ASSUME IInv, GateInv, ViewInv, [ReadNext]_<<vars, view>>
  PROVE  [Next]_vars /\ ViewInv'
<1>1. CASE UNCHANGED <<vars, view>> \/ (Next /\ UNCHANGED view)
  BY <1>1, SystemKeepsView
<1>2. CASE (\E t \in Task : GetTask(t)) \/ (\E c \in Call : GetApproval(c) \/ ListApprovals(c))
  <2>1. UNCHANGED vars
    BY <1>2 DEF GetTask, GetApproval, ListApprovals, Ask
  <2>2. QED
    BY <1>2, <2>1, AskKeepsView
<1>3. CASE ReadOn
  <2>1. UNCHANGED vars
    BY <1>3 DEF ReadOn
  <2>2. QED
    BY <1>3, <2>1, ReadOnKeepsView
<1>4. ASSUME [Next]_vars, view' = NoView PROVE ViewInv'
  <2>1. \A c \in Call : StepsAreDecided(c)'
    BY <1>4, StepsDecidedStep DEF ViewInv
  <2>2. QED
    BY <1>4, <2>1 DEF ViewInv, NoView
<1>5. CASE ReadApproval
  <2>1. UNCHANGED vars
    BY <1>5 DEF ReadApproval
  <2>2. QED
    BY <1>5, <2>1, DetailKeepsView
<1>6. CASE Leave
  BY <1>4, <1>6 DEF Leave
<1>7. CASE Act
  BY <1>4, <1>7, ActIsAStep
<1>8. QED
  BY <1>1, <1>2, <1>3, <1>5, <1>6, <1>7 DEF ReadNext

LEMMA ViewInvariance == ReadSpec => [](IInv /\ GateInv /\ ViewInv)
<1>1. Init /\ view = NoView => IInv /\ GateInv /\ ViewInv
  BY InductiveInit, GateInit, ViewInit
<1>2. IInv /\ GateInv /\ ViewInv /\ [ReadNext]_<<vars, view>> => (IInv /\ GateInv /\ ViewInv)'
  BY ViewStep, InductiveStep, GateStep
<1>3. QED
  BY <1>1, <1>2, PTL DEF ReadSpec

-----------------------------------------------------------------------------
(* What follows                                                            *)

(* Clients that read, and approvers who act on what they read, make the    *)
(* system do nothing it would not do without them: whatever is proved of   *)
(* Spec holds while they look on.                                          *)
THEOREM ReadersDisturbNothing == ReadSpec => Spec
<1>1. IInv /\ GateInv /\ ViewInv /\ [ReadNext]_<<vars, view>> => [Next]_vars
  BY ViewStep
<1>2. QED
  BY <1>1, ViewInvariance, PTL DEF ReadSpec, Spec

(* A client that is told that its task has ended was told the last word on *)
(* it: status and calls stay as they were shown, although the two were     *)
(* read at different moments and late goroutines still come back; but of a *)
(* cancelled task a call that was shown to wait may be rejected later.     *)
THEOREM EndsAreShownOnce == ReadSpec => []ShownEndIsFinal
<1>1. ASSUME ViewInv, Shown({"task"}), view.seen["task"] \in Terminal
      PROVE  taskStatus[view.id] = view.seen["task"] /\ CallsAsShown
  <2>1. view.get = "task" /\ Complete(view) /\ view # NoView
    BY <1>1 DEF Shown, NoView
  <2>2. TaskIsShown
    BY <1>1, <2>1 DEF ViewInv
  <2>3. "calls" \in DOMAIN view.seen
    BY <2>1, CompleteTask
  <2>4. QED
    BY <1>1, <2>2, <2>3 DEF TaskIsShown
<1>2. ViewInv => ShownEndIsFinal
  BY <1>1 DEF ShownEndIsFinal
<1>3. QED
  BY <1>2, ViewInvariance, PTL

(* An approver sees a decision for every step before the one he is shown.  *)
THEOREM ShownStepsAreExplained == ReadSpec => []ShownStepIsExplained
<1>1. ASSUME ViewInv, Shown({"approval"})
      PROVE  1 .. view.seen["summary"] - 1 \subseteq view.seen["decisions"]
  <2>1. view.get = "approval" /\ Complete(view) /\ view # NoView
    BY <1>1 DEF Shown, NoView
  <2>2. RequestIsShown
    BY <1>1, <2>1 DEF ViewInv
  <2>3. DOMAIN view.seen # {"summary"}
    BY <2>1, CompleteRequest
  <2>4. QED
    BY <2>2, <2>3 DEF RequestIsShown
<1>2. ViewInv => ShownStepIsExplained
  BY <1>1 DEF ShownStepIsExplained
<1>3. QED
  BY <1>2, ViewInvariance, PTL

(* A decision made on a screen that others have overtaken counts for the   *)
(* step shown or for a later one that the same role decides, or not at     *)
(* all.                                                                    *)
THEOREM DecisionsCountAsShown == ReadSpec => DecidedAsShown
<1> DEFINE AsShown ==
      LET c == view.id
          chain == ChainOf(c)
          step == decisions'[c][Len(decisions'[c])].step IN
        Shown({"approval", "list"}) /\ view' = NoView /\ decisions'[c] # decisions[c] =>
          /\ step \in DOMAIN chain
          /\ step >= view.seen["summary"]
          /\ chain[step].role = chain[view.seen["summary"]].role
<1>1. ASSUME IInv, GateInv, ViewInv, ReadNext,
             Shown({"approval", "list"}), view' = NoView,
             decisions'[view.id] # decisions[view.id]
      PROVE  LET step == decisions'[view.id][Len(decisions'[view.id])].step IN
               /\ step \in DOMAIN ChainOf(view.id)
               /\ step >= view.seen["summary"]
               /\ ChainOf(view.id)[step].role = ChainOf(view.id)[view.seen["summary"]].role
  <2> DEFINE c == view.id
             n == view.seen["summary"]
             role == ChainOf(c)[n].role
  <2>1. view.get \in {"approval", "list"} /\ view # NoView
    BY <1>1 DEF Shown, NoView
  <2>2. c \in Call /\ n \in 1 .. reqStep[c] /\ reqStatus[c] # "none"
    BY <1>1, <2>1 DEF ViewInv, RequestIsShown
  <2>3. Act
    <3>1. ~(Next /\ UNCHANGED view)
      BY <1>1, <2>1
    <3>2. ~ UNCHANGED vars
      BY <1>1 DEF vars, reqVars
    <3>3. QED
      BY <1>1, <3>1, <3>2
         DEF ReadNext, GetTask, GetApproval, ListApprovals, Ask, ReadOn, ReadApproval, Leave
  <2>4. ApproveStep(c, role) \/ ApproveLast(c, role) \/ Reject(c, role)
    BY <2>3 DEF Act
  <2>5. MayDecide(c, role) /\ \E a : Decide(c, role, a)
    BY <2>4 DEF ApproveStep, ApproveLast, Reject
  <2>6. /\ reqStep[c] \in DOMAIN ChainOf(c) /\ reqStep[c] >= n
        /\ ChainOf(c)[reqStep[c]].role = role
    <3>1. reqStep[c] \in 1 .. Len(ChainOf(c)) /\ ChainOf(c) \in Seq(ChainStep)
      BY <1>1, <2>2, ChainType DEF IInv, RequestsInChain
    <3>2. reqStep[c] \in DOMAIN ChainOf(c) /\ reqStep[c] >= n
      BY <2>2, <3>1
    <3>3. QED
      BY <2>5, <3>2 DEF MayDecide, StepOf
  <2>7. decisions[c] \in Seq(Decision) /\ decisions \in [Call -> Seq(Decision)]
    BY <1>1, <2>2 DEF IInv, TypeOK
  <2>8. PICK a : decisions'[c] = Append(decisions[c], [step |-> reqStep[c], role |-> role, decision |-> a])
    BY <2>2, <2>5, <2>7 DEF Decide
  <2>9. decisions'[c][Len(decisions'[c])].step = reqStep[c]
    BY <2>7, <2>8
  <2>10. QED
    BY <2>6, <2>9
<1>2. IInv /\ GateInv /\ ViewInv /\ [ReadNext]_<<vars, view>> => [AsShown]_<<vars, view>>
  BY <1>1
<1>3. QED
  BY <1>2, ViewInvariance, PTL DEF ReadSpec, DecidedAsShown
=============================================================================
