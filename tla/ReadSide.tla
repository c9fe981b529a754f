------------------------------ MODULE ReadSide ------------------------------
(***************************************************************************)
(* What a client is shown, and an approver acts upon.  tasks.Service.Get   *)
(* and approvals.Service.Get are two or three queries outside of any       *)
(* transaction, so that an answer is put together from several moments;    *)
(* approvals.Service.List is one query.  The client reads one thing at a   *)
(* time; the rest of the system goes on meanwhile.                         *)
(***************************************************************************)
EXTENDS AgentHub

VARIABLE view    \* what is read, and what each query so far has returned

NoView == [get |-> "nothing"]

CallsOf(t) == {c \in Call : TaskOf[c] = t}

(* Mutants: the details before the row they belong to. *)
TaskQueriesSwapped == <<"calls", "task">>
RequestQueriesSwapped == <<"decisions", "summary">>

TaskQueries == <<"task", "calls">>

RequestQueries == <<"summary", "decisions">>

Queries(get) ==
  CASE get = "task" -> TaskQueries
    [] get = "approval" -> RequestQueries
    [] get = "list" -> <<"summary">>

Query(q, id) ==
  CASE q = "task" -> taskStatus[id]
    [] q = "calls" -> [c \in CallsOf(id) |-> callStatus[c]]
    [] q = "summary" -> reqStep[id]
    [] q = "decisions" -> {decisions[id][i].step : i \in 1 .. Len(decisions[id])}

Complete(v) == \A i \in DOMAIN Queries(v.get) : Queries(v.get)[i] \in DOMAIN v.seen

(* currentCall: the first one that is not through. *)
CurrentIn(calls) ==
  LET open == {c \in DOMAIN calls :
                 calls[c] \in {"pending", "awaiting_approval", "executing"}} IN
    {c \in open : \A d \in open : OrderIndex[c] <= OrderIndex[d]}

(* The request of a current call that waits for approval is read as well.  *)
AwaitsDetail(v) ==
  /\ v.get = "task" /\ DOMAIN v.seen = {"task", "calls"}
  /\ \E c \in CurrentIn(v.seen["calls"]) : v.seen["calls"][c] = "awaiting_approval"

NextQuery(v) ==
  LET q == Queries(v.get)[Cardinality(DOMAIN v.seen) + 1] IN
    [get |-> v.get, id |-> v.id,
     seen |-> [r \in DOMAIN v.seen \cup {q} |->
                 IF r = q THEN Query(q, v.id) ELSE v.seen[r]]]

Ask(get, id) ==
  /\ view = NoView
  /\ view' = NextQuery([get |-> get, id |-> id, seen |-> << >>])
  /\ UNCHANGED vars

GetTask(t) == Ask("task", t)
GetApproval(c) == reqStatus[c] # "none" /\ Ask("approval", c)
ListApprovals(c) == reqStatus[c] = "pending" /\ Ask("list", c)

ReadOn ==
  /\ view # NoView
  /\ ~Complete(view)
  /\ view' = NextQuery(view)
  /\ UNCHANGED vars

(* The request is shown as it is by now. *)
ReadApproval ==
  /\ view # NoView
  /\ AwaitsDetail(view)
  /\ \E c \in CurrentIn(view.seen["calls"]) :
       view' = [view EXCEPT !.seen =
                  [q \in DOMAIN @ \cup {"request"} |->
                     IF q = "request" THEN reqStatus[c] ELSE @[q]]]
  /\ UNCHANGED vars

(* The answer is read, or a query failed. *)
Leave == view # NoView /\ view' = NoView /\ UNCHANGED vars

Shown(get) == view.get \in get /\ Complete(view) /\ ~AwaitsDetail(view)

(* A person whose turn it is, according to the screen, decides. *)
Act ==
  /\ Shown({"approval", "list"})
  /\ LET role == ChainOf(view.id)[view.seen["summary"]].role IN
       ApproveStep(view.id, role) \/ ApproveLast(view.id, role) \/ Reject(view.id, role)
  /\ view' = NoView

ReadNext ==
  \/ Next /\ UNCHANGED view
  \/ \E t \in Task : GetTask(t)
  \/ \E c \in Call : GetApproval(c) \/ ListApprovals(c)
  \/ ReadOn \/ ReadApproval \/ Leave \/ Act

ReadSpec == Init /\ view = NoView /\ [][ReadNext]_<<vars, view>>

-----------------------------------------------------------------------------
(* A client that is told that its task has ended need not ask again: the   *)
(* status it was shown stays, and so do the calls, however many workers    *)
(* still come back from their tools.  Only of a cancelled task a call that *)
(* was shown to wait for approval may turn out to be rejected: its request *)
(* is still open.                                                          *)
MayStillBeRejected(c) ==
  /\ view.seen["task"] = "cancelled"
  /\ view.seen["calls"][c] = "awaiting_approval" /\ callStatus[c] = "rejected"

CallsAsShown ==
  \A c \in CallsOf(view.id) :
    callStatus[c] = view.seen["calls"][c] \/ MayStillBeRejected(c)

ShownEndIsFinal ==
  Shown({"task"}) /\ view.seen["task"] \in Terminal =>
    taskStatus[view.id] = view.seen["task"] /\ CallsAsShown

(* An approver sees why the request stands where it does: the decision on  *)
(* every earlier step is in the same answer.                               *)
ShownStepIsExplained ==
  Shown({"approval"}) => 1 .. view.seen["summary"] - 1 \subseteq view.seen["decisions"]

(* Approve and Reject name a request and not a step, and the request may   *)
(* have moved on since the approver looked.  His decision still counts for *)
(* no earlier step than he was shown, and for one of the same role: where  *)
(* his role has a single step in the chain, for the very step shown.       *)
(* (Where it has two, a repeated click may decide the later one.)          *)
DecidedAsShown ==
  [][LET c == view.id
         chain == ChainOf(c)
         step == decisions'[c][Len(decisions'[c])].step IN
       Shown({"approval", "list"}) /\ view' = NoView /\ decisions'[c] # decisions[c] =>
         /\ step \in DOMAIN chain
         /\ step >= view.seen["summary"]
         /\ chain[step].role = chain[view.seen["summary"]].role]_<<vars, view>>

-----------------------------------------------------------------------------
(* Why an answer put together from several moments holds together          *)

(* Every step a request has passed was decided, in the order of the chain, *)
(* even if the request was rejected in the end.                            *)
StepsAreDecided(c) ==
  reqStatus[c] # "none" =>
    /\ Len(decisions[c]) >= reqStep[c] - 1
    /\ \A i \in 1 .. reqStep[c] - 1 : decisions[c][i].step = i

(* The task had ended before its calls were read.                          *)
TaskIsShown ==
  /\ view.id \in Task
  /\ DOMAIN view.seen \in
       {{"task"}, {"task", "calls"}, {"task", "calls", "request"}}
  /\ view.seen["task"] \in Terminal =>
       /\ taskStatus[view.id] = view.seen["task"]
       /\ "calls" \in DOMAIN view.seen => CallsAsShown

(* The decisions were read after the step, which only moves on.            *)
RequestIsShown ==
  LET seen == view.seen IN
    /\ view.id \in Call
    /\ reqStatus[view.id] # "none"
    /\ seen["summary"] \in 1 .. reqStep[view.id]
    /\ \/ DOMAIN seen = {"summary"}
       \/ /\ DOMAIN seen = {"summary", "decisions"}
          /\ view.get = "approval"
          /\ 1 .. seen["summary"] - 1 \subseteq seen["decisions"]

ViewInv ==
  /\ \A c \in Call : StepsAreDecided(c)
  /\ \/ view = NoView
     \/ view.get = "task" /\ TaskIsShown
     \/ view.get \in {"approval", "list"} /\ RequestIsShown
=============================================================================
