----------------------------- MODULE LockProofs -----------------------------
(***************************************************************************)
(* Proofs about RowLocks.  At any moment each open transaction has done a  *)
(* beginning of its handler's plan, and the other transactions leave alone *)
(* whatever it goes by, because it has locked those rows (PlansHold).      *)
(* Hence its commit is the action of AgentHub that the handler stands for  *)
(* (ImplementsHub), and whoever waits without a cancellation in the        *)
(* circle waits for someone who does not wait (DeadlocksNeedCancel).       *)
(***************************************************************************)
EXTENDS LockPlans, CallProofs

-----------------------------------------------------------------------------
(* Drafts                                                                  *)

(* A table with the columns of d put over it, ... *)
Over(d, column, f) ==
  [k \in DOMAIN f |-> IF <<column, k>> \in DOMAIN d THEN d[<<column, k>>] ELSE f[k]]

IsTable(f) == f = [k \in DOMAIN f |-> f[k]]
With(f, i, x) == [f EXCEPT ![i] = x]

(* ... where d says nothing of a column, sets it in one row, or in several. *)
Silent(d, column) == \A k : <<column, k>> \notin DOMAIN d

Sets(d, column, i, x) ==
  \A f : IsTable(f) => Over(d, column, f) = With(f, i, x)

SetsTwo(d, column, i, x, j, y) ==
  \A f : IsTable(f) => Over(d, column, f) = With(With(f, i, x), j, y)

SetsThree(d, column, i, x, j, y, k, z) ==
  \A f : IsTable(f) => Over(d, column, f) = With(With(With(f, i, x), j, y), k, z)

LEMMA Silence ==
  /\ \A column : Silent(Nothing, column)
  /\ \A other, id, value, column : other # column => Silent(Put(other, id, value), column)
  /\ \A d, e, column : Silent(d, column) /\ Silent(e, column) => Silent(d ++ e, column)
BY DEF Silent, Nothing, Put, ++

LEMMA OverSilent ==
  \A d, column, f : IsTable(f) /\ Silent(d, column) => Over(d, column, f) = f
BY DEF Over, IsTable, Silent

LEMMA OverEither ==
  /\ \A d, e, column, f : Silent(d, column) => Over(d ++ e, column, f) = Over(e, column, f)
  /\ \A d, e, column, f : Silent(e, column) => Over(d ++ e, column, f) = Over(d, column, f)
BY DEF Over, ++, Silent

LEMMA OverBoth ==
  \A d, e, column, f :
    /\ Over(d ++ e, column, f) = Over(d, column, Over(e, column, f))
    /\ IsTable(Over(e, column, f))
BY DEF Over, ++, IsTable

LEMMA Setting ==
  /\ \A column, i, x : Sets(Put(column, i, x), column, i, x)
  /\ \A d, e, column, i, x :
       Silent(d, column) /\ Sets(e, column, i, x) => Sets(d ++ e, column, i, x)
  /\ \A d, e, column, i, x :
       Sets(d, column, i, x) /\ Silent(e, column) => Sets(d ++ e, column, i, x)
<1>1. ASSUME NEW column, NEW i, NEW x, NEW f, IsTable(f)
      PROVE  Over(Put(column, i, x), column, f) = With(f, i, x)
  BY <1>1 DEF Over, IsTable, Put, With
<1>2. QED
  BY <1>1, OverEither DEF Sets

LEMMA SettingTwo ==
  /\ \A d, e, column, i, x, j, y :
       Sets(d, column, j, y) /\ Sets(e, column, i, x) => SetsTwo(d ++ e, column, i, x, j, y)
  /\ \A d, e, column, i, x, j, y :
       Silent(d, column) /\ SetsTwo(e, column, i, x, j, y) =>
         SetsTwo(d ++ e, column, i, x, j, y)
  /\ \A d, e, column, i, x, j, y :
       SetsTwo(d, column, i, x, j, y) /\ Silent(e, column) =>
         SetsTwo(d ++ e, column, i, x, j, y)
<1>1. ASSUME NEW d, NEW e, NEW column, NEW i, NEW x, NEW j, NEW y,
             Sets(d, column, j, y), Sets(e, column, i, x)
      PROVE  SetsTwo(d ++ e, column, i, x, j, y)
  <2> SUFFICES ASSUME NEW f, IsTable(f)
               PROVE  Over(d ++ e, column, f) = With(With(f, i, x), j, y)
    BY DEF SetsTwo
  <2>1. Over(d ++ e, column, f) = Over(d, column, Over(e, column, f))
    BY OverBoth
  <2>2. Over(e, column, f) = With(f, i, x) /\ IsTable(Over(e, column, f))
    BY <1>1, OverBoth DEF Sets
  <2>3. QED
    BY <1>1, <2>1, <2>2 DEF Sets
<1>2. ASSUME NEW d, NEW e, NEW column, NEW i, NEW x, NEW j, NEW y,
             \/ Silent(d, column) /\ SetsTwo(e, column, i, x, j, y)
             \/ SetsTwo(d, column, i, x, j, y) /\ Silent(e, column)
      PROVE  SetsTwo(d ++ e, column, i, x, j, y)
  BY <1>2, OverEither DEF SetsTwo
<1>3. QED
  BY <1>1, <1>2

LEMMA SettingThree ==
  ASSUME NEW d, NEW e, NEW column, NEW i, NEW x, NEW j, NEW y, NEW k, NEW z,
         Sets(d, column, k, z), SetsTwo(e, column, i, x, j, y)
  PROVE  SetsThree(d ++ e, column, i, x, j, y, k, z)
<1> SUFFICES ASSUME NEW f, IsTable(f)
             PROVE  Over(d ++ e, column, f) = With(With(With(f, i, x), j, y), k, z)
  BY DEF SetsThree
<1>1. Over(d ++ e, column, f) = Over(d, column, Over(e, column, f))
  BY OverBoth
<1>2. /\ Over(e, column, f) = With(With(f, i, x), j, y)
      /\ IsTable(Over(e, column, f))
  BY OverBoth DEF SetsTwo
<1>3. QED
  BY <1>1, <1>2 DEF Sets

LEMMA AnyOrder ==
  ASSUME NEW f, NEW i, NEW x, NEW j, NEW y, i # j
  PROVE  With(With(f, i, x), j, y) = With(With(f, j, y), i, x)
BY DEF With

LEMMA NoChange ==
  /\ \A f, i : IsTable(f) => With(f, i, f[i]) = f
  /\ \A f, i, x : IsTable(With(f, i, x))
BY DEF With, IsTable

(* What the statements write.                                              *)
LEMMA StatementsWrite ==
  /\ \A t, from, to : UpdateTask(t, from, to).columns =
       Put("task", t, to) ++ Put("journal", <<"task", t>>, Row(from, to))
  /\ \A c, from, to : UpdateCall(c, from, to).columns =
       Put("call", c, to) ++ Put("journal", <<"tool_call", c>>, Row(from, to))
  /\ \A s : ReleaseSlot(s).columns = Put("slot", s, "available")
  /\ \A t : RenewLease(t).columns = Put("lease", t, "live")
  /\ \A t, c : AddUsage(t, c).columns = Put("usage", c, 1)
  /\ \A t, i : MoveIndex(t, i).columns = Put("current_call_index", t, i)
<1>1. \A t, from, to : UpdateTask(t, from, to).columns =
         Put("task", t, to) ++ Put("journal", <<"task", t>>, Row(from, to))
  BY DEF UpdateTask, Always, Logs
<1>2. \A c, from, to : UpdateCall(c, from, to).columns =
       Put("call", c, to) ++ Put("journal", <<"tool_call", c>>, Row(from, to))
  BY DEF UpdateCall, Always, Logs
<1>3. QED
  BY <1>1, <1>2 DEF ReleaseSlot, RenewLease, AddUsage, MoveIndex, Always

LEMMA FlowsWrite ==
  /\ \A t : ResumeExecution(t).columns =
       Put("execution", t, "running") ++ Put("lease", t, "expired")
         ++ Put("journal", <<"execution", t>>, Row("awaiting_approval", "running"))
  /\ \A t : ResumeTask(t).columns =
       Put("task", t, "running")
         ++ Put("journal", <<"task", t>>, Row("awaiting_approval", "running"))
  /\ \A t : FailExecution(t).columns =
       Put("execution", t, "failed")
         ++ Put("journal", <<"execution", t>>, Row("awaiting_approval", "failed"))
  /\ \A t : FailTask(t).columns = Put("task", t, "failed")
  /\ \A t : CancelExecution(t).columns =
       Put("execution", t, "cancelled")
         ++ Put("journal", <<"execution", t>>, Row("running", "cancelled"))
BY DEF ResumeExecution, ResumeTask, FailExecution, FailTask, CancelExecution, If, Logs

LEMMA Giving ==
  ASSUME NEW w
  PROVE  /\ Sets(Gives(w), "pc", w, "resumable")
         /\ Sets(Gives(w), "claimed", w, NoTask)
         /\ Sets(Gives(w), "calling", w, NoCall)
         /\ \A column : column \notin {"pc", "claimed", "calling"} => Silent(Gives(w), column)
BY Silence, Setting DEF Gives, Goes

(* A commit puts the draft over the tables.                                *)
LEMMA TablesAre ==
  ASSUME TypeOK
  PROVE  /\ IsTable(taskStatus) /\ IsTable(execStatus) /\ IsTable(execSlot)
         /\ IsTable(callIndex) /\ IsTable(lease) /\ IsTable(slotStatus)
         /\ IsTable(callStatus) /\ IsTable(reqStatus) /\ IsTable(reqStep)
         /\ IsTable(usage) /\ IsTable(journal)
         /\ IsTable(pc) /\ IsTable(claimed) /\ IsTable(calling)
         /\ IsTable([c \in Call |-> << >>])
BY DEF IsTable, TypeOK

LEMMA CommitWrites ==
  ASSUME NEW a, Commit(a)
  PROVE  /\ taskStatus' = Over(draft[a], "task", taskStatus)
         /\ execStatus' = Over(draft[a], "execution", execStatus)
         /\ execSlot' = Over(draft[a], "slot_id", execSlot)
         /\ callIndex' = Over(draft[a], "current_call_index", callIndex)
         /\ lease' = Over(draft[a], "lease", lease)
         /\ slotStatus' = Over(draft[a], "slot", slotStatus)
         /\ callStatus' = Over(draft[a], "call", callStatus)
         /\ reqStatus' = Over(draft[a], "request", reqStatus)
         /\ reqStep' = Over(draft[a], "current_step_order", reqStep)
         /\ decisions' = [c \in Call |->
              decisions[c] \o Over(draft[a], "decisions", [d \in Call |-> << >>])[c]]
         /\ usage' = Over(draft[a], "usage", usage)
         /\ journal' = Over(draft[a], "journal", journal)
         /\ pc' = Over(draft[a], "pc", pc)
         /\ claimed' = Over(draft[a], "claimed", claimed)
         /\ calling' = Over(draft[a], "calling", calling)
         /\ UNCHANGED <<overdue, crashes>>
<1>1. \A column, f : Written(a, column, f) = Over(draft[a], column, f)
  BY DEF Written, Over
<1>2. QED
  BY <1>1 DEF Commit

(* What a commit does to the columns that its draft sets once, ...         *)
LEMMA SetColumns ==
  ASSUME TypeOK, NEW a, Commit(a)
  PROVE  /\ \A i, x : Sets(draft[a], "task", i, x) => taskStatus' = With(taskStatus, i, x)
         /\ \A i, x : Sets(draft[a], "execution", i, x) => execStatus' = With(execStatus, i, x)
         /\ \A i, x : Sets(draft[a], "slot_id", i, x) => execSlot' = With(execSlot, i, x)
         /\ \A i, x : Sets(draft[a], "current_call_index", i, x) => callIndex' = With(callIndex, i, x)
         /\ \A i, x : Sets(draft[a], "lease", i, x) => lease' = With(lease, i, x)
         /\ \A i, x : Sets(draft[a], "slot", i, x) => slotStatus' = With(slotStatus, i, x)
         /\ \A i, x : Sets(draft[a], "call", i, x) => callStatus' = With(callStatus, i, x)
         /\ \A i, x : Sets(draft[a], "request", i, x) => reqStatus' = With(reqStatus, i, x)
         /\ \A i, x : Sets(draft[a], "current_step_order", i, x) => reqStep' = With(reqStep, i, x)
         /\ \A i, x : Sets(draft[a], "usage", i, x) => usage' = With(usage, i, x)
         /\ \A i, x : Sets(draft[a], "journal", i, x) => journal' = With(journal, i, x)
         /\ \A i, x : Sets(draft[a], "pc", i, x) => pc' = With(pc, i, x)
         /\ \A i, x : Sets(draft[a], "claimed", i, x) => claimed' = With(claimed, i, x)
         /\ \A i, x : Sets(draft[a], "calling", i, x) => calling' = With(calling, i, x)
BY CommitWrites, TablesAre DEF Sets

(* ... of a decision, ...                                                  *)
LEMMA SetDecisions ==
  ASSUME TypeOK, NEW a, Commit(a), NEW c \in Call, NEW x,
         Sets(draft[a], "decisions", c, <<x>>)
  PROVE  decisions' = [decisions EXCEPT ![c] = Append(@, x)]
<1>1. Over(draft[a], "decisions", [d \in Call |-> << >>]) =
        With([d \in Call |-> << >>], c, <<x>>)
  BY TablesAre DEF Sets
<1>2. decisions \in [Call -> Seq(Decision)]
  BY DEF TypeOK
<1>3. \A e \in Call : decisions'[e] = decisions[e] \o (IF e = c THEN <<x>> ELSE << >>)
  <2>1. decisions' = [e \in Call |-> decisions[e]
                        \o With([d \in Call |-> << >>], c, <<x>>)[e]]
    <3>1. decisions' = [e \in Call |-> decisions[e]
                          \o Over(draft[a], "decisions", [d \in Call |-> << >>])[e]]
      BY CommitWrites
    <3>2. QED
      BY <1>1, <3>1
  <2>2. QED
    BY <2>1 DEF With
<1>4. \A e \in Call : decisions[e] \o << >> = decisions[e]
  BY <1>2
<1>5. decisions[c] \o <<x>> = Append(decisions[c], x)
  BY <1>2
<1>6. decisions' = [e \in Call |-> decisions'[e]]
  BY CommitWrites
<1>7. QED
  BY <1>2, <1>3, <1>4, <1>5, <1>6

(* ... and of the journal.                                                 *)
LEMMA SetJournal ==
  ASSUME TypeOK, NEW a, Commit(a)
  PROVE  /\ \A i, x, j, y : SetsTwo(draft[a], "journal", i, x, j, y) =>
              journal' = With(With(journal, i, x), j, y)
         /\ \A i, x, j, y, k, z : SetsThree(draft[a], "journal", i, x, j, y, k, z) =>
              journal' = With(With(With(journal, i, x), j, y), k, z)
<1>1. journal' = Over(draft[a], "journal", journal) /\ IsTable(journal)
  BY CommitWrites, TablesAre
<1>2. QED
  BY <1>1 DEF SetsTwo, SetsThree

(* What is left alone by a commit that says nothing of it.                 *)
LEMMA SilentColumns ==
  ASSUME TypeOK, NEW a, Commit(a)
  PROVE  /\ Silent(draft[a], "task") => UNCHANGED taskStatus
         /\ Silent(draft[a], "execution") => UNCHANGED execStatus
         /\ Silent(draft[a], "slot_id") => UNCHANGED execSlot
         /\ Silent(draft[a], "current_call_index") => UNCHANGED callIndex
         /\ Silent(draft[a], "lease") => UNCHANGED lease
         /\ Silent(draft[a], "slot") => UNCHANGED slotStatus
         /\ Silent(draft[a], "call") => UNCHANGED callStatus
         /\ Silent(draft[a], "request") => UNCHANGED reqStatus
         /\ Silent(draft[a], "current_step_order") => UNCHANGED reqStep
         /\ Silent(draft[a], "decisions") => UNCHANGED decisions
         /\ Silent(draft[a], "usage") => UNCHANGED usage
         /\ Silent(draft[a], "journal") => UNCHANGED journal
         /\ Silent(draft[a], "pc") => UNCHANGED pc
         /\ Silent(draft[a], "claimed") => UNCHANGED claimed
         /\ Silent(draft[a], "calling") => UNCHANGED calling
<1>1. Silent(draft[a], "decisions") => UNCHANGED decisions
  <2> SUFFICES ASSUME Silent(draft[a], "decisions") PROVE decisions' = decisions
    OBVIOUS
  <2>1. decisions' = [c \in Call |-> decisions[c] \o [d \in Call |-> << >>][c]]
    BY CommitWrites, OverSilent, TablesAre
  <2>2. decisions \in [Call -> Seq(Decision)]
    BY DEF TypeOK
  <2>3. \A c \in Call : decisions[c] \o << >> = decisions[c]
    BY <2>2
  <2>4. QED
    BY <2>1, <2>2, <2>3
<1>2. QED
  BY <1>1, CommitWrites, OverSilent, TablesAre

-----------------------------------------------------------------------------
(* Commits: a transaction that has done its last statement leaves the      *)
(* tables as the action of AgentHub does.                                  *)

LEMMA SeatCommits ==
  ASSUME IInv, NEW a \in Worker, NEW t \in Task, NEW s \in Slot,
         Seating(a, t, s), Commit(a)
  PROVE  ClaimQueued(a, t, s)
<1>1. draft[a] = Put("slot", s, "busy") ++ Put("slot_id", t, s)
                   ++ Put("execution", t, "running") ++ Put("task", t, "running")
                   ++ Put("lease", t, "live") ++ Put("current_call_index", t, 0)
                   ++ Put("journal", <<"task", t>>, Row("queued", "running"))
                   ++ Put("journal", <<"execution", t>>, Row("none", "running"))
                   ++ Put("pc", a, "step") ++ Put("claimed", a, t) ++ Nothing
  BY DEF Seating, Working, SeatColumns, Logs, Goes
<1>2. /\ Sets(draft[a], "slot", s, "busy")
      /\ Sets(draft[a], "slot_id", t, s)
      /\ Sets(draft[a], "execution", t, "running")
      /\ Sets(draft[a], "task", t, "running")
      /\ Sets(draft[a], "lease", t, "live")
      /\ Sets(draft[a], "current_call_index", t, 0)
      /\ Sets(draft[a], "pc", a, "step")
      /\ Sets(draft[a], "claimed", a, t)
  BY <1>1, Silence, Setting
<1>3. SetsTwo(draft[a], "journal", <<"execution", t>>, Row("none", "running"),
              <<"task", t>>, Row("queued", "running"))
  BY <1>1, Silence, Setting, SettingTwo
<1>4. /\ Silent(draft[a], "calling") /\ Silent(draft[a], "call")
      /\ Silent(draft[a], "request") /\ Silent(draft[a], "current_step_order")
      /\ Silent(draft[a], "decisions") /\ Silent(draft[a], "usage")
  BY <1>1, Silence
<1>5. TypeOK
  BY DEF IInv
<1>6. /\ slotStatus' = With(slotStatus, s, "busy")
      /\ execSlot' = With(execSlot, t, s)
      /\ execStatus' = With(execStatus, t, "running")
      /\ taskStatus' = With(taskStatus, t, "running")
      /\ lease' = With(lease, t, "live")
      /\ callIndex' = With(callIndex, t, 0)
      /\ pc' = With(pc, a, "step")
      /\ claimed' = With(claimed, a, t)
  BY <1>2, <1>5, SetColumns
<1>7. journal' = With(With(journal, <<"task", t>>, Row("queued", "running")),
                      <<"execution", t>>, Row("none", "running"))
  BY <1>3, <1>5, SetJournal, AnyOrder
<1>8. UNCHANGED <<calling, callStatus, reqVars, usage, crashes>>
  BY <1>4, <1>5, SilentColumns, CommitWrites DEF reqVars
<1>9. QED
  BY <1>6, <1>7, <1>8 DEF Seating, With, ClaimQueued, ReserveSlot, Renew, Take, GoTo

LEMMA PassCommits ==
  ASSUME IInv, NEW a \in Worker, NEW t \in Task, Passing(a, t), Commit(a)
  PROVE  NextCallPasses(a) \/ NextCallLeaves(a)
<1>1. /\ TypeOK /\ pc[a] = "step" /\ claimed[a] = t /\ StillRunning(t)
      /\ \A c \in Current(t) : Verdict(c) \in {"skip", "stop"}
      /\ CallsAt(t, callIndex[t]) = Current(t)
  BY DEF IInv, Passing, AtStep, CallsAt, Current
<1>2. draft[a] = PassColumns(a, t, callIndex[t]) ++ (Put("lease", t, "live") ++ Nothing)
  BY StatementsWrite DEF Passing, Working, Leased
<1>3. \A column : column \notin {"pc", "claimed", "calling", "current_call_index"} =>
        Silent(PassColumns(a, t, callIndex[t]), column)
  BY Silence, Giving DEF PassColumns, Goes
<1>4. /\ Sets(draft[a], "lease", t, "live")
      /\ Silent(draft[a], "task") /\ Silent(draft[a], "execution")
      /\ Silent(draft[a], "slot_id") /\ Silent(draft[a], "slot")
      /\ Silent(draft[a], "call") /\ Silent(draft[a], "request")
      /\ Silent(draft[a], "current_step_order") /\ Silent(draft[a], "decisions")
      /\ Silent(draft[a], "usage") /\ Silent(draft[a], "journal")
  BY <1>2, <1>3, Silence, Setting
<1>5. lease' = With(lease, t, "live")
  BY <1>1, <1>4, SetColumns
<1>6. UNCHANGED <<taskStatus, execStatus, execSlot, slotStatus, callStatus, reqVars,
                  usage, journal, crashes>>
  BY <1>1, <1>4, SilentColumns, CommitWrites DEF reqVars
<1>7. CASE Current(t) = {}
  <2>1. draft[a] = Put("pc", a, "finish_completed") ++ (Put("lease", t, "live") ++ Nothing)
    BY <1>1, <1>2, <1>7 DEF PassColumns, Goes
  <2>2. /\ Sets(draft[a], "pc", a, "finish_completed") /\ Silent(draft[a], "claimed")
        /\ Silent(draft[a], "calling") /\ Silent(draft[a], "current_call_index")
    BY <2>1, Silence, Setting
  <2>3. /\ pc' = With(pc, a, "finish_completed")
        /\ UNCHANGED <<claimed, calling, callIndex>>
    BY <1>1, <2>2, SetColumns, SilentColumns
  <2>4. callIndex \in [Task -> Nat]
    BY <1>1 DEF TypeOK
  <2>5. QED
    BY <1>1, <1>5, <1>6, <1>7, <2>3, <2>4 DEF With, NextCallPasses, Renew, GoTo
<1>8. CASE Current(t) # {} /\ \A c \in Current(t) : Verdict(c) = "skip"
  <2>1. draft[a] = Put("current_call_index", t, callIndex[t] + 1)
                     ++ (Put("lease", t, "live") ++ Nothing)
    BY <1>1, <1>2, <1>8 DEF PassColumns
  <2>2. /\ Sets(draft[a], "current_call_index", t, callIndex[t] + 1)
        /\ Silent(draft[a], "pc") /\ Silent(draft[a], "claimed") /\ Silent(draft[a], "calling")
    BY <2>1, Silence, Setting
  <2>3. /\ callIndex' = With(callIndex, t, callIndex[t] + 1)
        /\ UNCHANGED <<pc, claimed, calling>>
    BY <1>1, <2>2, SetColumns, SilentColumns
  <2>4. pc \in [Worker -> WorkerStep]
    BY <1>1 DEF TypeOK
  <2>5. QED
    BY <1>1, <1>5, <1>6, <1>8, <2>3, <2>4 DEF With, NextCallPasses, Renew, GoTo
<1>9. CASE \E c \in Current(t) : Verdict(c) # "skip"
  <2>1. draft[a] = Gives(a) ++ (Put("lease", t, "live") ++ Nothing)
    BY <1>1, <1>2, <1>9 DEF PassColumns
  <2>2. /\ Sets(draft[a], "pc", a, "resumable") /\ Sets(draft[a], "claimed", a, NoTask)
        /\ Sets(draft[a], "calling", a, NoCall) /\ Silent(draft[a], "current_call_index")
    BY <2>1, Silence, Setting, Giving
  <2>3. /\ pc' = With(pc, a, "resumable") /\ claimed' = With(claimed, a, NoTask)
        /\ calling' = With(calling, a, NoCall) /\ UNCHANGED callIndex
    BY <1>1, <2>2, SetColumns, SilentColumns
  <2>4. QED
    BY <1>1, <1>5, <1>6, <1>9, <2>3 DEF With, NextCallLeaves, GiveUp, GoTo
<1>10. QED
  BY <1>7, <1>8, <1>9

LEMMA StartCommits ==
  ASSUME IInv, NEW a \in Worker, NEW t \in Task, NEW c \in Call,
         Starting(a, t, c), todo[a] = << >>, Commit(a)
  PROVE  NextCallRun(a)
<1> DEFINE row == Row(callStatus[c], "executing")
           mark == Put("call", c, "executing") ++ Put("journal", <<"tool_call", c>>, row)
           base == Put("pc", a, "tool") ++ Put("calling", a, c)
                     ++ (Put("lease", t, "live") ++ Nothing)
<1>1. draft[a] = mark ++ base
  BY StatementsWrite DEF Starting, Working, StartColumns, Goes, Leased
<1>2. /\ Sets(draft[a], "call", c, "executing")
      /\ Sets(draft[a], "journal", <<"tool_call", c>>, row)
      /\ Sets(draft[a], "pc", a, "tool")
      /\ Sets(draft[a], "calling", a, c)
      /\ Sets(draft[a], "lease", t, "live")
  BY <1>1, Silence, Setting
<1>3. /\ Silent(draft[a], "task") /\ Silent(draft[a], "execution")
      /\ Silent(draft[a], "slot_id") /\ Silent(draft[a], "current_call_index")
      /\ Silent(draft[a], "slot") /\ Silent(draft[a], "request")
      /\ Silent(draft[a], "current_step_order") /\ Silent(draft[a], "decisions")
      /\ Silent(draft[a], "usage") /\ Silent(draft[a], "claimed")
  BY <1>1, Silence
<1>4. /\ TypeOK /\ pc[a] = "step" /\ claimed[a] = t /\ StillRunning(t)
      /\ c \in Current(t) /\ Verdict(c) = "run"
  BY DEF IInv, Starting, AtStep
<1>5. /\ callStatus' = With(callStatus, c, "executing")
      /\ journal' = With(journal, <<"tool_call", c>>, row)
      /\ pc' = With(pc, a, "tool")
      /\ calling' = With(calling, a, c)
      /\ lease' = With(lease, t, "live")
  BY <1>2, <1>4, SetColumns
<1>6. UNCHANGED <<taskStatus, execStatus, execSlot, callIndex, slotStatus, reqVars,
                  usage, claimed, crashes>>
  BY <1>3, <1>4, SilentColumns, CommitWrites DEF reqVars
<1>7. QED
  BY <1>4, <1>5, <1>6 DEF With, NextCallRun, Renew, GoTo

LEMMA RaiseCommits ==
  ASSUME IInv, NEW a \in Worker, NEW t \in Task, NEW c \in Call,
         Raising(a, t, c), todo[a] = << >>, Commit(a)
  PROVE  NextCallRaise(a)
<1> DEFINE called == Row(callStatus[c], "awaiting_approval")
           parked == Row("running", "awaiting_approval")
           park == Put("task", t, "awaiting_approval")
                     ++ Put("journal", <<"task", t>>, parked)
           mark == Put("call", c, "awaiting_approval")
                     ++ Put("journal", <<"tool_call", c>>, called)
           base == Put("request", c, "pending") ++ Put("current_step_order", c, 1)
                     ++ Put("execution", t, "awaiting_approval")
                     ++ Put("journal", <<"execution", t>>, parked)
                     ++ Gives(a) ++ (Put("lease", t, "live") ++ Nothing)
<1>1. draft[a] = park ++ (mark ++ base)
  BY StatementsWrite DEF Raising, Working, RaiseColumns, Logs, Leased
<1>2. /\ Sets(draft[a], "task", t, "awaiting_approval")
      /\ Sets(draft[a], "call", c, "awaiting_approval")
      /\ Sets(draft[a], "request", c, "pending")
      /\ Sets(draft[a], "current_step_order", c, 1)
      /\ Sets(draft[a], "execution", t, "awaiting_approval")
      /\ Sets(draft[a], "lease", t, "live")
      /\ Sets(draft[a], "pc", a, "resumable")
      /\ Sets(draft[a], "claimed", a, NoTask)
      /\ Sets(draft[a], "calling", a, NoCall)
  BY <1>1, Silence, Setting, Giving
<1>3. SetsThree(draft[a], "journal", <<"execution", t>>, parked,
                <<"tool_call", c>>, called, <<"task", t>>, parked)
  <2>1. Sets(park, "journal", <<"task", t>>, parked)
    BY Silence, Setting
  <2>2. Sets(mark, "journal", <<"tool_call", c>>, called)
    BY Silence, Setting
  <2>3. Sets(base, "journal", <<"execution", t>>, parked)
    BY Silence, Setting, Giving
  <2>4. QED
    BY <1>1, <2>1, <2>2, <2>3, SettingTwo, SettingThree
<1>4. /\ Silent(draft[a], "slot_id") /\ Silent(draft[a], "current_call_index")
      /\ Silent(draft[a], "slot") /\ Silent(draft[a], "decisions")
      /\ Silent(draft[a], "usage")
  BY <1>1, Silence, Giving
<1>5. /\ TypeOK /\ pc[a] = "step" /\ claimed[a] = t /\ StillRunning(t)
      /\ c \in Current(t) /\ Verdict(c) = "raise"
  BY DEF IInv, Raising, AtStep
<1>6. /\ taskStatus' = With(taskStatus, t, "awaiting_approval")
      /\ callStatus' = With(callStatus, c, "awaiting_approval")
      /\ reqStatus' = With(reqStatus, c, "pending")
      /\ reqStep' = With(reqStep, c, 1)
      /\ execStatus' = With(execStatus, t, "awaiting_approval")
      /\ lease' = With(lease, t, "live")
      /\ pc' = With(pc, a, "resumable")
      /\ claimed' = With(claimed, a, NoTask)
      /\ calling' = With(calling, a, NoCall)
  BY <1>2, <1>5, SetColumns
<1>7. journal' = With(With(With(journal, <<"tool_call", c>>, called), <<"task", t>>, parked),
                      <<"execution", t>>, parked)
  <2>1. journal' = With(With(With(journal, <<"execution", t>>, parked),
                             <<"tool_call", c>>, called), <<"task", t>>, parked)
    BY <1>3, <1>5, SetJournal
  <2>2. /\ <<"execution", t>> # <<"tool_call", c>>
        /\ <<"execution", t>> # <<"task", t>>
    OBVIOUS
  <2>3. QED
    BY <2>1, <2>2, AnyOrder
<1>8. UNCHANGED <<execSlot, callIndex, slotStatus, overdue, decisions, usage, crashes>>
  BY <1>4, <1>5, SilentColumns, CommitWrites
<1>9. QED
  BY <1>5, <1>6, <1>7, <1>8 DEF With, NextCallRaise, Renew, GiveUp, GoTo

LEMMA RecordCommits ==
  ASSUME IInv, BilledAtMostOnce, NEW a \in Worker, NEW t \in Task, NEW c \in Call,
         NEW outcome \in {"completed", "failed"},
         Recording(a, t, c, outcome), todo[a] = << >>, Commit(a)
  PROVE  RecordSuccess(a) \/ RecordFailure(a)
<1> DEFINE row == Row("executing", outcome)
           mark == Put("call", c, outcome) ++ Put("journal", <<"tool_call", c>>, row)
<1>1. /\ TypeOK /\ pc[a] = "tool" /\ claimed[a] = t /\ calling[a] = c /\ StillRunning(t)
      /\ usage \in [Call -> Nat] /\ usage[c] \in {0, 1}
  BY DEF IInv, TypeOK, Recording, BilledAtMostOnce
<1>2. ASSUME NEW d, \A column : column \notin {"usage", "current_call_index"} =>
                      Silent(d, column),
             draft[a] = d ++ (mark ++ RecordColumns(a, outcome))
      PROVE  /\ callStatus' = With(callStatus, c, outcome)
             /\ journal' = With(journal, <<"tool_call", c>>, row)
             /\ pc' = With(pc, a, IF outcome = "completed" THEN "step" ELSE "finish_failed")
             /\ calling' = With(calling, a, NoCall)
             /\ UNCHANGED <<taskStatus, execStatus, execSlot, lease, slotStatus, reqVars,
                            claimed, crashes>>
  <2> DEFINE step == IF outcome = "completed" THEN "step" ELSE "finish_failed"
  <2>1. draft[a] = d ++ (mark ++ (Put("pc", a, step) ++ Put("calling", a, NoCall)))
    BY <1>2 DEF RecordColumns, Goes
  <2> HIDE DEF step
  <2>2. /\ Sets(draft[a], "call", c, outcome)
        /\ Sets(draft[a], "journal", <<"tool_call", c>>, row)
        /\ Sets(draft[a], "pc", a, step)
        /\ Sets(draft[a], "calling", a, NoCall)
    BY <1>2, <2>1, Silence, Setting
  <2>3. /\ Silent(draft[a], "task") /\ Silent(draft[a], "execution")
        /\ Silent(draft[a], "slot_id") /\ Silent(draft[a], "lease")
        /\ Silent(draft[a], "slot") /\ Silent(draft[a], "request")
        /\ Silent(draft[a], "current_step_order") /\ Silent(draft[a], "decisions")
        /\ Silent(draft[a], "claimed")
    BY <1>2, <2>1, Silence
  <2>4. /\ callStatus' = With(callStatus, c, outcome)
        /\ journal' = With(journal, <<"tool_call", c>>, row)
        /\ pc' = With(pc, a, step)
        /\ calling' = With(calling, a, NoCall)
    BY <1>1, <2>2, SetColumns
  <2>5. UNCHANGED <<taskStatus, execStatus, execSlot, lease, slotStatus, reqVars,
                    claimed, crashes>>
    BY <1>1, <2>3, SilentColumns, CommitWrites DEF reqVars
  <2>6. QED
    BY <2>4, <2>5 DEF step
<1>3. CASE outcome = "failed"
  <2>1. draft[a] = Nothing ++ (mark ++ RecordColumns(a, outcome))
    <3>1. draft[a] = mark ++ RecordColumns(a, outcome)
      BY <1>3, StatementsWrite DEF Recording, Working, RecordPlan
    <3>2. \A e, d : Nothing ++ (d ++ e) = d ++ e
      BY DEF Nothing, ++
    <3>3. QED
      BY <3>1, <3>2
  <2>2. /\ callStatus' = With(callStatus, c, "failed")
        /\ journal' = With(journal, <<"tool_call", c>>, Row("executing", "failed"))
        /\ pc' = With(pc, a, "finish_failed")
        /\ calling' = With(calling, a, NoCall)
        /\ UNCHANGED <<taskStatus, execStatus, execSlot, lease, slotStatus, reqVars,
                       claimed, crashes>>
    BY <1>2, <1>3, <2>1, Silence
  <2>3. Silent(draft[a], "usage") /\ Silent(draft[a], "current_call_index")
    BY <2>1, Silence DEF RecordColumns, Goes
  <2>4. UNCHANGED <<usage, callIndex>>
    BY <1>1, <2>3, SilentColumns
  <2>5. QED
    BY <1>1, <2>2, <2>4 DEF With, RecordFailure, GoTo, execVars
<1>4. CASE outcome = "completed"
  <2> DEFINE both == Put("current_call_index", t, callIndex[t] + 1) ++ Put("usage", c, 1)
  <2>1. draft[a] = both ++ (mark ++ RecordColumns(a, outcome))
    <3>1. draft[a] = Put("current_call_index", t, callIndex[t] + 1)
                       ++ (Put("usage", c, 1) ++ (mark ++ RecordColumns(a, outcome)))
      BY <1>4, StatementsWrite DEF Recording, Working, RecordPlan
    <3>2. \A d, e, f : (d ++ e) ++ f = d ++ (e ++ f)
      BY DEF ++
    <3>3. QED
      BY <3>1, <3>2
  <2>2. /\ callStatus' = With(callStatus, c, "completed")
        /\ journal' = With(journal, <<"tool_call", c>>, Row("executing", "completed"))
        /\ pc' = With(pc, a, "step")
        /\ calling' = With(calling, a, NoCall)
        /\ UNCHANGED <<taskStatus, execStatus, execSlot, lease, slotStatus, reqVars,
                       claimed, crashes>>
    <3>1. \A column : column \notin {"usage", "current_call_index"} => Silent(both, column)
      BY Silence
    <3> HIDE DEF both
    <3>2. QED
      BY <1>2, <1>4, <2>1, <3>1
  <2>3. /\ Sets(draft[a], "usage", c, 1)
        /\ Sets(draft[a], "current_call_index", t, callIndex[t] + 1)
    BY <2>1, Silence, Setting DEF RecordColumns, Goes
  <2>4. usage' = With(usage, c, 1) /\ callIndex' = With(callIndex, t, callIndex[t] + 1)
    BY <1>1, <2>3, SetColumns
  <2>5. usage' = [usage EXCEPT ![c] = IF @ = 0 THEN 1 ELSE @]
    BY <1>1, <2>4 DEF With
  <2>6. QED
    BY <1>1, <2>2, <2>4, <2>5 DEF With, RecordSuccess, Charge, Advance, GoTo
<1>5. QED
  BY <1>3, <1>4

LEMMA CloseCommits ==
  ASSUME IInv, NEW a \in Worker, NEW t \in Task, Closing(a, t), todo[a] = << >>, Commit(a)
  PROVE  Finish(a)
<1> DEFINE row == Row("running", Outcome(a))
           close == Put("task", t, Outcome(a)) ++ Put("journal", <<"task", t>>, row)
           rest == Put("slot", execSlot[t], "available")
                     ++ (Put("execution", t, Outcome(a))
                         ++ Put("journal", <<"execution", t>>, row) ++ Gives(a))
<1>1. draft[a] = close ++ rest
  BY StatementsWrite DEF Closing, Working, CloseColumns, Logs
<1>2. /\ Sets(draft[a], "task", t, Outcome(a))
      /\ Sets(draft[a], "execution", t, Outcome(a))
      /\ Sets(draft[a], "slot", execSlot[t], "available")
      /\ Sets(draft[a], "pc", a, "resumable")
      /\ Sets(draft[a], "claimed", a, NoTask)
      /\ Sets(draft[a], "calling", a, NoCall)
  BY <1>1, Silence, Setting, Giving
<1>3. SetsTwo(draft[a], "journal", <<"execution", t>>, row, <<"task", t>>, row)
  BY <1>1, Silence, Setting, SettingTwo, Giving
<1>4. /\ Silent(draft[a], "slot_id") /\ Silent(draft[a], "current_call_index")
      /\ Silent(draft[a], "lease") /\ Silent(draft[a], "call")
      /\ Silent(draft[a], "request") /\ Silent(draft[a], "current_step_order")
      /\ Silent(draft[a], "decisions") /\ Silent(draft[a], "usage")
  BY <1>1, Silence, Giving
<1>5. TypeOK /\ claimed[a] = t /\ Finishing(a) /\ StillRunning(t)
  BY DEF IInv, Closing
<1>6. /\ taskStatus' = With(taskStatus, t, Outcome(a))
      /\ execStatus' = With(execStatus, t, Outcome(a))
      /\ slotStatus' = With(slotStatus, execSlot[t], "available")
      /\ pc' = With(pc, a, "resumable")
      /\ claimed' = With(claimed, a, NoTask)
      /\ calling' = With(calling, a, NoCall)
  BY <1>2, <1>5, SetColumns
<1>7. journal' = With(With(journal, <<"execution", t>>, row), <<"task", t>>, row)
  BY <1>3, <1>5, SetJournal
<1>8. UNCHANGED <<execSlot, callIndex, lease, callStatus, reqVars, usage, crashes>>
  BY <1>4, <1>5, SilentColumns, CommitWrites DEF reqVars
<1>9. QED
  BY <1>5, <1>6, <1>7, <1>8 DEF With, Finish, FreeSlot, GiveUp, GoTo

LEMMA ResumeCommits ==
  ASSUME IInv, NEW a \in Client, NEW c \in Call, NEW role \in Role,
         Resuming(a, c, role), todo[a] = << >>, Commit(a)
  PROVE  ApproveLast(c, role)
<1> DEFINE t == TaskOf[c]
           answer == [step |-> reqStep[c], role |-> role, decision |-> "approved"]
           base == Put("request", c, "approved") ++ Put("decisions", c, <<answer>>) ++ Nothing
<1>1. /\ TypeOK /\ t \in Task /\ MayDecide(c, role) /\ ~HasNext(c)
      /\ ApprovalColumns(c, role) ++ Nothing = base
  BY ColumnTypes DEF IInv, Resuming, ApprovalColumns, Decided
<1>2. ASSUME NEW d, \A column : column \notin {"task", "execution", "lease", "journal"} =>
                      Silent(d, column),
             draft[a] = d ++ base
      PROVE  /\ CloseRequest(c, "approved") /\ Decide(c, role, "approved")
             /\ UNCHANGED <<execSlot, callIndex, slotStatus, callStatus, reqStep, overdue,
                            usage, workerVars>>
  <2>1. Sets(draft[a], "request", c, "approved") /\ Sets(draft[a], "decisions", c, <<answer>>)
    BY <1>2, Silence, Setting
  <2>2. /\ Silent(draft[a], "slot_id") /\ Silent(draft[a], "current_call_index")
        /\ Silent(draft[a], "slot") /\ Silent(draft[a], "call")
        /\ Silent(draft[a], "current_step_order") /\ Silent(draft[a], "usage")
        /\ Silent(draft[a], "pc") /\ Silent(draft[a], "claimed") /\ Silent(draft[a], "calling")
    BY <1>2, Silence
  <2>3. /\ UNCHANGED <<execSlot, callIndex, slotStatus, callStatus, reqStep, overdue,
                       usage, workerVars>>
        /\ reqStatus' = With(reqStatus, c, "approved")
    <3>1. UNCHANGED <<overdue, crashes>>
      BY CommitWrites
    <3>2. QED
      BY <1>1, <2>1, <2>2, <3>1, SetColumns, SilentColumns DEF workerVars
  <2>4. decisions' = [decisions EXCEPT ![c] = Append(@, answer)]
    BY <1>1, <2>1, SetDecisions
  <2>5. QED
    BY <2>3, <2>4 DEF With, CloseRequest, Decide
<1>3. CASE execStatus[t] = "cancelled"
  <2>1. draft[a] = Nothing ++ base
    <3>1. draft[a] = base
      BY <1>1, <1>3 DEF Resuming, Working
    <3>2. \A d, e : Nothing ++ (d ++ e) = d ++ e
      BY DEF Nothing, ++
    <3>3. QED
      BY <3>1, <3>2
  <2>2. /\ Silent(draft[a], "task") /\ Silent(draft[a], "execution")
        /\ Silent(draft[a], "lease") /\ Silent(draft[a], "journal")
    BY <2>1, Silence
  <2>3. UNCHANGED <<taskStatus, execStatus, lease, journal>>
    BY <1>1, <2>2, SilentColumns
  <2>4. /\ CloseRequest(c, "approved") /\ Decide(c, role, "approved")
        /\ UNCHANGED <<execSlot, callIndex, slotStatus, callStatus, reqStep, overdue,
                       usage, workerVars>>
    BY <1>2, <2>1, Silence
  <2>5. QED
    BY <1>1, <1>3, <2>3, <2>4 DEF ApproveLast, ResumeFlow
<1>4. CASE execStatus[t] = "awaiting_approval"
  <2> DEFINE row == Row("awaiting_approval", "running")
             run == Put("task", t, "running") ++ Put("journal", <<"task", t>>, row)
             resume == Put("execution", t, "running") ++ Put("lease", t, "expired")
                         ++ Put("journal", <<"execution", t>>, row)
  <2>1. draft[a] = (run ++ resume) ++ base
    <3>1. draft[a] = run ++ (resume ++ base)
      BY <1>1, <1>4, FlowsWrite DEF Resuming, Working
    <3>2. \A d, e, f : (d ++ e) ++ f = d ++ (e ++ f)
      BY DEF ++
    <3>3. QED
      BY <3>1, <3>2
  <2>2. /\ Sets(draft[a], "task", t, "running") /\ Sets(draft[a], "execution", t, "running")
        /\ Sets(draft[a], "lease", t, "expired")
    BY <2>1, Silence, Setting
  <2>3. SetsTwo(draft[a], "journal", <<"execution", t>>, row, <<"task", t>>, row)
    BY <2>1, Silence, Setting, SettingTwo
  <2>4. /\ taskStatus' = With(taskStatus, t, "running")
        /\ execStatus' = With(execStatus, t, "running")
        /\ lease' = With(lease, t, "expired")
        /\ journal' = With(With(journal, <<"execution", t>>, row), <<"task", t>>, row)
    BY <1>1, <2>2, <2>3, SetColumns, SetJournal
  <2>5. /\ CloseRequest(c, "approved") /\ Decide(c, role, "approved")
        /\ UNCHANGED <<execSlot, callIndex, slotStatus, callStatus, reqStep, overdue,
                       usage, workerVars>>
    <3>1. \A column : column \notin {"task", "execution", "lease", "journal"} =>
            Silent(run ++ resume, column)
      BY Silence
    <3> HIDE DEF run, resume
    <3>2. QED
      BY <1>2, <2>1, <3>1
  <2>6. taskStatus[t] = "awaiting_approval" /\ taskStatus \in [Task -> TaskStatus]
    BY <1>1, <1>4 DEF IInv, TypeOK, StatusesAgree
  <2>7. taskStatus' = [taskStatus EXCEPT ![t] =
                         IF @ = "awaiting_approval" THEN "running" ELSE @]
    BY <1>1, <2>4, <2>6 DEF With
  <2>8. QED
    BY <1>1, <1>4, <2>4, <2>5, <2>7 DEF With, ApproveLast, ResumeFlow
<1>5. QED
  BY <1>3, <1>4 DEF Resuming, Working

LEMMA RejectCommits ==
  ASSUME IInv, NEW a \in Client, NEW c \in Call,
         NEW role \in Role \cup {"system"}, NEW decision \in {"rejected", "timeout_rejected"},
         Rejecting(a, c, role, decision), todo[a] = << >>, Commit(a)
  PROVE  (role \in Role /\ Reject(c, role)) \/ SweepReject(c)
<1> DEFINE t == TaskOf[c]
           answer == [step |-> reqStep[c], role |-> role, decision |-> decision]
           asked == Row("awaiting_approval", "rejected")
           failed == Row("awaiting_approval", "failed")
           mark == Put("call", c, "rejected") ++ Put("journal", <<"tool_call", c>>, asked)
           base == Put("request", c, "rejected") ++ Put("journal", <<"task", t>>, failed)
                     ++ Put("decisions", c, <<answer>>)
<1>1. /\ TypeOK /\ t \in Task /\ MayReject(c, role, decision)
      /\ RejectionColumns(c, role, decision) = base
  BY ColumnTypes DEF IInv, Rejecting, RejectionColumns, Decided, Logs
<1>2. ASSUME NEW d, \A column : column \notin {"task", "execution", "slot", "journal"} =>
                      Silent(d, column),
             draft[a] = d ++ (mark ++ base)
      PROVE  /\ CloseRequest(c, "rejected") /\ Decide(c, role, decision)
             /\ callStatus' = [callStatus EXCEPT ![c] = "rejected"]
             /\ UNCHANGED <<execSlot, callIndex, lease, reqStep, overdue, usage, workerVars>>
  <2>1. /\ Sets(draft[a], "request", c, "rejected") /\ Sets(draft[a], "call", c, "rejected")
        /\ Sets(draft[a], "decisions", c, <<answer>>)
    BY <1>2, Silence, Setting
  <2>2. /\ Silent(draft[a], "slot_id") /\ Silent(draft[a], "current_call_index")
        /\ Silent(draft[a], "lease") /\ Silent(draft[a], "current_step_order")
        /\ Silent(draft[a], "usage")
        /\ Silent(draft[a], "pc") /\ Silent(draft[a], "claimed") /\ Silent(draft[a], "calling")
    BY <1>2, Silence
  <2>3. /\ UNCHANGED <<execSlot, callIndex, lease, reqStep, overdue, usage, workerVars>>
        /\ reqStatus' = With(reqStatus, c, "rejected")
        /\ callStatus' = With(callStatus, c, "rejected")
    <3>1. UNCHANGED <<overdue, crashes>>
      BY CommitWrites
    <3>2. QED
      BY <1>1, <2>1, <2>2, <3>1, SetColumns, SilentColumns DEF workerVars
  <2>4. decisions' = [decisions EXCEPT ![c] = Append(@, answer)]
    BY <1>1, <2>1, SetDecisions
  <2>5. QED
    BY <2>3, <2>4 DEF With, CloseRequest, Decide
<1>3. /\ taskStatus \in [Task -> TaskStatus] /\ journal \in [Entity -> [from : Status, to : Status]]
      /\ <<"task", t>> \in Entity /\ <<"execution", t>> \in Entity /\ <<"tool_call", c>> \in Entity
      /\ execStatus[t] # "none" => taskStatus[t] = execStatus[t]
  BY <1>1 DEF IInv, TypeOK, Entity, StatusesAgree
<1>4. ASSUME execStatus[t] = "cancelled" PROVE RejectFlow(c) /\ Decide(c, role, decision)
  <2>1. draft[a] = Nothing ++ (mark ++ base)
    <3>1. draft[a] = mark ++ base
      BY <1>1, <1>4, StatementsWrite DEF Rejecting, Working
    <3>2. \A d, e : Nothing ++ (d ++ e) = d ++ e
      BY DEF Nothing, ++
    <3>3. QED
      BY <3>1, <3>2
  <2>2. /\ Silent(draft[a], "task") /\ Silent(draft[a], "execution")
        /\ Silent(draft[a], "slot")
    BY <2>1, Silence
  <2>3. SetsTwo(draft[a], "journal", <<"task", t>>, failed, <<"tool_call", c>>, asked)
    BY <2>1, Silence, Setting, SettingTwo
  <2>4. /\ UNCHANGED <<taskStatus, execStatus, slotStatus>>
        /\ journal' = With(With(journal, <<"task", t>>, failed), <<"tool_call", c>>, asked)
    BY <1>1, <2>2, <2>3, SilentColumns, SetJournal
  <2>5. taskStatus' = [taskStatus EXCEPT ![t] =
                         IF @ = "awaiting_approval" THEN "failed" ELSE @]
    BY <1>3, <1>4, <2>4 DEF With
  <2>6. journal' = [journal EXCEPT ![<<"tool_call", c>>] = asked,
                                   ![<<"execution", t>>] = @,
                                   ![<<"task", t>>] = failed]
    <3> DEFINE once == With(journal, <<"tool_call", c>>, asked)
    <3>1. <<"task", t>> # <<"tool_call", c>>
      OBVIOUS
    <3>2. journal' = With(With(once, <<"execution", t>>, once[<<"execution", t>>]),
                          <<"task", t>>, failed)
      BY <2>4, <3>1, AnyOrder, NoChange
    <3>3. QED
      BY <3>2 DEF With
  <2>7. /\ CloseRequest(c, "rejected") /\ Decide(c, role, decision)
        /\ callStatus' = [callStatus EXCEPT ![c] = "rejected"]
        /\ UNCHANGED <<execSlot, callIndex, lease, reqStep, overdue, usage, workerVars>>
    BY <1>2, <2>1, Silence
  <2>8. QED
    BY <1>4, <2>4, <2>5, <2>6, <2>7 DEF RejectFlow
<1>5. ASSUME execStatus[t] = "awaiting_approval" PROVE RejectFlow(c) /\ Decide(c, role, decision)
  <2> DEFINE end == Put("task", t, "failed")
             free == Put("slot", execSlot[t], "available")
             fail == Put("execution", t, "failed") ++ Put("journal", <<"execution", t>>, failed)
             all == end ++ (free ++ fail)
  <2>1. draft[a] = all ++ (mark ++ base)
    <3>1. draft[a] = end ++ (free ++ (fail ++ (mark ++ base)))
      BY <1>1, <1>5, StatementsWrite, FlowsWrite DEF Rejecting, Working
    <3>2. \A d, e, f : (d ++ e) ++ f = d ++ (e ++ f)
      BY DEF ++
    <3> HIDE DEF end, free, fail, mark, base
    <3>3. QED
      BY <3>1, <3>2
  <2>2. /\ Sets(draft[a], "task", t, "failed") /\ Sets(draft[a], "execution", t, "failed")
        /\ Sets(draft[a], "slot", execSlot[t], "available")
    BY <2>1, Silence, Setting
  <2>3. SetsThree(draft[a], "journal", <<"task", t>>, failed, <<"tool_call", c>>, asked,
                  <<"execution", t>>, failed)
    <3>1. SetsTwo(mark ++ base, "journal", <<"task", t>>, failed, <<"tool_call", c>>, asked)
      BY Silence, Setting, SettingTwo
    <3>2. Sets(all, "journal", <<"execution", t>>, failed)
      BY Silence, Setting
    <3>3. QED
      BY <2>1, <3>1, <3>2, SettingThree
  <2>4. /\ taskStatus' = With(taskStatus, t, "failed")
        /\ execStatus' = With(execStatus, t, "failed")
        /\ slotStatus' = With(slotStatus, execSlot[t], "available")
        /\ journal' = With(With(With(journal, <<"task", t>>, failed),
                                <<"tool_call", c>>, asked), <<"execution", t>>, failed)
    BY <1>1, <2>2, <2>3, SetColumns, SetJournal
  <2>5. taskStatus' = [taskStatus EXCEPT ![t] =
                         IF @ = "awaiting_approval" THEN "failed" ELSE @]
    BY <1>3, <1>5, <2>4 DEF With
  <2>6. journal' = [journal EXCEPT ![<<"tool_call", c>>] = asked,
                                   ![<<"execution", t>>] = failed,
                                   ![<<"task", t>>] = failed]
    <3>1. /\ <<"task", t>> # <<"tool_call", c>> /\ <<"task", t>> # <<"execution", t>>
      OBVIOUS
    <3>2. journal' = With(With(With(journal, <<"tool_call", c>>, asked),
                               <<"execution", t>>, failed), <<"task", t>>, failed)
      BY <2>4, <3>1, AnyOrder
    <3>3. QED
      BY <3>2 DEF With
  <2>7. /\ CloseRequest(c, "rejected") /\ Decide(c, role, decision)
        /\ callStatus' = [callStatus EXCEPT ![c] = "rejected"]
        /\ UNCHANGED <<execSlot, callIndex, lease, reqStep, overdue, usage, workerVars>>
    <3>1. \A column : column \notin {"task", "execution", "slot", "journal"} =>
            Silent(all, column)
      BY Silence
    <3> HIDE DEF all, mark, base
    <3>2. QED
      BY <1>2, <2>1, <3>1
  <2>8. QED
    BY <1>5, <2>4, <2>5, <2>6, <2>7 DEF With, RejectFlow, FreeSlot
<1>6. RejectFlow(c) /\ Decide(c, role, decision)
  BY <1>4, <1>5 DEF Rejecting, Working
<1>7. QED
  BY <1>1, <1>6 DEF MayReject, Reject, SweepReject

LEMMA CancelCommits ==
  ASSUME IInv, NEW a \in Client, NEW t \in Task,
         Cancelling(a, t), todo[a] = << >>, Commit(a)
  PROVE  Cancel(t)
<1> DEFINE row == Row(taskStatus[t], "cancelled")
           cancel == Put("task", t, "cancelled") ++ Put("journal", <<"task", t>>, row)
<1>1. TypeOK /\ ~IsTerminal(taskStatus[t])
  BY DEF IInv, Cancelling
<1>2. ASSUME NEW d, \A column : column \notin {"execution", "slot", "journal"} =>
                      Silent(d, column),
             draft[a] = cancel ++ d
      PROVE  /\ taskStatus' = [taskStatus EXCEPT ![t] = "cancelled"]
             /\ UNCHANGED <<execSlot, callIndex, lease, callStatus, reqVars, usage,
                            workerVars>>
  <2>1. Sets(draft[a], "task", t, "cancelled")
    BY <1>2, Silence, Setting
  <2>2. /\ Silent(draft[a], "slot_id") /\ Silent(draft[a], "current_call_index")
        /\ Silent(draft[a], "lease") /\ Silent(draft[a], "call")
        /\ Silent(draft[a], "request") /\ Silent(draft[a], "current_step_order")
        /\ Silent(draft[a], "decisions") /\ Silent(draft[a], "usage")
        /\ Silent(draft[a], "pc") /\ Silent(draft[a], "claimed") /\ Silent(draft[a], "calling")
    BY <1>2, Silence
  <2>3. taskStatus' = With(taskStatus, t, "cancelled")
    BY <1>1, <2>1, SetColumns
  <2>4. QED
    BY <1>1, <2>2, <2>3, SilentColumns, CommitWrites DEF With, reqVars, workerVars
<1>3. CASE execStatus[t] = "none"
  <2>1. draft[a] = cancel ++ Nothing
    BY <1>3, StatementsWrite DEF Cancelling, Working, Active
  <2>2. /\ Silent(draft[a], "execution") /\ Silent(draft[a], "slot")
        /\ Sets(draft[a], "journal", <<"task", t>>, row)
    BY <2>1, Silence, Setting
  <2>3. /\ UNCHANGED <<execStatus, slotStatus>>
        /\ journal' = With(journal, <<"task", t>>, row)
    BY <1>1, <2>2, SilentColumns, SetColumns
  <2>4. /\ taskStatus' = [taskStatus EXCEPT ![t] = "cancelled"]
        /\ UNCHANGED <<execSlot, callIndex, lease, callStatus, reqVars, usage,
                       workerVars>>
    BY <1>2, <2>1, Silence
  <2>5. journal \in [Entity -> [from : Status, to : Status]]
    BY <1>1 DEF TypeOK
  <2>6. journal' = [journal EXCEPT ![<<"execution", t>>] = @, ![<<"task", t>>] = row]
    BY <2>3, <2>5 DEF With
  <2>7. QED
    BY <1>1, <1>3, <2>3, <2>4, <2>6 DEF Cancel, ReleaseExecution, Active, CancelRow
<1>4. CASE Active(t)
  <2> DEFINE left == Put("execution", t, "cancelled")
                       ++ Put("journal", <<"execution", t>>, Row("running", "cancelled"))
             rest == Put("slot", execSlot[t], "available") ++ (left ++ Nothing)
  <2>1. draft[a] = cancel ++ rest
    BY <1>4, StatementsWrite, FlowsWrite DEF Cancelling, Working, Active
  <2>2. /\ Sets(draft[a], "execution", t, "cancelled")
        /\ Sets(draft[a], "slot", execSlot[t], "available")
    BY <2>1, Silence, Setting
  <2>3. SetsTwo(draft[a], "journal", <<"execution", t>>, Row("running", "cancelled"),
                <<"task", t>>, row)
    BY <2>1, Silence, Setting, SettingTwo
  <2>4. /\ execStatus' = With(execStatus, t, "cancelled")
        /\ slotStatus' = With(slotStatus, execSlot[t], "available")
        /\ journal' = With(With(journal, <<"execution", t>>, Row("running", "cancelled")),
                           <<"task", t>>, row)
    BY <1>1, <2>2, <2>3, SetColumns, SetJournal
  <2>5. /\ taskStatus' = [taskStatus EXCEPT ![t] = "cancelled"]
        /\ UNCHANGED <<execSlot, callIndex, lease, callStatus, reqVars, usage,
                       workerVars>>
    <3>1. \A column : column \notin {"execution", "slot", "journal"} => Silent(rest, column)
      BY Silence
    <3> HIDE DEF rest, cancel
    <3>2. QED
      BY <1>2, <2>1, <3>1
  <2>6. QED
    BY <1>1, <1>4, <2>4, <2>5 DEF With, Cancel, ReleaseExecution, FreeSlot, CancelRow
<1>5. QED
  BY <1>3, <1>4 DEF Cancelling, Working

-----------------------------------------------------------------------------
(* What the others leave alone                                             *)

Holds(a, table, id) ==
  \E h \in held[a] : h.row = <<table, id>> /\ h.mode # "key share"

(* A step leaves to a what a goes by: what it has locked, and what nobody  *)
(* changes at all.                                                         *)
SparesTask(a, t) ==
  /\ Holds(a, "task", t) =>
       taskStatus'[t] = taskStatus[t] /\ execSlot'[t] = execSlot[t]
  /\ Holds(a, "task", t) /\ execStatus[t] = "none" => execStatus'[t] = "none"

SparesExecution(a, t) ==
  /\ execStatus[t] = "cancelled" => execStatus'[t] = "cancelled"
  /\ execStatus[t] # "none" => execSlot'[t] = execSlot[t]
  /\ Holds(a, "execution", t) /\ execStatus[t] # "none" =>
       execStatus'[t] = execStatus[t] /\ callIndex'[t] = callIndex[t]

SparesCall(a, c) ==
  Holds(a, "execution", TaskOf[c]) /\ execStatus[TaskOf[c]] = "running" =>
    callStatus'[c] = callStatus[c] /\ reqStatus'[c] = reqStatus[c]

SparesRequest(a, c) ==
  Holds(a, "request", c) /\ reqStatus[c] = "pending" =>
    /\ reqStatus'[c] = "pending" /\ reqStep'[c] = reqStep[c]
    /\ overdue[c] => overdue'[c]

SparesSlots(a) ==
  /\ \A s \in Slot : Holds(a, "slot", s) => slotStatus'[s] = slotStatus[s]
  /\ \A o \in Org : Holds(a, "subscription", o) => BusySlots(o)' \subseteq BusySlots(o)

SparesWorker(a) ==
  a \in Worker => pc'[a] = pc[a] /\ claimed'[a] = claimed[a] /\ calling'[a] = calling[a]

Spares(a) ==
  /\ \A t \in Task : SparesTask(a, t) /\ SparesExecution(a, t)
  /\ \A c \in Call : SparesCall(a, c) /\ SparesRequest(a, c)
  /\ SparesSlots(a)
  /\ SparesWorker(a)

(* Two that hold the same row: only references share it.                   *)
LEMMA OneHolds ==
  ASSUME Exclusive, NEW a \in Actor, NEW b \in Actor, a # b, NEW table, NEW id,
         Holds(b, table, id)
  PROVE  ~Holds(a, table, id)
BY DEF Exclusive, Holds, Conflict

LEMMA FreeForUpdate ==
  ASSUME NEW a \in Actor, NEW b \in Actor, a # b, NEW table, NEW id,
         Free(b, ForUpdate(table, id))
  PROVE  ~Holds(a, table, id)
BY DEF Free, Blockers, ForUpdate, Conflict, Holds

LEMMA QuietSpares ==
  ASSUME NEW a, SparesWorker(a),
         UNCHANGED <<taskStatus, execStatus, execSlot, callIndex, slotStatus,
                     callStatus, reqStatus, reqStep>>,
         \A c \in Call : overdue[c] => overdue'[c]
  PROVE  Spares(a)
<1>1. \A t \in Task : SparesTask(a, t) /\ SparesExecution(a, t)
  BY DEF SparesTask, SparesExecution
<1>2. \A c \in Call : SparesCall(a, c) /\ SparesRequest(a, c)
  BY DEF SparesCall, SparesRequest
<1>3. SparesSlots(a)
  BY DEF SparesSlots, BusySlots
<1>4. QED
  BY <1>1, <1>2, <1>3 DEF Spares

LEMMA QuietMoves ==
  ASSUME IInv, NEW a \in Actor, NEW b \in Worker, a # b,
         \/ \E t \in Task : ClaimResumable(b, t)
         \/ ClaimResumableMiss(b) \/ ClaimQueuedMiss(b) \/ NextCallLeaves(b)
         \/ RecordAbandoned(b) \/ FinishAbandoned(b) \/ Drop(b)
  PROVE  Spares(a)
<1> DEFINE Quiet ==
       UNCHANGED <<taskStatus, execStatus, execSlot, callIndex, slotStatus,
                   callStatus, reqStatus, reqStep, overdue>>
<1>1. SparesWorker(a) /\ Quiet
  <2> USE DEF IInv, TypeOK, SparesWorker, execVars, reqVars, GoTo, GiveUp
  <2>1. ASSUME NEW t \in Task, ClaimResumable(b, t) PROVE SparesWorker(a) /\ Quiet
    BY <2>1 DEF ClaimResumable, Take
  <2>2. CASE ClaimResumableMiss(b) \/ ClaimQueuedMiss(b)
    BY <2>2 DEF ClaimResumableMiss, ClaimQueuedMiss
  <2>3. CASE NextCallLeaves(b) \/ RecordAbandoned(b) \/ FinishAbandoned(b) \/ Drop(b)
    BY <2>3 DEF NextCallLeaves, RecordAbandoned, FinishAbandoned, Drop
  <2>4. QED
    BY <2>1, <2>2, <2>3
<1>2. QED
  BY <1>1, QuietSpares

LEMMA TimeSpares ==
  ASSUME IInv, NEW a,
         \/ \E t \in Task : LeaseExpires(t)
         \/ \E c \in Call : DeadlinePasses(c)
         \/ UNCHANGED vars
  PROVE  Spares(a)
<1>1. /\ SparesWorker(a)
      /\ UNCHANGED <<taskStatus, execStatus, execSlot, callIndex, slotStatus,
                     callStatus, reqStatus, reqStep>>
  BY DEF LeaseExpires, DeadlinePasses, vars, execVars, reqVars, workerVars, SparesWorker
<1>2. ASSUME NEW c \in Call, DeadlinePasses(c), NEW d \in Call, overdue[d]
      PROVE  overdue'[d]
  BY <1>2 DEF IInv, TypeOK, DeadlinePasses
<1>3. CASE overdue' = overdue
  BY <1>1, <1>3, QuietSpares
<1>4. QED
  BY <1>1, <1>2, <1>3, QuietSpares DEF LeaseExpires, vars, reqVars

LEMMA ClaimSpares ==
  ASSUME IInv, NEW a \in Actor, NEW b \in Worker, a # b, NEW t \in Task, NEW s \in Slot,
         ClaimQueued(b, t, s), ~Holds(a, "task", t), ~Holds(a, "slot", s),
         ~Holds(a, "subscription", TaskOrg[t])
  PROVE  Spares(a)
<1>1. TypeOK /\ execStatus[t] = "none"
  BY DEF IInv, StatusesAgree, ClaimQueued, TypeOK, ExecStatus, TaskStatus
<1>2. \A u \in Task : u # t =>
        /\ taskStatus'[u] = taskStatus[u] /\ execStatus'[u] = execStatus[u]
        /\ execSlot'[u] = execSlot[u] /\ callIndex'[u] = callIndex[u]
  BY <1>1 DEF TypeOK, ClaimQueued
<1>3. \A u \in Task : SparesTask(a, u) /\ SparesExecution(a, u)
  BY <1>1, <1>2 DEF SparesTask, SparesExecution
<1>4. \A c \in Call : SparesCall(a, c) /\ SparesRequest(a, c)
  BY DEF ClaimQueued, reqVars, SparesCall, SparesRequest
<1>5. /\ \A r \in Slot : r # s => slotStatus'[r] = slotStatus[r]
      /\ SlotOrg[s] = TaskOrg[t]
  BY <1>1 DEF TypeOK, ClaimQueued, ReserveSlot, Suits
<1>6. SparesSlots(a)
  BY <1>5 DEF SparesSlots, BusySlots
<1>7. SparesWorker(a)
  BY <1>1 DEF TypeOK, ClaimQueued, Take, GoTo, SparesWorker
<1>8. QED
  BY <1>3, <1>4, <1>6, <1>7 DEF Spares

(* Work on a call of a running task, whose execution a has not locked.     *)
LEMMA CallSpares ==
  ASSUME NEW a, NEW t \in Task, ~Holds(a, "execution", t),
         UNCHANGED <<taskStatus, execStatus, execSlot, slotStatus, reqVars>>,
         \A u \in Task : u # t => callIndex'[u] = callIndex[u],
         \A c \in Call : TaskOf[c] # t => callStatus'[c] = callStatus[c],
         SparesWorker(a)
  PROVE  Spares(a)
<1>1. \A u \in Task : SparesTask(a, u) /\ SparesExecution(a, u)
  BY DEF SparesTask, SparesExecution
<1>2. \A c \in Call : SparesCall(a, c) /\ SparesRequest(a, c)
  BY DEF SparesCall, SparesRequest, reqVars
<1>3. SparesSlots(a)
  BY DEF SparesSlots, BusySlots
<1>4. QED
  BY <1>1, <1>2, <1>3 DEF Spares

LEMMA WorkSpares ==
  ASSUME IInv, NEW a \in Actor, NEW b \in Worker, a # b,
         NextCallPasses(b) \/ NextCallRun(b) \/ RecordSuccess(b) \/ RecordFailure(b),
         ~Holds(a, "execution", claimed[b])
  PROVE  Spares(a)
<1>1. /\ claimed[b] \in Task /\ TypeOK
      /\ pc[b] = "tool" => calling[b] \in Call /\ TaskOf[calling[b]] = claimed[b]
  BY DEF IInv, WorkersKnow, NextCallPasses, NextCallRun, RecordSuccess, RecordFailure
<1>2. SparesWorker(a)
  BY <1>1 DEF TypeOK, SparesWorker, NextCallPasses, NextCallRun, RecordSuccess,
              RecordFailure, GoTo
<1>3. UNCHANGED <<taskStatus, execStatus, execSlot, slotStatus, reqVars>>
  BY DEF NextCallPasses, NextCallRun, RecordSuccess, RecordFailure, execVars
<1>4. \A u \in Task : u # claimed[b] => callIndex'[u] = callIndex[u]
  BY <1>1 DEF TypeOK, NextCallPasses, NextCallRun, RecordSuccess, RecordFailure,
              Advance, execVars
<1>5. \A c \in Call : TaskOf[c] # claimed[b] => callStatus'[c] = callStatus[c]
  BY <1>1 DEF TypeOK, NextCallPasses, NextCallRun, RecordSuccess, RecordFailure, Current
<1>6. QED
  BY <1>1, <1>2, <1>3, <1>4, <1>5, CallSpares

(* A request, and what its last answer does to the task that waits for it. *)
LEMMA EndSpares ==
  ASSUME IInv, NEW a, NEW t \in Task, NEW status, status # "none",
         ~Holds(a, "task", t), ~Holds(a, "execution", t),
         execStatus[t] \notin {"none", "cancelled"},
         \A u \in Task : u # t =>
           taskStatus'[u] = taskStatus[u] /\ execStatus'[u] = execStatus[u],
         UNCHANGED <<execSlot, callIndex>>
  PROVE  \A u \in Task : SparesTask(a, u) /\ SparesExecution(a, u)
BY DEF SparesTask, SparesExecution

LEMMA RaiseSpares ==
  ASSUME IInv, GateInv, NEW a \in Actor, NEW b \in Worker, a # b, NextCallRaise(b),
         ~Holds(a, "task", claimed[b]), ~Holds(a, "execution", claimed[b])
  PROVE  Spares(a)
<1> DEFINE t == claimed[b]
<1>1. PICK c \in Current(t) :
        /\ Verdict(c) = "raise"
        /\ reqStatus' = [reqStatus EXCEPT ![c] = "pending"]
        /\ reqStep' = [reqStep EXCEPT ![c] = 1]
        /\ callStatus' = [callStatus EXCEPT ![c] = "awaiting_approval"]
  BY DEF NextCallRaise
<1>2. TypeOK /\ t \in Task /\ c \in Call /\ TaskOf[c] = t /\ execStatus[t] = "running"
  BY <1>1 DEF IInv, WorkersKnow, NextCallRaise, Current, StillRunning
<1>3. reqStatus[c] = "none"
  BY <1>1, <1>2 DEF GateInv, CallAwaitsRequest, Verdict
<1>4. \A u \in Task : u # t =>
        taskStatus'[u] = taskStatus[u] /\ execStatus'[u] = execStatus[u]
  BY <1>2 DEF TypeOK, NextCallRaise
<1>5. \A u \in Task : SparesTask(a, u) /\ SparesExecution(a, u)
  BY <1>2, <1>4, EndSpares DEF NextCallRaise
<1>6. \A d \in Call : d # c =>
        callStatus'[d] = callStatus[d] /\ reqStatus'[d] = reqStatus[d]
          /\ reqStep'[d] = reqStep[d]
  BY <1>1, <1>2 DEF TypeOK
<1>7. \A d \in Call : SparesCall(a, d) /\ SparesRequest(a, d)
  BY <1>2, <1>3, <1>6 DEF NextCallRaise, SparesCall, SparesRequest
<1>8. SparesSlots(a) /\ SparesWorker(a)
  BY <1>2 DEF TypeOK, NextCallRaise, GiveUp, GoTo, SparesSlots, BusySlots, SparesWorker
<1>9. QED
  BY <1>5, <1>7, <1>8 DEF Spares

LEMMA FinishSpares ==
  ASSUME IInv, NEW a \in Actor, NEW b \in Worker, a # b, Finish(b),
         ~Holds(a, "task", claimed[b]), ~Holds(a, "execution", claimed[b]),
         ~Holds(a, "slot", execSlot[claimed[b]])
  PROVE  Spares(a)
<1> DEFINE t == claimed[b]
<1>1. TypeOK /\ t \in Task /\ execStatus[t] = "running"
  BY DEF IInv, WorkersKnow, Finish, Finishing, StillRunning
<1>2. \A u \in Task : u # t =>
        taskStatus'[u] = taskStatus[u] /\ execStatus'[u] = execStatus[u]
  BY <1>1 DEF TypeOK, Finish
<1>3. \A u \in Task : SparesTask(a, u) /\ SparesExecution(a, u)
  BY <1>1, <1>2, EndSpares DEF Finish
<1>4. \A d \in Call : SparesCall(a, d) /\ SparesRequest(a, d)
  BY DEF Finish, reqVars, SparesCall, SparesRequest
<1>5. SparesSlots(a) /\ SparesWorker(a)
  BY <1>1 DEF TypeOK, Finish, FreeSlot, GiveUp, GoTo, SparesSlots, BusySlots, SparesWorker
<1>6. QED
  BY <1>3, <1>4, <1>5 DEF Spares

LEMMA NextStepSpares ==
  ASSUME IInv, NEW a, NEW c \in Call, ~Holds(a, "request", c),
         (\E role \in Role : ApproveStep(c, role)) \/ SweepEscalate(c)
  PROVE  Spares(a)
<1>1. /\ NextStep(c)
      /\ UNCHANGED <<taskStatus, execVars, slotStatus, callStatus, reqStatus, workerVars>>
  BY DEF ApproveStep, SweepEscalate
<1>2. \A d \in Call : d # c => reqStep'[d] = reqStep[d] /\ overdue'[d] = overdue[d]
  BY <1>1 DEF NextStep, IInv, TypeOK
<1>3. \A t \in Task : SparesTask(a, t) /\ SparesExecution(a, t)
  BY <1>1 DEF SparesTask, SparesExecution, execVars
<1>4. ASSUME NEW d \in Call PROVE SparesCall(a, d) /\ SparesRequest(a, d)
  <2>1. CASE d = c
    BY <1>1, <2>1 DEF SparesCall, SparesRequest
  <2>2. CASE d # c
    BY <1>1, <1>2, <2>2 DEF SparesCall, SparesRequest
  <2>3. QED
    BY <2>1, <2>2
<1>5. SparesSlots(a) /\ SparesWorker(a)
  BY <1>1 DEF SparesSlots, BusySlots, SparesWorker, workerVars
<1>6. QED
  BY <1>3, <1>4, <1>5 DEF Spares

(* A call whose request is pending belongs to no running task.             *)
LEMMA PendingIsParked ==
  ASSUME GateInv, NEW c \in Call, reqStatus[c] = "pending"
  PROVE  /\ TaskOf[c] \in Task
         /\ execStatus[TaskOf[c]] \in {"awaiting_approval", "cancelled"}
BY ColumnTypes DEF GateInv, TaskAwaitsRequest, PendingOf

LEMMA AnswerSpares ==
  ASSUME IInv, GateInv, NEW a, NEW c \in Call, reqStatus[c] = "pending",
         ~Holds(a, "request", c),
         execStatus[TaskOf[c]] = "awaiting_approval" =>
           /\ ~Holds(a, "task", TaskOf[c]) /\ ~Holds(a, "execution", TaskOf[c]),
         NEW answer, CloseRequest(c, answer),
         \A u \in Task : u # TaskOf[c] \/ execStatus[u] = "cancelled" =>
           taskStatus'[u] = taskStatus[u] /\ execStatus'[u] = execStatus[u],
         \A d \in Call : d # c => callStatus'[d] = callStatus[d],
         UNCHANGED <<execSlot, callIndex, reqStep, overdue, workerVars>>,
         SparesSlots(a)
  PROVE  Spares(a)
<1>1. /\ TypeOK /\ TaskOf[c] \in Task
      /\ execStatus[TaskOf[c]] \in {"awaiting_approval", "cancelled"}
  BY PendingIsParked DEF IInv
<1>2. \A t \in Task : SparesTask(a, t) /\ SparesExecution(a, t)
  BY <1>1 DEF SparesTask, SparesExecution
<1>3. \A d \in Call : d # c => reqStatus'[d] = reqStatus[d]
  BY <1>1 DEF CloseRequest, TypeOK
<1>4. ASSUME NEW d \in Call PROVE SparesCall(a, d) /\ SparesRequest(a, d)
  <2>1. CASE d = c
    BY <1>1, <2>1 DEF SparesCall, SparesRequest
  <2>2. CASE d # c
    BY <1>3, <2>2 DEF SparesCall, SparesRequest
  <2>3. QED
    BY <2>1, <2>2
<1>5. SparesWorker(a)
  BY DEF SparesWorker, workerVars
<1>6. QED
  BY <1>2, <1>4, <1>5 DEF Spares

LEMMA ApproveSpares ==
  ASSUME IInv, GateInv, NEW a, NEW c \in Call, NEW role, ApproveLast(c, role),
         ~Holds(a, "request", c),
         execStatus[TaskOf[c]] = "awaiting_approval" =>
           /\ ~Holds(a, "task", TaskOf[c]) /\ ~Holds(a, "execution", TaskOf[c])
  PROVE  Spares(a)
<1>1. reqStatus[c] = "pending" /\ ResumeFlow(c) /\ TypeOK
  BY DEF ApproveLast, MayDecide, IInv
<1>2. \A u \in Task : u # TaskOf[c] \/ execStatus[u] = "cancelled" =>
        taskStatus'[u] = taskStatus[u] /\ execStatus'[u] = execStatus[u]
  BY <1>1, PendingIsParked DEF ResumeFlow, TypeOK
<1>3. SparesSlots(a)
  BY <1>1 DEF ResumeFlow, SparesSlots, BusySlots
<1>4. QED
  BY <1>1, <1>2, <1>3, AnswerSpares DEF ResumeFlow

LEMMA RejectSpares ==
  ASSUME IInv, GateInv, NEW a, NEW c \in Call, RejectFlow(c), reqStatus[c] = "pending",
         ~Holds(a, "request", c),
         execStatus[TaskOf[c]] = "awaiting_approval" =>
           /\ ~Holds(a, "task", TaskOf[c]) /\ ~Holds(a, "execution", TaskOf[c])
           /\ ~Holds(a, "slot", execSlot[TaskOf[c]])
  PROVE  Spares(a)
<1> DEFINE t == TaskOf[c]
<1>1. /\ TypeOK /\ t \in Task /\ execStatus[t] \in {"awaiting_approval", "cancelled"}
      /\ taskStatus[t] = execStatus[t]
  BY PendingIsParked DEF IInv, StatusesAgree
<1>2. \A u \in Task : u # t \/ execStatus[u] = "cancelled" =>
        taskStatus'[u] = taskStatus[u] /\ execStatus'[u] = execStatus[u]
  BY <1>1 DEF RejectFlow, TypeOK
<1>3. \A d \in Call : d # c => callStatus'[d] = callStatus[d]
  BY <1>1 DEF RejectFlow, TypeOK
<1>4. SparesSlots(a)
  BY <1>1 DEF RejectFlow, FreeSlot, TypeOK, SparesSlots, BusySlots
<1>5. QED
  BY <1>2, <1>3, <1>4, AnswerSpares DEF RejectFlow

LEMMA CancelSpares ==
  ASSUME IInv, NEW a, NEW t \in Task, Cancel(t), ~Holds(a, "task", t),
         Active(t) => ~Holds(a, "execution", t) /\ ~Holds(a, "slot", execSlot[t])
  PROVE  Spares(a)
<1>1. TypeOK
  BY DEF IInv
<1>2. \A u \in Task : u # t =>
        taskStatus'[u] = taskStatus[u] /\ execStatus'[u] = execStatus[u]
  BY <1>1 DEF Cancel, ReleaseExecution, TypeOK
<1>3. ASSUME NEW u \in Task PROVE SparesTask(a, u) /\ SparesExecution(a, u)
  <2>1. CASE u # t
    BY <1>2, <2>1 DEF Cancel, SparesTask, SparesExecution
  <2>2. CASE u = t
    BY <2>2 DEF Cancel, ReleaseExecution, Active, SparesTask, SparesExecution
  <2>3. QED
    BY <2>1, <2>2
<1>4. \A d \in Call : SparesCall(a, d) /\ SparesRequest(a, d)
  BY DEF Cancel, reqVars, SparesCall, SparesRequest
<1>5. SparesSlots(a) /\ SparesWorker(a)
  BY <1>1 DEF Cancel, ReleaseExecution, FreeSlot, TypeOK, workerVars, SparesSlots,
              BusySlots, SparesWorker
<1>6. QED
  BY <1>3, <1>4, <1>5 DEF Spares

-----------------------------------------------------------------------------
(* Plans stay while others move                                            *)

Undisturbed(a) ==
  /\ txn'[a] = txn[a] /\ todo'[a] = todo[a]
  /\ held'[a] = held[a] /\ draft'[a] = draft[a]
  /\ Spares(a)

LEMMA Locking ==
  ASSUME NEW a, NEW table, NEW id,
         ForUpdate(table, id) \in held[a] \/ Updated(table, id) \in held[a]
  PROVE  Holds(a, table, id)
BY DEF Holds, ForUpdate, Updated

LEMMA RestingStays == ASSUME NEW a, Resting(a), Undisturbed(a) PROVE Resting(a)'
BY DEF Resting, Idle, Working, Undisturbed

LEMMA PickingStays ==
  ASSUME NEW a \in Worker, NEW t \in Task, Picking(a, t), Undisturbed(a)
  PROVE  Picking(a, t)'
<1>1. Holds(a, "task", t)
  BY Locking DEF Picking, Working
<1>2. taskStatus'[t] = taskStatus[t] /\ pc'[a] = pc[a]
  BY <1>1 DEF Undisturbed, Spares, SparesTask, SparesWorker
<1>3. QED
  BY <1>2 DEF Picking, Working, Undisturbed, LockSubscription

LEMMA SeatingStays ==
  ASSUME NEW a \in Worker, NEW t \in Task, NEW s \in Slot, Seating(a, t, s),
         Undisturbed(a)
  PROVE  Seating(a, t, s)'
<1>1. Holds(a, "task", t) /\ Holds(a, "slot", s) /\ Holds(a, "subscription", TaskOrg[t])
  BY Locking DEF Seating, Working
<1>2. taskStatus'[t] = taskStatus[t] /\ pc'[a] = pc[a] /\ slotStatus'[s] = slotStatus[s]
  BY <1>1 DEF Undisturbed, Spares, SparesTask, SparesSlots, SparesWorker
<1>3. UnderLimit(TaskOrg[t])'
  <2>1. TaskOrg[t] \in Org /\ MaxConcurrentSlots[TaskOrg[t]] \in Nat
    BY ColumnTypes
  <2>2. BusySlots(TaskOrg[t])' \subseteq BusySlots(TaskOrg[t])
    BY <1>1, <2>1 DEF Undisturbed, Spares, SparesSlots
  <2>3. IsFiniteSet(BusySlots(TaskOrg[t]))
    BY SlotsFinite, FS_Subset DEF BusySlots
  <2>4. /\ Cardinality(BusySlots(TaskOrg[t])') <= Cardinality(BusySlots(TaskOrg[t]))
        /\ Cardinality(BusySlots(TaskOrg[t])') \in Nat
        /\ Cardinality(BusySlots(TaskOrg[t])) \in Nat
    BY <2>2, <2>3, FS_Subset, FS_CardinalityType
  <2>5. QED
    BY <2>1, <2>4 DEF Seating, UnderLimit
<1>4. Suits(s, t)'
  BY <1>2 DEF Seating, Suits
<1>5. QED
  BY <1>2, <1>3, <1>4 DEF Seating, Writing, Working, Undisturbed, SeatColumns, Logs, Goes

(* The execution stays as it is, and with it the calls of a running one.   *)
LEMMA ExecutionStays ==
  ASSUME NEW a \in Worker, NEW t \in Task, execStatus[t] = "running", Undisturbed(a),
         Holds(a, "execution", t)
  PROVE  /\ execStatus'[t] = "running" /\ callIndex'[t] = callIndex[t]
         /\ execSlot'[t] = execSlot[t]
         /\ pc'[a] = pc[a] /\ claimed'[a] = claimed[a] /\ calling'[a] = calling[a]
         /\ Current(t)' = Current(t)
         /\ \A c \in Call : TaskOf[c] = t =>
              callStatus'[c] = callStatus[c] /\ Verdict(c)' = Verdict(c)
<1>1. /\ execStatus'[t] = "running" /\ callIndex'[t] = callIndex[t]
      /\ execSlot'[t] = execSlot[t]
      /\ pc'[a] = pc[a] /\ claimed'[a] = claimed[a] /\ calling'[a] = calling[a]
  BY DEF Undisturbed, Spares, SparesExecution, SparesWorker
<1>2. \A c \in Call : TaskOf[c] = t =>
        callStatus'[c] = callStatus[c] /\ reqStatus'[c] = reqStatus[c]
  BY DEF Undisturbed, Spares, SparesCall
<1>3. \A c \in Call : TaskOf[c] = t => Verdict(c)' = Verdict(c)
  BY <1>2 DEF Verdict
<1>4. QED
  BY <1>1, <1>2, <1>3 DEF Current

LEMMA LookingStays ==
  ASSUME NEW a \in Worker, NEW t \in Task, Looking(a, t), Undisturbed(a)
  PROVE  Looking(a, t)'
<1>1. Holds(a, "execution", t) /\ execStatus[t] = "running"
  BY Locking DEF Looking, Working, LockExecution, OwnLocks, AtStep, StillRunning
<1>2. /\ execStatus'[t] = "running" /\ callIndex'[t] = callIndex[t]
      /\ pc'[a] = pc[a] /\ claimed'[a] = claimed[a]
  BY <1>1, ExecutionStays
<1>3. QED
  BY <1>2 DEF Looking, AtStep, StillRunning, Working, Undisturbed, LockExecution,
              OwnLocks, RenewLease, Leased

LEMMA PassingStays ==
  ASSUME NEW a \in Worker, NEW t \in Task, Passing(a, t), Undisturbed(a)
  PROVE  Passing(a, t)'
<1>1. Holds(a, "execution", t) /\ execStatus[t] = "running"
  BY Locking DEF Passing, Working, OwnLocks, AtStep, StillRunning
<1>2. /\ execStatus'[t] = "running" /\ callIndex'[t] = callIndex[t]
      /\ pc'[a] = pc[a] /\ claimed'[a] = claimed[a]
      /\ Current(t)' = Current(t)
      /\ \A c \in Call : TaskOf[c] = t => Verdict(c)' = Verdict(c)
  BY <1>1, ExecutionStays
<1>3. \A c \in Current(t) : Verdict(c)' = Verdict(c)
  BY <1>2 DEF Current
<1>4. PassColumns(a, t, callIndex[t])' = PassColumns(a, t, callIndex[t])
  <2>1. CallsAt(t, callIndex[t]) = Current(t)
    BY DEF CallsAt, Current
  <2>2. QED
    BY <1>2, <1>3, <2>1 DEF PassColumns, Goes, Gives
<1>5. QED
  BY <1>2, <1>3, <1>4 DEF Passing, AtStep, StillRunning, Writing, Working, Undisturbed,
                          OwnLocks, RenewLease, Leased

LEMMA StartingStays ==
  ASSUME NEW a \in Worker, NEW t \in Task, NEW c \in Call, Starting(a, t, c), Undisturbed(a)
  PROVE  Starting(a, t, c)'
<1>1. Holds(a, "execution", t) /\ execStatus[t] = "running" /\ TaskOf[c] = t
  BY Locking DEF Starting, Working, OwnLocks, AtStep, StillRunning, Current
<1>2. /\ execStatus'[t] = "running" /\ Current(t)' = Current(t)
      /\ pc'[a] = pc[a] /\ claimed'[a] = claimed[a]
      /\ callStatus'[c] = callStatus[c] /\ Verdict(c)' = Verdict(c)
  BY <1>1, ExecutionStays
<1>3. QED
  BY <1>2 DEF Starting, AtStep, StillRunning, Writing, Working, Undisturbed,
              OwnLocks, RenewLease, Leased, UpdateCall, StartColumns, Goes, Logs

LEMMA RaisingStays ==
  ASSUME NEW a \in Worker, NEW t \in Task, NEW c \in Call, Raising(a, t, c), Undisturbed(a)
  PROVE  Raising(a, t, c)'
<1>1. Holds(a, "execution", t) /\ execStatus[t] = "running" /\ TaskOf[c] = t
  BY Locking DEF Raising, Working, OwnLocks, AtStep, StillRunning, Current
<1>2. /\ execStatus'[t] = "running" /\ Current(t)' = Current(t)
      /\ pc'[a] = pc[a] /\ claimed'[a] = claimed[a]
      /\ callStatus'[c] = callStatus[c] /\ Verdict(c)' = Verdict(c)
  BY <1>1, ExecutionStays
<1>3. QED
  BY <1>2 DEF Raising, AtStep, StillRunning, Writing, Working, Undisturbed,
              OwnLocks, RenewLease, Leased, UpdateCall, UpdateTask, RaiseColumns,
              Goes, Gives, Logs

LEMMA RecordingStays ==
  ASSUME NEW a \in Worker, NEW t \in Task, NEW c \in Call,
         NEW outcome \in {"completed", "failed"},
         Recording(a, t, c, outcome), Undisturbed(a)
  PROVE  Recording(a, t, c, outcome)'
<1>1. Holds(a, "execution", t) /\ execStatus[t] = "running"
  BY Locking DEF Recording, Working, LockExecution, StillRunning
<1>2. /\ execStatus'[t] = "running" /\ callIndex'[t] = callIndex[t]
      /\ pc'[a] = pc[a] /\ claimed'[a] = claimed[a] /\ calling'[a] = calling[a]
  BY <1>1, ExecutionStays
<1>3. RecordPlan(t, c, outcome)' = RecordPlan(t, c, outcome)
  BY <1>2 DEF RecordPlan, UpdateCall, AddUsage, MoveIndex, Logs
<1>4. QED
  BY <1>2, <1>3 DEF Recording, StillRunning, Writing, Working, Undisturbed,
              LockExecution, UpdateCall, AddUsage, MoveIndex, RecordColumns, Goes, Logs

LEMMA ClosingStays ==
  ASSUME NEW a \in Worker, NEW t \in Task, Closing(a, t), Undisturbed(a)
  PROVE  Closing(a, t)'
<1>1. Holds(a, "execution", t) /\ execStatus[t] = "running"
  BY Locking DEF Closing, Working, StillRunning
<1>2. /\ execStatus'[t] = "running" /\ execSlot'[t] = execSlot[t]
      /\ pc'[a] = pc[a] /\ claimed'[a] = claimed[a]
  BY <1>1, ExecutionStays
<1>3. QED
  BY <1>2 DEF Closing, Finishing, Outcome, StillRunning, Writing, Working, Undisturbed,
              ReleaseSlot, UpdateTask, CloseColumns, Gives, Goes, Logs

LEMMA AskingStays ==
  ASSUME NEW a, Asking(a, txn[a]), Undisturbed(a)
  PROVE  Asking(a, txn[a])'
BY DEF Asking, Working, Undisturbed

(* The request stays as it is, and so does the seat of the task that waits. *)
LEMMA RequestStays ==
  ASSUME GateInv, NEW a, NEW c \in Call, reqStatus[c] = "pending", Undisturbed(a),
         Holds(a, "request", c)
  PROVE  /\ reqStatus'[c] = "pending" /\ reqStep'[c] = reqStep[c]
         /\ overdue[c] => overdue'[c]
         /\ execSlot'[TaskOf[c]] = execSlot[TaskOf[c]]
         /\ execStatus[TaskOf[c]] = "cancelled" => execStatus'[TaskOf[c]] = "cancelled"
         /\ Holds(a, "execution", TaskOf[c]) =>
              execStatus'[TaskOf[c]] = execStatus[TaskOf[c]]
<1>1. /\ TaskOf[c] \in Task
      /\ execStatus[TaskOf[c]] \in {"awaiting_approval", "cancelled"}
  BY PendingIsParked
<1>2. QED
  BY <1>1 DEF Undisturbed, Spares, SparesExecution, SparesRequest

LEMMA ResumingStays ==
  ASSUME GateInv, NEW a, NEW c \in Call, NEW role \in Role, Resuming(a, c, role),
         Undisturbed(a)
  PROVE  Resuming(a, c, role)'
<1>1. Holds(a, "request", c) /\ reqStatus[c] = "pending"
  BY Locking DEF Resuming, Working, MayDecide
<1>2. /\ reqStatus'[c] = "pending" /\ reqStep'[c] = reqStep[c]
      /\ execStatus[TaskOf[c]] = "cancelled" => execStatus'[TaskOf[c]] = "cancelled"
      /\ Holds(a, "execution", TaskOf[c]) =>
           execStatus'[TaskOf[c]] = execStatus[TaskOf[c]]
  BY <1>1, RequestStays
<1>3. Updated("execution", TaskOf[c]) \in held[a] => Holds(a, "execution", TaskOf[c])
  BY Locking
<1>4. (MayDecide(c, role) /\ ~HasNext(c))'
  BY <1>2 DEF Resuming, MayDecide, HasNext, StepOf
<1>5. (ApprovalColumns(c, role) ++ Nothing)' = ApprovalColumns(c, role) ++ Nothing
  BY <1>2 DEF ApprovalColumns, Decided
<1>6. QED
  BY <1>2, <1>3, <1>4, <1>5 DEF Resuming, Writing, Working, Undisturbed,
                                ResumeExecution, ResumeTask

LEMMA RejectingStays ==
  ASSUME GateInv, NEW a, NEW c \in Call, NEW role, NEW decision,
         Rejecting(a, c, role, decision), Undisturbed(a)
  PROVE  Rejecting(a, c, role, decision)'
<1>1. Holds(a, "request", c) /\ reqStatus[c] = "pending"
  BY Locking DEF Rejecting, Working, MayReject, MayDecide, Expired
<1>2. /\ reqStatus'[c] = "pending" /\ reqStep'[c] = reqStep[c]
      /\ overdue[c] => overdue'[c]
      /\ execSlot'[TaskOf[c]] = execSlot[TaskOf[c]]
      /\ execStatus[TaskOf[c]] = "cancelled" => execStatus'[TaskOf[c]] = "cancelled"
      /\ Holds(a, "execution", TaskOf[c]) =>
           execStatus'[TaskOf[c]] = execStatus[TaskOf[c]]
  BY <1>1, RequestStays
<1>3. ForUpdate("execution", TaskOf[c]) \in held[a] => Holds(a, "execution", TaskOf[c])
  BY Locking
<1>4. MayReject(c, role, decision)'
  BY <1>2 DEF Rejecting, MayReject, MayDecide, Expired, Escalates, HasNext, StepOf
<1>5. RejectionColumns(c, role, decision)' = RejectionColumns(c, role, decision)
  BY <1>2 DEF RejectionColumns, Decided, Logs
<1>6. QED
  BY <1>2, <1>3, <1>4, <1>5 DEF Rejecting, Writing, Working, Undisturbed,
       UpdateCall, ReleaseSlot, FailExecution, FailTask, Logs

LEMMA CancellingStays ==
  ASSUME NEW a, NEW t \in Task, Cancelling(a, t), Undisturbed(a)
  PROVE  Cancelling(a, t)'
<1>1. Holds(a, "task", t)
  BY Locking DEF Cancelling, Working
<1>2. /\ taskStatus'[t] = taskStatus[t] /\ execSlot'[t] = execSlot[t]
      /\ execStatus[t] = "none" => execStatus'[t] = "none"
      /\ Holds(a, "execution", t) /\ Active(t) => execStatus'[t] = execStatus[t]
  BY <1>1 DEF Undisturbed, Spares, SparesTask, SparesExecution, Active
<1>3. ForUpdate("execution", t) \in held[a] => Holds(a, "execution", t)
  BY Locking
<1>4. QED
  BY <1>2, <1>3 DEF Cancelling, Working, Undisturbed, Active, IsTerminal,
       CancelExecution, ReleaseSlot, UpdateTask, Logs

LEMMA PlansStay ==
  ASSUME GateInv, NEW a \in Actor, Planned(a), Undisturbed(a)
  PROVE  Planned(a)'
<1>1. CASE Resting(a)
  BY <1>1, RestingStays DEF Planned
<1>2. CASE a \in Worker /\ WorkerPlan(a)
  <2>1. ASSUME NEW t \in Task,
               Picking(a, t) \/ Looking(a, t) \/ Passing(a, t) \/ Closing(a, t)
        PROVE  WorkerPlan(a)'
    BY <1>2, <2>1, PickingStays, LookingStays, PassingStays, ClosingStays DEF WorkerPlan
  <2>2. ASSUME NEW t \in Task, NEW s \in Slot, Seating(a, t, s) PROVE WorkerPlan(a)'
    BY <1>2, <2>2, SeatingStays DEF WorkerPlan
  <2>3. ASSUME NEW t \in Task, NEW c \in Call, Starting(a, t, c) \/ Raising(a, t, c)
        PROVE  WorkerPlan(a)'
    BY <1>2, <2>3, StartingStays, RaisingStays DEF WorkerPlan
  <2>4. ASSUME NEW t \in Task, NEW c \in Call, NEW outcome \in {"completed", "failed"},
               Recording(a, t, c, outcome)
        PROVE  WorkerPlan(a)'
    BY <1>2, <2>4, RecordingStays DEF WorkerPlan
  <2>5. QED
    BY <1>2, <2>1, <2>2, <2>3, <2>4 DEF WorkerPlan, Planned
<1>3. CASE a \in Client /\ ClientPlan(a)
  BY <1>3, AskingStays, ResumingStays, RejectingStays, CancellingStays
     DEF ClientPlan, Planned
<1>4. QED
  BY <1>1, <1>2, <1>3 DEF Planned

-----------------------------------------------------------------------------
(* Steps of the transactions themselves                                    *)

LEMMA Opened ==
  ASSUME LocksTyped, NEW a \in Actor, NEW x, NEW locks, NEW plan, NEW columns,
         Open(a, x, locks, plan, columns)
  PROVE  /\ txn'[a] = x /\ held'[a] = locks /\ todo'[a] = plan /\ draft'[a] = columns
         /\ UNCHANGED vars /\ Idle(a)
BY DEF Open, LocksTyped, OnActors

LEMMA WentOn ==
  ASSUME LocksTyped, NEW a \in Actor, NEW x, NEW locks, NEW plan, NEW columns,
         GoOn(a, x, locks, plan, columns)
  PROVE  /\ txn'[a] = x /\ held'[a] = held[a] \cup locks /\ todo'[a] = plan
         /\ draft'[a] = columns ++ draft[a] /\ UNCHANGED vars
BY DEF GoOn, LocksTyped, OnActors

LEMMA Closed ==
  ASSUME LocksTyped, NEW a \in Actor, Close(a)
  PROVE  Resting(a)'
BY DEF Close, LocksTyped, OnActors, Resting, Idle, Working

(* Which plan it is, by the kind of the transaction.                       *)
LEMMA KindOfPlan ==
  ASSUME NEW a \in Actor, Planned(a)
  PROVE  /\ txn[a].kind = "none" => Resting(a)
         /\ txn[a].kind = "claim" => a \in Worker /\ \E t \in Task : Picking(a, t)
         /\ txn[a].kind = "look" => a \in Worker /\ \E t \in Task : Looking(a, t)
         /\ txn[a].kind = "decide" => a \in Client /\ Asking(a, txn[a])
         /\ txn[a].kind = "cancel" => a \in Client /\ \E t \in Task : Cancelling(a, t)
<1>1. Resting(a) => txn[a].kind = "none"
  BY DEF Resting, Idle, NoTxn
<1>2. \A t \in Task : /\ Picking(a, t) => txn[a].kind = "claim"
                      /\ Looking(a, t) => txn[a].kind = "look"
                      /\ Passing(a, t) => txn[a].kind = "write"
                      /\ Closing(a, t) => txn[a].kind = "write"
                      /\ Cancelling(a, t) => txn[a].kind = "cancel"
  BY DEF Picking, Looking, Passing, Closing, Cancelling, Writing
<1>3. /\ \A t \in Task, s \in Slot : Seating(a, t, s) => txn[a].kind = "write"
      /\ \A t \in Task, c \in Call : Starting(a, t, c) \/ Raising(a, t, c) =>
           txn[a].kind = "write"
      /\ \A t \in Task, c \in Call, outcome \in {"completed", "failed"} :
           Recording(a, t, c, outcome) => txn[a].kind = "write"
  BY DEF Seating, Starting, Raising, Recording, Writing
<1>4. /\ Asking(a, txn[a]) => txn[a].kind = "decide"
      /\ \A c \in Call, role \in Role : Resuming(a, c, role) => txn[a].kind = "write"
      /\ \A c, role, decision : Rejecting(a, c, role, decision) => txn[a].kind = "write"
  BY DEF Asking, Resuming, Rejecting, Writing
<1>5. a \in Worker /\ WorkerPlan(a) =>
        \/ txn[a].kind = "claim" /\ \E t \in Task : Picking(a, t)
        \/ txn[a].kind = "look" /\ \E t \in Task : Looking(a, t)
        \/ txn[a].kind = "write"
  BY <1>2, <1>3 DEF WorkerPlan
<1>6. a \in Client /\ ClientPlan(a) =>
        \/ txn[a].kind = "decide" /\ Asking(a, txn[a])
        \/ txn[a].kind = "cancel" /\ \E t \in Task : Cancelling(a, t)
        \/ txn[a].kind = "write"
  BY <1>2, <1>4 DEF ClientPlan
<1>7. QED
  BY <1>1, <1>5, <1>6 DEF Planned

(* Nothing is done by those who rest.                                      *)
LEMMA Moving ==
  ASSUME NEW a \in Actor, Planned(a), todo[a] # << >> \/ txn[a].kind \in {"write", "cancel"}
  PROVE  \/ a \in Worker /\ WorkerPlan(a)
         \/ a \in Client /\ ClientPlan(a)
<1>1. ~Resting(a)
  BY DEF Resting, Idle, Working, NoTxn
<1>2. QED
  BY <1>1 DEF Planned

LEMMA IdleRests == ASSUME NEW a \in Actor, Planned(a), Idle(a) PROVE Resting(a)
BY KindOfPlan DEF Idle, NoTxn

(* A transaction begins.                                                   *)
LEMMA WorkerBegins ==
  ASSUME IInv, LocksTyped, NEW w \in Worker,
         \/ \E t \in Task : PickQueued(w, t)
         \/ LookAtCall(w) \/ CloseTask(w)
         \/ \E outcome \in {"completed", "failed"} : RecordOutcome(w, outcome)
  PROVE  WorkerPlan(w)' /\ UNCHANGED vars
<1> USE DEF Working, Actor
<1>1. ASSUME NEW t \in Task, PickQueued(w, t) PROVE Picking(w, t)' /\ UNCHANGED vars
  <2>1. Open(w, [kind |-> "claim", task |-> t], {ForUpdate("task", t)},
             <<LockSubscription(t)>>, Nothing)
    BY <1>1 DEF PickQueued, LockSubscription
  <2>2. QED
    BY <1>1, <2>1, Opened DEF PickQueued, Picking, vars, workerVars, LockSubscription
<1>2. ASSUME NEW t \in Task, t = claimed[w], LookAtCall(w)
      PROVE  Looking(w, t)' /\ UNCHANGED vars
  BY <1>2, Opened
     DEF LookAtCall, Looking, AtStep, StillRunning, vars, workerVars, execVars,
         LockExecution, RenewLease
<1>3. ASSUME NEW t \in Task, t = claimed[w], CloseTask(w)
      PROVE  Closing(w, t)' /\ UNCHANGED vars
  BY <1>3, Opened
     DEF CloseTask, Closing, Writing, Finishing, StillRunning, vars, workerVars, execVars,
         Outcome, ReleaseSlot, UpdateTask, CloseColumns, Gives, Goes, Logs
<1>4. ASSUME NEW t \in Task, t = claimed[w], NEW c \in Call, c = calling[w],
             NEW outcome \in {"completed", "failed"}, RecordOutcome(w, outcome)
      PROVE  Recording(w, t, c, outcome)' /\ UNCHANGED vars
  BY <1>4, Opened
     DEF RecordOutcome, Recording, Writing, StillRunning, vars, workerVars, execVars,
         LockExecution, RecordPlan, UpdateCall, AddUsage, MoveIndex, RecordColumns,
         Goes, Logs
<1>5. /\ \A t \in Task : Picking(w, t)' \/ Looking(w, t)' \/ Closing(w, t)' => WorkerPlan(w)'
      /\ \A t \in Task, c \in Call, outcome \in {"completed", "failed"} :
           Recording(w, t, c, outcome)' => WorkerPlan(w)'
  BY DEF WorkerPlan
<1>6. /\ pc[w] \notin {"resumable", "queue"} => claimed[w] \in Task
      /\ pc[w] = "tool" => calling[w] \in Call
  BY DEF IInv, WorkersKnow
<1>7. CASE LookAtCall(w)
  BY <1>2, <1>5, <1>6, <1>7 DEF LookAtCall
<1>8. CASE CloseTask(w)
  BY <1>3, <1>5, <1>6, <1>8 DEF CloseTask, Finishing
<1>9. CASE \E outcome \in {"completed", "failed"} : RecordOutcome(w, outcome)
  BY <1>4, <1>5, <1>6, <1>9 DEF RecordOutcome
<1>10. QED
  BY <1>1, <1>5, <1>7, <1>8, <1>9

LEMMA ClientBegins ==
  ASSUME LocksTyped, NEW k \in Client,
         \/ \E c \in Call, role \in Role, approve \in BOOLEAN : AskRequest(k, c, role, approve)
         \/ \E c \in Call : Expired(c) /\ ~Escalates(c) /\ SweepAsked(k, c)
         \/ \E t \in Task : CancelTask(k, t)
  PROVE  ClientPlan(k)' /\ UNCHANGED vars
<1> USE DEF Working, Actor
<1>1. ASSUME NEW c \in Call, NEW role \in Role, NEW approve \in BOOLEAN,
             AskRequest(k, c, role, approve)
      PROVE  Asking(k, txn[k])' /\ UNCHANGED vars
  <2> DEFINE x == [kind |-> "decide", call |-> c, step |-> reqStep[c], role |-> role,
                   approve |-> approve]
  <2>1. /\ txn'[k] = x /\ held'[k] = {} /\ draft'[k] = Nothing /\ UNCHANGED vars
        /\ todo'[k] = <<Always(ForUpdate("request", c), Nothing)>>
    BY <1>1, Opened DEF AskRequest
  <2>2. x.kind = "decide" /\ x.call = c /\ x.role = role /\ x.approve = approve
    OBVIOUS
  <2> HIDE DEF x
  <2>3. QED
    BY <2>1, <2>2 DEF Asking
<1>2. ASSUME NEW c \in Call, Expired(c), ~Escalates(c), SweepAsked(k, c)
      PROVE  Rejecting(k, c, "system", "timeout_rejected")' /\ UNCHANGED vars
  <2>1. Open(k, [kind |-> "write"], {ForUpdate("request", c)},
             Rejection(c, TaskOf[c]), RejectionColumns(c, "system", "timeout_rejected"))
    BY <1>2 DEF SweepAsked, SweepEscalate
  <2>2. /\ txn'[k] = [kind |-> "write"] /\ held'[k] = {ForUpdate("request", c)}
        /\ todo'[k] = Rejection(c, TaskOf[c])
        /\ draft'[k] = RejectionColumns(c, "system", "timeout_rejected")
        /\ UNCHANGED vars
    BY <2>1, Opened
  <2>3. /\ RejectionColumns(c, "system", "timeout_rejected")' =
             RejectionColumns(c, "system", "timeout_rejected")
        /\ Rejection(c, TaskOf[c])' = Rejection(c, TaskOf[c])
        /\ MayReject(c, "system", "timeout_rejected")'
    BY <1>2, <2>2
       DEF vars, reqVars, execVars, RejectionColumns, Decided, Logs, Rejection, UpdateCall,
           FailExecution, ReleaseSlot, FailTask, MayReject, Expired, Escalates, StepOf,
           HasNext, MayDecide
  <2>4. QED
    BY <2>2, <2>3 DEF Rejecting, Writing, Rejection
<1>3. ASSUME NEW t \in Task, CancelTask(k, t)
      PROVE  Cancelling(k, t)' /\ UNCHANGED vars
  BY <1>3, Opened
     DEF CancelTask, Cancelling, vars, execVars, CancelExecution, ReleaseSlot, UpdateTask,
         Logs, IsTerminal
<1>4. QED
  BY <1>1, <1>2, <1>3 DEF ClientPlan

(* ... and settles what it does.                                           *)
LEMMA WorkerSettles ==
  ASSUME LocksTyped, NEW w \in Worker, Planned(w),
         \/ \E s \in Slot : SeatPicked(w, s)
         \/ PassCall(w) \/ StartCall(w) \/ RaiseCall(w)
  PROVE  WorkerPlan(w)' /\ UNCHANGED vars
<1> USE DEF Working, Actor, Writing
<1>1. ASSUME NEW s \in Slot, SeatPicked(w, s) PROVE WorkerPlan(w)' /\ UNCHANGED vars
  <2>1. PICK t \in Task : Picking(w, t)
    BY <1>1, KindOfPlan DEF SeatPicked
  <2>2. txn[w].task = t /\ UnderLimit(TaskOrg[t]) /\ Suits(s, t)
    BY <1>1, <2>1 DEF SeatPicked, Picking
  <2>3. GoOn(w, [kind |-> "write"],
             {ForUpdate("subscription", TaskOrg[t]), ForUpdate("slot", s)}, << >>,
             SeatColumns(w, t, s))
    BY <1>1, <2>2 DEF SeatPicked
  <2>4. /\ txn'[w] = [kind |-> "write"] /\ todo'[w] = << >>
        /\ held'[w] = {ForUpdate("task", t)} \cup
                        {ForUpdate("subscription", TaskOrg[t]), ForUpdate("slot", s)}
        /\ draft'[w] = SeatColumns(w, t, s) ++ Nothing
        /\ UNCHANGED vars
    BY <2>1, <2>3, WentOn DEF Picking
  <2>5. Seating(w, t, s)'
    BY <2>1, <2>2, <2>4
       DEF Picking, Seating, vars, workerVars, UnderLimit, BusySlots, Suits, SeatColumns,
           Logs, Goes
  <2>6. QED
    BY <2>4, <2>5 DEF WorkerPlan
<1>2. ASSUME NEW t \in Task, Looking(w, t), todo[w] = << >>
      PROVE  /\ AtStep(w, t) /\ txn[w].task = t /\ txn[w].index = callIndex[t]
             /\ held[w] = OwnLocks(t) /\ draft[w] = Leased(t)
             /\ CallsAt(t, callIndex[t]) = Current(t)
  BY <1>2 DEF Looking, CallsAt, Current
<1>3. ASSUME PassCall(w) PROVE WorkerPlan(w)' /\ UNCHANGED vars
  <2>1. PICK t \in Task : Looking(w, t) /\ todo[w] = << >>
    BY <1>3, KindOfPlan DEF PassCall
  <2>2. /\ \A c \in Current(t) : Verdict(c) \in {"skip", "stop"}
        /\ GoOn(w, [kind |-> "write"], {}, << >>, PassColumns(w, t, callIndex[t]))
    BY <1>2, <1>3, <2>1 DEF PassCall
  <2>3. /\ txn'[w] = [kind |-> "write"] /\ todo'[w] = << >> /\ held'[w] = OwnLocks(t)
        /\ draft'[w] = PassColumns(w, t, callIndex[t]) ++ Leased(t)
        /\ UNCHANGED vars
    <3>1. held'[w] = held[w] \cup {}
      BY <2>2, WentOn
    <3>2. QED
      BY <1>2, <2>1, <2>2, <3>1, WentOn
  <2>4. \A c \in Current(t) : Verdict(c)' = Verdict(c)
    BY <2>3 DEF vars, reqVars, Verdict
  <2>5. /\ PassColumns(w, t, callIndex[t])' = PassColumns(w, t, callIndex[t])
        /\ Current(t)' = Current(t)
    BY <1>2, <2>1, <2>3, <2>4
       DEF vars, execVars, PassColumns, CallsAt, Current, Goes, Gives
  <2>6. Passing(w, t)'
    BY <1>2, <2>1, <2>2, <2>3, <2>4, <2>5
       DEF Passing, AtStep, StillRunning, vars, workerVars, execVars, OwnLocks, Leased,
           RenewLease
  <2>7. QED
    BY <2>3, <2>6 DEF WorkerPlan
<1>4. ASSUME StartCall(w) PROVE WorkerPlan(w)' /\ UNCHANGED vars
  <2>1. PICK t \in Task : Looking(w, t) /\ todo[w] = << >>
    BY <1>4, KindOfPlan DEF StartCall
  <2>2. PICK c \in Current(t) :
          /\ Verdict(c) = "run"
          /\ GoOn(w, [kind |-> "write"], {},
                  <<UpdateCall(c, callStatus[c], "executing")>>, StartColumns(w, c))
    BY <1>2, <1>4, <2>1 DEF StartCall
  <2>3. /\ txn'[w] = [kind |-> "write"] /\ held'[w] = OwnLocks(t)
        /\ todo'[w] = <<UpdateCall(c, callStatus[c], "executing")>>
        /\ draft'[w] = StartColumns(w, c) ++ Leased(t)
        /\ UNCHANGED vars
    <3>1. held'[w] = held[w] \cup {}
      BY <2>2, WentOn
    <3>2. QED
      BY <1>2, <2>1, <2>2, <3>1, WentOn
  <2>4. Starting(w, t, c)'
    BY <1>2, <2>1, <2>2, <2>3
       DEF Starting, AtStep, StillRunning, vars, workerVars, execVars, reqVars, Current,
           Verdict, OwnLocks, Leased, RenewLease, UpdateCall, StartColumns, Goes, Logs
  <2>5. QED
    BY <2>3, <2>4 DEF WorkerPlan, Current
<1>5. ASSUME RaiseCall(w) PROVE WorkerPlan(w)' /\ UNCHANGED vars
  <2>1. PICK t \in Task : Looking(w, t) /\ todo[w] = << >>
    BY <1>5, KindOfPlan DEF RaiseCall
  <2>2. PICK c \in Current(t) :
          /\ Verdict(c) = "raise"
          /\ GoOn(w, [kind |-> "write"], {},
                  <<UpdateCall(c, callStatus[c], "awaiting_approval"),
                    UpdateTask(t, "running", "awaiting_approval")>>,
                  RaiseColumns(w, t, c))
    BY <1>2, <1>5, <2>1 DEF RaiseCall
  <2>3. /\ txn'[w] = [kind |-> "write"] /\ held'[w] = OwnLocks(t)
        /\ todo'[w] = <<UpdateCall(c, callStatus[c], "awaiting_approval"),
                        UpdateTask(t, "running", "awaiting_approval")>>
        /\ draft'[w] = RaiseColumns(w, t, c) ++ Leased(t)
        /\ UNCHANGED vars
    <3>1. held'[w] = held[w] \cup {}
      BY <2>2, WentOn
    <3>2. QED
      BY <1>2, <2>1, <2>2, <3>1, WentOn
  <2>4. Raising(w, t, c)'
    BY <1>2, <2>1, <2>2, <2>3
       DEF Raising, AtStep, StillRunning, vars, workerVars, execVars, reqVars, Current,
           Verdict, OwnLocks, Leased, RenewLease, UpdateCall, UpdateTask, RaiseColumns,
           Goes, Gives, Logs
  <2>5. QED
    BY <2>3, <2>4 DEF WorkerPlan, Current
<1>6. QED
  BY <1>1, <1>3, <1>4, <1>5

LEMMA ClientSettles ==
  ASSUME LocksTyped, NEW k \in Client, Planned(k), DecideAsked(k)
  PROVE  \/ ClientPlan(k)' /\ UNCHANGED vars
         \/ /\ Close(k)
            /\ \E c \in Call, role \in Role :
                 Free(k, ForUpdate("request", c)) /\ ApproveStep(c, role)
<1> DEFINE c == txn[k].call
           role == txn[k].role
           t == TaskOf[c]
<1> USE DEF Working, Actor, Writing
<1>1. /\ c \in Call /\ role \in Role /\ txn[k].approve \in BOOLEAN
      /\ held[k] = {} /\ draft[k] = Nothing
      /\ MayDecide(c, role)
  BY KindOfPlan DEF DecideAsked, StillAsked, Asking
<1>2. CASE /\ ~txn[k].approve
           /\ GoOn(k, [kind |-> "write"], {ForUpdate("request", c)},
                   Rejection(c, t), RejectionColumns(c, role, "rejected"))
  <2>1. /\ txn'[k] = [kind |-> "write"] /\ held'[k] = {ForUpdate("request", c)}
        /\ todo'[k] = Rejection(c, t)
        /\ draft'[k] = RejectionColumns(c, role, "rejected") ++ Nothing
        /\ UNCHANGED vars
    BY <1>1, <1>2, WentOn
  <2>2. draft'[k] = RejectionColumns(c, role, "rejected")
    <3>1. \A d, e : (d ++ e) ++ Nothing = d ++ e
      BY DEF ++, Nothing
    <3>2. QED
      BY <2>1, <3>1 DEF RejectionColumns
  <2>3. ASSUME NEW d \in Call, NEW r \in Role, d = c, r = role
        PROVE  Rejecting(k, d, r, "rejected")'
    <3>1. /\ RejectionColumns(d, r, "rejected")' = RejectionColumns(d, r, "rejected")
          /\ Rejection(d, TaskOf[d])' = Rejection(d, TaskOf[d])
          /\ MayReject(d, r, "rejected")'
      BY <1>1, <2>1, <2>3
         DEF vars, reqVars, execVars, RejectionColumns, Decided, Logs, Rejection, UpdateCall,
             FailExecution, ReleaseSlot, FailTask, MayReject, MayDecide, StepOf, Expired,
             Escalates, HasNext
    <3>2. QED
      BY <2>1, <2>2, <2>3, <3>1 DEF Rejecting, Rejection
  <2>4. QED
    BY <1>1, <2>1, <2>3 DEF ClientPlan
<1>3. CASE /\ ~HasNext(c)
           /\ GoOn(k, [kind |-> "write"], {ForUpdate("request", c)},
                   Resumption(t), ApprovalColumns(c, role))
  <2>1. /\ txn'[k] = [kind |-> "write"] /\ held'[k] = {ForUpdate("request", c)}
        /\ todo'[k] = Resumption(t)
        /\ draft'[k] = ApprovalColumns(c, role) ++ Nothing
        /\ UNCHANGED vars
    BY <1>1, <1>3, WentOn
  <2>2. ASSUME NEW d \in Call, NEW r \in Role, d = c, r = role
        PROVE  Resuming(k, d, r)'
    <3>1. /\ ApprovalColumns(d, r)' = ApprovalColumns(d, r)
          /\ Resumption(TaskOf[d])' = Resumption(TaskOf[d])
          /\ MayDecide(d, r)' /\ ~HasNext(d)'
      BY <1>1, <1>3, <2>1, <2>2
         DEF vars, reqVars, ApprovalColumns, Decided, Resumption, ResumeExecution,
             ResumeTask, Logs, MayDecide, StepOf, HasNext
    <3>2. QED
      BY <2>1, <2>2, <3>1 DEF Resuming, Resumption
  <2>3. QED
    BY <1>1, <2>1, <2>2 DEF ClientPlan
<1>4. CASE Free(k, ForUpdate("request", c)) /\ ApproveStep(c, role) /\ Close(k)
  BY <1>1, <1>4
<1>5. QED
  BY <1>2, <1>3, <1>4 DEF DecideAsked

(* A statement runs, or is skipped with those that belong to it.           *)
LEMMA StatementRuns ==
  ASSUME LocksTyped, NEW a \in Actor, Statement(a)
  PROVE  /\ txn'[a] = txn[a] /\ UNCHANGED vars
         /\ LET s == Head(todo[a]) IN
              \/ /\ Matches(s) /\ held'[a] = held[a] \cup {s.lock}
                 /\ todo'[a] = Tail(todo[a]) /\ draft'[a] = s.columns ++ draft[a]
              \/ /\ ~Matches(s) /\ held'[a] = held[a] /\ draft'[a] = draft[a]
                 /\ todo'[a] = SubSeq(todo[a], 2 + s.skip, Len(todo[a]))
<1>1. CASE Matches(Head(todo[a]))
  <2>1. GoOn(a, txn[a], {Head(todo[a]).lock}, Tail(todo[a]), Head(todo[a]).columns)
    BY <1>1 DEF Statement
  <2>2. QED
    BY <1>1, <2>1, WentOn
<1>2. CASE ~Matches(Head(todo[a]))
  BY <1>2 DEF Statement, LocksTyped, OnActors
<1>3. QED
  BY <1>1, <1>2

(* The state of a's transaction after s.                                   *)
After(a, locks, s, rest, columns) ==
  held'[a] = locks \cup {s.lock} /\ todo'[a] = rest /\ draft'[a] = s.columns ++ columns

LEMMA MatchingRuns ==
  ASSUME LocksTyped, NEW a \in Actor, Statement(a), NEW locks, NEW s, NEW columns,
         Matches(s)
  PROVE  /\ Working(a, locks, <<s>>, columns) => After(a, locks, s, << >>, columns)
         /\ \A x : Working(a, locks, <<s, x>>, columns) => After(a, locks, s, <<x>>, columns)
         /\ \A x, y : Working(a, locks, <<s, x, y>>, columns) =>
              After(a, locks, s, <<x, y>>, columns)
         /\ \A x, y, z : Working(a, locks, <<s, x, y, z>>, columns) =>
              After(a, locks, s, <<x, y, z>>, columns)
<1>1. ASSUME NEW plan, Head(plan) = s, Working(a, locks, plan, columns)
      PROVE  After(a, locks, s, Tail(plan), columns)
  BY <1>1, StatementRuns DEF Working, After
<1>2. /\ Head(<<s>>) = s /\ Tail(<<s>>) = << >>
      /\ \A x : Head(<<s, x>>) = s /\ Tail(<<s, x>>) = <<x>>
      /\ \A x, y : Head(<<s, x, y>>) = s /\ Tail(<<s, x, y>>) = <<x, y>>
      /\ \A x, y, z : Head(<<s, x, y, z>>) = s /\ Tail(<<s, x, y, z>>) = <<x, y, z>>
  OBVIOUS
<1>3. Working(a, locks, <<s>>, columns) => After(a, locks, s, << >>, columns)
  BY <1>1, <1>2
<1>4. ASSUME NEW x, Working(a, locks, <<s, x>>, columns)
      PROVE  After(a, locks, s, <<x>>, columns)
  BY <1>1, <1>2, <1>4
<1>5. ASSUME NEW x, NEW y, Working(a, locks, <<s, x, y>>, columns)
      PROVE  After(a, locks, s, <<x, y>>, columns)
  BY <1>1, <1>2, <1>5
<1>6. ASSUME NEW x, NEW y, NEW z, Working(a, locks, <<s, x, y, z>>, columns)
      PROVE  After(a, locks, s, <<x, y, z>>, columns)
  <2> DEFINE plan == <<s, x, y, z>>
  <2>1. Head(plan) = s /\ Tail(plan) = <<x, y, z>> /\ Working(a, locks, plan, columns)
    BY <1>2, <1>6
  <2> HIDE DEF plan
  <2>2. QED
    BY <1>1, <2>1
<1>7. QED
  BY <1>3, <1>4, <1>5, <1>6

LEMMA StatementsLock ==
  /\ \A t, from, to : /\ Matches(UpdateTask(t, from, to))
                      /\ UpdateTask(t, from, to).lock = Updated("task", t)
  /\ \A c, from, to : /\ Matches(UpdateCall(c, from, to))
                      /\ UpdateCall(c, from, to).lock = Updated("call", c)
  /\ \A s : Matches(ReleaseSlot(s)) /\ ReleaseSlot(s).lock = Updated("slot", s)
  /\ \A t : Matches(RenewLease(t)) /\ RenewLease(t).lock = Updated("execution", t)
  /\ \A t, c : Matches(AddUsage(t, c)) /\ AddUsage(t, c).lock = Referenced("task", t)
  /\ \A t, i : Matches(MoveIndex(t, i)) /\ MoveIndex(t, i).lock = Updated("execution", t)
<1>1. \A lock, columns : /\ Matches(Always(lock, columns))
                         /\ Always(lock, columns).lock = lock
  BY DEF Always, Matches
<1>2. QED
  BY <1>1 DEF UpdateTask, UpdateCall, ReleaseSlot, RenewLease, AddUsage, MoveIndex

LEMMA FlowsLock ==
  ASSUME NEW t
  PROVE  /\ Matches(ResumeExecution(t)) <=> execStatus[t] = "awaiting_approval"
         /\ ResumeExecution(t).lock = Updated("execution", t) /\ ResumeExecution(t).skip = 1
         /\ Matches(ResumeTask(t)) <=> taskStatus[t] = "awaiting_approval"
         /\ ResumeTask(t).lock = Updated("task", t) /\ ResumeTask(t).skip = 0
         /\ Matches(FailExecution(t)) <=> execStatus[t] = "awaiting_approval"
         /\ FailExecution(t).lock = ForUpdate("execution", t) /\ FailExecution(t).skip = 1
         /\ Matches(FailTask(t)) <=> taskStatus[t] = "awaiting_approval"
         /\ FailTask(t).lock = Updated("task", t) /\ FailTask(t).skip = 0
         /\ Matches(CancelExecution(t)) <=> Active(t)
         /\ CancelExecution(t).lock = ForUpdate("execution", t) /\ CancelExecution(t).skip = 1
<1>1. \A s, lock, columns, n : /\ If(s, lock, columns, n).where = s
                              /\ If(s, lock, columns, n).lock = lock
                              /\ If(s, lock, columns, n).skip = n
  BY DEF If
<1>2. /\ ForUpdate("execution", t).row[1] = "execution" /\ ForUpdate("execution", t).row[2] = t
      /\ Updated("execution", t).row[1] = "execution" /\ Updated("execution", t).row[2] = t
      /\ Updated("task", t).row[1] = "task" /\ Updated("task", t).row[2] = t
  BY DEF ForUpdate, Updated
<1>3. /\ Matches(ResumeExecution(t)) <=> execStatus[t] = "awaiting_approval"
      /\ ResumeExecution(t).lock = Updated("execution", t) /\ ResumeExecution(t).skip = 1
  BY <1>1, <1>2 DEF Matches, ResumeExecution
<1>4. /\ Matches(ResumeTask(t)) <=> taskStatus[t] = "awaiting_approval"
      /\ ResumeTask(t).lock = Updated("task", t) /\ ResumeTask(t).skip = 0
  BY <1>1, <1>2 DEF Matches, ResumeTask
<1>5. /\ Matches(FailExecution(t)) <=> execStatus[t] = "awaiting_approval"
      /\ FailExecution(t).lock = ForUpdate("execution", t) /\ FailExecution(t).skip = 1
  BY <1>1, <1>2 DEF Matches, FailExecution
<1>6. /\ Matches(FailTask(t)) <=> taskStatus[t] = "awaiting_approval"
      /\ FailTask(t).lock = Updated("task", t) /\ FailTask(t).skip = 0
  BY <1>1, <1>2 DEF Matches, FailTask
<1>7. /\ Matches(CancelExecution(t)) <=> Active(t)
      /\ CancelExecution(t).lock = ForUpdate("execution", t) /\ CancelExecution(t).skip = 1
  BY <1>1, <1>2 DEF Matches, CancelExecution, Active
<1>8. QED
  BY <1>3, <1>4, <1>5, <1>6, <1>7

LEMMA SkippingLeaves ==
  /\ \A x, y, z : SubSeq(<<x, y, z>>, 3, 3) = <<z>>
  /\ \A x, y : SubSeq(<<x, y>>, 3, 2) = << >>
  /\ \A x : SubSeq(<<x>>, 2, 1) = << >>
<1>1. ASSUME NEW x, NEW y, NEW z PROVE SubSeq(<<x, y, z>>, 3, 3) = <<z>>
  <2>1. SubSeq(<<x, y, z>>, 3, 3) = [i \in 1 .. 1 |-> <<x, y, z>>[i + 2]]
    OBVIOUS
  <2>2. \A i \in 1 .. 1 : <<x, y, z>>[i + 2] = z
    OBVIOUS
  <2>3. <<z>> = [i \in 1 .. 1 |-> z]
    OBVIOUS
  <2>4. QED
    BY <2>1, <2>2, <2>3
<1>2. QED
  BY <1>1

Skipped(a, locks, rest, columns) ==
  held'[a] = locks /\ todo'[a] = rest /\ draft'[a] = columns

LEMMA OthersAreSkipped ==
  ASSUME LocksTyped, NEW a \in Actor, Statement(a), NEW locks, NEW s, NEW columns,
         ~Matches(s)
  PROVE  /\ s.skip = 0 /\ Working(a, locks, <<s>>, columns) =>
              Skipped(a, locks, << >>, columns)
         /\ \A x : s.skip = 1 /\ Working(a, locks, <<s, x>>, columns) =>
              Skipped(a, locks, << >>, columns)
         /\ \A x, y : s.skip = 1 /\ Working(a, locks, <<s, x, y>>, columns) =>
              Skipped(a, locks, <<y>>, columns)
<1>1. ASSUME NEW plan, Head(plan) = s, Working(a, locks, plan, columns)
      PROVE  Skipped(a, locks, SubSeq(plan, 2 + s.skip, Len(plan)), columns)
  BY <1>1, StatementRuns DEF Working, Skipped
<1>2. /\ Head(<<s>>) = s /\ Len(<<s>>) = 1
      /\ \A x : Head(<<s, x>>) = s /\ Len(<<s, x>>) = 2
      /\ \A x, y : Head(<<s, x, y>>) = s /\ Len(<<s, x, y>>) = 3
  OBVIOUS
<1>3. ASSUME s.skip = 0, Working(a, locks, <<s>>, columns)
      PROVE  Skipped(a, locks, << >>, columns)
  <2>1. Skipped(a, locks, SubSeq(<<s>>, 2, 1), columns)
    BY <1>1, <1>2, <1>3
  <2>2. QED
    BY <2>1, SkippingLeaves
<1>4. ASSUME NEW x, s.skip = 1, Working(a, locks, <<s, x>>, columns)
      PROVE  Skipped(a, locks, << >>, columns)
  <2> DEFINE plan == <<s, x>>
  <2>1. Head(plan) = s /\ Len(plan) = 2 /\ SubSeq(plan, 3, 2) = << >>
    BY <1>2, SkippingLeaves
  <2> HIDE DEF plan
  <2>2. Skipped(a, locks, SubSeq(plan, 2 + s.skip, Len(plan)), columns)
    BY <1>1, <1>4, <2>1 DEF plan
  <2>3. 2 + s.skip = 3
    BY <1>4
  <2>4. QED
    BY <2>1, <2>2, <2>3
<1>5. ASSUME NEW x, NEW y, s.skip = 1, Working(a, locks, <<s, x, y>>, columns)
      PROVE  Skipped(a, locks, <<y>>, columns)
  <2>1. Skipped(a, locks, SubSeq(<<s, x, y>>, 3, 3), columns)
    BY <1>1, <1>2, <1>5
  <2>2. QED
    BY <2>1, SkippingLeaves
<1>6. QED
  BY <1>3, <1>4, <1>5

LEMMA LookingMoves ==
  ASSUME LocksTyped, NEW a \in Actor, NEW t \in Task, Looking(a, t), Statement(a)
  PROVE  Looking(a, t)'
<1>1. UNCHANGED vars /\ txn'[a] = txn[a]
  BY StatementRuns
<1>2. Working(a, LockExecution(t), <<RenewLease(t)>>, Nothing)
  BY DEF Statement, Looking, Working
<1>3. After(a, LockExecution(t), RenewLease(t), << >>, Nothing)
  BY <1>2, MatchingRuns, StatementsLock
<1>4. RenewLease(t)' = RenewLease(t)
  BY DEF RenewLease
<1>5. Working(a, OwnLocks(t), << >>, Leased(t))'
  BY <1>3, <1>4, StatementsLock DEF After, Working, OwnLocks, LockExecution, Leased
<1>6. QED
  BY <1>1, <1>5 DEF Looking, AtStep, StillRunning, vars, execVars, workerVars

LEMMA StartingMoves ==
  ASSUME LocksTyped, NEW a \in Actor, NEW t \in Task, NEW c \in Call, Starting(a, t, c),
         Statement(a)
  PROVE  Starting(a, t, c)'
<1> DEFINE mark == UpdateCall(c, callStatus[c], "executing")
           base == StartColumns(a, c) ++ Leased(t)
<1>1. UNCHANGED vars /\ txn'[a] = txn[a]
  BY StatementRuns
<1>2. mark' = mark /\ base' = base /\ OwnLocks(t)' = OwnLocks(t)
  BY <1>1 DEF vars, UpdateCall, StartColumns, Goes, Logs, Leased, RenewLease, OwnLocks
<1>3. AtStep(a, t)' /\ (c \in Current(t))' /\ (Verdict(c) = "run")' /\ Writing(a)'
  BY <1>1 DEF Starting, AtStep, StillRunning, Writing, vars, execVars, reqVars, workerVars,
              Current, Verdict
<1>4. Working(a, OwnLocks(t), <<mark>>, base)
  BY DEF Statement, Starting, Working
<1>5. Matches(mark) /\ mark.lock = Updated("call", c)
  BY StatementsLock
<1> HIDE DEF mark, base
<1>6. After(a, OwnLocks(t), mark, << >>, base)
  BY <1>4, <1>5, MatchingRuns
<1>7. Working(a, OwnLocks(t) \cup {Updated("call", c)}, << >>, mark.columns ++ base)'
  BY <1>2, <1>5, <1>6 DEF Working, After
<1>8. QED
  BY <1>3, <1>7 DEF Starting, mark, base

LEMMA RaisingMoves ==
  ASSUME LocksTyped, NEW a \in Actor, NEW t \in Task, NEW c \in Call, Raising(a, t, c),
         Statement(a)
  PROVE  Raising(a, t, c)'
<1> DEFINE mark == UpdateCall(c, callStatus[c], "awaiting_approval")
           park == UpdateTask(t, "running", "awaiting_approval")
           base == RaiseColumns(a, t, c) ++ Leased(t)
           called == OwnLocks(t) \cup {Updated("call", c)}
<1>1. UNCHANGED vars /\ txn'[a] = txn[a]
  BY StatementRuns
<1>2. /\ mark' = mark /\ park' = park /\ base' = base /\ called' = called
  BY <1>1 DEF vars, UpdateCall, UpdateTask, RaiseColumns, Goes, Gives, Logs, Leased,
              RenewLease, OwnLocks
<1>3. AtStep(a, t)' /\ (c \in Current(t))' /\ (Verdict(c) = "raise")' /\ Writing(a)'
  BY <1>1 DEF Raising, AtStep, StillRunning, Writing, vars, execVars, reqVars, workerVars,
              Current, Verdict
<1>4. \/ Working(a, OwnLocks(t), <<mark, park>>, base)
      \/ Working(a, called, <<park>>, mark.columns ++ base)
  BY DEF Statement, Raising, Working
<1>5. /\ Matches(mark) /\ mark.lock = Updated("call", c)
      /\ Matches(park) /\ park.lock = Updated("task", t)
  BY StatementsLock
<1> HIDE DEF mark, park, base
<1>6. \/ After(a, OwnLocks(t), mark, <<park>>, base)
      \/ After(a, called, park, << >>, mark.columns ++ base)
  BY <1>4, <1>5, MatchingRuns
<1>7. \/ Working(a, called, <<park>>, mark.columns ++ base)'
      \/ Working(a, called \cup {Updated("task", t)}, << >>,
                 park.columns ++ (mark.columns ++ base))'
  BY <1>2, <1>5, <1>6 DEF Working, After
<1>8. QED
  BY <1>3, <1>7 DEF Raising, mark, park, base

LEMMA RecordingMoves ==
  ASSUME LocksTyped, NEW a \in Actor, NEW t \in Task, NEW c \in Call,
         NEW outcome \in {"completed", "failed"}, Recording(a, t, c, outcome),
         Statement(a)
  PROVE  Recording(a, t, c, outcome)'
<1> DEFINE mark == UpdateCall(c, "executing", outcome)
           add == AddUsage(t, c)
           move == MoveIndex(t, callIndex[t] + 1)
           base == RecordColumns(a, outcome)
           marked == mark.columns ++ base
           called == LockExecution(t) \cup {Updated("call", c)}
           charged == called \cup {Referenced("task", t)}
<1>1. UNCHANGED vars /\ txn'[a] = txn[a]
  BY StatementRuns
<1>2. mark' = mark /\ add' = add /\ move' = move /\ base' = base /\ charged' = charged
  BY <1>1 DEF vars, execVars, UpdateCall, AddUsage, MoveIndex, RecordColumns, Goes, Logs,
              LockExecution
<1>3. /\ (pc[a] = "tool" /\ claimed[a] = t /\ calling[a] = c)'
      /\ StillRunning(t)' /\ Writing(a)'
  BY <1>1 DEF Recording, StillRunning, Writing, vars, execVars, workerVars
<1>4. /\ Matches(mark) /\ mark.lock = Updated("call", c)
      /\ Matches(add) /\ add.lock = Referenced("task", t)
      /\ Matches(move) /\ move.lock = Updated("execution", t)
  BY StatementsLock
<1>5. CASE outcome = "failed"
  <2>1. Working(a, LockExecution(t), <<mark>>, base)
    BY <1>5 DEF Statement, Recording, Working, RecordPlan
  <2> HIDE DEF mark, base
  <2>2. After(a, LockExecution(t), mark, << >>, base)
    BY <1>4, <2>1, MatchingRuns
  <2>3. Working(a, called, << >>, marked)'
    BY <1>2, <1>4, <2>2 DEF Working, After, LockExecution
  <2>4. QED
    BY <1>3, <1>5, <2>3 DEF Recording, mark, base
<1>6. CASE outcome = "completed"
  <2>1. \/ Working(a, LockExecution(t), <<mark, add, move>>, base)
        \/ Working(a, called, <<add, move>>, marked)
        \/ Working(a, charged, <<move>>, add.columns ++ marked)
    BY <1>6 DEF Statement, Recording, Working, RecordPlan
  <2> HIDE DEF mark, add, move, base
  <2>2. \/ After(a, LockExecution(t), mark, <<add, move>>, base)
        \/ After(a, called, add, <<move>>, marked)
        \/ After(a, charged, move, << >>, add.columns ++ marked)
    BY <1>4, <2>1, MatchingRuns
  <2>3. \/ Working(a, called, <<add, move>>, marked)'
        \/ Working(a, charged, <<move>>, add.columns ++ marked)'
        \/ Working(a, charged \cup {Updated("execution", t)}, << >>,
                   move.columns ++ (add.columns ++ marked))'
    BY <1>2, <1>4, <2>2 DEF Working, After, LockExecution
  <2>4. QED
    BY <1>3, <1>6, <2>3 DEF Recording, mark, add, move, base
<1>7. QED
  BY <1>5, <1>6

LEMMA ClosingMoves ==
  ASSUME LocksTyped, NEW a \in Actor, NEW t \in Task, Closing(a, t), Statement(a)
  PROVE  Closing(a, t)'
<1> DEFINE free == ReleaseSlot(execSlot[t])
           close == UpdateTask(t, "running", Outcome(a))
           base == CloseColumns(a, t)
           first == {Updated("execution", t)}
           second == first \cup {Updated("slot", execSlot[t])}
<1>1. UNCHANGED vars /\ txn'[a] = txn[a]
  BY StatementRuns
<1>2. free' = free /\ close' = close /\ base' = base /\ second' = second
  BY <1>1 DEF vars, execVars, workerVars, ReleaseSlot, UpdateTask, Outcome, CloseColumns,
              Gives, Goes, Logs
<1>3. Finishing(a)' /\ (claimed[a] = t)' /\ StillRunning(t)' /\ Writing(a)'
  BY <1>1 DEF Closing, Finishing, StillRunning, Writing, vars, execVars, workerVars
<1>4. /\ Matches(free) /\ free.lock = Updated("slot", execSlot[t])
      /\ Matches(close) /\ close.lock = Updated("task", t)
  BY StatementsLock
<1>5. \/ Working(a, first, <<free, close>>, base)
      \/ Working(a, second, <<close>>, free.columns ++ base)
  BY DEF Statement, Closing, Working
<1> HIDE DEF free, close, base
<1>6. \/ After(a, first, free, <<close>>, base)
      \/ After(a, second, close, << >>, free.columns ++ base)
  BY <1>4, <1>5, MatchingRuns
<1>7. \/ Working(a, second, <<close>>, free.columns ++ base)'
      \/ Working(a, second \cup {Updated("task", t)}, << >>,
                 close.columns ++ (free.columns ++ base))'
  BY <1>2, <1>4, <1>6 DEF Working, After
<1>8. QED
  BY <1>3, <1>7 DEF Closing, free, close, base

LEMMA ResumingMoves ==
  ASSUME IInv, GateInv, LocksTyped, NEW a \in Actor, NEW c \in Call, NEW role \in Role,
         Resuming(a, c, role), Statement(a)
  PROVE  Resuming(a, c, role)'
<1> DEFINE t == TaskOf[c]
           resume == ResumeExecution(t)
           run == ResumeTask(t)
           base == ApprovalColumns(c, role) ++ Nothing
           first == {ForUpdate("request", c)}
           second == first \cup {Updated("execution", t)}
<1>1. UNCHANGED vars /\ txn'[a] = txn[a]
  BY StatementRuns
<1>2. resume' = resume /\ run' = run /\ base' = base /\ second' = second
  BY <1>1 DEF vars, reqVars, ResumeExecution, ResumeTask, ApprovalColumns, Decided
<1>3. MayDecide(c, role)' /\ ~HasNext(c)' /\ Writing(a)' /\ execStatus'[t] = execStatus[t]
  BY <1>1 DEF Resuming, MayDecide, StepOf, HasNext, Writing, vars, reqVars, execVars
<1>4. /\ t \in Task /\ execStatus[t] \in {"awaiting_approval", "cancelled"}
      /\ taskStatus[t] = execStatus[t]
  BY PendingIsParked DEF Resuming, MayDecide, IInv, StatusesAgree
<1>5. /\ Matches(resume) <=> execStatus[t] = "awaiting_approval"
      /\ Matches(run) <=> execStatus[t] = "awaiting_approval"
      /\ resume.lock = Updated("execution", t) /\ resume.skip = 1
      /\ run.lock = Updated("task", t)
  BY <1>4, FlowsLock
<1>6. \/ Working(a, first, <<resume, run>>, base)
      \/ execStatus[t] = "awaiting_approval" /\ Working(a, second, <<run>>, resume.columns ++ base)
  BY DEF Statement, Resuming, Working
<1> HIDE DEF t, resume, run, base
<1>7. \/ execStatus[t] = "cancelled" /\ Skipped(a, first, << >>, base)
      \/ execStatus[t] = "awaiting_approval" /\ After(a, first, resume, <<run>>, base)
      \/ /\ execStatus[t] = "awaiting_approval"
         /\ After(a, second, run, << >>, resume.columns ++ base)
  <2>1. CASE Matches(resume)
    BY <1>5, <1>6, <2>1, MatchingRuns
  <2>2. CASE ~Matches(resume)
    BY <1>4, <1>5, <1>6, <2>2, OthersAreSkipped
  <2>3. QED
    BY <2>1, <2>2
<1>8. \/ execStatus[t] = "cancelled" /\ Working(a, first, << >>, base)'
      \/ /\ execStatus[t] = "awaiting_approval"
         /\ Working(a, second, <<run>>, resume.columns ++ base)'
      \/ /\ execStatus[t] = "awaiting_approval"
         /\ Working(a, second \cup {Updated("task", t)}, << >>,
                    run.columns ++ (resume.columns ++ base))'
  BY <1>2, <1>5, <1>7 DEF Working, After, Skipped
<1>9. QED
  BY <1>3, <1>8 DEF Resuming, t, resume, run, base

LEMMA RejectingMoves ==
  ASSUME IInv, GateInv, LocksTyped, NEW a \in Actor, NEW c \in Call, NEW role, NEW decision,
         Rejecting(a, c, role, decision), Statement(a)
  PROVE  Rejecting(a, c, role, decision)'
<1> DEFINE t == TaskOf[c]
           mark == UpdateCall(c, "awaiting_approval", "rejected")
           fail == FailExecution(t)
           free == ReleaseSlot(execSlot[t])
           end == FailTask(t)
           base == RejectionColumns(c, role, decision)
           marked == mark.columns ++ base
           freed == free.columns ++ (fail.columns ++ marked)
           first == {ForUpdate("request", c)}
           second == first \cup {Updated("call", c)}
           third == second \cup {ForUpdate("execution", t)}
           fourth == third \cup {Updated("slot", execSlot[t])}
           parked == execStatus[t] = "awaiting_approval"
           gone == execStatus[t] = "cancelled"
<1>1. UNCHANGED vars /\ txn'[a] = txn[a]
  BY StatementRuns
<1>2. /\ mark' = mark /\ fail' = fail /\ free' = free /\ end' = end /\ base' = base
      /\ fourth' = fourth
  BY <1>1 DEF vars, execVars, reqVars, UpdateCall, FailExecution, ReleaseSlot, FailTask,
              RejectionColumns, Decided, Logs
<1>3. MayReject(c, role, decision)' /\ Writing(a)' /\ execStatus'[t] = execStatus[t]
  BY <1>1 DEF Rejecting, MayReject, MayDecide, Expired, Escalates, StepOf, HasNext, Writing,
              vars, reqVars, execVars
<1>4. /\ t \in Task /\ execStatus[t] \in {"awaiting_approval", "cancelled"}
      /\ taskStatus[t] = execStatus[t]
  BY PendingIsParked DEF Rejecting, MayReject, MayDecide, Expired, IInv, StatusesAgree
<1>5. /\ Matches(mark) /\ mark.lock = Updated("call", c)
      /\ Matches(free) /\ free.lock = Updated("slot", execSlot[t])
      /\ Matches(fail) <=> parked
      /\ Matches(end) <=> parked
      /\ fail.lock = ForUpdate("execution", t) /\ fail.skip = 1
      /\ end.lock = Updated("task", t) /\ end.skip = 0
  BY <1>4, FlowsLock, StatementsLock
<1>6. \/ Working(a, first, <<mark, fail, free, end>>, base)
      \/ Working(a, second, <<fail, free, end>>, marked)
      \/ gone /\ Working(a, second, <<end>>, marked)
      \/ parked /\ Working(a, third, <<free, end>>, fail.columns ++ marked)
      \/ parked /\ Working(a, fourth, <<end>>, freed)
  BY DEF Statement, Rejecting, Working
<1> HIDE DEF t, mark, fail, free, end, base
<1>7. \/ After(a, first, mark, <<fail, free, end>>, base)
      \/ gone /\ Skipped(a, second, <<end>>, marked)
      \/ gone /\ Skipped(a, second, << >>, marked)
      \/ parked /\ After(a, second, fail, <<free, end>>, marked)
      \/ parked /\ After(a, third, free, <<end>>, fail.columns ++ marked)
      \/ parked /\ After(a, fourth, end, << >>, freed)
  <2>1. CASE Working(a, first, <<mark, fail, free, end>>, base)
    BY <1>5, <2>1, MatchingRuns
  <2>2. CASE Working(a, second, <<fail, free, end>>, marked)
    BY <1>4, <1>5, <2>2, MatchingRuns, OthersAreSkipped
  <2>3. CASE gone /\ Working(a, second, <<end>>, marked)
    BY <1>5, <2>3, OthersAreSkipped
  <2>4. CASE parked /\ Working(a, third, <<free, end>>, fail.columns ++ marked)
    BY <1>5, <2>4, MatchingRuns
  <2>5. CASE parked /\ Working(a, fourth, <<end>>, freed)
    BY <1>5, <2>5, MatchingRuns
  <2>6. QED
    BY <1>6, <2>1, <2>2, <2>3, <2>4, <2>5
<1>8. \/ Working(a, second, <<fail, free, end>>, marked)'
      \/ gone /\ Working(a, second, <<end>>, marked)'
      \/ gone /\ Working(a, second, << >>, marked)'
      \/ parked /\ Working(a, third, <<free, end>>, fail.columns ++ marked)'
      \/ parked /\ Working(a, fourth, <<end>>, freed)'
      \/ parked /\ Working(a, fourth \cup {Updated("task", t)}, << >>, end.columns ++ freed)'
  BY <1>2, <1>5, <1>7 DEF Working, After, Skipped
<1>9. QED
  BY <1>3, <1>8 DEF Rejecting, t, mark, fail, free, end, base

LEMMA CancellingMoves ==
  ASSUME IInv, LocksTyped, NEW a \in Actor, NEW t \in Task, Cancelling(a, t), Statement(a)
  PROVE  Cancelling(a, t)'
<1> DEFINE leave == CancelExecution(t)
           free == ReleaseSlot(execSlot[t])
           cancel == UpdateTask(t, taskStatus[t], "cancelled")
           left == leave.columns ++ Nothing
           first == {ForUpdate("task", t)}
           second == first \cup {ForUpdate("execution", t)}
           third == second \cup {Updated("slot", execSlot[t])}
           none == execStatus[t] = "none"
<1>1. UNCHANGED vars /\ txn'[a] = txn[a]
  BY StatementRuns
<1>2. leave' = leave /\ free' = free /\ cancel' = cancel /\ third' = third
  BY <1>1 DEF vars, execVars, CancelExecution, ReleaseSlot, UpdateTask, Logs
<1>3. /\ ~IsTerminal(taskStatus[t])' /\ (txn[a] = [kind |-> "cancel"])'
      /\ none' = none /\ Active(t)' = Active(t)
  BY <1>1 DEF Cancelling, IsTerminal, Active, vars, execVars
<1>4. none \/ Active(t)
  BY DEF Cancelling, IInv, TypeOK, ExecStatus, TaskStatus, StatusesAgree, Active,
         IsTerminal, Terminal
<1>5. /\ Matches(leave) <=> Active(t)
      /\ leave.lock = ForUpdate("execution", t) /\ leave.skip = 1
      /\ Matches(free) /\ free.lock = Updated("slot", execSlot[t])
      /\ Matches(cancel) /\ cancel.lock = Updated("task", t)
      /\ none => ~Active(t)
  BY FlowsLock, StatementsLock DEF Active
<1>6. \/ Working(a, first, <<leave, free, cancel>>, Nothing)
      \/ none /\ Working(a, first, <<cancel>>, Nothing)
      \/ Active(t) /\ Working(a, second, <<free, cancel>>, left)
      \/ Active(t) /\ Working(a, third, <<cancel>>, free.columns ++ left)
  BY DEF Statement, Cancelling, Working
<1> HIDE DEF leave, free, cancel, none
<1>7. \/ none /\ Skipped(a, first, <<cancel>>, Nothing)
      \/ none /\ After(a, first, cancel, << >>, Nothing)
      \/ Active(t) /\ After(a, first, leave, <<free, cancel>>, Nothing)
      \/ Active(t) /\ After(a, second, free, <<cancel>>, left)
      \/ Active(t) /\ After(a, third, cancel, << >>, free.columns ++ left)
  <2>1. CASE Working(a, first, <<leave, free, cancel>>, Nothing)
    BY <1>4, <1>5, <2>1, MatchingRuns, OthersAreSkipped
  <2>2. CASE none /\ Working(a, first, <<cancel>>, Nothing)
    BY <1>5, <2>2, MatchingRuns
  <2>3. CASE Active(t) /\ Working(a, second, <<free, cancel>>, left)
    BY <1>5, <2>3, MatchingRuns
  <2>4. CASE Active(t) /\ Working(a, third, <<cancel>>, free.columns ++ left)
    BY <1>5, <2>4, MatchingRuns
  <2>5. QED
    BY <1>6, <2>1, <2>2, <2>3, <2>4
<1>8. \/ none' /\ Working(a, first, <<cancel>>, Nothing)'
      \/ none' /\ Working(a, first \cup {Updated("task", t)}, << >>, cancel.columns ++ Nothing)'
      \/ Active(t)' /\ Working(a, second, <<free, cancel>>, left)'
      \/ Active(t)' /\ Working(a, third, <<cancel>>, free.columns ++ left)'
      \/ /\ Active(t)'
         /\ Working(a, third \cup {Updated("task", t)}, << >>,
                    cancel.columns ++ (free.columns ++ left))'
  BY <1>2, <1>3, <1>5, <1>7 DEF Working, After, Skipped
<1>9. QED
  BY <1>3, <1>8 DEF Cancelling, leave, free, cancel, none

LEMMA StatementMoves ==
  ASSUME IInv, GateInv, LocksTyped, NEW a \in Actor, Planned(a), Statement(a)
  PROVE  Planned(a)' /\ UNCHANGED vars
<1>1. UNCHANGED vars
  BY StatementRuns
<1>2. todo[a] # << >> /\ txn[a].kind # "decide" /\ txn[a].kind # "claim"
  BY DEF Statement
<1>3. CASE a \in Worker /\ WorkerPlan(a)
  <2>1. \A t \in Task : ~Picking(a, t) /\ ~Passing(a, t) /\ \A s \in Slot : ~Seating(a, t, s)
    BY <1>2 DEF Picking, Passing, Seating, Working
  <2>2. \A t \in Task : Looking(a, t) => Looking(a, t)'
    BY LookingMoves
  <2>3. \A t \in Task : Closing(a, t) => Closing(a, t)'
    BY ClosingMoves
  <2>4. \A t \in Task, c \in Call : Starting(a, t, c) => Starting(a, t, c)'
    BY StartingMoves
  <2>5. \A t \in Task, c \in Call : Raising(a, t, c) => Raising(a, t, c)'
    BY RaisingMoves
  <2>6. \A t \in Task, c \in Call, outcome \in {"completed", "failed"} :
          Recording(a, t, c, outcome) => Recording(a, t, c, outcome)'
    BY RecordingMoves
  <2>7. WorkerPlan(a)'
    BY <1>3, <2>1, <2>2, <2>3, <2>4, <2>5, <2>6 DEF WorkerPlan
  <2>8. QED
    BY <1>1, <1>3, <2>7 DEF Planned
<1>4. CASE a \in Client /\ ClientPlan(a)
  <2>1. ~Asking(a, txn[a])
    BY <1>2 DEF Asking
  <2>2. \A t \in Task : Cancelling(a, t) => Cancelling(a, t)'
    BY CancellingMoves
  <2>3. \A c \in Call, role \in Role : Resuming(a, c, role) => Resuming(a, c, role)'
    BY ResumingMoves
  <2>4. \A c \in Call, role \in Role \cup {"system"},
           decision \in {"rejected", "timeout_rejected"} :
          Rejecting(a, c, role, decision) => Rejecting(a, c, role, decision)'
    BY RejectingMoves
  <2>5. ClientPlan(a)'
    BY <1>4, <2>1, <2>2, <2>3, <2>4 DEF ClientPlan
  <2>6. QED
    BY <1>1, <1>4, <2>5 DEF Planned
<1>5. QED
  BY <1>2, <1>3, <1>4, Moving

-----------------------------------------------------------------------------
(* The commit of a transaction is its action of AgentHub, and spares what  *)
(* the others have locked.                                                 *)

LEMMA OthersHold ==
  ASSUME Exclusive, NEW a \in Actor, NEW b \in Actor, b # a
  PROVE  \A table, id : ForUpdate(table, id) \in held[a] \/ Updated(table, id) \in held[a] =>
           ~Holds(b, table, id)
  BY Locking, OneHolds

LEMMA ClaimEnds ==
  ASSUME IInv, Exclusive, NEW a \in Worker, NEW t \in Task, NEW s \in Slot,
         Seating(a, t, s), Commit(a)
  PROVE  Next /\ \A b \in Actor \ {a} : Spares(b)
<1>1. ClaimQueued(a, t, s)
  BY SeatCommits
<1>2. ASSUME NEW b \in Actor, b # a PROVE Spares(b)
  <2>1. /\ ForUpdate("task", t) \in held[a] /\ ForUpdate("slot", s) \in held[a]
        /\ ForUpdate("subscription", TaskOrg[t]) \in held[a]
    BY DEF Seating, Working
  <2>2. ~Holds(b, "task", t) /\ ~Holds(b, "slot", s) /\ ~Holds(b, "subscription", TaskOrg[t])
    BY <1>2, <2>1, OthersHold DEF Actor
  <2>3. QED
    BY <1>1, <1>2, <2>2, ClaimSpares
<1>3. QED
  BY <1>1, <1>2 DEF Next, WorkerMoves

LEMMA StepEnds ==
  ASSUME IInv, GateInv, Exclusive, NEW a \in Worker, NEW t \in Task, todo[a] = << >>, Commit(a),
         Passing(a, t) \/ \E c \in Call : Starting(a, t, c) \/ Raising(a, t, c)
  PROVE  Next /\ \A b \in Actor \ {a} : Spares(b)
<1>1. claimed[a] = t /\ ForUpdate("execution", t) \in held[a]
  BY DEF Passing, Starting, Raising, AtStep, Working, OwnLocks
<1>2. \A b \in Actor \ {a} : ~Holds(b, "execution", claimed[a])
  BY <1>1, OthersHold DEF Actor
<1>3. CASE Passing(a, t)
  <2>1. NextCallPasses(a) \/ NextCallLeaves(a)
    BY <1>3, PassCommits
  <2>2. \A b \in Actor \ {a} : Spares(b)
    BY <1>2, <2>1, WorkSpares, QuietMoves
  <2>3. QED
    BY <2>1, <2>2 DEF Next, WorkerMoves
<1>4. ASSUME NEW c \in Call, Starting(a, t, c) PROVE Next /\ \A b \in Actor \ {a} : Spares(b)
  <2>1. NextCallRun(a)
    BY <1>4, StartCommits
  <2>2. \A b \in Actor \ {a} : Spares(b)
    BY <1>2, <2>1, WorkSpares
  <2>3. QED
    BY <2>1, <2>2 DEF Next, WorkerMoves
<1>5. ASSUME NEW c \in Call, Raising(a, t, c) PROVE Next /\ \A b \in Actor \ {a} : Spares(b)
  <2>1. NextCallRaise(a)
    BY <1>5, RaiseCommits
  <2>2. Updated("task", t) \in held[a]
    BY <1>5 DEF Raising, Working
  <2>3. \A b \in Actor \ {a} : ~Holds(b, "task", claimed[a])
    BY <1>1, <2>2, OthersHold DEF Actor
  <2>4. \A b \in Actor \ {a} : Spares(b)
    BY <1>2, <2>1, <2>3, RaiseSpares
  <2>5. QED
    BY <2>1, <2>4 DEF Next, WorkerMoves
<1>6. QED
  BY <1>3, <1>4, <1>5

LEMMA RecordEnds ==
  ASSUME IInv, BilledAtMostOnce, Exclusive, NEW a \in Worker, NEW t \in Task, NEW c \in Call,
         NEW outcome \in {"completed", "failed"},
         Recording(a, t, c, outcome), todo[a] = << >>, Commit(a)
  PROVE  Next /\ \A b \in Actor \ {a} : Spares(b)
<1>1. RecordSuccess(a) \/ RecordFailure(a)
  BY RecordCommits
<1>2. claimed[a] = t /\ ForUpdate("execution", t) \in held[a]
  BY DEF Recording, Working, LockExecution
<1>3. \A b \in Actor \ {a} : ~Holds(b, "execution", claimed[a])
  BY <1>2, OthersHold DEF Actor
<1>4. \A b \in Actor \ {a} : Spares(b)
  BY <1>1, <1>3, WorkSpares
<1>5. QED
  BY <1>1, <1>4 DEF Next, WorkerMoves

LEMMA FinishEnds ==
  ASSUME IInv, Exclusive, NEW a \in Worker, NEW t \in Task, Closing(a, t), todo[a] = << >>,
         Commit(a)
  PROVE  Next /\ \A b \in Actor \ {a} : Spares(b)
<1>1. Finish(a)
  BY CloseCommits
<1>2. /\ claimed[a] = t /\ Updated("execution", t) \in held[a]
      /\ Updated("slot", execSlot[t]) \in held[a] /\ Updated("task", t) \in held[a]
  BY DEF Closing, Working
<1>3. \A b \in Actor \ {a} :
        /\ ~Holds(b, "task", claimed[a]) /\ ~Holds(b, "execution", claimed[a])
        /\ ~Holds(b, "slot", execSlot[claimed[a]])
  BY <1>2, OthersHold DEF Actor
<1>4. \A b \in Actor \ {a} : Spares(b)
  BY <1>1, <1>3, FinishSpares
<1>5. QED
  BY <1>1, <1>4 DEF Next, WorkerMoves

LEMMA ApproveEnds ==
  ASSUME IInv, GateInv, Exclusive, NEW a \in Client, NEW c \in Call, NEW role \in Role,
         Resuming(a, c, role), todo[a] = << >>, Commit(a)
  PROVE  Next /\ \A b \in Actor \ {a} : Spares(b)
<1>1. ApproveLast(c, role)
  BY ResumeCommits
<1>2. /\ ForUpdate("request", c) \in held[a]
      /\ execStatus[TaskOf[c]] = "awaiting_approval" =>
           Updated("execution", TaskOf[c]) \in held[a] /\ Updated("task", TaskOf[c]) \in held[a]
  BY DEF Resuming, Working
<1>3. \A b \in Actor \ {a} :
        /\ ~Holds(b, "request", c)
        /\ execStatus[TaskOf[c]] = "awaiting_approval" =>
             ~Holds(b, "task", TaskOf[c]) /\ ~Holds(b, "execution", TaskOf[c])
  BY <1>2, OthersHold DEF Actor
<1>4. \A b \in Actor \ {a} : Spares(b)
  BY <1>1, <1>3, ApproveSpares
<1>5. QED
  BY <1>1, <1>4 DEF Next

LEMMA RejectEnds ==
  ASSUME IInv, GateInv, Exclusive, NEW a \in Client, NEW c \in Call,
         NEW role \in Role \cup {"system"}, NEW decision \in {"rejected", "timeout_rejected"},
         Rejecting(a, c, role, decision), todo[a] = << >>, Commit(a)
  PROVE  Next /\ \A b \in Actor \ {a} : Spares(b)
<1> DEFINE t == TaskOf[c]
<1>1. (role \in Role /\ Reject(c, role)) \/ SweepReject(c)
  BY RejectCommits
<1>2. RejectFlow(c) /\ reqStatus[c] = "pending"
  BY <1>1 DEF Reject, SweepReject, MayDecide, Expired
<1>3. /\ ForUpdate("request", c) \in held[a]
      /\ execStatus[t] = "awaiting_approval" =>
           /\ ForUpdate("execution", t) \in held[a] /\ Updated("task", t) \in held[a]
           /\ Updated("slot", execSlot[t]) \in held[a]
  BY DEF Rejecting, Working
<1>4. \A b \in Actor \ {a} :
        /\ ~Holds(b, "request", c)
        /\ execStatus[t] = "awaiting_approval" =>
             /\ ~Holds(b, "task", t) /\ ~Holds(b, "execution", t)
             /\ ~Holds(b, "slot", execSlot[t])
  BY <1>3, OthersHold DEF Actor
<1>5. \A b \in Actor \ {a} : Spares(b)
  BY <1>2, <1>4, RejectSpares
<1>6. QED
  BY <1>1, <1>5 DEF Next, SweepOne

LEMMA CancelEnds ==
  ASSUME IInv, Exclusive, NEW a \in Client, NEW t \in Task,
         Cancelling(a, t), todo[a] = << >>, Commit(a)
  PROVE  Next /\ \A b \in Actor \ {a} : Spares(b)
<1>1. Cancel(t)
  BY CancelCommits
<1>2. /\ ForUpdate("task", t) \in held[a]
      /\ Active(t) => /\ ForUpdate("execution", t) \in held[a]
                      /\ Updated("slot", execSlot[t]) \in held[a]
  BY DEF Cancelling, Working, Active
<1>3. \A b \in Actor \ {a} :
        /\ ~Holds(b, "task", t)
        /\ Active(t) => ~Holds(b, "execution", t) /\ ~Holds(b, "slot", execSlot[t])
  BY <1>2, OthersHold DEF Actor
<1>4. \A b \in Actor \ {a} : Spares(b)
  BY <1>1, <1>3, CancelSpares
<1>5. QED
  BY <1>1, <1>4 DEF Next

LEMMA CommitEnds ==
  ASSUME IInv, GateInv, BilledAtMostOnce, LocksTyped, Exclusive, NEW a \in Actor, Planned(a),
         Commit(a)
  PROVE  Next /\ Resting(a)' /\ \A b \in Actor \ {a} : Spares(b)
<1>1. txn[a].kind \in {"write", "cancel"} /\ todo[a] = << >> /\ Close(a)
  BY DEF Commit, Settled
<1>2. Resting(a)'
  BY <1>1, Closed
<1>3. CASE a \in Worker /\ WorkerPlan(a)
  <2>1. \A t \in Task : ~Picking(a, t) /\ ~Looking(a, t)
    BY <1>1 DEF Picking, Looking
  <2>2. PICK t \in Task :
          \/ Passing(a, t) \/ \E c \in Call : Starting(a, t, c) \/ Raising(a, t, c)
          \/ Closing(a, t)
          \/ \E s \in Slot : Seating(a, t, s)
          \/ \E c \in Call, outcome \in {"completed", "failed"} : Recording(a, t, c, outcome)
    BY <1>3, <2>1 DEF WorkerPlan
  <2>3. QED
    BY <1>1, <1>2, <1>3, <2>2, ClaimEnds, StepEnds, RecordEnds, FinishEnds
<1>4. CASE a \in Client /\ ClientPlan(a)
  <2>1. ~Asking(a, txn[a])
    BY <1>1 DEF Asking
  <2>2. QED
    BY <1>1, <1>2, <1>4, <2>1, ApproveEnds, RejectEnds, CancelEnds DEF ClientPlan
<1>5. QED
  BY <1>1, <1>3, <1>4, Moving

-----------------------------------------------------------------------------
(* A step of one transaction leaves the others and their locks alone.      *)

(* The others stay as they are, and a has no lock more that another has.   *)
OnlyMoves(a) ==
  /\ LocksTyped'
  /\ \A b \in Actor \ {a} :
       /\ txn'[b] = txn[b] /\ todo'[b] = todo[b]
       /\ held'[b] = held[b] /\ draft'[b] = draft[b]
  /\ \A h \in held'[a] : h \in held[a] \/ Free(a, h)

LEMMA OpenMoves ==
  ASSUME LocksTyped, NEW a \in Actor, NEW x, NEW locks, NEW plan, NEW columns,
         Open(a, x, locks, plan, columns)
  PROVE  OnlyMoves(a)
<1>1. LocksTyped'
  BY DEF LocksTyped, OnActors, Open
<1>2. \A b \in Actor \ {a} : /\ txn'[b] = txn[b] /\ todo'[b] = todo[b]
                             /\ held'[b] = held[b] /\ draft'[b] = draft[b]
  BY DEF LocksTyped, OnActors, Open
<1>3. held'[a] = locks /\ \A lock \in locks : Free(a, lock)
  BY Opened DEF Open
<1>4. QED
  BY <1>1, <1>2, <1>3 DEF OnlyMoves

LEMMA GoOnMoves ==
  ASSUME LocksTyped, NEW a \in Actor, NEW x, NEW locks, NEW plan, NEW columns,
         GoOn(a, x, locks, plan, columns)
  PROVE  OnlyMoves(a)
<1>1. LocksTyped'
  BY DEF LocksTyped, OnActors, GoOn
<1>2. \A b \in Actor \ {a} : /\ txn'[b] = txn[b] /\ todo'[b] = todo[b]
                             /\ held'[b] = held[b] /\ draft'[b] = draft[b]
  BY DEF LocksTyped, OnActors, GoOn
<1>3. held'[a] = held[a] \cup locks /\ \A lock \in locks : Free(a, lock)
  BY WentOn DEF GoOn
<1>4. QED
  BY <1>1, <1>2, <1>3 DEF OnlyMoves

LEMMA CloseMoves ==
  ASSUME LocksTyped, NEW a \in Actor, Close(a)
  PROVE  OnlyMoves(a)
<1>1. LocksTyped'
  BY DEF LocksTyped, OnActors, Close
<1>2. \A b \in Actor \ {a} : /\ txn'[b] = txn[b] /\ todo'[b] = todo[b]
                             /\ held'[b] = held[b] /\ draft'[b] = draft[b]
  BY DEF LocksTyped, OnActors, Close
<1>3. held'[a] = {}
  BY DEF LocksTyped, OnActors, Close
<1>4. QED
  BY <1>1, <1>2, <1>3 DEF OnlyMoves

LEMMA StatementOnlyMoves ==
  ASSUME LocksTyped, NEW a \in Actor, Statement(a)
  PROVE  OnlyMoves(a)
<1> DEFINE s == Head(todo[a])
<1>1. CASE Matches(s)
  <2>1. GoOn(a, txn[a], {s.lock}, Tail(todo[a]), s.columns)
    BY <1>1 DEF Statement
  <2>2. QED
    BY <2>1, GoOnMoves
<1>2. CASE ~Matches(s)
  <2>1. \E plan : todo' = [todo EXCEPT ![a] = plan]
    BY <1>2 DEF Statement
  <2>2. UNCHANGED <<txn, held, draft>>
    BY <1>2 DEF Statement
  <2>3. QED
    BY <2>1, <2>2 DEF OnlyMoves, LocksTyped, OnActors
<1>3. QED
  BY <1>1, <1>2

LEMMA StaysExclusive ==
  ASSUME Exclusive, NEW a \in Actor, OnlyMoves(a)
  PROVE  Exclusive'
<1>1. ASSUME NEW b \in Actor, b # a, NEW h \in held'[a], NEW g \in held'[b], h.row = g.row
      PROVE  ~Conflict(h.mode, g.mode) /\ ~Conflict(g.mode, h.mode)
  <2>1. g \in held[b] /\ (h \in held[a] \/ Free(a, h))
    BY <1>1 DEF OnlyMoves
  <2>2. CASE h \in held[a]
    BY <1>1, <2>1, <2>2 DEF Exclusive
  <2>3. CASE Free(a, h)
    <3>1. ~Conflict(g.mode, h.mode)
      BY <1>1, <2>1, <2>3 DEF Free, Blockers
    <3>2. QED
      BY <3>1 DEF Conflict
  <2>4. QED
    BY <2>1, <2>2, <2>3
<1>2. ASSUME NEW b \in Actor, NEW d \in Actor, b # d, b # a, d # a,
             NEW h \in held'[b], NEW g \in held'[d], h.row = g.row
      PROVE  ~Conflict(h.mode, g.mode)
  BY <1>2 DEF Exclusive, OnlyMoves
<1>3. QED
  BY <1>1, <1>2 DEF Exclusive

LEMMA OneMoves ==
  ASSUME GateInv, LockInv, NEW a \in Actor, OnlyMoves(a), Planned(a)',
         \A b \in Actor \ {a} : Spares(b)
  PROVE  LockInv'
<1>1. Exclusive' /\ LocksTyped'
  BY StaysExclusive DEF LockInv, OnlyMoves
<1>2. ASSUME NEW b \in Actor, b # a PROVE Planned(b)'
  <2>1. Undisturbed(b)
    BY <1>2 DEF OnlyMoves, Undisturbed
  <2>2. QED
    BY <2>1, PlansStay DEF LockInv
<1>3. QED
  BY <1>1, <1>2 DEF LockInv

LEMMA NoneMoves ==
  ASSUME GateInv, LockInv, UNCHANGED lockVars,
         \A b \in Actor : Spares(b) \/ Idle(b)
  PROVE  LockInv'
<1>1. Exclusive' /\ LocksTyped'
  BY DEF LockInv, Exclusive, LocksTyped, OnActors, lockVars
<1>2. ASSUME NEW b \in Actor, Spares(b) PROVE Planned(b)'
  <2>1. Undisturbed(b)
    BY <1>2 DEF lockVars, Undisturbed
  <2>2. QED
    BY <2>1, PlansStay DEF LockInv
<1>3. ASSUME NEW b \in Actor, Idle(b) PROVE Planned(b)'
  <2>1. Resting(b)
    BY <1>3, IdleRests DEF LockInv
  <2>2. Resting(b)'
    BY <2>1 DEF Resting, Idle, Working, lockVars
  <2>3. QED
    BY <2>2 DEF Planned
<1>4. QED
  BY <1>1, <1>2, <1>3 DEF LockInv

-----------------------------------------------------------------------------
(* Every step of the transactions is one of AgentHub, or none              *)

Refines == [Next]_vars /\ LockInv'

LEMMA StatementRefines ==
  ASSUME IInv, GateInv, LockInv, NEW a \in Actor, Statement(a)
  PROVE  Refines
<1>1. Planned(a)' /\ UNCHANGED vars
  BY StatementMoves DEF LockInv
<1>2. OnlyMoves(a)
  BY StatementOnlyMoves DEF LockInv
<1>3. \A b \in Actor : Spares(b)
  BY <1>1, TimeSpares
<1>4. QED
  BY <1>1, <1>2, <1>3, OneMoves DEF Refines

LEMMA CommitRefines ==
  ASSUME IInv, GateInv, BilledAtMostOnce, LockInv, NEW a \in Actor, Commit(a)
  PROVE  Refines
<1>1. Next /\ Resting(a)' /\ \A b \in Actor \ {a} : Spares(b)
  BY CommitEnds DEF LockInv
<1>2. OnlyMoves(a) /\ Planned(a)'
  BY <1>1, CloseMoves DEF LockInv, Commit, Planned
<1>3. QED
  BY <1>1, <1>2, OneMoves DEF Refines

LEMMA RollbackRefines ==
  ASSUME IInv, GateInv, LockInv, NEW a \in Actor, Rollback(a)
  PROVE  Refines
<1>1. ~Idle(a) /\ Close(a)
  BY DEF Rollback
<1>2. OnlyMoves(a) /\ Planned(a)'
  BY <1>1, CloseMoves, Closed DEF LockInv, Planned
<1>3. CASE a \in Client
  <2>1. UNCHANGED vars
    BY <1>3 DEF Rollback, vars
  <2>2. \A b \in Actor : Spares(b)
    BY <2>1, TimeSpares
  <2>3. QED
    BY <1>2, <2>1, <2>2, OneMoves DEF Refines
<1>4. CASE a \notin Client /\ claimed[a] = NoTask
  <2>1. a \in Worker /\ WorkerPlan(a)
    BY <1>1, <1>4 DEF Actor, LockInv, Planned, Resting
  <2>2. \A t \in Task : ~Looking(a, t) /\ ~Passing(a, t) /\ ~Closing(a, t)
    BY <1>4, NullValues DEF Looking, Passing, Closing, AtStep
  <2>3. \A t \in Task, c \in Call : ~Starting(a, t, c) /\ ~Raising(a, t, c)
    BY <1>4, NullValues DEF Starting, Raising, AtStep
  <2>4. \A t \in Task, c \in Call : \A outcome : ~Recording(a, t, c, outcome)
    BY <1>4, NullValues DEF Recording
  <2>5. \E t \in Task : Picking(a, t) \/ \E s \in Slot : Seating(a, t, s)
    BY <2>1, <2>2, <2>3, <2>4 DEF WorkerPlan
  <2>6. pc[a] = "queue"
    BY <2>5 DEF Picking, Seating
  <2>7. ClaimQueuedMiss(a)
    BY <1>4, <2>6 DEF Rollback, ClaimQueuedMiss, reqVars, execVars
  <2>8. \A b \in Actor \ {a} : Spares(b)
    BY <2>1, <2>7, QuietMoves
  <2>9. QED
    BY <1>2, <2>1, <2>7, <2>8, OneMoves DEF Refines, Next, WorkerMoves
<1>5. CASE a \notin Client /\ claimed[a] # NoTask
  <2>1. a \in Worker
    BY <1>5 DEF Actor
  <2>2. Drop(a)
    BY <1>5 DEF Rollback, Drop, reqVars, execVars
  <2>3. \A b \in Actor \ {a} : Spares(b)
    BY <2>1, <2>2, QuietMoves
  <2>4. QED
    BY <1>2, <2>1, <2>2, <2>3, OneMoves DEF Refines, Next
<1>6. QED
  BY <1>3, <1>4, <1>5

LEMMA QuietRefines ==
  ASSUME IInv, GateInv, LockInv, NEW w \in Worker,
         ShortOfWorker(w) \/ (Idle(w) /\ Drop(w) /\ UNCHANGED lockVars)
  PROVE  Refines
<1>1. Idle(w) /\ UNCHANGED lockVars
  BY DEF ShortOfWorker
<1>2. \/ \E t \in Task : ClaimResumable(w, t)
      \/ ClaimResumableMiss(w) \/ ClaimQueuedMiss(w) \/ NextCallLeaves(w)
      \/ RecordAbandoned(w) \/ FinishAbandoned(w) \/ Drop(w)
  BY DEF ShortOfWorker
<1>3. \A b \in Actor : Spares(b) \/ Idle(b)
  BY <1>1, <1>2, QuietMoves
<1>4. LockInv'
  BY <1>1, <1>3, NoneMoves
<1>5. Next
  BY <1>2 DEF Next, WorkerMoves
<1>6. QED
  BY <1>4, <1>5 DEF Refines

LEMMA WorkerRefines ==
  ASSUME IInv, GateInv, LockInv, NEW w \in Worker, WorkerStatement(w)
  PROVE  Refines
<1>1. w \in Actor /\ Planned(w)
  BY DEF Actor, LockInv
<1>2. CASE ShortOfWorker(w)
  BY <1>2, QuietRefines
<1>3. CASE \/ \E t \in Task : PickQueued(w, t)
           \/ LookAtCall(w) \/ CloseTask(w)
           \/ \E outcome \in {"completed", "failed"} : RecordOutcome(w, outcome)
  <2>1. WorkerPlan(w)' /\ UNCHANGED vars
    BY <1>3, WorkerBegins DEF LockInv
  <2>2. \E x, locks, plan, columns : Open(w, x, locks, plan, columns)
    BY <1>3 DEF PickQueued, LookAtCall, CloseTask, RecordOutcome
  <2>3. OnlyMoves(w) /\ Planned(w)' /\ \A b \in Actor : Spares(b)
    BY <1>1, <2>1, <2>2, OpenMoves, TimeSpares DEF LockInv, Planned
  <2>4. QED
    BY <1>1, <2>1, <2>3, OneMoves DEF Refines
<1>4. CASE \/ \E s \in Slot : SeatPicked(w, s)
           \/ PassCall(w) \/ StartCall(w) \/ RaiseCall(w)
  <2>1. WorkerPlan(w)' /\ UNCHANGED vars
    BY <1>1, <1>4, WorkerSettles DEF LockInv
  <2>2. \E x, locks, plan, columns : GoOn(w, x, locks, plan, columns)
    BY <1>4 DEF SeatPicked, PassCall, StartCall, RaiseCall
  <2>3. OnlyMoves(w) /\ Planned(w)' /\ \A b \in Actor : Spares(b)
    BY <1>1, <2>1, <2>2, GoOnMoves, TimeSpares DEF LockInv, Planned
  <2>4. QED
    BY <1>1, <2>1, <2>3, OneMoves DEF Refines
<1>5. QED
  BY <1>2, <1>3, <1>4 DEF WorkerStatement

LEMMA ClientRefines ==
  ASSUME IInv, GateInv, LockInv, NEW k \in Client, ClientStatement(k)
  PROVE  Refines
<1>1. k \in Actor /\ Planned(k)
  BY DEF Actor, LockInv
<1>2. ASSUME ClientPlan(k)', OnlyMoves(k), UNCHANGED vars PROVE Refines
  BY <1>1, <1>2, OneMoves, TimeSpares DEF Refines, Planned
<1>3. CASE \/ \E c \in Call, role \in Role, approve \in BOOLEAN : AskRequest(k, c, role, approve)
           \/ \E c \in Call : Expired(c) /\ ~Escalates(c) /\ SweepAsked(k, c)
           \/ \E t \in Task : CancelTask(k, t)
  <2>1. ClientPlan(k)' /\ UNCHANGED vars
    BY <1>3, ClientBegins DEF LockInv
  <2>2. \E x, locks, plan, columns : Open(k, x, locks, plan, columns)
    <3>1. ASSUME NEW c \in Call, NEW role \in Role, NEW approve \in BOOLEAN,
                 AskRequest(k, c, role, approve)
          PROVE  \E x, locks, plan, columns : Open(k, x, locks, plan, columns)
      <4> DEFINE asked == [kind |-> "decide", call |-> c, step |-> reqStep[c], role |-> role,
                           approve |-> approve]
                 wait == <<Always(ForUpdate("request", c), Nothing)>>
      <4>1. Open(k, asked, {}, wait, Nothing)
        BY <3>1 DEF AskRequest
      <4> HIDE DEF asked, wait
      <4>2. QED
        BY <4>1
    <3>2. ASSUME NEW c \in Call, ~Escalates(c), SweepAsked(k, c)
          PROVE  \E x, locks, plan, columns : Open(k, x, locks, plan, columns)
      <4> DEFINE columns == RejectionColumns(c, "system", "timeout_rejected")
                 plan == Rejection(c, TaskOf[c])
      <4>1. Open(k, [kind |-> "write"], {ForUpdate("request", c)}, plan, columns)
        BY <3>2 DEF SweepAsked, SweepEscalate
      <4> HIDE DEF plan, columns
      <4>2. QED
        BY <4>1
    <3>3. CASE \E t \in Task : CancelTask(k, t)
      BY <3>3 DEF CancelTask
    <3>4. QED
      BY <1>3, <3>1, <3>2, <3>3
  <2>3. QED
    BY <1>1, <1>2, <2>1, <2>2, OpenMoves DEF LockInv
<1>4. ASSUME NEW c \in Call, SweepAsked(k, c), Escalates(c) PROVE Refines
  <2>1. Idle(k) /\ Free(k, ForUpdate("request", c)) /\ SweepEscalate(c) /\ UNCHANGED lockVars
    BY <1>4 DEF SweepAsked
  <2>2. \A b \in Actor : b # k => ~Holds(b, "request", c)
    BY <1>1, <2>1, FreeForUpdate
  <2>3. \A b \in Actor : Spares(b) \/ Idle(b)
    BY <2>1, <2>2, NextStepSpares
  <2>4. QED
    BY <2>1, <2>3, NoneMoves DEF Refines, Next, SweepOne
<1>5. CASE DecideAsked(k)
  <2>1. CASE ClientPlan(k)' /\ UNCHANGED vars
    <3>1. CASE \E x, locks, plan, columns : GoOn(k, x, locks, plan, columns)
      BY <1>1, <1>2, <2>1, <3>1, GoOnMoves DEF LockInv
    <3>2. CASE Close(k)
      BY <1>1, <1>2, <2>1, <3>2, CloseMoves DEF LockInv
    <3>3. QED
      BY <1>5, <3>1, <3>2 DEF DecideAsked
  <2>2. ASSUME Close(k), NEW c \in Call, NEW role \in Role,
               Free(k, ForUpdate("request", c)), ApproveStep(c, role)
        PROVE  Refines
    <3>1. OnlyMoves(k) /\ Planned(k)'
      BY <1>1, <2>2, CloseMoves, Closed DEF LockInv, Planned
    <3>2. \A b \in Actor : b # k => ~Holds(b, "request", c)
      BY <1>1, <2>2, FreeForUpdate
    <3>3. \A b \in Actor \ {k} : Spares(b)
      BY <2>2, <3>2, NextStepSpares
    <3>4. QED
      BY <1>1, <2>2, <3>1, <3>3, OneMoves DEF Refines, Next
  <2>3. QED
    BY <1>1, <1>5, <2>1, <2>2, ClientSettles DEF LockInv
<1>6. CASE RefuseAsked(k)
  <2>1. Close(k) /\ UNCHANGED vars
    BY <1>6 DEF RefuseAsked
  <2>2. OnlyMoves(k) /\ Planned(k)' /\ \A b \in Actor : Spares(b)
    BY <1>1, <2>1, CloseMoves, Closed, TimeSpares DEF LockInv, Planned
  <2>3. QED
    BY <1>1, <2>1, <2>2, OneMoves DEF Refines
<1>7. QED
  BY <1>3, <1>4, <1>5, <1>6 DEF ClientStatement, SweepAsked

LEMMA TimeRefines ==
  ASSUME IInv, GateInv, LockInv, UNCHANGED lockVars,
         \/ \E t \in Task : LeaseExpires(t)
         \/ \E c \in Call : DeadlinePasses(c)
         \/ UNCHANGED vars
  PROVE  Refines
<1>1. \A b \in Actor : Spares(b)
  BY TimeSpares
<1>2. LockInv'
  BY <1>1, NoneMoves
<1>3. [Next]_vars
  BY DEF Next
<1>4. QED
  BY <1>2, <1>3 DEF Refines

LEMMA EveryStepRefines ==
  ASSUME IInv, GateInv, BilledAtMostOnce, LockInv, [LockNext]_<<vars, lockVars>>
  PROVE  Refines
<1>1. CASE UNCHANGED <<vars, lockVars>>
  BY <1>1, TimeRefines
<1>2. CASE \E w \in Worker : WorkerStatement(w) \/ (Idle(w) /\ Drop(w) /\ UNCHANGED lockVars)
  BY <1>2, WorkerRefines, QuietRefines
<1>3. CASE \E k \in Client : ClientStatement(k)
  BY <1>3, ClientRefines
<1>4. CASE \E a \in Actor : Statement(a) \/ Commit(a) \/ Rollback(a)
  BY <1>4, StatementRefines, CommitRefines, RollbackRefines
<1>5. CASE \/ \E t \in Task : LeaseExpires(t) /\ UNCHANGED lockVars
           \/ \E c \in Call : DeadlinePasses(c) /\ UNCHANGED lockVars
  BY <1>5, TimeRefines
<1>6. QED
  BY <1>1, <1>2, <1>3, <1>4, <1>5 DEF LockNext

LEMMA LocksInit == LockInit => LockInv
<1>1. LockInit => LocksTyped /\ Exclusive
  BY DEF LockInit, LocksTyped, OnActors, Exclusive
<1>2. LockInit => \A a \in Actor : Resting(a)
  BY DEF LockInit, Resting, Idle, Working
<1>3. QED
  BY <1>1, <1>2 DEF LockInv, Planned

LEMMA LocksInvariance == LockSpec => [](IInv /\ GateInv /\ BilledAtMostOnce /\ LockInv)
<1> DEFINE All == IInv /\ GateInv /\ BilledAtMostOnce /\ LockInv
<1>1. LockInit => All
  BY InductiveInit, GateInit, LocksInit DEF LockInit, Init, BilledAtMostOnce
<1>2. All /\ [LockNext]_<<vars, lockVars>> => All'
  <2> SUFFICES ASSUME All, [LockNext]_<<vars, lockVars>> PROVE All'
    OBVIOUS
  <2>1. [Next]_vars /\ LockInv'
    BY EveryStepRefines DEF Refines
  <2>2. IInv' /\ GateInv'
    BY <2>1, InductiveStep, GateStep
  <2>3. BilledAtMostOnce'
    BY <2>1, ChargedOnceWhileRunning DEF BilledAtMostOnce
  <2>4. QED
    BY <2>1, <2>2, <2>3
<1>3. QED
  BY <1>1, <1>2, PTL DEF LockSpec

(* The row locks are enough: whatever the statements of the transactions   *)
(* interleave, each transaction still goes by rows that are as it read     *)
(* them, and no two hold locks that exclude each other.                    *)
THEOREM PlansHold == LockSpec => []LockInv
  BY LocksInvariance, PTL

(* Hence the transactions are atomic: each commit, rollback or short       *)
(* transaction is a step of AgentHub, and all other statements are none.   *)
THEOREM ImplementsHub == LockSpec => HubSpec
<1>1. LockInit => Init
  BY DEF LockInit
<1>2. IInv /\ GateInv /\ BilledAtMostOnce /\ LockInv /\ [LockNext]_<<vars, lockVars>> => [Next]_vars
  BY EveryStepRefines DEF Refines
<1>3. QED
  BY <1>1, <1>2, LocksInvariance, PTL DEF LockSpec, HubSpec, Spec

-----------------------------------------------------------------------------
(* Deadlocks                                                               *)

(* Who has a task in its hands: a worker that holds the execution, or the  *)
(* one that answers the request for which it is parked.                    *)
Answers(a, c) == reqStatus[c] = "pending" /\ ForUpdate("request", c) \in held[a]
Drives(a, t) == execStatus[t] = "running" /\ Holds(a, "execution", t)

Owns(a, t) ==
  \/ Drives(a, t)
  \/ execStatus[t] = "awaiting_approval" /\ \E c \in Call : TaskOf[c] = t /\ Answers(a, c)

(* The rows that it locks, or waits for, with the task in its hands.       *)
Commands(a, row) ==
  \/ \E t \in Task : /\ Owns(a, t)
                     /\ row \in {<<"task", t>>, <<"execution", t>>, <<"slot", execSlot[t]>>}
  \/ \E c \in Call : row = <<"call", c>> /\ (Drives(a, TaskOf[c]) \/ Answers(a, c))

LEMMA OneOwner ==
  ASSUME IInv, GateInv, Exclusive, NEW a \in Actor, NEW b \in Actor, a # b
  PROVE  /\ \A t \in Task : ~(Owns(a, t) /\ Owns(b, t))
         /\ \A c \in Call : ~(Answers(a, c) /\ Answers(b, c))
<1>1. \A c \in Call : ~(Answers(a, c) /\ Answers(b, c))
  BY OthersHold, Locking DEF Answers
<1>2. ASSUME NEW t \in Task, Drives(a, t), Drives(b, t) PROVE FALSE
  BY <1>2, OneHolds DEF Drives
<1>3. ASSUME NEW t \in Task, execStatus[t] = "awaiting_approval",
             NEW c \in Call, TaskOf[c] = t, Answers(a, c),
             NEW d \in Call, TaskOf[d] = t, Answers(b, d)
      PROVE  FALSE
  <2>1. c \in PendingOf(t) /\ d \in PendingOf(t) /\ TaskAwaitsRequest(t)
    BY <1>3 DEF PendingOf, Answers, GateInv
  <2>2. OrderIndex[c] = OrderIndex[d]
    BY <1>3, <2>1 DEF TaskAwaitsRequest
  <2>3. c = d
    BY <1>3, <2>2, CallsNumbered
  <2>4. QED
    BY <1>1, <1>3, <2>3
<1>4. QED
  BY <1>1, <1>2, <1>3 DEF Owns, Drives

LEMMA OneCommands ==
  ASSUME IInv, GateInv, Exclusive, NEW a \in Actor, NEW b \in Actor, a # b, NEW row,
         Commands(a, row), Commands(b, row)
  PROVE  FALSE
<1>1. ASSUME NEW t \in Task, NEW u \in Task, Owns(a, t), Owns(b, u), execSlot[t] = execSlot[u]
      PROVE  FALSE
  <2>1. Active(t) /\ Active(u)
    BY <1>1 DEF Owns, Drives, Active
  <2>2. t = u
    BY <1>1, <2>1 DEF IInv, SlotsMatchExecutions
  <2>3. QED
    BY <1>1, <2>2, OneOwner
<1>2. ASSUME NEW c \in Call, Drives(a, TaskOf[c]) \/ Answers(a, c), Drives(b, TaskOf[c]) \/ Answers(b, c)
      PROVE  FALSE
  <2>1. TaskOf[c] \in Task
    BY ColumnTypes
  <2>2. ~(Drives(a, TaskOf[c]) /\ Drives(b, TaskOf[c])) /\ ~(Answers(a, c) /\ Answers(b, c))
    BY <2>1, OneOwner DEF Owns
  <2>3. reqStatus[c] = "pending" => execStatus[TaskOf[c]] # "running"
    BY PendingIsParked
  <2>4. QED
    BY <1>2, <2>2, <2>3 DEF Drives, Answers
<1>3. CASE \E t \in Task : row = <<"task", t>> \/ row = <<"execution", t>>
  BY <1>3, OneOwner DEF Commands
<1>4. CASE \E t \in Task : Owns(a, t) /\ row = <<"slot", execSlot[t]>>
  BY <1>1, <1>4 DEF Commands
<1>5. CASE \E c \in Call : row = <<"call", c>>
  BY <1>2, <1>5 DEF Commands
<1>6. QED
  BY <1>3, <1>4, <1>5 DEF Commands

LEMMA InHand ==
  ASSUME NEW a
  PROVE  /\ \A t \in Task : \A row :
              Owns(a, t) /\ (row = <<"task", t>> \/ row = <<"execution", t>>
                               \/ row = <<"slot", execSlot[t]>>) => Commands(a, row)
         /\ \A c \in Call : \A row :
              (Drives(a, TaskOf[c]) \/ Answers(a, c)) /\ row = <<"call", c>> => Commands(a, row)
  BY DEF Commands

LEMMA LockRows ==
  \A table, id : /\ ForUpdate(table, id).row = <<table, id>>
                 /\ Updated(table, id).row = <<table, id>>
                 /\ Referenced(table, id).row = <<table, id>>
  BY DEF ForUpdate, Updated, Referenced

(* What a worker that locks a running execution has in its hands.          *)
LEMMA WorkerOwns ==
  ASSUME IInv, NEW a \in Worker, NEW t \in Task,
         \/ Looking(a, t) \/ Closing(a, t)
         \/ \E c \in Call : Starting(a, t, c) \/ Raising(a, t, c)
         \/ \E c \in Call, outcome \in {"completed", "failed"} : Recording(a, t, c, outcome)
  PROVE  Owns(a, t) /\ Drives(a, t)
<1>1. execStatus[t] = "running"
  BY DEF Looking, Closing, Starting, Raising, Recording, AtStep, StillRunning
<1>2. ForUpdate("execution", t) \in held[a] \/ Updated("execution", t) \in held[a]
  <2>1. CASE Looking(a, t)
    BY <2>1 DEF Looking, Working, LockExecution, OwnLocks
  <2>2. CASE Closing(a, t)
    BY <2>2 DEF Closing, Working
  <2>3. ASSUME NEW c \in Call, Starting(a, t, c) PROVE ForUpdate("execution", t) \in held[a]
    BY <2>3 DEF Starting, Working, OwnLocks
  <2>4. ASSUME NEW c \in Call, Raising(a, t, c) PROVE ForUpdate("execution", t) \in held[a]
    BY <2>4 DEF Raising, Working, OwnLocks
  <2>5. ASSUME NEW c \in Call, NEW outcome \in {"completed", "failed"}, Recording(a, t, c, outcome)
        PROVE  ForUpdate("execution", t) \in held[a]
    BY <2>5 DEF Recording, Working, LockExecution
  <2>6. QED
    BY <2>1, <2>2, <2>3, <2>4, <2>5
<1>3. QED
  BY <1>1, <1>2, Locking DEF Owns, Drives

LEMMA OwnCall ==
  ASSUME IInv, NEW a \in Worker, NEW t \in Task, NEW c \in Call,
         \/ Starting(a, t, c) \/ Raising(a, t, c)
         \/ \E outcome \in {"completed", "failed"} : Recording(a, t, c, outcome)
  PROVE  Owns(a, t) /\ Drives(a, TaskOf[c])
<1>1. TaskOf[c] = t
  BY DEF Starting, Raising, Recording, Current, IInv, WorkersKnow
<1>2. QED
  BY <1>1, WorkerOwns

(* The rows that a transaction has locked before its last statement.       *)
RowKnown(a, row) ==
  \/ Commands(a, row)
  \/ \E t \in Task : row = <<"task", t>> /\ taskStatus[t] = "queued"
  \/ \E c \in Call : row = <<"request", c>> /\ txn[a].kind # "decide"

LEMMA WorkerKnows ==
  ASSUME IInv, NEW a \in Worker, WorkerPlan(a), todo[a] # << >>, NEW h \in held[a]
  PROVE  RowKnown(a, h.row)
<1>1. ASSUME NEW t \in Task, Picking(a, t) PROVE RowKnown(a, h.row)
  BY <1>1 DEF Picking, Working, RowKnown, ForUpdate
<1>2. ASSUME NEW t \in Task, Looking(a, t) PROVE RowKnown(a, h.row)
  <2>1. h \in {ForUpdate("execution", t), Updated("execution", t)}
    BY <1>2 DEF Looking, Working, LockExecution, OwnLocks
  <2>2. h.row = <<"execution", t>>
    BY <2>1, LockRows
  <2>3. Owns(a, t)
    BY <1>2, WorkerOwns
  <2>4. QED
    BY <2>2, <2>3, InHand DEF RowKnown
<1>3. ASSUME NEW t \in Task, NEW c \in Call, Starting(a, t, c) PROVE RowKnown(a, h.row)
  <2>1. h \in {ForUpdate("execution", t), Updated("execution", t), Updated("call", c)}
    BY <1>3 DEF Starting, Working, OwnLocks
  <2>2. Owns(a, t) /\ Drives(a, TaskOf[c])
    BY <1>3, OwnCall
  <2>3. h.row = <<"execution", t>> \/ h.row = <<"call", c>>
    BY <2>1, LockRows
  <2>4. QED
    BY <2>2, <2>3, InHand DEF RowKnown
<1>4. ASSUME NEW t \in Task, NEW c \in Call, Raising(a, t, c) PROVE RowKnown(a, h.row)
  <2>1. h \in {ForUpdate("execution", t), Updated("execution", t), Updated("call", c)}
    BY <1>4 DEF Raising, Working, OwnLocks
  <2>2. Owns(a, t) /\ Drives(a, TaskOf[c])
    BY <1>4, OwnCall
  <2>3. h.row = <<"execution", t>> \/ h.row = <<"call", c>>
    BY <2>1, LockRows
  <2>4. QED
    BY <2>2, <2>3, InHand DEF RowKnown
<1>5. ASSUME NEW t \in Task, NEW c \in Call, NEW outcome \in {"completed", "failed"},
             Recording(a, t, c, outcome)
      PROVE  RowKnown(a, h.row)
  <2>1. h \in {ForUpdate("execution", t), Updated("call", c), Referenced("task", t)}
    BY <1>5 DEF Recording, Working, LockExecution
  <2>2. Owns(a, t) /\ Drives(a, TaskOf[c])
    BY <1>5, OwnCall
  <2>3. h.row = <<"execution", t>> \/ h.row = <<"call", c>> \/ h.row = <<"task", t>>
    BY <2>1, LockRows
  <2>4. QED
    BY <2>2, <2>3, InHand DEF RowKnown
<1>6. ASSUME NEW t \in Task, Closing(a, t) PROVE RowKnown(a, h.row)
  <2>1. h \in {Updated("execution", t), Updated("slot", execSlot[t])}
    BY <1>6 DEF Closing, Working
  <2>2. h.row = <<"execution", t>> \/ h.row = <<"slot", execSlot[t]>>
    BY <2>1, LockRows
  <2>3. Owns(a, t)
    BY <1>6, WorkerOwns
  <2>4. QED
    BY <2>2, <2>3, InHand DEF RowKnown
<1>7. \A t \in Task : ~Passing(a, t) /\ \A s \in Slot : ~Seating(a, t, s)
  BY DEF Passing, Seating, Working
<1>8. QED
  BY <1>1, <1>2, <1>3, <1>4, <1>5, <1>6, <1>7 DEF WorkerPlan

LEMMA ClientKnows ==
  ASSUME IInv, NEW a \in Client, ClientPlan(a), txn[a].kind # "cancel", todo[a] # << >>,
         NEW h \in held[a]
  PROVE  RowKnown(a, h.row)
<1>1. CASE Asking(a, txn[a])
  BY <1>1 DEF Asking, Working
<1>2. ASSUME NEW c \in Call, NEW role \in Role, Resuming(a, c, role) PROVE RowKnown(a, h.row)
  <2> DEFINE t == TaskOf[c]
  <2>1. /\ h \in {ForUpdate("request", c), Updated("execution", t)}
        /\ h = ForUpdate("request", c) \/ execStatus[t] = "awaiting_approval"
        /\ ForUpdate("request", c) \in held[a]
    BY <1>2 DEF Resuming, Working
  <2>2. txn[a].kind # "decide" /\ Answers(a, c) /\ t \in Task
    BY <1>2, <2>1, ColumnTypes DEF Resuming, Writing, MayDecide, Answers
  <2>3. h = ForUpdate("request", c) \/ (h = Updated("execution", t) /\ Owns(a, t))
    BY <2>1, <2>2 DEF Owns
  <2>4. h.row = <<"request", c>> \/ (h.row = <<"execution", t>> /\ Owns(a, t))
    BY <2>3, LockRows
  <2>5. QED
    BY <2>2, <2>4, InHand DEF RowKnown
<1>3. ASSUME NEW c \in Call, NEW role, NEW decision, Rejecting(a, c, role, decision)
      PROVE  RowKnown(a, h.row)
  <2> DEFINE t == TaskOf[c]
             early == {ForUpdate("request", c), Updated("call", c)}
             later == {ForUpdate("execution", t), Updated("slot", execSlot[t])}
  <2>1. h \in early \/ (h \in later /\ execStatus[t] = "awaiting_approval")
    BY <1>3 DEF Rejecting, Working
  <2>2. ForUpdate("request", c) \in held[a]
    BY <1>3 DEF Rejecting, Working
  <2>3. reqStatus[c] = "pending" /\ txn[a].kind # "decide"
    BY <1>3 DEF Rejecting, Writing, MayReject, MayDecide, Expired
  <2>4. Answers(a, c) /\ t \in Task
    BY <2>2, <2>3, ColumnTypes DEF Answers
  <2>5. h \in early \/ (h \in later /\ Owns(a, t))
    BY <2>1, <2>4 DEF Owns
  <2>6. \/ h.row = <<"request", c>> \/ h.row = <<"call", c>>
        \/ Owns(a, t) /\ (h.row = <<"execution", t>> \/ h.row = <<"slot", execSlot[t]>>)
    BY <2>5, LockRows
  <2>7. QED
    BY <2>3, <2>4, <2>6, InHand DEF RowKnown
<1>4. \A t \in Task : ~Cancelling(a, t)
  BY DEF Cancelling
<1>5. QED
  BY <1>1, <1>2, <1>3, <1>4 DEF ClientPlan

(* The row that its next statement locks.                                  *)
RowNeeded(a, row) ==
  \/ Commands(a, row)
  \/ \E t \in Task : row = <<"subscription", TaskOrg[t]>>
  \/ \E c \in Call : row = <<"request", c>> /\ txn[a].kind = "decide"

LEMMA WorkerNeeds ==
  ASSUME IInv, NEW a \in Worker, WorkerPlan(a), todo[a] # << >>
  PROVE  RowNeeded(a, Head(todo[a]).lock.row)
<1> DEFINE next == Head(todo[a])
<1>1. ASSUME NEW t \in Task, Picking(a, t) PROVE RowNeeded(a, next.lock.row)
  <2>1. next.lock = ForUpdate("subscription", TaskOrg[t])
    BY <1>1 DEF Picking, Working, LockSubscription, Always
  <2>2. QED
    BY <2>1, LockRows DEF RowNeeded
<1>2. ASSUME NEW t \in Task, Looking(a, t) PROVE RowNeeded(a, next.lock.row)
  <2>1. next = RenewLease(t)
    BY <1>2 DEF Looking, Working
  <2>2. next.lock.row = <<"execution", t>>
    BY <2>1, StatementsLock, LockRows
  <2>3. QED
    BY <1>2, <2>2, WorkerOwns, InHand DEF RowNeeded
<1>3. ASSUME NEW t \in Task, NEW c \in Call, Starting(a, t, c)
      PROVE  RowNeeded(a, next.lock.row)
  <2> DEFINE mark == UpdateCall(c, callStatus[c], "executing")
  <2>1. mark.lock = Updated("call", c)
    BY StatementsLock
  <2>2. next = mark
    BY <1>3 DEF Starting, Working
  <2> HIDE DEF mark
  <2>3. next.lock.row = <<"call", c>>
    BY <2>1, <2>2, LockRows
  <2>4. QED
    BY <1>3, <2>3, OwnCall, InHand DEF RowNeeded
<1>4. ASSUME NEW t \in Task, NEW c \in Call, Raising(a, t, c)
      PROVE  RowNeeded(a, next.lock.row)
  <2> DEFINE mark == UpdateCall(c, callStatus[c], "awaiting_approval")
             park == UpdateTask(t, "running", "awaiting_approval")
  <2>1. mark.lock = Updated("call", c) /\ park.lock = Updated("task", t)
    BY StatementsLock
  <2>2. \/ todo[a] = <<mark, park>> \/ todo[a] = <<park>>
    BY <1>4 DEF Raising, Working
  <2> HIDE DEF mark, park
  <2>3. next = mark \/ next = park
    BY <2>2
  <2>4. next.lock.row = <<"call", c>> \/ next.lock.row = <<"task", t>>
    BY <2>1, <2>3, LockRows
  <2>5. QED
    BY <1>4, <2>4, OwnCall, InHand DEF RowNeeded
<1>5. ASSUME NEW t \in Task, NEW c \in Call, NEW outcome \in {"completed", "failed"},
             Recording(a, t, c, outcome)
      PROVE  RowNeeded(a, next.lock.row)
  <2> DEFINE mark == UpdateCall(c, "executing", outcome)
             add == AddUsage(t, c)
             move == MoveIndex(t, callIndex[t] + 1)
  <2>1. /\ mark.lock = Updated("call", c) /\ add.lock = Referenced("task", t)
        /\ move.lock = Updated("execution", t)
    BY StatementsLock
  <2>2. \/ todo[a] = <<mark>> \/ todo[a] = <<mark, add, move>>
        \/ todo[a] = <<add, move>> \/ todo[a] = <<move>>
    BY <1>5 DEF Recording, Working, RecordPlan
  <2> HIDE DEF mark, add, move
  <2>3. next = mark \/ next = add \/ next = move
    BY <2>2
  <2>4. \/ next.lock.row = <<"call", c>> \/ next.lock.row = <<"task", t>>
        \/ next.lock.row = <<"execution", t>>
    BY <2>1, <2>3, LockRows
  <2>5. QED
    BY <1>5, <2>4, OwnCall, InHand DEF RowNeeded
<1>6. ASSUME NEW t \in Task, Closing(a, t) PROVE RowNeeded(a, next.lock.row)
  <2> DEFINE free == ReleaseSlot(execSlot[t])
             close == UpdateTask(t, "running", Outcome(a))
  <2>1. free.lock = Updated("slot", execSlot[t]) /\ close.lock = Updated("task", t)
    BY StatementsLock
  <2>2. todo[a] = <<free, close>> \/ todo[a] = <<close>>
    BY <1>6 DEF Closing, Working
  <2> HIDE DEF free, close
  <2>3. next = free \/ next = close
    BY <2>2
  <2>4. next.lock.row = <<"slot", execSlot[t]>> \/ next.lock.row = <<"task", t>>
    BY <2>1, <2>3, LockRows
  <2>5. QED
    BY <1>6, <2>4, WorkerOwns, InHand DEF RowNeeded
<1>7. \A t \in Task : ~Passing(a, t) /\ \A s \in Slot : ~Seating(a, t, s)
  BY DEF Passing, Seating, Working
<1>8. QED
  BY <1>1, <1>2, <1>3, <1>4, <1>5, <1>6, <1>7 DEF WorkerPlan

LEMMA ClientNeeds ==
  ASSUME IInv, GateInv, NEW a \in Client, ClientPlan(a), txn[a].kind # "cancel",
         todo[a] # << >>, Matches(Head(todo[a]))
  PROVE  RowNeeded(a, Head(todo[a]).lock.row)
<1> DEFINE next == Head(todo[a])
<1>1. CASE Asking(a, txn[a])
  <2>1. next.lock = ForUpdate("request", txn[a].call) /\ txn[a].call \in Call
    BY <1>1 DEF Asking, Working, Always
  <2>2. QED
    BY <1>1, <2>1, LockRows DEF RowNeeded, Asking
<1>2. ASSUME NEW c \in Call, NEW role \in Role, Resuming(a, c, role)
      PROVE  RowNeeded(a, next.lock.row)
  <2> DEFINE t == TaskOf[c]
             resume == ResumeExecution(t)
             run == ResumeTask(t)
  <2>1. reqStatus[c] = "pending" /\ ForUpdate("request", c) \in held[a]
    BY <1>2 DEF Resuming, Working, MayDecide
  <2>2. t \in Task /\ Answers(a, c)
    BY <2>1, ColumnTypes DEF Answers
  <2>3. /\ Matches(resume) <=> execStatus[t] = "awaiting_approval"
        /\ resume.lock = Updated("execution", t) /\ run.lock = Updated("task", t)
    BY FlowsLock
  <2>4. \/ todo[a] = <<resume, run>>
        \/ execStatus[t] = "awaiting_approval" /\ todo[a] = <<run>>
    BY <1>2 DEF Resuming, Working
  <2> HIDE DEF t, resume, run
  <2>5. execStatus[t] = "awaiting_approval" /\ (next = resume \/ next = run)
    BY <2>3, <2>4
  <2>6. next.lock.row = <<"execution", t>> \/ next.lock.row = <<"task", t>>
    BY <2>3, <2>5, LockRows
  <2>7. Owns(a, t)
    BY <2>2, <2>5 DEF Owns, t
  <2>8. QED
    BY <2>2, <2>6, <2>7, InHand DEF RowNeeded
<1>3. ASSUME NEW c \in Call, NEW role, NEW decision, Rejecting(a, c, role, decision)
      PROVE  RowNeeded(a, next.lock.row)
  <2> DEFINE t == TaskOf[c]
             mark == UpdateCall(c, "awaiting_approval", "rejected")
             fail == FailExecution(t)
             free == ReleaseSlot(execSlot[t])
             end == FailTask(t)
             parked == execStatus[t] = "awaiting_approval"
  <2>1. reqStatus[c] = "pending" /\ ForUpdate("request", c) \in held[a]
    BY <1>3 DEF Rejecting, Working, MayReject, MayDecide, Expired
  <2>2. t \in Task /\ Answers(a, c)
    BY <2>1, ColumnTypes DEF Answers
  <2>3. execStatus[t] \in {"awaiting_approval", "cancelled"} /\ taskStatus[t] = execStatus[t]
    BY <2>1, PendingIsParked DEF IInv, StatusesAgree
  <2>4. /\ mark.lock = Updated("call", c) /\ free.lock = Updated("slot", execSlot[t])
        /\ Matches(fail) <=> parked
        /\ Matches(end) <=> parked
        /\ fail.lock = ForUpdate("execution", t) /\ end.lock = Updated("task", t)
    BY <2>3, StatementsLock, FlowsLock
  <2>5. \/ todo[a] = <<mark, fail, free, end>> \/ todo[a] = <<fail, free, end>>
        \/ todo[a] = <<end>> \/ (parked /\ todo[a] = <<free, end>>)
    BY <1>3 DEF Rejecting, Working
  <2> HIDE DEF t, mark, fail, free, end, parked
  <2>6. next = mark \/ (parked /\ (next = fail \/ next = free \/ next = end))
    BY <2>4, <2>5
  <2>7. \/ next.lock.row = <<"call", c>>
        \/ parked /\ \/ next.lock.row = <<"execution", t>>
                     \/ next.lock.row = <<"slot", execSlot[t]>>
                     \/ next.lock.row = <<"task", t>>
    BY <2>4, <2>6, LockRows
  <2>8. parked => Owns(a, t)
    BY <2>2 DEF Owns, parked, t
  <2>9. QED
    BY <2>2, <2>7, <2>8, InHand DEF RowNeeded
<1>4. \A t \in Task : ~Cancelling(a, t)
  BY DEF Cancelling
<1>5. QED
  BY <1>1, <1>2, <1>3, <1>4 DEF ClientPlan

(* Short of cancellations, whoever blocks a transaction is about to commit *)
(* and waits for nobody; only a decision waits for another transaction     *)
(* that is under way, and that one is no waiting decision itself.          *)
LEMMA WaitsAreShort ==
  ASSUME IInv, GateInv, LockInv, NEW a \in Actor, NEW b \in Actor, WaitsFor(a, b),
         txn[a].kind # "cancel", txn[b].kind # "cancel", todo[b] # << >>
  PROVE  txn[a].kind = "decide" /\ txn[b].kind # "decide"
<1> DEFINE row == Head(todo[a]).lock.row
<1>1. PICK h \in held[b] : h.row = row
  BY DEF WaitsFor, Blockers
<1>2. todo[a] # << >> /\ Matches(Head(todo[a])) /\ a # b
  BY DEF WaitsFor, Blockers
<1>3. RowNeeded(a, row)
  BY <1>2, Moving, WorkerNeeds, ClientNeeds DEF LockInv
<1>4. RowKnown(b, row)
  BY <1>1, Moving, WorkerKnows, ClientKnows DEF LockInv
<1>5. ~(Commands(a, row) /\ Commands(b, row))
  BY <1>2, OneCommands DEF LockInv
<1>6. ASSUME NEW t \in Task, taskStatus[t] = "queued" PROVE ~Owns(a, t)
  BY <1>6 DEF Owns, Drives, IInv, StatusesAgree
<1> HIDE DEF row
<1>7. CASE Commands(a, row)
  BY <1>4, <1>5, <1>6, <1>7 DEF RowKnown, Commands
<1>8. CASE \E t \in Task : row = <<"subscription", TaskOrg[t]>>
  BY <1>4, <1>8 DEF RowKnown, Commands
<1>9. CASE \E c \in Call : row = <<"request", c>> /\ txn[a].kind = "decide"
  BY <1>4, <1>9 DEF RowKnown, Commands
<1>10. QED
  BY <1>3, <1>7, <1>8, <1>9 DEF RowNeeded

(* Workers, approvers and sweepers alone never deadlock: in every circle   *)
(* of transactions that wait for each other there is a cancellation.       *)
THEOREM DeadlocksNeedCancel == LockSpec => []OnlyCancelDeadlocks
<1>1. ASSUME IInv, GateInv, LockInv PROVE OnlyCancelDeadlocks
  <2> SUFFICES ASSUME NEW D \in SUBSET Actor, Deadlocked(D),
                      \A a \in D : txn[a].kind # "cancel"
               PROVE  FALSE
    BY DEF OnlyCancelDeadlocks
  <2>1. PICK a \in D, b \in D : WaitsFor(a, b)
    BY DEF Deadlocked
  <2>2. PICK d \in D : WaitsFor(b, d)
    BY DEF Deadlocked
  <2>3. PICK e \in D : WaitsFor(d, e)
    BY DEF Deadlocked
  <2>4. todo[b] # << >> /\ todo[d] # << >>
    BY <2>2, <2>3 DEF WaitsFor
  <2>5. txn[b].kind # "decide" /\ txn[b].kind = "decide"
    BY <1>1, <2>1, <2>2, <2>4, WaitsAreShort
  <2>6. QED
    BY <2>5
<1>2. IInv /\ GateInv /\ LockInv => OnlyCancelDeadlocks
  BY <1>1
<1>3. QED
  BY <1>2, LocksInvariance, PTL
=============================================================================
