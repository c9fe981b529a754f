----------------------------- MODULE Invoicing -----------------------------
(***************************************************************************)
(* billing.Service.Generate, run by several API instances, against workers *)
(* that write usage_records meanwhile.  It concerns one organization: the  *)
(* queries of another one touch none of its rows.                          *)
(*                                                                         *)
(* Generate is a READ COMMITTED transaction of two statements, the sum and *)
(* the insert.  recorded_at is the database's now(), which is the time at  *)
(* which the transaction of recordCall began, not when it commits.         *)
(***************************************************************************)
EXTENDS Integers, FiniteSetsExt

CONSTANTS
  Call,           \* the tool calls that may be charged
  Cost,           \* their actual_cost_usd, in cents; it may be negative
  Generator,      \* requests to generate an invoice
  LastMonth,      \* bound: how long the model runs
  NoInvoice

Month == 1 .. LastMonth

ASSUME InvoicingConstants ==
  LastMonth \in Nat \ {0} /\ Cost \in [Call -> Int] /\ NoInvoice \notin Generator

VARIABLES
  month,
  record,         \* usage_records: is the row of the call absent, written, committed?
  recordedIn,     \* the month of its recorded_at
  at, period,     \* how far each request has come, and for which month
  seen,           \* its local variables total and count
  invoices,       \* the table; an invoice is named by the request that inserts it
  reply,          \* the invoice each request was answered
  created         \* and whether it was answered that it is new

recordVars == <<record, recordedIn>>
requestVars == <<at, period, seen, reply, created>>
vars == <<month, recordVars, requestVars, invoices>>

Sums == [total : Int, lines : Nat]
Invoice == [id : Generator, period : Month, sums : Sums]

TypeOK ==
  /\ month \in Month
  /\ record \in [Call -> {"absent", "written", "committed"}]
  /\ recordedIn \in [Call -> Month]
  /\ at \in [Generator -> {"start", "insert", "done"}]
  /\ period \in [Generator -> Month]
  /\ seen \in [Generator -> Sums]
  /\ invoices \subseteq Invoice
  /\ reply \in [Generator -> invoices \cup {NoInvoice}]
  /\ created \in [Generator -> BOOLEAN]

Init ==
  /\ month = 1
  /\ record = [c \in Call |-> "absent"]
  /\ recordedIn = [c \in Call |-> 1]
  /\ at = [g \in Generator |-> "start"]
  /\ period = [g \in Generator |-> 1]
  /\ seen = [g \in Generator |-> [total |-> 0, lines |-> 0]]
  /\ invoices = {}
  /\ reply = [g \in Generator |-> NoInvoice]
  /\ created = [g \in Generator |-> FALSE]

-----------------------------------------------------------------------------
(* recordCall: the row is stamped, written, and visible after the commit;  *)
(* a worker that dies before leaves nothing, and another one comes later.  *)
WriteRecord(c) ==
  /\ record[c] = "absent"
  /\ record' = [record EXCEPT ![c] = "written"]
  /\ recordedIn' = [recordedIn EXCEPT ![c] = month]
  /\ UNCHANGED <<month, requestVars, invoices>>

SettleRecord(c) ==
  /\ record[c] = "written"
  /\ \E outcome \in {"committed", "absent"} :
       record' = [record EXCEPT ![c] = outcome]
  /\ UNCHANGED <<month, recordedIn, requestVars, invoices>>

MonthPasses ==
  /\ month < LastMonth
  /\ month' = month + 1
  /\ UNCHANGED <<recordVars, requestVars, invoices>>

-----------------------------------------------------------------------------
(* Mutant: recorded_at has no upper bound. *)
InPeriodOrLater(m) == {c \in Call : record[c] = "committed" /\ recordedIn[c] >= m}

InPeriod(m) == {c \in Call : record[c] = "committed" /\ recordedIn[c] = m}

CostOf(c) == Cost[c]
SumsOf(calls) ==
  [total |-> MapThenSumSet(CostOf, calls), lines |-> Cardinality(calls)]

(* The handler takes any month, by default the present one. *)
SumUsage(g) ==
  /\ at[g] = "start"
  /\ \E m \in Month :
       /\ period' = [period EXCEPT ![g] = m]
       /\ seen' = [seen EXCEPT ![g] = SumsOf(InPeriod(m))]
  /\ at' = [at EXCEPT ![g] = "insert"]
  /\ UNCHANGED <<month, recordVars, invoices, reply, created>>

NewInvoice(g) == [id |-> g, period |-> period[g], sums |-> seen[g]]
InvoicesOf(m) == {inv \in invoices : inv.period = m}

(* Mutants: on conflict do update; the loser answers its own sums.         *)
InsertOrReplace(g) == (invoices \ InvoicesOf(period[g])) \cup {NewInvoice(g)}
AnswerOwn(g) == NewInvoice(g)

(* insert ... on conflict (org_id, period_start) do nothing: it waits for  *)
(* another insert of the same period that has not committed.               *)
InsertIfNone(g) ==
  IF InvoicesOf(period[g]) = {} THEN invoices \cup {NewInvoice(g)} ELSE invoices

(* The loser reads the invoice that exists.                                *)
AnswerOf(g) ==
  IF InvoicesOf(period[g]) = {} THEN NewInvoice(g)
                                ELSE CHOOSE inv \in InvoicesOf(period[g]) : TRUE

InsertInvoice(g) ==
  /\ at[g] = "insert"
  /\ at' = [at EXCEPT ![g] = "done"]
  /\ invoices' = InsertIfNone(g)
  /\ reply' = [reply EXCEPT ![g] = AnswerOf(g)]
  /\ created' = [created EXCEPT ![g] = InvoicesOf(period[g]) = {}]
  /\ UNCHANGED <<month, recordVars, period, seen>>

(* Any statement may fail; the transaction rolls back. *)
Fail(g) ==
  /\ at[g] # "done"
  /\ at' = [at EXCEPT ![g] = "done"]
  /\ UNCHANGED <<month, recordVars, period, seen, invoices, reply, created>>

Next ==
  \/ MonthPasses
  \/ \E c \in Call : WriteRecord(c) \/ SettleRecord(c)
  \/ \E g \in Generator : SumUsage(g) \/ InsertInvoice(g) \/ Fail(g)

Spec == Init /\ [][Next]_vars

-----------------------------------------------------------------------------
(* All requests for one month are answered the same invoice, and one of    *)
(* them at most is told that it is new.                                    *)
GeneratorsAgree ==
  \A g, h \in Generator :
    reply[g] # NoInvoice /\ reply[h] # NoInvoice /\ period[g] = period[h] =>
      /\ reply[g] = reply[h]
      /\ created[g] /\ created[h] => g = h

(* An invoice, once issued, is neither replaced nor changed nor joined by  *)
(* another one for its month.                                              *)
InvoiceStays ==
  [][\A m \in Month : InvoicesOf(m) # {} => InvoicesOf(m)' = InvoicesOf(m)]_vars

(* An invoice charges calls that were recorded in its month and no others, *)
(* each once, although usage of all months is recorded while it is drawn   *)
(* up; what it charged then is still recorded.                             *)
RecordsOf(m) == {c \in Call : record[c] = "committed" /\ recordedIn[c] = m}

Charges(sums, calls) ==
  sums.total = MapThenSumSet(CostOf, calls) /\ sums.lines = Cardinality(calls)

InvoiceIsOfUsage ==
  \A inv \in invoices :
    \E calls \in SUBSET RecordsOf(inv.period) : Charges(inv.sums, calls)
=============================================================================
