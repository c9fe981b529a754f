-------------------------- MODULE InvoicingProofs ---------------------------
(***************************************************************************)
(* One invoice per month, and nothing on it but what was recorded, proved  *)
(* for every number of requests, calls and months, and for any costs, also *)
(* negative ones.  What the invoice sums up plays no part in the first.    *)
(***************************************************************************)
EXTENDS Invoicing, SumProofs

(* The unique index on the month of an invoice, and that an answer is the  *)
(* row of that month, which keeps the name of the request that made it.    *)
OnePerMonth == \A i, j \in invoices : i.period = j.period => i = j

AnswersAreRows ==
  \A g \in Generator :
    /\ reply[g] # NoInvoice => reply[g] \in invoices /\ reply[g].period = period[g]
    /\ created[g] /\ reply[g] # NoInvoice => reply[g].id = g
    /\ at[g] # "done" => reply[g] = NoInvoice

InvoiceInv ==
  /\ at = [g \in Generator |-> at[g]]
  /\ period = [g \in Generator |-> period[g]]
  /\ reply = [g \in Generator |-> reply[g]]
  /\ created = [g \in Generator |-> created[g]]
  /\ OnePerMonth
  /\ AnswersAreRows

LEMMA InvoiceInit == Init => InvoiceInv
  BY DEF Init, InvoiceInv, OnePerMonth, AnswersAreRows

(* A request whose insert meets a row of its month answers that row; any   *)
(* other insert adds the only one.                                         *)
LEMMA InsertStep ==
  ASSUME InvoiceInv, NEW g \in Generator, InsertInvoice(g)
  PROVE  /\ InvoiceInv'
         /\ \A m \in Month : InvoicesOf(m) # {} => InvoicesOf(m)' = InvoicesOf(m)
<1> DEFINE new == NewInvoice(g)
<1>1. /\ at' = [at EXCEPT ![g] = "done"]
      /\ invoices' = InsertIfNone(g)
      /\ reply' = [reply EXCEPT ![g] = AnswerOf(g)]
      /\ created' = [created EXCEPT ![g] = InvoicesOf(period[g]) = {}]
      /\ period' = period
  BY DEF InsertInvoice
<1>2. new.period = period[g] /\ new.id = g
  BY DEF NewInvoice
<1>3. CASE InvoicesOf(period[g]) = {}
  <2>1. invoices' = invoices \cup {new} /\ AnswerOf(g) = new
    BY <1>1, <1>3 DEF InsertIfNone, AnswerOf
  <2>2. \A i \in invoices : i.period # new.period
    BY <1>2, <1>3 DEF InvoicesOf
  <2>3. OnePerMonth'
    BY <2>1, <2>2 DEF InvoiceInv, OnePerMonth
  <2>4. AnswersAreRows'
    BY <1>1, <1>2, <1>3, <2>1 DEF InvoiceInv, AnswersAreRows
  <2>5. \A m \in Month : InvoicesOf(m) # {} => InvoicesOf(m)' = InvoicesOf(m)
    BY <1>2, <1>3, <2>1 DEF InvoicesOf
  <2>6. QED
    BY <1>1, <2>3, <2>4, <2>5 DEF InvoiceInv
<1>4. CASE InvoicesOf(period[g]) # {}
  <2>1. invoices' = invoices
    BY <1>1, <1>4 DEF InsertIfNone
  <2>2. AnswerOf(g) \in invoices /\ AnswerOf(g).period = period[g]
    BY <1>4 DEF AnswerOf, InvoicesOf
  <2>3. created'[g] = FALSE
    BY <1>1, <1>4 DEF InvoiceInv
  <2>4. AnswersAreRows'
    BY <1>1, <2>1, <2>2, <2>3 DEF InvoiceInv, AnswersAreRows
  <2>5. QED
    BY <1>1, <2>1, <2>4 DEF InvoiceInv, OnePerMonth, InvoicesOf
<1>5. QED
  BY <1>3, <1>4

LEMMA InvoiceStep ==
  ASSUME InvoiceInv, [Next]_vars
  PROVE  /\ InvoiceInv'
         /\ \A m \in Month : InvoicesOf(m) # {} => InvoicesOf(m)' = InvoicesOf(m)
<1>1. ASSUME NEW g \in Generator, SumUsage(g) PROVE InvoiceInv' /\ invoices' = invoices
  <2>1. /\ at[g] = "start" /\ at' = [at EXCEPT ![g] = "insert"]
        /\ \E m \in Month : period' = [period EXCEPT ![g] = m]
        /\ UNCHANGED <<invoices, reply, created>>
    BY <1>1 DEF SumUsage
  <2>2. QED
    BY <2>1 DEF InvoiceInv, OnePerMonth, AnswersAreRows
<1>2. ASSUME NEW g \in Generator, Fail(g) PROVE InvoiceInv' /\ invoices' = invoices
  BY <1>2 DEF Fail, InvoiceInv, OnePerMonth, AnswersAreRows
<1>3. CASE \/ MonthPasses \/ UNCHANGED vars
           \/ \E c \in Call : WriteRecord(c) \/ SettleRecord(c)
  <2>1. UNCHANGED <<at, period, reply, created, invoices>>
    BY <1>3 DEF MonthPasses, WriteRecord, SettleRecord, requestVars, vars
  <2>2. QED
    BY <2>1 DEF InvoiceInv, OnePerMonth, AnswersAreRows, InvoicesOf
<1>4. QED
  BY <1>1, <1>2, <1>3, InsertStep DEF Next, InvoicesOf

LEMMA InvoiceInvariance == Spec => []InvoiceInv
  BY InvoiceInit, InvoiceStep, PTL DEF Spec

(* Whoever asks for the invoice of a month is answered the same one, and   *)
(* one of them at most is told that it is new.                             *)
THEOREM RequestsAgree == Spec => []GeneratorsAgree
<1>1. InvoiceInv => GeneratorsAgree
  BY DEF InvoiceInv, OnePerMonth, AnswersAreRows, GeneratorsAgree
<1>2. QED
  BY <1>1, InvoiceInvariance, PTL

(* An invoice is never replaced, changed or joined by another one.         *)
THEOREM InvoicesStay == Spec => InvoiceStays
<1>1. InvoiceInv /\ [Next]_vars =>
        [\A m \in Month : InvoicesOf(m) # {} => InvoicesOf(m)' = InvoicesOf(m)]_vars
  BY InvoiceStep
<1>2. QED
  BY <1>1, InvoiceInvariance, PTL DEF Spec, InvoiceStays

-----------------------------------------------------------------------------
(* The sums.  A sum and a count are taken of the rows that are in.         *)
Rows == {c \in Call : record[c] # "absent"}

(* Why: the calls that a request has added up remain recorded in their     *)
(* month, whatever is recorded after them.                                 *)
SeenIsOfUsage ==
  \A g \in Generator : at[g] = "insert" =>
    \E calls \in SUBSET RecordsOf(period[g]) : Charges(seen[g], calls)

UsageInv ==
  /\ TypeOK
  /\ IsFiniteSet(Rows)
  /\ SeenIsOfUsage
  /\ InvoiceIsOfUsage

LEMMA MonthOne == 1 \in Month
  BY InvoicingConstants DEF Month

LEMMA CostsAddUp ==
  ASSUME NEW calls \in SUBSET Call, IsFiniteSet(calls)
  PROVE  MapThenSumSet(CostOf, calls) \in Int /\ Cardinality(calls) \in Nat
<1>1. MapThenSumSet(CostOf, calls) = SumFunctionOnSet(Cost, calls)
  BY Zenon DEF MapThenSumSet, CostOf, SumFunctionOnSet, FoldFunctionOnSet, MapThenFoldSet
<1>2. \A c \in calls : Cost[c] \in Int
  BY InvoicingConstants
<1>3. QED
  BY <1>1, <1>2, SumIsAnInteger, FS_CardinalityType

LEMMA UsageInit == Init => UsageInv
<1>1. SUFFICES ASSUME Init PROVE UsageInv
  OBVIOUS
<1>2. Rows = {} /\ invoices = {}
  BY <1>1 DEF Init, Rows
<1>3. TypeOK
  BY <1>1, MonthOne DEF Init, TypeOK, Sums
<1>4. SeenIsOfUsage
  BY <1>1 DEF Init, SeenIsOfUsage
<1>5. QED
  BY <1>2, <1>3, <1>4, FS_EmptySet DEF UsageInv, InvoiceIsOfUsage

(* Every step keeps what is committed; the row of a call is there from the *)
(* time it is written.                                                     *)
LEMMA RecordsStay ==
  ASSUME UsageInv, [Next]_vars
  PROVE  /\ IsFiniteSet(Rows')
         /\ \A c \in Call : record[c] = "committed" =>
              record'[c] = "committed" /\ recordedIn'[c] = recordedIn[c]
         /\ record' \in [Call -> {"absent", "written", "committed"}]
         /\ recordedIn' \in [Call -> Month] /\ month' \in Month
<1>1. /\ record \in [Call -> {"absent", "written", "committed"}]
      /\ recordedIn \in [Call -> Month] /\ month \in Month /\ IsFiniteSet(Rows)
  BY DEF UsageInv, TypeOK, Rows
<1>2. ASSUME NEW c \in Call, WriteRecord(c) \/ SettleRecord(c)
      PROVE  /\ Rows' \subseteq Rows \cup {c} /\ UNCHANGED month
             /\ \A d \in Call : record[d] = "committed" =>
                  record'[d] = "committed" /\ recordedIn'[d] = recordedIn[d]
             /\ record' \in [Call -> {"absent", "written", "committed"}]
             /\ recordedIn' \in [Call -> Month]
  BY <1>1, <1>2 DEF WriteRecord, SettleRecord, Rows
<1>3. ASSUME NEW c \in Call, WriteRecord(c) \/ SettleRecord(c) PROVE IsFiniteSet(Rows')
  <2>1. IsFiniteSet(Rows \cup {c})
    BY <1>1, FS_AddElement
  <2>2. QED
    BY <1>2, <1>3, <2>1, FS_Subset
<1>4. CASE MonthPasses
  <2>1. UNCHANGED recordVars /\ month' \in Month
    BY <1>1, <1>4, InvoicingConstants DEF MonthPasses, Month
  <2>2. QED
    BY <1>1, <2>1 DEF recordVars, Rows
<1>5. CASE \/ UNCHANGED vars
           \/ \E g \in Generator : SumUsage(g) \/ InsertInvoice(g) \/ Fail(g)
  <2>1. UNCHANGED <<record, recordedIn, month>>
    BY <1>5 DEF vars, recordVars, SumUsage, InsertInvoice, Fail
  <2>2. QED
    BY <1>1, <2>1 DEF Rows
<1>6. QED
  BY <1>1, <1>2, <1>3, <1>4, <1>5 DEF Next

(* A request reads the rows of one month that are committed by then.       *)
LEMMA SummingUp ==
  ASSUME UsageInv, NEW g \in Generator, SumUsage(g)
  PROVE  /\ seen' \in [Generator -> Sums] /\ period' \in [Generator -> Month]
         /\ Charges(seen'[g], RecordsOf(period'[g]))
         /\ \A h \in Generator \ {g} :
              seen'[h] = seen[h] /\ period'[h] = period[h] /\ at'[h] = at[h]
<1>1. TypeOK /\ IsFiniteSet(Rows)
  BY DEF UsageInv
<1>2. PICK m \in Month : /\ period' = [period EXCEPT ![g] = m]
                         /\ seen' = [seen EXCEPT ![g] = SumsOf(InPeriod(m))]
  BY DEF SumUsage
<1>3. InPeriod(m) = RecordsOf(m) /\ InPeriod(m) \subseteq Rows /\ InPeriod(m) \subseteq Call
  BY DEF InPeriod, RecordsOf, Rows
<1>4. MapThenSumSet(CostOf, InPeriod(m)) \in Int /\ Cardinality(InPeriod(m)) \in Nat
  BY <1>1, <1>3, FS_Subset, CostsAddUp
<1>5. SumsOf(InPeriod(m)) \in Sums
  BY <1>1, <1>4 DEF SumsOf, Sums, TypeOK
<1>6. Charges(SumsOf(InPeriod(m)), RecordsOf(m))
  BY <1>3 DEF SumsOf, Charges
<1>7. seen'[g] = SumsOf(InPeriod(m)) /\ period'[g] = m
  BY <1>1, <1>2 DEF TypeOK
<1>8. \A h \in Generator \ {g} :
        seen'[h] = seen[h] /\ period'[h] = period[h] /\ at'[h] = at[h]
  BY <1>1, <1>2 DEF TypeOK, SumUsage
<1>9. seen' \in [Generator -> Sums] /\ period' \in [Generator -> Month]
  BY <1>1, <1>2, <1>5 DEF TypeOK
<1>10. QED
  BY <1>6, <1>7, <1>8, <1>9

(* What is inserted, if anything, is what the request has read.            *)
LEMMA Inserting ==
  ASSUME UsageInv, NEW g \in Generator, InsertInvoice(g)
  PROVE  /\ invoices' \subseteq Invoice
         /\ reply' \in [Generator -> invoices' \cup {NoInvoice}]
         /\ \A inv \in invoices' :
              \E calls \in SUBSET RecordsOf(inv.period) : Charges(inv.sums, calls)
<1> DEFINE new == NewInvoice(g)
<1>1. TypeOK
  BY DEF UsageInv
<1>2. /\ invoices' = InsertIfNone(g) /\ at[g] = "insert"
      /\ reply' = [reply EXCEPT ![g] = AnswerOf(g)]
  BY DEF InsertInvoice
<1>3. new.period = period[g] /\ new.sums = seen[g] /\ new \in Invoice
  BY <1>1 DEF NewInvoice, Invoice, TypeOK
<1>4. /\ invoices' \subseteq invoices \cup {new}
      /\ invoices \cup {AnswerOf(g)} \subseteq invoices'
  <2>1. CASE InvoicesOf(period[g]) = {}
    BY <1>2, <2>1 DEF InsertIfNone, AnswerOf
  <2>2. CASE InvoicesOf(period[g]) # {}
    <3>1. AnswerOf(g) \in invoices
      BY <2>2 DEF AnswerOf, InvoicesOf
    <3>2. QED
      BY <1>2, <2>2, <3>1 DEF InsertIfNone
  <2>3. QED
    BY <2>1, <2>2
<1>5. reply' \in [Generator -> invoices' \cup {NoInvoice}]
  BY <1>1, <1>2, <1>4 DEF TypeOK
<1>6. invoices' \subseteq Invoice
  BY <1>1, <1>3, <1>4 DEF TypeOK
<1>7. \E calls \in SUBSET RecordsOf(new.period) : Charges(new.sums, calls)
  <2>1. \E calls \in SUBSET RecordsOf(period[g]) : Charges(seen[g], calls)
    BY <1>2 DEF UsageInv, SeenIsOfUsage
  <2>2. QED
    BY <1>3, <2>1
<1>8. \A inv \in invoices' :
        \E calls \in SUBSET RecordsOf(inv.period) : Charges(inv.sums, calls)
  BY <1>4, <1>7 DEF UsageInv, InvoiceIsOfUsage
<1>9. QED
  BY <1>5, <1>6, <1>8

LEMMA UsageStep == UsageInv /\ [Next]_vars => UsageInv'
<1>1. SUFFICES ASSUME UsageInv, [Next]_vars PROVE UsageInv'
  OBVIOUS
<1>2. TypeOK /\ SeenIsOfUsage /\ InvoiceIsOfUsage
  BY <1>1 DEF UsageInv
<1>3. /\ at' \in [Generator -> {"start", "insert", "done"}]
      /\ created' \in [Generator -> BOOLEAN]
  BY <1>1, <1>2 DEF Next, vars, requestVars, MonthPasses, WriteRecord, SettleRecord,
     SumUsage, InsertInvoice, Fail, TypeOK
<1>4. /\ seen' \in [Generator -> Sums] /\ period' \in [Generator -> Month]
      /\ \A g \in Generator : at'[g] = "insert" =>
           \E calls \in SUBSET RecordsOf(period'[g]) : Charges(seen'[g], calls)
  <2>1. ASSUME UNCHANGED <<seen, period>>,
               \A g \in Generator : at'[g] = "insert" => at[g] = "insert"
        PROVE  /\ seen' \in [Generator -> Sums] /\ period' \in [Generator -> Month]
               /\ \A g \in Generator : at'[g] = "insert" =>
                    \E calls \in SUBSET RecordsOf(period'[g]) : Charges(seen'[g], calls)
    BY <1>2, <2>1 DEF TypeOK, SeenIsOfUsage
  <2>2. ASSUME NEW g \in Generator, SumUsage(g)
        PROVE  /\ seen' \in [Generator -> Sums] /\ period' \in [Generator -> Month]
               /\ \A h \in Generator : at'[h] = "insert" =>
                    \E calls \in SUBSET RecordsOf(period'[h]) : Charges(seen'[h], calls)
    BY <1>1, <1>2, <2>2, SummingUp DEF SeenIsOfUsage
  <2>3. ASSUME NEW g \in Generator, InsertInvoice(g) \/ Fail(g)
        PROVE  /\ UNCHANGED <<seen, period>>
               /\ \A h \in Generator : at'[h] = "insert" => at[h] = "insert"
    BY <1>2, <2>3 DEF InsertInvoice, Fail, TypeOK
  <2>4. CASE \/ MonthPasses \/ UNCHANGED vars
             \/ \E c \in Call : WriteRecord(c) \/ SettleRecord(c)
    BY <2>1, <2>4 DEF MonthPasses, WriteRecord, SettleRecord, requestVars, vars
  <2>5. CASE \E g \in Generator : InsertInvoice(g) \/ Fail(g)
    BY <2>1, <2>3, <2>5
  <2>6. QED
    BY <1>1, <2>2, <2>4, <2>5 DEF Next
<1>5. /\ invoices' \subseteq Invoice
      /\ reply' \in [Generator -> invoices' \cup {NoInvoice}]
      /\ \A inv \in invoices' :
           \E calls \in SUBSET RecordsOf(inv.period) : Charges(inv.sums, calls)
  <2>1. CASE UNCHANGED <<invoices, reply>>
    BY <1>2, <2>1 DEF TypeOK, InvoiceIsOfUsage
  <2>2. CASE \E g \in Generator : InsertInvoice(g)
    BY <1>1, <2>2, Inserting
  <2>3. QED
    BY <1>1, <2>1, <2>2 DEF Next, vars, requestVars, MonthPasses, WriteRecord,
       SettleRecord, SumUsage, Fail
<1>6. TypeOK'
  BY <1>1, <1>3, <1>4, <1>5, RecordsStay DEF TypeOK
<1>7. \A m \in Month : RecordsOf(m) \subseteq RecordsOf(m)'
  BY <1>1, RecordsStay DEF RecordsOf
<1>8. ASSUME NEW sums, NEW m \in Month, NEW calls \in SUBSET RecordsOf(m), Charges(sums, calls)
      PROVE  \E some \in SUBSET RecordsOf(m)' : Charges(sums, some)
  BY <1>7, <1>8
<1>9. \A g \in Generator : at'[g] = "insert" =>
        \E calls \in SUBSET RecordsOf(period[g])' : Charges(seen'[g], calls)
  <2>1. ASSUME NEW g \in Generator, at'[g] = "insert"
        PROVE  \E calls \in SUBSET RecordsOf(period[g])' : Charges(seen'[g], calls)
    <3>1. PICK m \in Month : m = period'[g]
      BY <1>4
    <3>2. \E calls \in SUBSET RecordsOf(m)' : Charges(seen'[g], calls)
      BY <1>4, <1>8, <2>1, <3>1
    <3>3. RecordsOf(m)' = RecordsOf(period[g])'
      BY <3>1 DEF RecordsOf
    <3>4. QED
      BY <3>2, <3>3
  <2>2. QED
    BY <2>1
<1>10. \A inv \in invoices' :
         \E calls \in SUBSET RecordsOf(inv.period)' : Charges(inv.sums, calls)
  <2>1. ASSUME NEW inv \in invoices'
        PROVE  \E calls \in SUBSET RecordsOf(inv.period)' : Charges(inv.sums, calls)
    <3>1. PICK m \in Month : m = inv.period
      BY <1>5 DEF Invoice
    <3>2. \E calls \in SUBSET RecordsOf(m)' : Charges(inv.sums, calls)
      BY <1>5, <1>8, <3>1
    <3>3. QED
      BY <3>1, <3>2 DEF RecordsOf
  <2>2. QED
    BY <2>1
<1>11. SeenIsOfUsage' /\ InvoiceIsOfUsage'
  BY <1>9, <1>10 DEF SeenIsOfUsage, InvoiceIsOfUsage, Charges
<1>12. IsFiniteSet(Rows')
  BY <1>1, RecordsStay
<1>13. QED
  BY <1>6, <1>11, <1>12 DEF UsageInv

LEMMA UsageInvariance == Spec => []UsageInv
  BY UsageInit, UsageStep, PTL DEF Spec

(* Type correctness: what Generate reads, writes and answers.              *)
THEOREM InvoicingTyped == Spec => []TypeOK
<1>1. UsageInv => TypeOK
  BY DEF UsageInv
<1>2. QED
  BY <1>1, UsageInvariance, PTL

(* An invoice charges calls that usage_records has for its month, and      *)
(* nothing else.                                                           *)
THEOREM InvoicesAreOfUsage == Spec => []InvoiceIsOfUsage
<1>1. UsageInv => InvoiceIsOfUsage
  BY DEF UsageInv
<1>2. QED
  BY <1>1, UsageInvariance, PTL
=============================================================================
