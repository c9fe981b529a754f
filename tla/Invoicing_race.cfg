SPECIFICATION Spec
CONSTANTS
  c1 = c1
  c2 = c2
  NoInvoice = NoInvoice
  Call = {c1, c2}
  Cost <- Costs
  Generator = {g1, g2, g3}
  LastMonth = 2
SYMMETRY Symmetry
INVARIANTS
  TypeOK
  GeneratorsAgree
  InvoiceIsOfUsage
PROPERTIES
  InvoiceStays
CHECK_DEADLOCK FALSE
