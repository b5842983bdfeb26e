\* Every list of up to three keys, well-formed or not, and every address.
SPECIFICATION Spec
CONSTANTS
  lower = lower
  upper = upper
  another = another
  short = short
  text = text
  a1 = a1
  a2 = a2
  a3 = a3
  nil = nil
  KeyText = {lower, upper, another, short, text}
  Hex = {lower, upper, another, short}
  Address = {a1, a2, a3}
  AddrOf <- AddressOfText
  Config <- UpToThree
INVARIANT TypeOK
INVARIANT AnswerIsMembership
INVARIANT PanicExplained
\* A panic is the end.
CHECK_DEADLOCK FALSE
