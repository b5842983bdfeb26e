---------------------------- MODULE FilterProofs ----------------------------
(***************************************************************************)
(* IsAllowed is membership in the set of the addresses of the listed keys, *)
(* for lists of any length: KeyStore may take the filter for that set.     *)
(***************************************************************************)
EXTENDS Filter, TLAPS

LEMMA ConfigFacts ==
  ASSUME TypeOK
  PROVE  /\ keys \in Seq(KeyText) /\ Len(keys) \in Nat
         /\ keys # <<>> /\ Len(keys) >= 1
         /\ allowedAddresses \in Seq(Address \cup {nil})
         /\ Len(allowedAddresses) \in Nat
BY FilterAssumption DEF TypeOK

LEMMA InitInv == Init => Inv
<1> SUFFICES ASSUME Init PROVE Inv
  OBVIOUS
<1>0. allowed \in BOOLEAN
  BY Zenon DEF Init
<1>1. TypeOK
  <2>1. /\ keys \in Config \ {<<>>} /\ allowedAddresses \in Seq(Address \cup {nil})
        /\ ipAddr \in Address \cup {nil} /\ i \in Nat \ {0} /\ pc = "fill"
    BY DEF Init
  <2> QED BY <1>0, <2>1, Zenon DEF TypeOK
<1>2. Len(allowedAddresses) = 0 /\ Len(keys) >= 1 /\ Len(keys) \in Nat
  BY <1>1, ConfigFacts DEF Init
<1>3. AnswerIsMembership /\ PanicExplained
  BY DEF Init, AnswerIsMembership, PanicExplained
<1> QED BY <1>1, <1>2, <1>3 DEF Init, Inv

LEMMA DecodeInv ==
  ASSUME Inv, Decode
  PROVE  Inv'
<1> DEFINE n == Len(allowedAddresses) + 1
<1>0. TypeOK
  BY DEF Inv
<1>1. n \in 1 .. Len(keys) /\ Len(keys) \in Nat
  BY <1>0, ConfigFacts DEF Inv, Decode
<1>2. AddrOf[keys[n]] \in Address \cup {nil}
  BY FilterAssumption DEF Decode
<1>3. /\ allowedAddresses' \in Seq(Address \cup {nil})
      /\ Len(allowedAddresses') = n
      /\ allowedAddresses'[n] = AddrOf[keys[n]]
      /\ \A m \in 1 .. n - 1 : allowedAddresses'[m] = allowedAddresses[m]
  BY <1>0, <1>2, ConfigFacts DEF Decode
<1>4. TypeOK'
  BY <1>0, <1>3 DEF Decode, TypeOK
<1>5. \A m \in 1 .. n : Lists(m, allowedAddresses[m])'
  <2> SUFFICES ASSUME NEW m \in 1 .. n
               PROVE  Lists(m, allowedAddresses[m])'
    OBVIOUS
  <2>1. CASE m = n
    BY <1>3, <2>1 DEF Decode, Lists
  <2>2. CASE m # n
    <3>1. m \in 1 .. n - 1 /\ Lists(m, allowedAddresses[m])
      BY <1>0, <1>1, <2>2, ConfigFacts DEF Inv
    <3> QED BY <1>3, <3>1 DEF Decode, Lists
  <2> QED BY <2>1, <2>2
<1>6. ipAddr = nil /\ pc' \in {"fill", "ready"} /\ UNCHANGED <<keys, ipAddr, i, allowed>>
  BY DEF Decode, Inv
<1>7. /\ Len(allowedAddresses') <= Len(keys')
      /\ pc' = "fill" => Len(allowedAddresses') < Len(keys')
      /\ pc' = "ready" => Len(allowedAddresses') = Len(keys')
  BY <1>1, <1>3 DEF Decode
<1>8. AnswerIsMembership' /\ PanicExplained'
  BY <1>6 DEF AnswerIsMembership, PanicExplained
<1> QED BY <1>3, <1>4, <1>5, <1>6, <1>7, <1>8 DEF Inv

LEMMA RejectInv ==
  ASSUME Inv, Reject
  PROVE  Inv'
<1> DEFINE n == Len(allowedAddresses) + 1
<1>0. TypeOK
  BY DEF Inv
<1>1. n \in 1 .. Len(keys) /\ ipAddr = nil /\ keys[n] \notin Hex
  BY <1>0, ConfigFacts DEF Inv, Reject
<1>2. PanicExplained'
  BY <1>1 DEF Reject, PanicExplained
<1>3. TypeOK' /\ AnswerIsMembership'
  BY <1>0 DEF Reject, TypeOK, AnswerIsMembership
<1> QED BY <1>2, <1>3 DEF Inv, Reject, Lists

LEMMA CallInv ==
  ASSUME Inv, NEW a \in Address, Call(a)
  PROVE  Inv'
<1>0. TypeOK
  BY DEF Inv
<1>1. TypeOK'
  <2>1. allowed' \in BOOLEAN
    BY Zenon DEF Call
  <2>2. /\ keys' \in Config \ {<<>>} /\ allowedAddresses' \in Seq(Address \cup {nil})
        /\ ipAddr' \in Address \cup {nil} /\ i' \in Nat \ {0} /\ pc' = "scan"
    BY <1>0 DEF Call, TypeOK
  <2> QED BY <2>1, <2>2, Zenon DEF TypeOK
<1>3. a # nil
  BY FilterAssumption
<1>2. AnswerIsMembership' /\ PanicExplained'
  BY DEF Call, AnswerIsMembership, PanicExplained
<1> QED BY <1>0, <1>1, <1>2, <1>3, ConfigFacts DEF Inv, Call, Lists

LEMMA HitInv ==
  ASSUME Inv, Hit
  PROVE  Inv'
<1>0. TypeOK
  BY DEF Inv
<1>1. i \in 1 .. Len(keys) /\ Lists(i, ipAddr)
  BY <1>0, ConfigFacts DEF Inv, Hit, Here, Match, TypeOK
<1>2. AnswerIsMembership' /\ PanicExplained'
  BY <1>1 DEF Hit, AnswerIsMembership, PanicExplained, Lists
<1>3. TypeOK'
  BY <1>0 DEF Hit, TypeOK
<1> QED BY <1>2, <1>3 DEF Inv, Hit, Lists

LEMMA MissInv ==
  ASSUME Inv, Miss
  PROVE  Inv'
<1>0. TypeOK
  BY DEF Inv
<1>1. TypeOK' /\ i' = i + 1 /\ i \in Nat /\ i <= Len(allowedAddresses)
  BY <1>0 DEF Miss, Here, TypeOK
<1>2. \A n \in 1 .. i : allowedAddresses[n] \notin {nil, ipAddr}
  BY <1>1 DEF Inv, Miss, Match
<1>3. AnswerIsMembership' /\ PanicExplained'
  BY DEF Miss, AnswerIsMembership, PanicExplained
<1>4. Len(allowedAddresses) \in Nat
  BY <1>0, ConfigFacts
<1> QED BY <1>1, <1>2, <1>3, <1>4 DEF Inv, Miss, Lists

LEMMA DereferenceInv ==
  ASSUME Inv, Dereference
  PROVE  Inv'
<1>0. TypeOK
  BY DEF Inv
<1>1. /\ i \in 1 .. Len(keys) /\ Lists(i, nil) /\ ipAddr # nil
      /\ \A m \in 1 .. i - 1 : Lists(m, allowedAddresses[m])
                               /\ allowedAddresses[m] # ipAddr
  BY <1>0, ConfigFacts DEF Inv, Dereference, Here, TypeOK
<1>2. \A m \in 1 .. i : ~Lists(m, ipAddr)
  <2> SUFFICES ASSUME NEW m \in 1 .. i PROVE ~Lists(m, ipAddr)
    OBVIOUS
  <2>1. CASE m = i
    BY <1>1, <2>1 DEF Lists
  <2>2. CASE m # i
    <3>1. m \in 1 .. i - 1
      BY <1>1, <2>2
    <3> QED BY <1>1, <3>1 DEF Lists
  <2> QED BY <2>1, <2>2
<1>3. PanicExplained'
  BY <1>1, <1>2 DEF Dereference, PanicExplained, Lists
<1>4. TypeOK' /\ AnswerIsMembership'
  BY <1>0 DEF Dereference, TypeOK, AnswerIsMembership
<1> QED BY <1>3, <1>4 DEF Inv, Dereference, Lists

LEMMA ReturnInv ==
  ASSUME Inv, Return
  PROVE  Inv'
<1>0. TypeOK
  BY DEF Inv
<1>1. /\ Len(allowedAddresses) = Len(keys) /\ ~allowed
      /\ \A n \in 1 .. Len(keys) : Lists(n, allowedAddresses[n])
                                   /\ allowedAddresses[n] # ipAddr
  BY <1>0, ConfigFacts DEF Inv, Return, Here, TypeOK
<1>2. \A n \in 1 .. Len(keys) : ~Lists(n, ipAddr)
  BY <1>1 DEF Lists
<1>3. AnswerIsMembership'
  BY <1>1, <1>2 DEF Return, AnswerIsMembership, Lists
<1>4. TypeOK' /\ PanicExplained'
  BY <1>0 DEF Return, TypeOK, PanicExplained
<1> QED BY <1>3, <1>4 DEF Inv, Return, Lists

LEMMA StepInv == Inv /\ [Next]_vars => Inv'
<1> SUFFICES ASSUME Inv, [Next]_vars PROVE Inv'
  OBVIOUS
<1>1. CASE Next
  BY <1>1, DecodeInv, RejectInv, CallInv, HitInv, MissInv, DereferenceInv,
     ReturnInv DEF Next
<1>2. CASE UNCHANGED vars
  BY <1>2 DEF vars, Inv, TypeOK, Lists, AnswerIsMembership, PanicExplained
<1> QED BY <1>1, <1>2

\* The scan's invariant, for any list of keys.
THEOREM Invariance == Spec => []Inv
BY InitInv, StepInv, PTL DEF Spec

\* The state of the filter keeps its type.
THEOREM TypeCorrect == Spec => []TypeOK
<1>1. Inv => TypeOK
  BY DEF Inv
<1> QED BY <1>1, Invariance, PTL

\* IsAllowed answers membership, for any list of keys.
THEOREM FilterCorrect == Spec => []AnswerIsMembership
<1>1. Inv => AnswerIsMembership
  BY DEF Inv
<1> QED BY <1>1, Invariance, PTL

\* The program stops only for a malformed key that no match precedes.
THEOREM PanicsExplained == Spec => []PanicExplained
<1>1. Inv => PanicExplained
  BY DEF Inv
<1> QED BY <1>1, Invariance, PTL
=============================================================================
