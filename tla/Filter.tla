------------------------------- MODULE Filter -------------------------------
(***************************************************************************)
(* The filter of src/filter/filter.go: NewFilter turns the configured keys *)
(* into a slice of pointers to addresses, and IsAllowed scans the slice.   *)
(*                                                                         *)
(* KeyStore takes the filter for a set of addresses.  This module says     *)
(* when it is one.  A key that is not hex stops the program in NewFilter;  *)
(* one that is hex but has not the length of a public key becomes a nil    *)
(* pointer, which stops the program in the first scan that reaches it.     *)
(***************************************************************************)
EXTENDS Naturals, Sequences

CONSTANTS
  KeyText,    \* strings the configuration may list
  Hex,        \* those that hex.DecodeString accepts
  Address,    \* addresses a packet may have
  AddrOf,     \* address.AddrForKey of the decoded text, nil for a wrong length
  Config,     \* lists of keys a configuration may hold
  nil

ASSUME FilterAssumption ==
  /\ Hex \subseteq KeyText
  /\ AddrOf \in [Hex -> Address \cup {nil}]
  /\ nil \notin Address
  /\ Config \subseteq Seq(KeyText)

VARIABLES
  keys,              \* allowedKeys, the argument of NewFilter
  allowedAddresses,  \* f.allowedAddresses, as far as it is filled
  ipAddr,            \* the argument of the last IsAllowed, nil before the first
  i,                 \* where its scan is
  pc,                \* "fill", "ready", "scan" or "panic"
  allowed            \* what it returned

vars == <<keys, allowedAddresses, ipAddr, i, pc, allowed>>

\* A configuration without keys is rejected before NewFilter (Node.tla).
Init ==
  /\ keys \in Config \ {<<>>}
  /\ allowedAddresses = <<>>
  /\ ipAddr = nil
  /\ i = 1
  /\ pc = "fill"
  /\ allowed = FALSE

-----------------------------------------------------------------------------
(* NewFilter, one key at a time.                                           *)

Mutant_Decode_KeepsText ==
  LET n == Len(allowedAddresses) + 1 IN
  /\ pc = "fill"
  /\ keys[n] \in Hex
  /\ allowedAddresses' = Append(allowedAddresses, keys[n])
  /\ pc' = IF n = Len(keys) THEN "ready" ELSE "fill"
  /\ UNCHANGED <<keys, ipAddr, i, allowed>>
Decode ==
  LET n == Len(allowedAddresses) + 1 IN
  /\ pc = "fill"
  /\ keys[n] \in Hex
  /\ allowedAddresses' = Append(allowedAddresses, AddrOf[keys[n]])
  /\ pc' = IF n = Len(keys) THEN "ready" ELSE "fill"
  /\ UNCHANGED <<keys, ipAddr, i, allowed>>

Mutant_Reject_StoresNil ==
  LET n == Len(allowedAddresses) + 1 IN
  /\ pc = "fill"
  /\ keys[n] \notin Hex
  /\ allowedAddresses' = Append(allowedAddresses, nil)
  /\ pc' = IF n = Len(keys) THEN "ready" ELSE "fill"
  /\ UNCHANGED <<keys, ipAddr, i, allowed>>
Reject ==
  /\ pc = "fill"
  /\ keys[Len(allowedAddresses) + 1] \notin Hex
  /\ pc' = "panic"
  /\ UNCHANGED <<keys, allowedAddresses, ipAddr, i, allowed>>

-----------------------------------------------------------------------------
(* IsAllowed, one pointer at a time.  It only reads the filter, so calls   *)
(* that run at the same time do not affect one another.                    *)

Call(a) ==
  /\ pc = "ready"
  /\ ipAddr' = a
  /\ i' = 1
  /\ pc' = "scan"
  /\ allowed' = FALSE
  /\ UNCHANGED <<keys, allowedAddresses>>

\* The next pointer may be dereferenced, and its address is the one asked for.
Here == i <= Len(allowedAddresses)
Match == allowedAddresses[i] = ipAddr

Hit ==
  /\ pc = "scan" /\ Here /\ Match
  /\ allowed' = TRUE
  /\ pc' = "ready"
  /\ UNCHANGED <<keys, allowedAddresses, ipAddr, i>>

Miss ==
  /\ pc = "scan" /\ Here /\ allowedAddresses[i] # nil /\ ~Match
  /\ i' = i + 1
  /\ UNCHANGED <<keys, allowedAddresses, ipAddr, pc, allowed>>

Dereference ==
  /\ pc = "scan" /\ Here /\ allowedAddresses[i] = nil
  /\ pc' = "panic"
  /\ UNCHANGED <<keys, allowedAddresses, ipAddr, i, allowed>>

Mutant_Return_Early ==
  /\ pc = "scan" /\ i >= Len(allowedAddresses)
  /\ pc' = "ready"
  /\ UNCHANGED <<keys, allowedAddresses, ipAddr, i, allowed>>
Return ==
  /\ pc = "scan" /\ ~Here
  /\ pc' = "ready"
  /\ UNCHANGED <<keys, allowedAddresses, ipAddr, i, allowed>>

Next ==
  \/ Decode \/ Reject
  \/ \E a \in Address : Call(a)
  \/ Hit \/ Miss \/ Dereference \/ Return

Spec == Init /\ [][Next]_vars

-----------------------------------------------------------------------------

TypeOK ==
  /\ keys \in Config \ {<<>>}
  /\ allowedAddresses \in Seq(Address \cup {nil})
  /\ ipAddr \in Address \cup {nil}
  /\ i \in Nat \ {0}
  /\ pc \in {"fill", "ready", "scan", "panic"}
  /\ allowed \in BOOLEAN

\* The n-th key of the configuration is hex, and a is its address, or nil.
Lists(n, a) == keys[n] \in Hex /\ AddrOf[keys[n]] = a

\* An answer is membership: IsAllowed says yes to exactly the addresses of the
\* listed keys, whatever the order of the list, repeated keys, and malformed
\* keys that the scan did not reach.
AnswerIsMembership ==
  pc = "ready" /\ ipAddr # nil =>
    (allowed <=> \E n \in 1 .. Len(keys) : Lists(n, ipAddr))

\* The program stops only for a malformed key: one that is not hex, at once, or
\* one of a wrong length that no match precedes, at the first such packet.
PanicExplained ==
  pc = "panic" =>
    \E n \in 1 .. Len(keys) :
      \/ ipAddr = nil /\ keys[n] \notin Hex
      \/ Lists(n, nil) /\ \A m \in 1 .. n : ~Lists(m, ipAddr)

\* What the scan has found so far: the filter holds the decoded keys in order,
\* and the pointers before i were neither nil nor the address asked for.
Inv ==
  /\ TypeOK
  /\ Len(allowedAddresses) <= Len(keys)
  /\ \A n \in 1 .. Len(allowedAddresses) : Lists(n, allowedAddresses[n])
  /\ pc = "fill" => Len(allowedAddresses) < Len(keys) /\ ipAddr = nil
  /\ pc \in {"ready", "scan"} => Len(allowedAddresses) = Len(keys)
  /\ pc = "scan" => /\ ipAddr # nil
                    /\ ~allowed
                    /\ i <= Len(allowedAddresses) + 1
                    /\ \A n \in 1 .. i - 1 :
                         allowedAddresses[n] \notin {nil, ipAddr}
  /\ AnswerIsMembership
  /\ PanicExplained
=============================================================================
