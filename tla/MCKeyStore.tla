----------------------------- MODULE MCKeyStore -----------------------------
(***************************************************************************)
(* Values for the constants of KeyStore.  The remote keys are k1, whose    *)
(* address the filter allows, and k2, whose address it does not; a cfg     *)
(* chooses which of them exist, whether they share a subnet, the packets,  *)
(* the frames and the goroutines.                                          *)
(***************************************************************************)
EXTENDS KeyStoreTunnel, TLC

CONSTANTS k1, k2, me, mysub, a1, a2, s1, s2, other, p1, p2, p3, w1, w2

\* Objects of one kind, and goroutines of one kind, are interchangeable.
GenSymmetry == Permutations(Gen)
WriterSymmetry == Permutations(Gen) \cup Permutations(Writer)

\* One remote key.
OneAddr == k1 :> a1
OneSubnet == k1 :> s1

\* Two remote keys that own nothing in common, or share the subnet s1.
TwoAddr == k1 :> a1 @@ k2 :> a2
TwoSubnet == k1 :> s1 @@ k2 :> s2
SharedSubnet == k1 :> s1 @@ k2 :> s1

\* Every packet is from this node.
FromMe == [p \in Packet |-> me]

\* Two packets to the address of k1 and one to its subnet.
OneDst == [p \in Packet |-> IF p = p3 THEN s1 ELSE a1]

\* Two packets to the shared subnet.
SharedDst == p1 :> s1 @@ p2 :> s1

\* A packet to the shared subnet and one to the address of k1.
EitherDst == p1 :> s1 @@ p2 :> a1

\* A packet to an allowed address and one to an address that is not.
MixedDst == p1 :> a1 @@ p2 :> a2

\* Frames: ordinary ones from each key, one of k1's with a source it does not
\* own, one from k1's subnet, one for another node, and one of k1's and one of
\* k2's that are longer than the smallest MTU.
Small == MinMTU
Long == MinMTU + 1
Header(k, s, d, n) == [from |-> k, src |-> s, dst |-> d, len |-> n]

Frames == { Header(k1, a1, me, Small), Header(k2, a2, me, Small),
            Header(k2, a1, me, Small), Header(k1, s1, mysub, Small),
            Header(k1, a1, other, Small), Header(k1, a1, me, Long),
            Header(k2, a2, me, Long) }

\* The frames that matter for what is delivered, and no others.
FewFrames == { Header(k1, a1, me, Small), Header(k2, a2, me, Small),
               Header(k2, a1, me, Small) }

\* A packet to each subnet, or to the address of k1.
SubnetDst == p1 :> s1 @@ p2 :> s2
ToAddr == p1 :> a1

\* Frames from what k1 owns.
SubnetFrames == { Header(k1, a1, me, Small), Header(k1, s1, me, Small) }

MTURequests == {0, MinMTU + 5}
=============================================================================
