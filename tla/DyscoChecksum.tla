--------------------------- MODULE DyscoChecksum ---------------------------
(***************************************************************************)
(* Incremental checksums, as dysco.h computes them.  A 16-bit word is a    *)
(* digit to the base B and a 32-bit word a number of DyscoSeq, of two such *)
(* digits, so that sums carry as they do in the code (B = 2^16).           *)
(***************************************************************************)
EXTENDS DyscoSeq

CONSTANT B

ASSUME BAssumption == B \in Nat \ {0, 1} /\ B * B = W

Word == 0 .. B - 1

Not4(x) == W - 1 - x        \* ~ of a __u32
Not2(x) == B - 1 - x        \* ~ of a __u16

\* The carries of a 64-bit sum are added to its lower half, twice.
Fold4(s) == LET t == (s % W) + (s \div W) IN (t % W) + (t \div W)

\* csum_fold: the same from 32 to 16 bits, and the complement.
CsumFold(s) == LET t == (s % B) + (s \div B) IN Not2((t % B) + (t \div B))

\* The sum of two addresses with its carry, which is known from comparing the sum
\* with the address that was added.
SumWithCarry(a, b, compared) ==
    LET s == (a + b) % W IN (s + (IF compared > s THEN 1 ELSE 0)) % W

\* The checksum after the word from was replaced by to.
CsumReplace4(sum, from, to) == CsumFold(Fold4(Not4(from) + to + Not4(sum)))

\* The same for the checksum of a packet p, which covers a pseudo header.  What
\* is in check and csum depends on who computes the checksum (ip_summed): if the
\* device will (PARTIAL), check is the sum of the pseudo header alone; if it has
\* summed up the segment (COMPLETE), csum is that sum.
ProtoReplace4BugPartialAll(p, from, to, pseudo) ==
    [p EXCEPT !.check = CsumReplace4(@, from, to),
              !.csum = IF p.summed = "COMPLETE" /\ pseudo
                       THEN Not4(Fold4(Not4(from) + to + Not4(@))) ELSE @]

ProtoReplace4(p, from, to, pseudo) ==
    IF p.summed = "PARTIAL"
    THEN IF pseudo
         THEN [p EXCEPT !.check = Not2(CsumFold(Fold4(Not4(from) + to + @)))]
         ELSE p
    ELSE [p EXCEPT !.check = CsumReplace4(@, from, to),
                   !.csum = IF p.summed = "COMPLETE" /\ pseudo
                            THEN Not4(Fold4(Not4(from) + to + Not4(@))) ELSE @]
=============================================================================
