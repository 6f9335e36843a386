--------------------------- MODULE DyscoSeqProofs ---------------------------
(***************************************************************************)
(* What the number arithmetic of DyscoSeq gives, for every size of the     *)
(* number space.  An initial number i and an offset k below W stand for    *)
(* the number Wrap(i + k).                                                 *)
(***************************************************************************)
EXTENDS DyscoSeq, TLAPS

\* Sums and differences of two numbers are numbers again.
LEMMA WrapType == \A x \in Int : -W <= x /\ x < 2 * W => Wrap(x) \in Num
BY HAssumption DEF Wrap, Num, W

\* So is what a control block rewrites a number to.
LEMMA RewriteType == \A x, i, o \in Num : Rewrite(x, i, o) \in Num
BY HAssumption DEF Rewrite, Wrap, Num, W

\* A control block maps the offset k from one initial number to the offset k
\* from the other, whatever the two are: an unsigned delta with a flag for its
\* sign is enough, also when the sum or the difference wraps.
LEMMA RewriteShift ==
    \A i, o, k \in Num : Rewrite(Wrap(i + k), i, o) = Wrap(o + k)
BY HAssumption DEF Rewrite, Wrap, Num, W

\* A number is the offset it stands for.
LEMMA OffsetShift == \A i, k \in Num : Offset(i, Wrap(i + k)) = k
BY HAssumption DEF Offset, Wrap, Num, W

\* Offsets add up.
LEMMA WrapAdd ==
    \A i, s, d \in Num : s + d < W => Wrap(Wrap(i + s) + d) = Wrap(i + (s + d))
BY HAssumption DEF Wrap, Num, W

\* Numbers less than half the space apart compare as their offsets do.
LEMMA AfterShift ==
    \A i \in Num, p, q \in 0 .. H - 1 :
        After(Wrap(i + p), Wrap(i + q)) <=> p > q
BY HAssumption DEF After, Before, Wrap, Num, W
=============================================================================
