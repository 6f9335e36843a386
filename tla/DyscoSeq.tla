------------------------------ MODULE DyscoSeq ------------------------------
(***************************************************************************)
(* The sequence-number arithmetic of the Dysco data path.  A TCP number is *)
(* a __u32; here it is a number modulo W = 2*H, so that TLC can make it    *)
(* wrap on a short stream (the code has H = 2^31).                         *)
(***************************************************************************)
EXTENDS Integers

CONSTANT H          \* half the size of the number space

ASSUME HAssumption == H \in Nat \ {0}

W == 2 * H
Num == 0 .. W - 1   \* a __u32

\* Truncation to __u32.  Every sum and difference in the code is of two
\* numbers, so one correction by W is enough.
Wrap(x) == IF x >= W THEN x - W ELSE IF x < 0 THEN x + W ELSE x

\* before(a, b) of net/tcp.h: (__s32)(a - b) < 0.
Before(a, b) == Wrap(a - b) >= H

\* after(a, b) of net/tcp.h is before(b, a).
After(a, b) == Before(b, a)

\* The number a control block rewrites x to, when it maps the initial number
\* isnIn to isnOut.  The delta is kept without a sign, next to a flag that
\* says whether to add it: the flag is set when isnIn < isnOut.
Rewrite(x, isnIn, isnOut) ==
    IF isnIn < isnOut THEN Wrap(x + (isnOut - isnIn))
                      ELSE Wrap(x - (isnIn - isnOut))

\* The offset of the number x from an initial number.
Offset(isn, x) == Wrap(x - isn)
=============================================================================
