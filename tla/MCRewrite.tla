----------------------------- MODULE MCRewrite -----------------------------
(***************************************************************************)
(* Instances of DyscoRewrite for TLC.                                      *)
(***************************************************************************)
EXTENDS DyscoRewrite

Host(iseq, ts, ws, mseq, mts, mws, at, addr, peer) ==
    [iseq |-> iseq, ts |-> ts, ws |-> ws, mseq |-> mseq, mts |-> mts, mws |-> mws,
     at |-> at, addr |-> addr, port |-> addr % B, peer |-> peer]

\* Deltas of both signs and none, numbers that wrap; scales that are equal, grow,
\* shrink or are 0; either SYN+ACK first, or both at once; time stamp 0; addresses
\* whose sums carry at one end and not at the other.
SplicedSetups ==
    {[spliced |-> TRUE, K |-> 7,
      L |-> Host(14, 5, x.ws[1], 3, 13, x.ws[2], x.at[1], 15, 6),
      R |-> Host(9, 2, x.ws[3], 12, 5, x.ws[2], x.at[2], 10, 9)] :
        x \in {[ws |-> <<1, 0, 1>>, at |-> <<0, 2>>], [ws |-> <<2, 1, 1>>, at |-> <<0, 1>>],
               [ws |-> <<0, 1, 2>>, at |-> <<1, 0>>], [ws |-> <<1, 2, 1>>, at |-> <<0, 0>>]}}
    \cup {[spliced |-> TRUE, K |-> 7,
           L |-> Host(1, 0, 1, 1, 3, 1, 0, 15, 6), R |-> Host(1, 2, 1, 1, 7, 1, 0, 1, 2)]}

PlainSetups ==
    {[spliced |-> FALSE, K |-> a[3],
      L |-> Host(1, 5, 1, 4, 9, 1, 0, a[1], a[2]),
      R |-> Host(4, 9, 1, 1, 5, 1, 0, a[2], a[1])] :
        a \in {<<15, 6, 7>>, <<10, 13, 9>>, <<3, 4, 2>>, <<15, 6, 2>>}}

AllSetups == SplicedSetups \cup PlainSetups
=============================================================================
