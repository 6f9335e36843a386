--------------------------- MODULE ReliableStream ---------------------------
(***************************************************************************)
(* What the two TCP ends of a session expect of all that is between them,  *)
(* one direction of it: the sender numbers the bytes of a stream by their  *)
(* positions 1 .. N and ends it by a FIN at N + 1.  Somebody who sends it  *)
(* again if need be takes charge of a byte before the sender forgets it,   *)
(* and the receiver gets each byte at its position, perhaps repeatedly.    *)
(***************************************************************************)
EXTENDS Naturals

CONSTANTS
    N           \* bytes of data

VARIABLES
    sent,       \* the sender has sent all below
    held,       \* positions that somebody else is in charge of
    got,        \* pairs <<position, byte>> that the receiver has taken
    acked       \* the sender has forgotten all below

streamVars == <<sent, held, got, acked>>

Sent == 1 .. sent - 1

StreamInit == sent = 1 /\ held = {} /\ got = {} /\ acked = 1

Send(n) ==
    /\ sent < n
    /\ sent' = n
    /\ UNCHANGED <<held, got, acked>>

Hold(S) ==
    /\ held' = held \cup S
    /\ UNCHANGED <<sent, got, acked>>

\* The receiver holds what it has taken.
Get(S) ==
    /\ got' = got \cup {<<p, p>> : p \in S}
    /\ held' = held \cup S
    /\ UNCHANGED <<sent, acked>>

\* The sender may forget only what is held.
Acknowledge(n) ==
    /\ acked < n /\ n <= sent
    /\ 1 .. n - 1 \subseteq held
    /\ acked' = n
    /\ UNCHANGED <<sent, held, got>>

StreamNext ==
    \/ \E n \in 2 .. N + 2 : Send(n) \/ Acknowledge(n)
    \/ \E S \in SUBSET Sent : Hold(S) \/ Get(S)

StreamSpec == StreamInit /\ [][StreamNext]_streamVars
=============================================================================
