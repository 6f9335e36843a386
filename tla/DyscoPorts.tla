----------------------------- MODULE DyscoPorts -----------------------------
(***************************************************************************)
(* The ports of subsessions.  One 32-bit counter, alloc_ports, holds the   *)
(* next source port in its lower half and the destination port in its      *)
(* upper half.  A CPU that sets up a subsession reads the halves in two    *)
(* critical sections of port_alloc_lock: allocate_local_port, which counts *)
(* down, and then allocate_neighbor_port, which only reads.  The ports go  *)
(* into the subsession in network order, one to one.                       *)
(***************************************************************************)
EXTENDS Integers, Sequences

CONSTANTS
    Cpus,
    P,              \* values of a half of the counter (2^16)
    MinPort,        \* the lowest source port (10001)
    FirstNeighbor   \* the first destination port (10000)

ASSUME PortsAssumption ==
    /\ P \in Nat /\ MinPort \in Nat /\ FirstNeighbor \in Nat
    /\ 0 < MinPort /\ MinPort < P
    /\ FirstNeighbor < MinPort

Port == 0 .. P - 1
NoPort == -1

VARIABLES
    alloc_ports,
    lport,      \* lport[c]: the source port of the subsession c is setting up
    sources,    \* history: the source ports handed out, in order
    pairs,      \* history: the pairs of ports of the subsessions set up
    torn        \* history: a round ended while a CPU was between its sections

vars == <<alloc_ports, lport, sources, pairs, torn>>

Lower(a) == a % P
Upper(a) == a \div P

TypeOK ==
    /\ alloc_ports \in 0 .. P * P - 1
    /\ lport \in [Cpus -> Port \cup {NoPort}]
    /\ sources \in Seq(Port)
    /\ pairs \subseteq Port \X Port
    /\ torn \in BOOLEAN

Init ==
    /\ alloc_ports = FirstNeighbor * P + (P - 1)
    /\ lport = [c \in Cpus |-> NoPort]
    /\ sources = <<>>
    /\ pairs = {}
    /\ torn = FALSE

\* The source ports start over under the same destination port.
CountDownBugSameNeighbor(a) ==
    IF Lower(a) = MinPort THEN a - 1 - MinPort + P ELSE a - 1
\* The jump is one too long.
CountDownBugSkipsTop(a) == IF Lower(a) = MinPort THEN a - 2 - MinPort ELSE a - 1
\* 10000 is taken for the lowest source port.
CountDownBugMinPort(a) ==
    IF Lower(a) = MinPort - 1 THEN a - MinPort ELSE a - 1

\* After the lowest source port both halves change: the destination port goes
\* down by one and the source ports start from the top.
CountDown(a) == IF Lower(a) = MinPort THEN a - 1 - MinPort ELSE a - 1

\* The bound of the model: the counter has not gone through all its pairs, more
\* than half a billion with the constants of the code.
NotExhausted == alloc_ports > MinPort

AllocateLocalPort(c) ==
    /\ lport[c] = NoPort
    /\ NotExhausted
    /\ lport' = [lport EXCEPT ![c] = Lower(alloc_ports)]
    /\ alloc_ports' = CountDown(alloc_ports)
    /\ sources' = Append(sources, Lower(alloc_ports))
    /\ torn' = \/ torn
               \/ Lower(alloc_ports) = MinPort /\ \E d \in Cpus : lport[d] # NoPort
    /\ UNCHANGED pairs

AllocateNeighborPort(c) ==
    /\ lport[c] # NoPort
    /\ lport' = [lport EXCEPT ![c] = NoPort]
    /\ pairs' = pairs \cup {<<lport[c], Upper(alloc_ports)>>}
    /\ UNCHANGED <<alloc_ports, sources, torn>>

Next == \E c \in Cpus : AllocateLocalPort(c) \/ AllocateNeighborPort(c)

Spec == Init /\ [][Next]_vars

-----------------------------------------------------------------------------
\* What is left of the promise in the comment on alloc_ports, hundreds of
\* millions of sessions with ports of their own: allocate_local_port and
\* allocate_neighbor_port repeat no pair, whatever the interleaving of the CPUs,
\* until a round of the source ports ends between the two calls of one CPU.
FreshUntilTorn ==
    [][~torn => \A c \in Cpus : AllocateNeighborPort(c) =>
          <<lport[c], Upper(alloc_ports)>> \notin pairs]_vars

\* No number is a source port at one middlebox and a destination port at
\* another: the counter's jump keeps the two ranges apart, however many CPUs
\* are between their critical sections.
PortsApart ==
    /\ \A c \in Cpus : lport[c] # NoPort => lport[c] >= MinPort
    /\ \A pr \in pairs : pr[2] < MinPort /\ MinPort <= pr[1]

\* A source port is not handed out again before all the others were.
SourcesRotate ==
    \A i, j \in 1 .. Len(sources) :
        i < j /\ sources[i] = sources[j] => j - i >= P - MinPort
=============================================================================
