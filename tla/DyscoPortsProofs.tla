-------------------------- MODULE DyscoPortsProofs --------------------------
(***************************************************************************)
(* The port counter's jump, and the pairs of ports when one CPU at a time  *)
(* sets up subsessions.                                                    *)
(***************************************************************************)
EXTENDS DyscoPorts, TLAPS

\* The halves of a counter make it up, in one way only.
LEMMA HalvesExist ==
    \A a \in Nat : /\ Lower(a) \in Port /\ Upper(a) \in Nat
                   /\ a = Upper(a) * P + Lower(a)
BY PortsAssumption DEF Lower, Upper, Port

LEMMA HalvesUnique ==
    \A q \in Nat, r \in Port : Lower(q * P + r) = r /\ Upper(q * P + r) = q
BY PortsAssumption DEF Lower, Upper, Port

LEMMA HalvesOfCountDown ==
    ASSUME NEW a \in Nat, a > MinPort, Lower(a) >= MinPort
    PROVE  /\ CountDown(a) \in Nat
           /\ Lower(a) = MinPort => /\ Upper(CountDown(a)) = Upper(a) - 1
                                    /\ Lower(CountDown(a)) = P - 1
           /\ Lower(a) > MinPort => /\ Upper(CountDown(a)) = Upper(a)
                                    /\ Lower(CountDown(a)) = Lower(a) - 1
<1> DEFINE q == Upper(a)
           r == Lower(a)
<1>1. q \in Nat /\ r \in Port /\ a = q * P + r  BY HalvesExist
<1>2. CASE r = MinPort
  <2>1. q # 0  BY <1>1, <1>2, PortsAssumption
  <2>2. q - 1 \in Nat /\ P - 1 \in Port  BY <1>1, <2>1, PortsAssumption DEF Port
  <2>3. (q - 1) * P + (P - 1) = q * P - 1  BY <1>1, PortsAssumption
  <2>4. CountDown(a) = (q - 1) * P + (P - 1)
    <3>1. CountDown(a) = a - 1 - MinPort  BY <1>2 DEF CountDown
    <3> HIDE DEF q, r
    <3> QED  BY <1>1, <1>2, <2>3, <3>1, PortsAssumption
  <2>5. CountDown(a) \in Nat
    <3>1. CountDown(a) = a - 1 - MinPort  BY <1>2 DEF CountDown
    <3> QED  BY <3>1, PortsAssumption
  <2> HIDE DEF q, r
  <2>6. Lower(CountDown(a)) = P - 1 /\ Upper(CountDown(a)) = q - 1
    BY <2>2, <2>4, HalvesUnique
  <2> QED  BY <1>2, <2>5, <2>6, PortsAssumption DEF q, r
<1>3. CASE r > MinPort
  <2>1. CountDown(a) = a - 1  BY <1>1, <1>3, PortsAssumption DEF CountDown, Port
  <2>2. r - 1 \in Port  BY <1>1, <1>3, PortsAssumption DEF Port
  <2> HIDE DEF q, r
  <2>3. CountDown(a) = q * P + (r - 1)
    BY <1>1, <2>1, PortsAssumption DEF Port
  <2>4. Lower(CountDown(a)) = r - 1 /\ Upper(CountDown(a)) = q
    BY <1>1, <2>2, <2>3, HalvesUnique
  <2>5. CountDown(a) \in Nat  BY <2>1, PortsAssumption
  <2> QED  BY <1>1, <1>3, <2>4, <2>5, PortsAssumption DEF q, r, Port
<1> QED  BY <1>1, <1>2, <1>3, PortsAssumption DEF Port

-----------------------------------------------------------------------------
\* The counter: its lower half is a source port, its upper half a destination
\* port not above the first one; and so are the ports taken from it.
CounterInv ==
    /\ alloc_ports \in Nat
    /\ Lower(alloc_ports) >= MinPort
    /\ Upper(alloc_ports) <= FirstNeighbor
    /\ lport \in [Cpus -> Port \cup {NoPort}]
    /\ pairs \subseteq Port \X Nat

LEMMA CounterStep ==
    ASSUME CounterInv, [Next]_vars
    PROVE  CounterInv'
<1>1. Lower(alloc_ports) \in Port /\ Upper(alloc_ports) \in Nat
  BY HalvesExist DEF CounterInv
<1>2. ASSUME NEW c \in Cpus, AllocateLocalPort(c) PROVE CounterInv'
  <2>1. alloc_ports' = CountDown(alloc_ports) /\ alloc_ports > MinPort
    BY <1>2 DEF AllocateLocalPort, NotExhausted
  <2>2. /\ alloc_ports' \in Nat /\ Lower(alloc_ports') >= MinPort
        /\ Upper(alloc_ports') <= FirstNeighbor
    <3>1. CASE Lower(alloc_ports) = MinPort
      BY <1>1, <2>1, <3>1, HalvesOfCountDown, PortsAssumption DEF CounterInv
    <3>2. CASE Lower(alloc_ports) > MinPort
      BY <1>1, <2>1, <3>2, HalvesOfCountDown, PortsAssumption DEF CounterInv, Port
    <3> QED  BY <1>1, <3>1, <3>2, PortsAssumption DEF CounterInv, Port
  <2> QED  BY <1>1, <1>2, <2>2 DEF AllocateLocalPort, CounterInv, Lower, Upper
<1>3. ASSUME NEW c \in Cpus, AllocateNeighborPort(c) PROVE CounterInv'
  BY <1>1, <1>3 DEF AllocateNeighborPort, CounterInv, Lower, Upper
<1>4. CASE UNCHANGED vars
  BY <1>4 DEF vars, CounterInv, Lower, Upper
<1> QED  BY <1>2, <1>3, <1>4 DEF Next

LEMMA CounterInit == Init => CounterInv
<1> SUFFICES ASSUME Init PROVE CounterInv  OBVIOUS
<1>1. P - 1 \in Port /\ FirstNeighbor \in Nat  BY PortsAssumption DEF Port
<1>2. /\ Lower(alloc_ports) = P - 1 /\ Upper(alloc_ports) = FirstNeighbor
  BY <1>1, HalvesUnique DEF Init
<1>3. alloc_ports \in Nat  BY PortsAssumption DEF Init
<1> QED  BY <1>2, <1>3, PortsAssumption DEF Init, CounterInv, Port, NoPort

LEMMA ApartStep == CounterInv /\ PortsApart /\ [Next]_vars => PortsApart'
<1> SUFFICES ASSUME CounterInv, PortsApart, [Next]_vars PROVE PortsApart'
  OBVIOUS
<1>1. ASSUME NEW c \in Cpus, AllocateLocalPort(c) PROVE PortsApart'
  BY <1>1 DEF AllocateLocalPort, PortsApart, CounterInv
<1>2. ASSUME NEW c \in Cpus, AllocateNeighborPort(c) PROVE PortsApart'
  <2>1. lport[c] >= MinPort /\ Upper(alloc_ports) < MinPort
    BY <1>2, HalvesExist, PortsAssumption
       DEF AllocateNeighborPort, PortsApart, CounterInv
  <2> QED  BY <1>2, <2>1 DEF AllocateNeighborPort, PortsApart, CounterInv
<1>3. CASE UNCHANGED vars  BY <1>3 DEF vars, PortsApart
<1> QED  BY <1>1, <1>2, <1>3 DEF Next

\* However many CPUs allocate ports, and wherever each is between its two
\* critical sections, no number is ever a source port of one subsession and a
\* destination port of another one.
THEOREM PortsStayApart == Spec => []PortsApart
<1>1. Init => PortsApart  BY DEF Init, PortsApart
<1> QED  BY <1>1, CounterInit, CounterStep, ApartStep, PTL DEF Spec

-----------------------------------------------------------------------------
\* A pair of ports was given before the counter's halves came to hi and lo; the
\* lowest source port got the destination port of the next round.
Before(pr, hi, lo) ==
    \/ hi < pr[2]
    \/ hi = pr[2] /\ (pr[1] = MinPort \/ lo < pr[1])

\* All pairs were given before; the CPUs that wait for a destination port have
\* distinct source ports of this round, and none has its pair already.
FreshInv ==
    /\ \A pr \in pairs : Before(pr, Upper(alloc_ports), Lower(alloc_ports))
    /\ \A c \in Cpus : lport[c] # NoPort =>
          /\ lport[c] = MinPort \/ Lower(alloc_ports) < lport[c]
          /\ <<lport[c], Upper(alloc_ports)>> \notin pairs
          /\ \A d \in Cpus \ {c} : lport[d] # lport[c]

LEMMA FreshStep ==
    ASSUME CounterInv, PortsApart, FreshInv, [Next]_vars, ~torn'
    PROVE  FreshInv'
<1>1. /\ Lower(alloc_ports) \in Port /\ Upper(alloc_ports) \in Nat
      /\ \A pr \in pairs : pr[1] \in Int /\ pr[2] \in Int
      /\ \A c \in Cpus : lport[c] \in Int
      /\ \A x \in Port : x \in Int
      /\ MinPort \in Int /\ P \in Int /\ NoPort \in Int /\ NoPort < MinPort
  BY HalvesExist, PortsAssumption DEF CounterInv, Port, NoPort
<1>2. ASSUME NEW c \in Cpus, AllocateLocalPort(c) PROVE FreshInv'
  <2> DEFINE hi == Upper(alloc_ports)
             lo == Lower(alloc_ports)
  <2>1. /\ alloc_ports' = CountDown(alloc_ports) /\ alloc_ports > MinPort
        /\ pairs' = pairs
    BY <1>2 DEF AllocateLocalPort, NotExhausted
  <2>2. lport'[c] = lo /\ \A d \in Cpus \ {c} : lport'[d] = lport[d]
    BY <1>2 DEF AllocateLocalPort, CounterInv
  <2>3. \A pr \in pairs : Before(pr, hi, lo)  BY DEF FreshInv
  <2>4. CASE lo = MinPort
    <3>1. Upper(alloc_ports') = hi - 1 /\ Lower(alloc_ports') = P - 1
      BY <2>1, <2>4, HalvesOfCountDown DEF CounterInv
    <3>2. \A pr \in pairs : hi - 1 < pr[2]  BY <1>1, <2>3 DEF Before
    <3>3. \A d \in Cpus \ {c} : lport'[d] = NoPort
      BY <1>2, <2>2, <2>4 DEF AllocateLocalPort
    <3>4. <<MinPort, hi - 1>> \notin pairs  BY <1>1, <3>2
    <3> QED  BY <1>1, <2>1, <2>2, <2>4, <3>1, <3>2, <3>3, <3>4
             DEF FreshInv, Before, Lower, Upper
  <2>5. CASE lo > MinPort
    <3>1. Upper(alloc_ports') = hi /\ Lower(alloc_ports') = lo - 1
      BY <2>1, <2>5, HalvesOfCountDown DEF CounterInv
    <3>2. \A pr \in pairs : Before(pr, hi, lo - 1)  BY <1>1, <2>3 DEF Before
    <3>3. <<lo, hi>> \notin pairs  BY <1>1, <2>3, <2>5 DEF Before
    <3>4. ASSUME NEW d \in Cpus \ {c} PROVE lport[d] # lo
      <4>1. lport[d] # NoPort => lport[d] = MinPort \/ lo < lport[d]
        BY DEF FreshInv
      <4>2. lport[d] \in Int /\ lo \in Int  BY <1>1
      <4> HIDE DEF lo
      <4> QED  BY <1>1, <2>5, <4>1, <4>2
    <3>5. ASSUME NEW d \in Cpus \ {c}, lport[d] # NoPort
          PROVE  lport[d] = MinPort \/ lo - 1 < lport[d]
      <4>1. lport[d] = MinPort \/ lo < lport[d]  BY <3>5 DEF FreshInv
      <4>2. lport[d] \in Int /\ lo \in Int  BY <1>1
      <4> HIDE DEF lo
      <4> QED  BY <4>1, <4>2
    <3>6. \A d \in Cpus \ {c} : lport[d] # NoPort =>
             /\ <<lport[d], hi>> \notin pairs
             /\ \A e \in Cpus \ {c, d} : lport[e] # lport[d]
      BY DEF FreshInv
    <3> HIDE DEF hi, lo
    <3> QED  BY <1>1, <2>1, <2>2, <3>1, <3>2, <3>3, <3>4, <3>5, <3>6
             DEF FreshInv, Lower, Upper, lo
  <2> QED  BY <1>1, <2>4, <2>5 DEF CounterInv
<1>3. ASSUME NEW c \in Cpus, AllocateNeighborPort(c) PROVE FreshInv'
  <2> DEFINE new == <<lport[c], Upper(alloc_ports)>>
  <2>1. /\ alloc_ports' = alloc_ports /\ pairs' = pairs \cup {new}
        /\ lport'[c] = NoPort /\ \A d \in Cpus \ {c} : lport'[d] = lport[d]
        /\ lport[c] # NoPort
    BY <1>3 DEF AllocateNeighborPort, CounterInv
  <2>2. Before(new, Upper(alloc_ports), Lower(alloc_ports))
    BY <1>1, <2>1 DEF Before, FreshInv
  <2>3. \A d \in Cpus \ {c} : lport[d] # NoPort =>
           <<lport[d], Upper(alloc_ports)>> # new
    BY <2>1 DEF FreshInv
  <2> HIDE DEF new
  <2> QED  BY <2>1, <2>2, <2>3 DEF FreshInv, Before, Lower, Upper
<1>4. CASE UNCHANGED vars
  BY <1>4 DEF vars, FreshInv, Before, Lower, Upper
<1> QED  BY <1>2, <1>3, <1>4 DEF Next

\* For any number of CPUs, until a round of source ports ends while a CPU is
\* between allocate_local_port and allocate_neighbor_port, no subsession gets a
\* pair of ports that an earlier one got.
THEOREM PairsFreshUntilTorn == Spec => FreshUntilTorn
<1>1. Init => PortsApart /\ (torn \/ FreshInv)
  BY DEF Init, PortsApart, FreshInv
<1>2. FreshInv => \A c \in Cpus : AllocateNeighborPort(c) =>
         <<lport[c], Upper(alloc_ports)>> \notin pairs
  BY DEF FreshInv, AllocateNeighborPort
<1>3. CounterInv /\ PortsApart /\ (torn \/ FreshInv) /\ [Next]_vars
         => (torn' \/ FreshInv')
  <2> SUFFICES ASSUME CounterInv, PortsApart, torn \/ FreshInv, [Next]_vars, ~torn'
               PROVE  FreshInv'
    OBVIOUS
  <2>1. ~torn
    BY DEF Next, AllocateLocalPort, AllocateNeighborPort, vars
  <2> QED  BY <2>1, FreshStep
<1> QED  BY <1>1, <1>2, <1>3, CounterInit, CounterStep, ApartStep, PTL
         DEF Spec, FreshUntilTorn

-----------------------------------------------------------------------------
\* The port that is d steps of the countdown above the source port v.
Above(v, d) == IF v + d < P THEN v + d ELSE v + d - (P - MinPort)

\* The last P - MinPort - 1 source ports are those above the next one, in order.
RotateInv ==
    /\ sources \in Seq(Port)
    /\ \A i \in 1 .. Len(sources) :
          LET d == Len(sources) + 1 - i
          IN  d < P - MinPort => sources[i] = Above(Lower(alloc_ports), d)

LEMMA AboveCountDown ==
    ASSUME NEW v \in Port, NEW u \in Port, v >= MinPort,
           v = MinPort => u = P - 1,
           v > MinPort => u = v - 1,
           NEW d \in Nat, d + 1 < P - MinPort \/ d = 0
    PROVE  Above(u, d + 1) = Above(v, d)
BY PortsAssumption DEF Above, Port

LEMMA RotateStep ==
    ASSUME CounterInv, RotateInv, SourcesRotate, [Next]_vars
    PROVE  RotateInv' /\ SourcesRotate'
<1>1. ASSUME NEW c \in Cpus, AllocateLocalPort(c) PROVE RotateInv' /\ SourcesRotate'
  <2> DEFINE n == Len(sources)
             v == Lower(alloc_ports)
             u == Lower(alloc_ports')
             K == P - MinPort
  <2>1. /\ v \in Port /\ v >= MinPort
        /\ v = MinPort => u = P - 1
        /\ v > MinPort => u = v - 1
        /\ u \in Port
    <3>1. alloc_ports' = CountDown(alloc_ports) /\ alloc_ports > MinPort
      BY <1>1 DEF AllocateLocalPort, NotExhausted
    <3>2. v \in Port /\ v >= MinPort /\ alloc_ports \in Nat
      BY HalvesExist DEF CounterInv
    <3> QED  BY <3>1, <3>2, HalvesOfCountDown, PortsAssumption DEF Port
  <2>2. sources' = Append(sources, v) /\ n \in Nat
    BY <1>1 DEF AllocateLocalPort, RotateInv
  <2>3. /\ sources' \in Seq(Port) /\ Len(sources') = n + 1
        /\ sources'[n + 1] = v
        /\ \A i \in 1 .. n : sources'[i] = sources[i] /\ sources[i] \in Port
    BY <2>1, <2>2 DEF RotateInv
  <2>4. \A i \in 1 .. n : n + 1 - i < K => sources[i] = Above(v, n + 1 - i)
    BY DEF RotateInv
  <2>5. K \in Nat \ {0}  BY PortsAssumption
  <2> HIDE DEF n, v, u, K
  <2>6. ASSUME NEW i \in 1 .. n + 1, n + 2 - i < K
        PROVE  sources'[i] = Above(u, n + 2 - i)
    <3>1. CASE i = n + 1
      <4>1. Above(u, 0 + 1) = Above(v, 0)  BY <2>1, AboveCountDown
      <4>2. Above(v, 0) = v  BY <2>1, PortsAssumption DEF Above, Port
      <4>3. n + 2 - i = 0 + 1  BY <2>2, <3>1
      <4> QED  BY <2>3, <3>1, <4>1, <4>2, <4>3
    <3>2. CASE i # n + 1
      <4> DEFINE d == n + 1 - i
      <4>1. i \in 1 .. n /\ d \in Nat /\ d + 1 = n + 2 - i /\ d + 1 < K /\ d < K
        BY <2>2, <2>5, <2>6, <3>2
      <4>2. sources[i] = Above(v, d)  BY <2>4, <4>1
      <4> HIDE DEF d
      <4>3. Above(u, d + 1) = Above(v, d)
        BY <2>1, <4>1, AboveCountDown DEF K
      <4> QED  BY <2>3, <4>1, <4>2, <4>3
    <3> QED  BY <3>1, <3>2
  <2>7. RotateInv'
    BY <2>2, <2>3, <2>6 DEF RotateInv, u, K, Lower
  <2>8. ASSUME NEW i \in 1 .. n, v = sources[i] PROVE n + 1 - i >= K
    <3> DEFINE d == n + 1 - i
    <3>1. d \in Nat /\ d >= 1  BY <2>2
    <3>2. d < K => v = Above(v, d)  BY <2>4, <2>8
    <3> HIDE DEF d
    <3>3. d < K => v # Above(v, d)
      BY <2>1, <3>1, PortsAssumption DEF Above, Port, K
    <3> QED  BY <2>5, <3>1, <3>2, <3>3 DEF d
  <2>9. \A i, j \in 1 .. n : i < j /\ sources[i] = sources[j] => j - i >= K
    BY DEF SourcesRotate, n, K
  <2>10. ASSUME NEW i \in 1 .. n + 1, NEW j \in 1 .. n + 1, i < j,
                sources'[i] = sources'[j]
         PROVE  j - i >= K
    <3>1. i \in 1 .. n  BY <2>2, <2>10
    <3>2. CASE j \in 1 .. n  BY <2>3, <2>9, <2>10, <3>1, <3>2
    <3>3. CASE j = n + 1
      <4>1. v = sources[i]  BY <2>3, <2>10, <3>1, <3>3
      <4>2. n + 1 - i >= K  BY <2>8, <3>1, <4>1
      <4> QED  BY <2>2, <2>5, <3>1, <3>3, <4>2
    <3> QED  BY <2>2, <3>2, <3>3
  <2>11. SourcesRotate'
    BY <2>3, <2>10 DEF SourcesRotate, K
  <2> QED  BY <2>7, <2>11
<1>2. ASSUME NEW c \in Cpus, AllocateNeighborPort(c) PROVE RotateInv' /\ SourcesRotate'
  BY <1>2 DEF AllocateNeighborPort, RotateInv, SourcesRotate, Lower
<1>3. CASE UNCHANGED vars
  BY <1>3 DEF vars, RotateInv, SourcesRotate, Lower
<1> QED  BY <1>1, <1>2, <1>3 DEF Next

\* For every width of the counter and any number of CPUs, allocate_local_port hands
\* out all the other source ports before it hands out one again.
THEOREM AllOthersFirst == Spec => []SourcesRotate
<1>1. Init => RotateInv /\ SourcesRotate
  BY DEF Init, RotateInv, SourcesRotate
<1> QED  BY <1>1, CounterInit, CounterStep, RotateStep, PTL DEF Spec
=============================================================================
