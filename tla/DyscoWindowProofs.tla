-------------------------- MODULE DyscoWindowProofs --------------------------
(***************************************************************************)
(* A socket is never found without its peer, and what is left unread in a  *)
(* proxy stays below two windows: for every window scale, buffer size,     *)
(* initial number, stream length and number of CPUs.                       *)
(***************************************************************************)
EXTENDS DyscoWindow, TLAPS

Max == MaxWndRec
Unit == 2 ^ wscale

\* Where a sender may send to, once it has taken this ack.
Edge(m) == m.pos + m.wnd * Unit

Step == {"idle", "left other", "left my", "right other", "right my"}
OutAck == [pc : {"none", "sent", "fix"}, pos : Nat, wnd : Nat, nxt : Int]
WireAck == [pos : Nat, wnd : Nat]

TypeOK ==
    /\ wscale \in Scales
    /\ sent \in [Side -> Nat] /\ una \in [Side -> Nat] /\ edge \in [Side -> Nat]
    /\ rcvd \in [Side -> Nat] /\ read \in [Side -> Nat] /\ free \in [Side -> Nat]
    /\ my \in [Side -> Side \cup {None}] /\ other \in [Side -> Side \cup {None}]
    /\ saver \in [Savers -> Step]
    /\ out \in [Side -> OutAck]
    /\ acks \in [Side -> SUBSET WireAck]
    /\ wrapped \in BOOLEAN

\* Bytes arrive after they are sent, and are read after they arrive; no more
\* arrive than the buffer holds, and no ack is ahead of them.
Ordered ==
    \A c \in Side :
        /\ read[c] <= rcvd[c] /\ rcvd[c] <= sent[c] /\ sent[c] <= Bytes[c]
        /\ Unread(c) <= Space
        /\ out[c].pos <= rcvd[c]

Inv == TypeOK /\ Ordered

-----------------------------------------------------------------------------
(* Arithmetic.                                                             *)

LEMMA UnitType == ASSUME wscale \in Scales PROVE Unit \in Nat \ {0} /\ Unit <= Max
BY WindowAssumption DEF Unit, Max

\* What a window loses when it is scaled down.
LEMMA ScaledDown ==
    ASSUME NEW x \in Nat, NEW u \in Nat \ {0}
    PROVE  x \div u \in Nat /\ (x \div u) * u <= x
<1>1. x \div u \in Int /\ x % u \in 0 .. u - 1 /\ x = u * (x \div u) + (x % u)
  OBVIOUS
<1>2. x \div u >= 0
  BY <1>1
<1>3. u * (x \div u) = (x \div u) * u
  BY <1>1
<1> QED  BY <1>1, <1>2, <1>3

-----------------------------------------------------------------------------
(* Types and order.                                                        *)

LEMMA SideFacts ==
    /\ \A c \in Side : First[c] \in Num /\ Bytes[c] \in Nat /\ Bytes[c] < H
    /\ "left" \in Side /\ "right" \in Side /\ None \notin Side
    /\ Max \in Nat \ {0} /\ Space \in Nat /\ Space < H
    /\ NoAck \in OutAck
BY WindowAssumption, HAssumption DEF Side, Max, NoAck, OutAck

LEMMA InvInit == Init => Inv
<1> SUFFICES ASSUME Init PROVE Inv
  OBVIOUS
<1>1. out \in [Side -> OutAck] /\ \A c \in Side : out[c].pos = 0
  BY SideFacts DEF Init, NoAck
<1>2. TypeOK
  BY <1>1, SideFacts DEF Init, TypeOK, Step
<1>3. Ordered
  BY <1>1, SideFacts DEF Init, Ordered, Unread
<1> QED  BY <1>2, <1>3 DEF Inv

\* The window that an ack leaves with is a number, fixed or not.
LEMMA WindowTypes ==
    ASSUME Inv, NEW c \in Side
    PROVE  /\ out[c].pos \in Nat /\ out[c].wnd \in Nat
           /\ out[c].wnd * Unit \in Nat
           /\ \A o, b \in Int : NewWindow(c, o, b) = 0 \/ NewWindow(c, o, b) \in {Max, o}
           /\ Fixed(c) \in Nat
           /\ \A m \in acks[c] : m \in WireAck /\ Edge(m) \in Nat
<1>1. out[c] \in OutAck /\ acks[c] \subseteq WireAck  BY DEF Inv, TypeOK
<1>2. Unit \in Nat \ {0}  BY UnitType DEF Inv, TypeOK
<1>3. out[c].pos \in Nat /\ out[c].wnd \in Nat  BY <1>1 DEF OutAck
<1>4. out[c].wnd * Unit \in Nat  BY <1>2, <1>3
<1>5. \A o, b : NewWindow(c, o, b) = 0 \/ NewWindow(c, o, b) \in {Max, o}
  BY DEF NewWindow, Least, Max
<1>6. Fixed(c) \in Nat
  <2> DEFINE new == NewWindow(c, out[c].wnd * Unit, RcvBuf(c, out[c].nxt))
  <2>1. new \in Nat  BY <1>4, <1>5, SideFacts
  <2>2. Fixed(c) = new \div Unit  BY DEF Fixed, Unit
  <2> HIDE DEF new
  <2> QED  BY <1>2, <2>1, <2>2, ScaledDown
<1>7. ASSUME NEW m \in acks[c] PROVE m \in WireAck /\ Edge(m) \in Nat
  <2>1. m.pos \in Nat /\ m.wnd \in Nat  BY <1>1 DEF WireAck
  <2>2. m.wnd * Unit \in Nat  BY <1>2, <2>1
  <2> QED  BY <1>1, <2>1, <2>2 DEF Edge
<1> QED  BY <1>3, <1>4, <1>5, <1>6, <1>7

LEMMA LeaveTypes ==
    ASSUME Inv, NEW c \in Side, NEW w \in Nat, Leave(c, w)
    PROVE  /\ out' \in [Side -> OutAck] /\ acks' \in [Side -> SUBSET WireAck]
           /\ \A d \in Side : out'[d].pos = out[d].pos \/ out'[d].pos = 0
<1> DEFINE m == [pos |-> out[c].pos, wnd |-> w]
<1>1. m \in WireAck  BY WindowTypes DEF WireAck
<1>2. acks' = acks \/ acks' = [acks EXCEPT ![c] = @ \cup {m}]
  BY DEF Leave
<1> HIDE DEF m
<1>3. acks' \in [Side -> SUBSET WireAck]
  BY <1>1, <1>2 DEF Inv, TypeOK
<1>4. out' = [out EXCEPT ![c] = NoAck] /\ NoAck.pos = 0  BY DEF Leave, NoAck
<1> QED  BY <1>3, <1>4, SideFacts DEF Inv, TypeOK

LEMMA InvStep ==
    ASSUME Inv, [Next]_vars
    PROVE  Inv'
<1> USE DEF Inv, TypeOK, Ordered
<1>1. ASSUME NEW k \in Savers, SaveRcvWindow(k) PROVE Inv'
  <2>1. my' \in [Side -> Side \cup {None}] /\ other' \in [Side -> Side \cup {None}]
    <3>1. /\ my' = my \/ \E c \in Side : my' = [my EXCEPT ![c] = c]
          /\ other' = other \/ \E c, d \in Side : other' = [other EXCEPT ![c] = d]
      BY <1>1, SideFacts DEF SaveRcvWindow, SaveStart, SaveSockets
    <3> QED  BY <3>1
  <2>2. saver' \in [Savers -> Step]
    BY <1>1 DEF SaveRcvWindow, SaveStart, SaveSockets, Step
  <2> QED  BY <1>1, <2>1, <2>2 DEF SaveRcvWindow, stream, Unread
<1>2. ASSUME NEW c \in Side, TcpAck(c) PROVE Inv'
  <2> DEFINE w == (Space - Unread(c)) \div Unit
             r == [pc |-> "sent", pos |-> rcvd[c], nxt |-> 0, wnd |-> w]
  <2>1. Space - Unread(c) \in Nat  BY SideFacts DEF Unread
  <2>2. w \in Nat  BY <2>1, UnitType, ScaledDown
  <2>3. out' = [out EXCEPT ![c] = r]  BY <1>2 DEF TcpAck, Unit
  <2> HIDE DEF w
  <2>4. r \in OutAck /\ r.pos = rcvd[c]  BY <2>2 DEF OutAck
  <2> HIDE DEF r
  <2> QED  BY <1>2, <2>3, <2>4 DEF TcpAck, stream, blocks, Unread
<1>3. ASSUME NEW c \in Side, ReadRcvNxt(c) PROVE Inv'
  <2>1. my[c] \in Side  BY <1>3 DEF ReadRcvNxt
  <2>2. RcvNxt(my[c]) \in Int
    BY <2>1, SideFacts, HAssumption DEF RcvNxt, Num, W
  <2> DEFINE r == [out[c] EXCEPT !.pc = "fix", !.nxt = RcvNxt(my[c])]
  <2>3. r \in OutAck /\ r.pos = out[c].pos  BY <2>2 DEF OutAck
  <2>4. out' = [out EXCEPT ![c] = r]  BY <1>3 DEF ReadRcvNxt
  <2> HIDE DEF r
  <2> QED  BY <1>3, <2>3, <2>4 DEF ReadRcvNxt, stream, blocks, Unread
<1>4. ASSUME NEW c \in Side, FixRcvWindow(c) PROVE Inv'
  <2>1. Leave(c, Fixed(c)) /\ UNCHANGED <<wscale, stream, blocks, free>>
    BY <1>4 DEF FixRcvWindow, Leave
  <2>2. wrapped' \in BOOLEAN  BY <1>4 DEF FixRcvWindow
  <2> QED  BY <2>1, <2>2, LeaveTypes, WindowTypes DEF stream, blocks, Unread
<1>5. ASSUME NEW c \in Side, Unfixed(c) PROVE Inv'
  <2>1. Leave(c, out[c].wnd) /\ UNCHANGED <<wscale, stream, blocks, wrapped>>
    BY <1>5 DEF Unfixed, Leave
  <2>2. free' \in [Side -> Nat]
    <3>1. out[c].pos + out[c].wnd * Unit \in Nat  BY WindowTypes
    <3> QED  BY <1>5, <3>1 DEF Unfixed, Unit
  <2> QED  BY <2>1, <2>2, LeaveTypes, WindowTypes DEF stream, blocks, Unread
<1>6. ASSUME NEW c \in Side, NEW m \in acks[c], TakeAck(c, m) PROVE Inv'
  <2>1. m.pos \in Nat /\ Edge(m) \in Nat  BY WindowTypes DEF WireAck
  <2>2. \/ UNCHANGED <<una, edge>>
        \/ una' = [una EXCEPT ![c] = m.pos] /\ edge' = [edge EXCEPT ![c] = Edge(m)]
    BY <1>6 DEF TakeAck, Edge, Unit
  <2> QED  BY <1>6, <2>1, <2>2 DEF TakeAck, blocks, Unread
<1>7. ASSUME NEW c \in Side, SendByte(c) PROVE Inv'
  BY <1>7, SideFacts DEF SendByte, blocks, Unread
<1>8. ASSUME NEW c \in Side, ByteArrives(c) PROVE Inv'
  <2>1. rcvd' \in [Side -> Nat]  BY <1>8 DEF ByteArrives
  <2>2. rcvd[c] \in Nat /\ read[c] \in Nat /\ out[c].pos \in Nat
    BY WindowTypes
  <2>3. /\ rcvd[c] + 1 <= sent[c] /\ rcvd[c] + 1 - read[c] <= Space
        /\ out[c].pos <= rcvd[c] + 1 /\ read[c] <= rcvd[c] + 1
    BY <1>8, <2>2, SideFacts DEF ByteArrives, Unread
  <2>4. /\ rcvd' = [rcvd EXCEPT ![c] = @ + 1]
        /\ UNCHANGED <<wscale, sent, una, edge, read, blocks, out, acks, free, wrapped>>
    BY <1>8 DEF ByteArrives
  <2>5. Ordered'
    BY <2>3, <2>4 DEF Unread
  <2> QED  BY <2>1, <2>4, <2>5 DEF blocks
<1>9. ASSUME NEW c \in Side, AppReads(c) PROVE Inv'
  BY <1>9, SideFacts DEF AppReads, blocks, Unread
<1>10. CASE UNCHANGED vars
  BY <1>10 DEF vars, stream, blocks, Unread
<1> QED
  BY <1>1, <1>2, <1>3, <1>4, <1>5, <1>6, <1>7, <1>8, <1>9, <1>10 DEF Next

\* The variables keep their types and the counters of a session their order.
THEOREM Ordering == Spec => []Inv
BY InvInit, InvStep, PTL DEF Spec

-----------------------------------------------------------------------------
(* Pairs of sockets.                                                       *)

\* Each socket's peer is in its block when a CPU comes to the socket.
PeerFirst ==
    \A k \in Savers :
        /\ saver[k] = "left my" => other["left"] = "right"
        /\ saver[k] = "right my" => other["right"] = "left"

LEMMA PairedStep ==
    ASSUME Inv, PeerFirst, SocketsPaired, [Next]_vars
    PROVE  PeerFirst' /\ SocketsPaired'
<1>1. ASSUME NEW k \in Savers, SaveStart(k) PROVE PeerFirst' /\ SocketsPaired'
  <2>1. saver' = [saver EXCEPT ![k] = "left other"] /\ UNCHANGED <<my, other>>
    BY <1>1 DEF SaveStart
  <2> QED  BY <2>1 DEF Inv, TypeOK, PeerFirst, SocketsPaired
<1>2. ASSUME NEW k \in Savers, SaveSockets(k) PROVE PeerFirst' /\ SocketsPaired'
  <2>1. PeerFirst'
    BY <1>2, SideFacts DEF SaveSockets, PeerFirst, Inv, TypeOK, Side
  <2> DEFINE Ok(c, m, o) == m[c] # None => m[c] = c /\ o[c] = Peer(c)
  <2>2. \A c \in Side : Ok(c, my, other)  BY DEF SocketsPaired
  <2>3. my \in [Side -> Side \cup {None}] /\ other \in [Side -> Side \cup {None}]
    BY DEF Inv, TypeOK
  <2>4. Ok("left", my', other')
    BY <1>2, <2>2, <2>3, SideFacts DEF SaveSockets, PeerFirst, Peer
  <2>5. Ok("right", my', other')
    BY <1>2, <2>2, <2>3, SideFacts DEF SaveSockets, PeerFirst, Peer
  <2>6. SocketsPaired'  BY <2>4, <2>5 DEF SocketsPaired, Side
  <2> QED  BY <2>1, <2>6
<1>3. CASE UNCHANGED blocks
  BY <1>3 DEF blocks, PeerFirst, SocketsPaired
<1>4. ASSUME NEW c \in Side,
             \/ TcpAck(c) \/ ReadRcvNxt(c) \/ FixRcvWindow(c) \/ Unfixed(c)
             \/ SendByte(c) \/ ByteArrives(c) \/ AppReads(c)
             \/ \E m \in acks[c] : TakeAck(c, m)
      PROVE  UNCHANGED blocks
  BY <1>4 DEF TcpAck, ReadRcvNxt, FixRcvWindow, Unfixed, Leave, SendByte, ByteArrives,
              AppReads, TakeAck
<1>5. CASE UNCHANGED vars  BY <1>3, <1>5 DEF vars
<1> QED  BY <1>1, <1>2, <1>3, <1>4, <1>5 DEF Next, SaveRcvWindow

\* The data path never finds a socket in a block without its peer, however many CPUs
\* are in dysco_ctl_save_rcv_window at a time.
THEOREM PairsOfSockets == Spec => []SocketsPaired
<1>1. Init => PeerFirst /\ SocketsPaired
  BY DEF Init, PeerFirst, SocketsPaired
<1> QED  BY <1>1, Ordering, PairedStep, PTL DEF Spec

-----------------------------------------------------------------------------
(* What is left unread.                                                    *)

\* A position that was allowed before the fix, or is two windows away at most.
Limited(c, e) == e <= free[c] \/ e <= read[c] + 2 * Max

Cut ==
    \A c \in Side :
        /\ Limited(c, edge[c]) /\ Limited(c, sent[c])
        /\ \A m \in acks[c] : Limited(c, Edge(m))

\* rcv_nxt of an ack that is being fixed was that of a byte not before the ack's.
Noted ==
    \A c \in Side : out[c].pc = "fix" =>
        /\ my[c] = c
        /\ \E k \in out[c].pos .. rcvd[c] : out[c].nxt = (First[c] + k) % W

LEMMA Numbered ==
    ASSUME NEW c \in Side, NEW k \in Nat, k < H
    PROVE  (First[c] + k) % W = IF First[c] + k < W THEN First[c] + k
                                                    ELSE First[c] + k - W
<1>1. First[c] \in Nat /\ First[c] < W  BY SideFacts, HAssumption DEF Num, W
<1>2. First[c] + k \in Nat /\ First[c] + k < 2 * W  BY <1>1, HAssumption DEF W
<1>3. \A x \in Nat : /\ x < W => x % W = x
                     /\ W <= x /\ x < 2 * W => x % W = x - W
  BY HAssumption DEF W
<1>4. W \in Nat  BY HAssumption DEF W
<1> QED  BY <1>1, <1>2, <1>3, <1>4

LEMMA NotedStep ==
    ASSUME Inv, SocketsPaired, Noted, [Next]_vars
    PROVE  Noted'
<1>1. CASE UNCHANGED <<my, out, rcvd>>
  BY <1>1 DEF Noted
<1>2. ASSUME NEW k \in Savers, SaveRcvWindow(k) PROVE Noted'
  <2>0. my' = my \/ \E c \in Side : my' = [my EXCEPT ![c] = c]
    BY <1>2, SideFacts DEF SaveRcvWindow, SaveStart, SaveSockets
  <2>1. \A c \in Side : my'[c] = my[c] \/ my'[c] = c
    BY <2>0 DEF Inv, TypeOK
  <2> QED  BY <1>2, <2>1 DEF SaveRcvWindow, stream, Noted
<1>3. ASSUME NEW c \in Side, TcpAck(c) PROVE Noted'
  BY <1>3 DEF TcpAck, stream, blocks, Noted, Inv, TypeOK
<1>4. ASSUME NEW c \in Side, ReadRcvNxt(c) PROVE Noted'
  <2>1. my[c] = c  BY <1>4 DEF ReadRcvNxt, SocketsPaired
  <2>2. /\ out' = [out EXCEPT ![c].pc = "fix", ![c].nxt = RcvNxt(c)]
        /\ UNCHANGED <<my, rcvd>>
    BY <1>4, <2>1 DEF ReadRcvNxt, stream, blocks
  <2>3. out[c] \in OutAck /\ out[c].pos \in Nat /\ rcvd[c] \in Nat /\ out[c].pos <= rcvd[c]
    BY WindowTypes DEF Inv, TypeOK, Ordered
  <2>4. /\ out'[c].pos = out[c].pos
        /\ out'[c].nxt = (First[c] + rcvd[c]) % W
    BY <2>2, <2>3 DEF Inv, TypeOK, OutAck, RcvNxt
  <2>5. rcvd[c] \in out[c].pos .. rcvd[c]  BY <2>3
  <2>6. \A d \in Side \ {c} : out'[d] = out[d]  BY <2>2 DEF Inv, TypeOK
  <2>7. \A d \in Side : my'[d] = my[d] /\ rcvd'[d] = rcvd[d]  BY <2>2
  <2>8. \E k \in out'[c].pos .. rcvd'[c] : out'[c].nxt = (First[c] + k) % W
    BY <2>4, <2>5, <2>7
  <2>9. \A d \in Side \ {c} : out'[d].pc = "fix" =>
          /\ my'[d] = d
          /\ \E k \in out'[d].pos .. rcvd'[d] : out'[d].nxt = (First[d] + k) % W
    BY <2>6, <2>7 DEF Noted
  <2>10. my'[c] = c  BY <2>1, <2>7
  <2> QED  BY <2>8, <2>9, <2>10 DEF Noted
<1>5. ASSUME NEW c \in Side, FixRcvWindow(c) \/ Unfixed(c) PROVE Noted'
  <2>1. out' = [out EXCEPT ![c] = NoAck] /\ UNCHANGED <<my, rcvd>>
    BY <1>5 DEF FixRcvWindow, Unfixed, Leave, stream, blocks
  <2> QED  BY <2>1 DEF Noted, NoAck, Inv, TypeOK
<1>6. ASSUME NEW c \in Side, ByteArrives(c) PROVE Noted'
  <2>1. UNCHANGED <<my, out>> /\ \A d \in Side : rcvd'[d] = rcvd[d] \/ rcvd'[d] = rcvd[d] + 1
    BY <1>6 DEF ByteArrives, blocks, Inv, TypeOK
  <2>2. \A d \in Side : rcvd[d] \in Nat /\ out[d].pos \in Nat
    BY WindowTypes DEF Inv, TypeOK
  <2>3. \A d \in Side : out[d].pos .. rcvd[d] \subseteq out[d].pos .. rcvd'[d]
    BY <2>1, <2>2
  <2> QED
    <3> SUFFICES ASSUME NEW d \in Side, out'[d].pc = "fix"
                 PROVE  /\ my'[d] = d
                        /\ \E k \in out[d].pos .. rcvd'[d] : out[d].nxt = (First[d] + k) % W
      BY <2>1 DEF Noted
    <3>1. PICK k \in out[d].pos .. rcvd[d] : out[d].nxt = (First[d] + k) % W
      BY <2>1 DEF Noted
    <3> QED  BY <2>1, <2>3, <3>1 DEF Noted
<1>7. ASSUME NEW c \in Side,
             \/ SendByte(c) \/ AppReads(c) \/ \E m \in acks[c] : TakeAck(c, m)
      PROVE  UNCHANGED <<my, out, rcvd>>
  BY <1>7 DEF SendByte, AppReads, TakeAck, blocks
<1>8. CASE UNCHANGED vars  BY <1>1, <1>8 DEF vars, stream, blocks
<1> QED  BY <1>1, <1>2, <1>3, <1>4, <1>5, <1>6, <1>7, <1>8 DEF Next

\* What is read of a buffer is enough to tell that the edge is near: the position
\* of the ack that is cut is not far beyond what was read, unless the counters wrap.
LEMMA CutIsNear ==
    ASSUME Inv, NEW c \in Side, my[c] = c, NEW k \in out[c].pos .. rcvd[c],
           out[c].nxt = (First[c] + k) % W, ~(RcvBuf(c, out[c].nxt) > Max)
    PROVE  out[c].pos <= read[c] + Max \/ RcvNxt(c) < CopiedSeq(c)
<1> DEFINE f == First[c]
           i == rcvd[c]
           j == read[c]
<1>1. /\ f \in Nat /\ f < W /\ W \in Nat /\ W = 2 * H /\ H \in Nat /\ Max \in Nat
      /\ i \in Nat /\ i < H /\ j \in Nat /\ j <= i
      /\ k \in Nat /\ out[c].pos \in Nat /\ out[c].pos <= k /\ k <= i
  BY SideFacts, HAssumption, WindowTypes DEF Inv, TypeOK, Ordered, Num, W
<1>2. /\ out[c].nxt = IF f + k < W THEN f + k ELSE f + k - W
      /\ RcvNxt(c) = IF f + i < W THEN f + i ELSE f + i - W
      /\ CopiedSeq(c) = IF f + j < W THEN f + j ELSE f + j - W
  BY <1>1, Numbered DEF RcvNxt, CopiedSeq
<1>3. out[c].nxt >= CopiedSeq(c) => ~(out[c].nxt - CopiedSeq(c) > Max)
  BY DEF RcvBuf
<1> HIDE DEF f, i, j
<1>4. out[c].pos <= j + Max \/ RcvNxt(c) < CopiedSeq(c)
  BY <1>1, <1>2, <1>3
<1> QED  BY <1>4 DEF j
\* An ack that leaves is limited if its window was, or if it was cut.
LEMMA CutLeave ==
    ASSUME Inv, Cut, NEW c \in Side, NEW w \in Nat, Leave(c, w), UNCHANGED free,
           Limited(c, out[c].pos + w * Unit)
    PROVE  Cut'
<1> DEFINE m == [pos |-> out[c].pos, wnd |-> w]
<1>1. Edge(m) = out[c].pos + w * Unit  BY DEF Edge
<1>2. \A d \in Side : \A n \in acks'[d] : n \in acks[d] \/ (d = c /\ n = m)
  BY DEF Leave, Inv, TypeOK
<1> HIDE DEF m
<1>3. \A d \in Side : \A n \in acks'[d] : Limited(d, Edge(n))
  BY <1>1, <1>2 DEF Cut
<1> QED  BY <1>3 DEF Leave, stream, Cut, Limited, Edge, Unit

LEMMA CutStep ==
    ASSUME Inv, SocketsPaired, Noted, Cut, [Next]_vars, ~wrapped'
    PROVE  Cut'
<1> USE DEF Limited
<1>0. \A c \in Side : /\ free[c] \in Nat /\ read[c] \in Nat /\ sent[c] \in Nat
                      /\ edge[c] \in Nat /\ Max \in Nat
  BY SideFacts DEF Inv, TypeOK
<1>1. CASE UNCHANGED <<wscale, edge, sent, acks, free, read>>
  BY <1>1 DEF Cut, Edge, Unit
<1>2. ASSUME NEW k \in Savers, SaveRcvWindow(k) PROVE Cut'
  BY <1>1, <1>2 DEF SaveRcvWindow, stream
<1>3. ASSUME NEW c \in Side, TcpAck(c) \/ ReadRcvNxt(c) \/ ByteArrives(c) PROVE Cut'
  BY <1>1, <1>3 DEF TcpAck, ReadRcvNxt, ByteArrives, stream
<1>4. ASSUME NEW c \in Side, FixRcvWindow(c) PROVE Cut'
  <2>1. Leave(c, Fixed(c)) /\ UNCHANGED free /\ ~(RcvNxt(c) < CopiedSeq(c))
    BY <1>4 DEF FixRcvWindow
  <2>2. /\ out[c].pos \in Nat /\ rcvd[c] \in Nat /\ out[c].pos <= rcvd[c]
        /\ rcvd[c] <= sent[c] /\ Unit \in Nat \ {0}
    BY WindowTypes, UnitType DEF Inv, TypeOK, Ordered
  <2> DEFINE new == NewWindow(c, out[c].wnd * Unit, RcvBuf(c, out[c].nxt))
  <2>3. Fixed(c) = new \div Unit  BY DEF Fixed, Unit
  <2>4. CASE RcvBuf(c, out[c].nxt) > Max
    <3>1. new = 0  BY <2>4 DEF NewWindow, Max
    <3> HIDE DEF new
    <3>2. Fixed(c) * Unit = 0  BY <2>2, <2>3, <3>1
    <3>3. Limited(c, out[c].pos)  BY <1>0, <2>2 DEF Cut
    <3>4. out[c].pos + Fixed(c) * Unit = out[c].pos  BY <2>2, <3>2
    <3> QED  BY <2>1, <3>3, <3>4, CutLeave, WindowTypes
  <2>5. CASE ~(RcvBuf(c, out[c].nxt) > Max)
    <3>1. PICK k \in out[c].pos .. rcvd[c] : out[c].nxt = (First[c] + k) % W
      BY <1>4 DEF FixRcvWindow, Noted
    <3>2. my[c] = c  BY <1>4 DEF FixRcvWindow, Noted
    <3>3. out[c].pos <= read[c] + Max
      BY <2>1, <2>5, <3>1, <3>2, CutIsNear
    <3>4. new \in Nat /\ new <= Max
      <4> DEFINE old == out[c].wnd * Unit
                 buf == RcvBuf(c, out[c].nxt)
      <4>0. new = NewWindow(c, old, buf) /\ ~(buf > Max)  BY <2>5
      <4> HIDE DEF new, old, buf
      <4>1. new = Least(Max, old)  BY <4>0 DEF NewWindow, Max
      <4>2. old \in Nat /\ Max \in Nat  BY WindowTypes, SideFacts DEF old
      <4>3. \A a, b \in Nat : Least(a, b) \in Nat /\ Least(a, b) <= a  BY DEF Least
      <4> QED  BY <4>1, <4>2, <4>3
    <3> HIDE DEF new
    <3>5. Fixed(c) \in Nat /\ Fixed(c) * Unit <= new
      BY <2>2, <2>3, <3>4, ScaledDown
    <3>6. Fixed(c) * Unit \in Nat  BY <2>2, <3>5
    <3>7. out[c].pos + Fixed(c) * Unit <= read[c] + 2 * Max
      BY <1>0, <2>2, <3>3, <3>4, <3>5, <3>6
    <3> QED  BY <2>1, <3>5, <3>7, CutLeave
  <2> QED  BY <2>4, <2>5
<1>5. ASSUME NEW c \in Side, Unfixed(c) PROVE Cut'
  <2> DEFINE e == out[c].pos + out[c].wnd * Unit
             m == [pos |-> out[c].pos, wnd |-> out[c].wnd]
  <2>1. e \in Nat /\ Edge(m) = e  BY WindowTypes DEF Edge
  <2>2. Leave(c, out[c].wnd)  BY <1>5 DEF Unfixed
  <2>3. \A d \in Side : \A n \in acks'[d] : n \in acks[d] \/ (d = c /\ n = m)
    BY <2>2 DEF Leave, Inv, TypeOK
  <2>4. free' = [free EXCEPT ![c] = IF @ < e THEN e ELSE @]
    BY <1>5 DEF Unfixed, Unit
  <2> HIDE DEF e, m
  <2>5. \A d \in Side : free'[d] \in Nat /\ free[d] <= free'[d]
    BY <1>0, <2>1, <2>4 DEF Inv, TypeOK
  <2>6. e <= free'[c]
    BY <1>0, <2>1, <2>4 DEF Inv, TypeOK
  <2>7. \A d \in Side : \A n \in acks[d] : Edge(n) \in Nat  BY WindowTypes
  <2>8. UNCHANGED <<wscale, edge, sent, read>>
    BY <2>2 DEF Leave, stream
  <2>9. ASSUME NEW d \in Side
        PROVE  Limited(d, edge[d])' /\ Limited(d, sent[d])'
    BY <1>0, <2>5, <2>8 DEF Cut
  <2>10. ASSUME NEW d \in Side, NEW n \in acks'[d] PROVE Limited(d, Edge(n))'
    <3>1. Edge(n)' = Edge(n)  BY <2>8 DEF Edge, Unit
    <3>2. CASE n \in acks[d]
      <4>1. Limited(d, Edge(n)) /\ Edge(n) \in Nat  BY <2>7, <3>2 DEF Cut
      <4> QED  BY <1>0, <2>5, <2>8, <3>1, <4>1
    <3>3. CASE d = c /\ n = m
      BY <2>1, <2>6, <3>1, <3>3
    <3> QED  BY <2>3, <3>2, <3>3
  <2> QED  BY <2>9, <2>10 DEF Cut
<1>6. ASSUME NEW c \in Side, NEW m \in acks[c], TakeAck(c, m) PROVE Cut'
  <2>1. Limited(c, Edge(m))  BY DEF Cut
  <2>2. edge' = edge \/ edge' = [edge EXCEPT ![c] = Edge(m)]
    BY <1>6 DEF TakeAck, Edge, Unit
  <2>3. \A d \in Side : Limited(d, edge'[d])
    BY <2>1, <2>2 DEF Cut, Inv, TypeOK
  <2>4. UNCHANGED <<wscale, sent, free, read>> /\ \A d \in Side : acks'[d] \subseteq acks[d]
    BY <1>6 DEF TakeAck, Inv, TypeOK
  <2> QED  BY <2>3, <2>4 DEF Cut, Edge, Unit
<1>7. ASSUME NEW c \in Side, SendByte(c) PROVE Cut'
  <2>1. sent' = [sent EXCEPT ![c] = @ + 1] /\ sent[c] < edge[c]
        /\ UNCHANGED <<wscale, edge, acks, free, read>>
    BY <1>7 DEF SendByte
  <2>2. Limited(c, sent[c] + 1)
    BY <1>0, <2>1 DEF Cut
  <2>3. \A d \in Side : Limited(d, sent'[d])
    BY <2>1, <2>2 DEF Cut, Inv, TypeOK
  <2> QED  BY <2>1, <2>3 DEF Cut, Edge, Unit
<1>8. ASSUME NEW c \in Side, AppReads(c) PROVE Cut'
  <2>1. read' = [read EXCEPT ![c] = @ + 1] /\ UNCHANGED <<wscale, edge, sent, acks, free>>
    BY <1>8 DEF AppReads
  <2>2. \A d \in Side : read'[d] = read[d] \/ read'[d] = read[d] + 1
    BY <2>1 DEF Inv, TypeOK
  <2>3. ASSUME NEW d \in Side, NEW e \in Nat, Limited(d, e)
        PROVE  e <= free[d] \/ e <= read'[d] + 2 * Max
    BY <1>0, <2>2, <2>3
  <2>4. \A d \in Side : \A m \in acks[d] : Edge(m) \in Nat  BY WindowTypes
  <2>5. ASSUME NEW d \in Side
        PROVE  Limited(d, edge[d])' /\ Limited(d, sent[d])'
    BY <1>0, <2>1, <2>3 DEF Cut
  <2>6. ASSUME NEW d \in Side, NEW m \in acks[d] PROVE Limited(d, Edge(m))'
    <3>1. Edge(m)' = Edge(m)  BY <2>1 DEF Edge, Unit
    <3>2. Limited(d, Edge(m))  BY DEF Cut
    <3> QED  BY <2>1, <2>3, <2>4, <3>1, <3>2
  <2> QED  BY <2>1, <2>5, <2>6 DEF Cut
<1>9. CASE UNCHANGED vars  BY <1>1, <1>9 DEF vars, stream
<1> QED  BY <1>2, <1>3, <1>4, <1>5, <1>6, <1>7, <1>8, <1>9 DEF Next

LEMMA CutInit == Init => Noted /\ Cut
<1> SUFFICES ASSUME Init PROVE Noted /\ Cut
  OBVIOUS
<1>1. Noted  BY DEF Init, Noted, NoAck
<1>2. \A c \in Side : /\ edge[c] = free[c] /\ sent[c] = 0 /\ read[c] = 0
                      /\ acks[c] = {} /\ Max \in Nat
  BY SideFacts DEF Init
<1>3. \A c \in Side : edge[c] \in Nat  BY SideFacts DEF Init
<1> QED  BY <1>1, <1>2, <1>3 DEF Cut, Limited

LEMMA CutThrottles == ASSUME Inv, wrapped \/ Cut PROVE Throttled
<1> SUFFICES ASSUME NEW c \in Side, Unread(c) > 2 * Max, Cut
             PROVE  rcvd[c] <= free[c]
  BY DEF Throttled, Max
<1>1. /\ read[c] \in Nat /\ rcvd[c] \in Nat /\ sent[c] \in Nat /\ free[c] \in Nat
      /\ rcvd[c] <= sent[c] /\ Max \in Nat
  BY SideFacts DEF Inv, TypeOK, Ordered
<1>2. sent[c] <= free[c] \/ sent[c] <= read[c] + 2 * Max  BY DEF Cut, Limited
<1> QED  BY <1>1, <1>2 DEF Unread

\* Once a session's socket is known, and what was announced before is used up, no
\* more than two windows stay unread in the proxy, unless the numbers wrap.
THEOREM ProxyThrottled == Spec => []Throttled
<1>1. Inv /\ SocketsPaired /\ Noted /\ (wrapped \/ Cut) /\ [Next]_vars => wrapped' \/ Cut'
  <2> SUFFICES ASSUME Inv, SocketsPaired, Noted, wrapped \/ Cut, [Next]_vars, ~wrapped'
               PROVE  Cut'
    OBVIOUS
  <2>1. ~wrapped
    BY DEF Next, SaveRcvWindow, TcpAck, ReadRcvNxt, FixRcvWindow, Unfixed, Leave,
           SendByte, ByteArrives, AppReads, TakeAck, vars
  <2> QED  BY <2>1, CutStep
<1>2. Inv /\ SocketsPaired /\ Noted /\ [Next]_vars => Noted'  BY NotedStep
<1>3. Inv /\ (wrapped \/ Cut) => Throttled  BY CutThrottles
<1> QED  BY <1>1, <1>2, <1>3, CutInit, Ordering, PairsOfSockets, PTL DEF Spec
=============================================================================
