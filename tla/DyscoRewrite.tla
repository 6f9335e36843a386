---------------------------- MODULE DyscoRewrite ----------------------------
(***************************************************************************)
(* What the data path rewrites in the header of a segment: addresses,      *)
(* ports, sequence and ack number, SACK blocks, time stamps, the window,   *)
(* and with each of them the checksum.                                     *)
(*                                                                         *)
(* Two hosts L and R.  In a spliced session each had a TCP session of its  *)
(* own with the proxy M, and the right anchor translates what the new path *)
(* carries; segments of the old path still arrive.  In a plain session     *)
(* nothing is translated and the path leads through a middlebox K.         *)
(***************************************************************************)
EXTENDS DyscoChecksum, Sequences, FiniteSets

CONSTANTS
    Setups,         \* the sessions, see Setup
    MaxNow          \* bound on the clock

Hosts == {"L", "R"}
Peer(h) == IF h = "L" THEN "R" ELSE "L"

\* A window scale as it is parsed: 14 if the option says more.
Scale == 0 .. 14

\* For each host: iseq, ts, ws, the initial number, time stamp and window scale
\* of its TCP; mseq, mts, mws, those that M used with it; at, the time of its
\* SYN+ACK; addr, which is not 0, port, and peer, whom its TCP is connected to.
Side == [iseq : Num, ts : Num, ws : Scale, mseq : Num, mts : Num, mws : Scale,
         at : 0 .. MaxNow, addr : Num \ {0}, port : Word, peer : Num]

Setup == [spliced : BOOLEAN, L : Side, R : Side, K : Num]

\* The number space holds the offsets that the segments use.  MaxNow is less than
\* half of it, as TCP's own comparison of time stamps wants.  In a plain session the
\* two hosts have one session, with each other.
ASSUME RewriteAssumption ==
    /\ Setups \subseteq Setup
    /\ MaxNow \in Nat /\ MaxNow < H
    /\ W > 4
    /\ \A s \in Setups : ~s.spliced =>
          s.L.mts = s.R.ts /\ s.R.mts = s.L.ts /\ s.L.at = s.R.at

VARIABLES
    setup,
    now,
    recent,     \* recent[h]: the time stamp that h's TCP echoes
    net,        \* the segment on its way: one at a time
    got         \* the one that reached the host's TCP, after it

vars == <<setup, now, recent, net, got>>

Skew == setup.R.at - setup.L.at
Clock(h, t) == Wrap(setup[h].ts + t - setup[h].at)

\* What the history of a segment says: when and by which path the time stamp in
\* it, and the one it echoes, were sent; its offset in the stream.
Origin == [sent : 0 .. MaxNow, path : {"old", "new"}]
Nothing == [at |-> "none"]

-----------------------------------------------------------------------------
(* Initial values, recorded as the SYN+ACK passes, and the deltas.         *)

\* In the output block of the host: its own values, and those of the other end
\* of its session.
Recorded(h) ==
    LET s == setup[h] IN
    [iseq |-> s.iseq, iack |-> s.mseq, ts |-> s.ts, tsr |-> s.mts,
     ws |-> s.ws, wsr |-> s.mws]

\* What the DYSCO_SYN carries to the right anchor: leftIseq ...
rcb == Recorded("L")

Map(from, to) == [in |-> from, out |-> to]
Same == Map(0, 0)
NoDeltas == [seq |-> Same, ack |-> Same, ts |-> Same, tsr |-> Same, ws |-> Same,
             ts_ok |-> TRUE, ws_ok |-> TRUE]

\* The time stamp that the left host's peer started with is taken for the left
\* host's own.
DeltasOutBugSwapped(old) ==
    [seq |-> Map(old.iseq, rcb.iack), ack |-> Map(old.iack, rcb.iseq),
     ts |-> Map(old.ts, rcb.ts), tsr |-> Map(old.tsr, rcb.tsr),
     ws |-> Map(old.ws, rcb.wsr),
     ts_ok |-> rcb.ts # 0, ws_ok |-> rcb.wsr # 0]

DeltasOut(old) ==
    [seq |-> Map(old.iseq, rcb.iack), ack |-> Map(old.iack, rcb.iseq),
     ts |-> Map(old.ts, rcb.tsr), tsr |-> Map(old.tsr, rcb.ts),
     ws |-> Map(old.ws, rcb.wsr),
     ts_ok |-> rcb.ts # 0, ws_ok |-> rcb.wsr # 0]

\* The time stamp is mapped to the host's own clock, not to M's.
DeltasInBugOwnClock(old) ==
    [seq |-> Map(rcb.iseq, old.iack), ack |-> Map(rcb.iack, old.iseq),
     ts |-> Map(rcb.ts, old.ts), tsr |-> Map(rcb.tsr, old.ts),
     ws |-> Map(rcb.ws, old.ws),
     ts_ok |-> rcb.ts # 0, ws_ok |-> rcb.ws # 0]

DeltasIn(old) ==
    [seq |-> Map(rcb.iseq, old.iack), ack |-> Map(rcb.iack, old.iseq),
     ts |-> Map(rcb.ts, old.tsr), tsr |-> Map(rcb.tsr, old.ts),
     ws |-> Map(rcb.ws, old.ws),
     ts_ok |-> rcb.ts # 0, ws_ok |-> rcb.ws # 0]

\* The left anchor translates nothing.
OutBlock(h) == IF setup.spliced /\ h = "R" THEN DeltasOut(Recorded("R")) ELSE NoDeltas
InBlock(h) == IF setup.spliced /\ h = "R" THEN DeltasIn(Recorded("R")) ELSE NoDeltas

-----------------------------------------------------------------------------
(* Rewriting.  p has the fields of the header, check and csum.             *)

\* A field of 32 bits is replaced, and the checksum with it.
Replace(p, f, new) == [ProtoReplace4(p, p[f], new, FALSE) EXCEPT ![f] = new]

Translate(p, f, m) ==
    IF m.in = m.out THEN p ELSE Replace(p, f, Rewrite(p[f], m.in, m.out))

\* Each edge of a SACK block.
TcpSack(p, m) ==
    LET edge(q, i) ==
            LET new == Rewrite(q.sack[i], m.in, m.out)
            IN  [ProtoReplace4(q, q.sack[i], new, FALSE) EXCEPT !.sack[i] = new]
    IN  edge(edge(p, 1), 2)

RewriteAckBugNoSack(p, m) == Translate(p, "ack", m)

RewriteAck(p, m) == IF m.in = m.out THEN p ELSE Translate(TcpSack(p, m), "ack", m)

RewriteTs(p, dcb) ==
    IF dcb.ts_ok THEN Translate(Translate(p, "ts", dcb.ts), "tsr", dcb.tsr) ELSE p

\* The scale is undone in the wrong direction.
RewriteWndBugDown(p, dcb) ==
    LET new == ((p.wnd * 2 ^ dcb.ws.out) \div 2 ^ dcb.ws.in) % B
    IN  IF dcb.ws_ok /\ dcb.ws.in # dcb.ws.out THEN Replace(p, "wnd", new) ELSE p

\* The window in bytes is scaled anew, and cut to 16 bits.
RewriteWnd(p, dcb) ==
    LET new == ((p.wnd * 2 ^ dcb.ws.in) \div 2 ^ dcb.ws.out) % B
    IN  IF dcb.ws_ok /\ dcb.ws.in # dcb.ws.out THEN Replace(p, "wnd", new) ELSE p

RewriteNumbers(p, dcb) ==
    RewriteWnd(RewriteTs(RewriteAck(Translate(p, "seq", dcb.seq), dcb.ack), dcb), dcb)

\* The addresses of a session and its ports replace those of the packet; the
\* carry of the sum of the new addresses comes from comparing it with compared.
HdrRewrite(p, s, compared) ==
    LET from == SumWithCarry(p.src, p.dst, p.dst)
        to == SumWithCarry(s.src, s.dst, compared)
        q == ProtoReplace4([p EXCEPT !.ipcheck = CsumReplace4(@, from, to),
                                     !.src = s.src, !.dst = s.dst], from, to, TRUE)
    IN  Replace(Replace(q, "sport", s.sport), "dport", s.dport)

\* dysco_out_translate's and dysco_input's order.
OutRewrite(p, dcb, sub) == HdrRewrite(RewriteNumbers(p, dcb), sub, sub.dst)
InRewrite(p, dcb, sub, super) == RewriteNumbers(HdrRewrite(p, super, sub.dst), dcb)

-----------------------------------------------------------------------------
(* Sessions of a hop: what a host's TCP says (super), and what is on the   *)
(* wire (sub), whose ports are those of the addresses.                     *)

Session(src, dst, sport, dport) == [src |-> src, dst |-> dst, sport |-> sport, dport |-> dport]

SuperOf(h) ==       \* of what h sends
    LET s == setup[h] IN Session(s.addr, s.peer, s.port, setup[Peer(h)].port)
Turned(s) == Session(s.dst, s.src, s.dport, s.sport)
SubOf(from, to) == Session(from, to, from % B, to % B)

FirstHop(h) == IF setup.spliced THEN setup[Peer(h)].addr ELSE setup.K
LastHop(h) == SubOf(IF setup.spliced THEN setup[Peer(h)].addr ELSE setup.K, setup[h].addr)

-----------------------------------------------------------------------------
(* Checksums, from scratch.                                                *)

Pseudo(p) == p.src + p.dst
Segment(p) ==
    p.sport + p.dport + p.seq + p.ack + p.sack[1] + p.sack[2] + p.ts + p.tsr + p.wnd

\* The packet with the checksum that TCP or, for PARTIAL, the device's driver
\* wants to find.
WithChecksum(p) ==
    [p EXCEPT !.ipcheck = CsumFold(Fold4(p.src + p.dst)),
              !.check = IF p.summed = "PARTIAL" THEN Not2(CsumFold(Fold4(Pseudo(p))))
                        ELSE CsumFold(Fold4(Pseudo(p) + Fold4(Segment(p))))]

\* How the receiver verifies it.
Verifies(p) ==
    /\ CsumFold(Fold4(p.src + p.dst + p.ipcheck)) = 0
    /\ CASE p.summed = "COMPLETE" -> CsumFold(Fold4(Pseudo(p) + p.csum)) = 0
         [] p.summed = "NONE" ->
                CsumFold(Fold4(Pseudo(p) + Fold4(Segment(p) + p.check))) = 0
         [] p.summed = "PARTIAL" ->
                CsumFold(Fold4(Pseudo(p))) = Not2(p.check)

\* On the way the device finishes a checksum (unless both hosts are containers of
\* one kernel), and the receiving one may sum the segment up.
Arrival(p) ==
    LET done == IF p.summed # "PARTIAL" THEN p
                ELSE [p EXCEPT !.check = CsumFold(Fold4(Fold4(Segment(p) + p.check))),
                               !.summed = "NONE"]
    IN  {done, [done EXCEPT !.summed = "COMPLETE", !.csum = Fold4(Segment(done) + done.check)]}
        \cup {q \in {p} : p.summed = "PARTIAL"}

-----------------------------------------------------------------------------
Later(a, b) == IF a > b THEN a ELSE b

Init ==
    /\ setup \in Setups
    /\ now = Later(setup.L.at, setup.R.at)
    /\ recent = [h \in Hosts |-> [val |-> setup[h].mts,
                                  origin |-> [sent |-> setup[h].at, path |-> "old"]]]
    /\ net = Nothing
    /\ got = Nothing

Tick ==
    /\ now < MaxNow
    /\ now' = now + 1
    /\ UNCHANGED <<setup, recent, net, got>>

\* A segment at the offset k, with an ack and a SACK block beyond it, as TCP
\* writes it, with its checksum left to the device or not.
Written(h, k, w, s) ==
    LET super == SuperOf(h)
    IN  WithChecksum(
          [src |-> super.src, dst |-> super.dst,
           sport |-> super.sport, dport |-> super.dport,
           seq |-> Wrap(setup[h].iseq + k), ack |-> Wrap(setup[h].mseq + k),
           sack |-> <<Wrap(setup[h].mseq + k + 1), Wrap(setup[h].mseq + k + 2)>>,
           ts |-> Clock(h, now), tsr |-> recent[h].val, wnd |-> w,
           ipcheck |-> 0, check |-> 0, csum |-> 0, summed |-> s,
           k |-> k, told |-> w, sent |-> now, echo |-> recent[h].origin])

\* It is rewritten as it leaves.
Send(h) ==
    /\ net = Nothing
    /\ \E k \in {1, 2}, w \in {1, B - 1}, s \in {"NONE", "PARTIAL"} :
          net' = [at |-> IF setup.spliced THEN "host" ELSE "K", to |-> Peer(h),
                  p |-> OutRewrite(Written(h, k, w, s), OutBlock(h),
                                   SubOf(setup[h].addr, FirstHop(h)))]
    /\ got' = Nothing
    /\ UNCHANGED <<setup, now, recent>>

\* K takes the segment in and sends it on.
Relay ==
    /\ net.at = "K"
    /\ \E p \in Arrival(net.p) :
          LET from == Peer(net.to)
              inside == InRewrite(p, NoDeltas, SubOf(setup[from].addr, setup.K), SuperOf(from))
          IN  net' = [net EXCEPT !.at = "host",
                                 !.p = OutRewrite(inside, NoDeltas,
                                                  SubOf(setup.K, setup[net.to].addr))]
    /\ UNCHANGED <<setup, now, recent, got>>

\* TCP drops a segment whose time stamp is before the one it echoes (PAWS).
Receive ==
    /\ net.at = "host"
    /\ \E arrived \in Arrival(net.p) :
          LET h == net.to
              p == InRewrite(arrived, InBlock(h), LastHop(h), Turned(SuperOf(h)))
              old == Before(p.ts, recent[h].val)
          IN  /\ got' = [at |-> h, p |-> p, dropped |-> old,
                         against |-> recent[h].origin.sent]
              /\ recent' = IF old THEN recent
                           ELSE [recent EXCEPT ![h] =
                                    [val |-> p.ts, origin |-> [sent |-> p.sent, path |-> "new"]]]
    /\ net' = Nothing
    /\ UNCHANGED <<setup, now>>

\* M sends on the old path: only the clock of its segments matters here.
OldSegment(h) ==
    /\ setup.spliced
    /\ LET ts == Wrap(setup[h].mts + now - setup[h].at)
           old == Before(ts, recent[h].val)
       IN  recent' = IF old THEN recent
                     ELSE [recent EXCEPT ![h] = [val |-> ts,
                                                 origin |-> [sent |-> now, path |-> "old"]]]
    /\ UNCHANGED <<setup, now, net, got>>

Next ==
    \/ Tick \/ Relay \/ Receive
    \/ \E h \in Hosts : Send(h) \/ OldSegment(h)

Spec == Init /\ [][Next]_vars

-----------------------------------------------------------------------------
(* Properties.                                                             *)

\* The host that the segment has reached.
Reached == {h \in Hosts : h = got.at}

\* dysco_in_hdr_rewrite_csum takes the carry of the new addresses' sum from the
\* wrong address (dysco_input.c:475): K's, where the session goes on from K.
CarryIsRight(h) ==
    LET s == SuperOf(Peer(h))
        sum == (s.src + s.dst) % W
    IN  setup.spliced \/ (setup.K > sum) = (s.dst > sum)

\* Whoever computes the checksum, at either end, and whatever was rewritten: the
\* receiver's TCP finds the checksum right.
ChecksumsHold ==
    \A h \in Reached : CarryIsRight(h) => Verifies(got.p)

\* Time stamp 0 is taken for none (leftIts), and is not translated.
Translated == setup.spliced => setup.L.ts # 0

\* A time stamp comes back as it was sent: what h's TCP reads as the echo of its
\* own clock is its own clock.  Only what was echoed across the change of paths is
\* off, by the time between the SYN+ACKs of the two sessions.
EchoReturns ==
    Translated => \A h \in Reached :
        LET p == got.p
            off == IF p.echo.path = "new" \/ ~setup.spliced THEN 0
                   ELSE IF h = "R" THEN Skew ELSE -Skew
        IN  p.tsr = Wrap(Clock(h, p.echo.sent) + off)

\* A segment is only dropped as an old duplicate if it was sent less than the time
\* between the two SYN+ACKs after the one it is compared with: use_np_seq and the
\* translation keep the time stamps of both paths in one order but for that.
DroppedWithinSkew ==
    Translated => \A h \in Reached :
        got.dropped => got.p.sent < got.against + Later(Skew, -Skew)

\* No end is told of a larger window than the other end has.  The right anchor
\* takes its own scale for M's, and a scale of 0 for none.
NoOverrun ==
    setup.spliced => \A h \in Reached :
        h = "L" \/ (setup.L.ws > 0 /\ setup.R.mws <= setup.R.ws) =>
            got.p.wnd * 2 ^ setup[h].mws <= got.p.told * 2 ^ setup[Peer(h)].ws

\* All numbers of a segment move together: sequence number, ack and the edges of a
\* SACK block are at the offsets at which the sender's TCP had them.
OffsetsKept ==
    setup.spliced => \A h \in Reached :
        LET p == got.p IN
        /\ Offset(setup[h].mseq, p.seq) = p.k
        /\ Offset(setup[h].iseq, p.ack) = p.k
        /\ \A i \in {1, 2} : Offset(setup[h].iseq, p.sack[i]) = p.k + i
=============================================================================
