------------------------- MODULE DyscoRewriteProofs -------------------------
(***************************************************************************)
(* What becomes of the numbers of a segment between two hosts, for every   *)
(* size of the number space and every pair of sessions.  For the numbers   *)
(* only the fields matter that carry one.  The argument follows a segment: *)
(* the sender's TCP writes its own numbers (AsSent), the right anchor maps *)
(* them, before they leave R or after they reached it, and the receiver's  *)
(* TCP finds its own (AsTaken).  What a host echoes is what it took        *)
(* (RecentRight), so that time stamps go there and back.  Then the         *)
(* checksums: each update keeps the sum of the packet modulo B - 1 (Sums). *)
(***************************************************************************)
EXTENDS DyscoRewrite, DyscoSeqProofs

-----------------------------------------------------------------------------
(* Types.                                                                  *)

MapType == [in : Num, out : Num]
Block == [seq : MapType, ack : MapType, ts : MapType, tsr : MapType,
          ws : [in : Scale, out : Scale], ts_ok : BOOLEAN, ws_ok : BOOLEAN]

Packet == [src : Int, dst : Int, sport : Int, dport : Int,
           seq : Num, ack : Num, sack : Num \X Num, ts : Num, tsr : Num, wnd : Nat,
           ipcheck : Int, check : Int, csum : Int,
           summed : {"NONE", "PARTIAL", "COMPLETE"},
           k : {1, 2}, told : Nat, sent : 0 .. MaxNow, echo : Origin]

SessionType == [src : Int, dst : Int, sport : Int, dport : Int]

\* The same numbers, perhaps with other addresses and checksums.
SameHistory(p, q) ==
    q.k = p.k /\ q.told = p.told /\ q.sent = p.sent /\ q.echo = p.echo
SameNumbers(p, q) ==
    /\ q.seq = p.seq /\ q.ack = p.ack /\ q.sack = p.sack
    /\ q.ts = p.ts /\ q.tsr = p.tsr /\ q.wnd = p.wnd
    /\ SameHistory(p, q)

LEMMA Sizes == B \in Nat /\ B > 1 /\ W \in Nat /\ W > 4 /\ H \in Nat /\ W = 2 * H
BY HAssumption, BAssumption, RewriteAssumption DEF W

-----------------------------------------------------------------------------
(* Checksums are numbers; nothing else of them is needed here.             *)

LEMMA ChecksumType ==
    /\ \A s \in Int : Fold4(s) \in Int /\ CsumFold(s) \in Int
    /\ \A s \in Int : Not4(s) \in Int /\ Not2(s) \in Int
    /\ \A s, f, t \in Int : /\ Not4(f) + t + s \in Int
                            /\ Not4(f) + t + Not4(s) \in Int
    /\ \A s, f, t \in Int : CsumReplace4(s, f, t) \in Int
    /\ \A a, b, c \in Int : SumWithCarry(a, b, c) \in Int
<1>1. \A s \in Int : Not4(s) \in Int /\ Not2(s) \in Int
  BY Sizes DEF Not4, Not2
<1>2. \A s \in Int : Fold4(s) \in Int
  BY Sizes DEF Fold4
<1>3. \A s \in Int : CsumFold(s) \in Int
  <2>1. \A s \in Int : (s % B) + (s \div B) \in Int
    BY Sizes
  <2> QED  BY <1>1, <2>1 DEF CsumFold
<1>4. \A s, f, t \in Int : Not4(f) + t + s \in Int /\ Not4(f) + t + Not4(s) \in Int
  BY Sizes DEF Not4
<1>6. \A s, f, t \in Int : CsumReplace4(s, f, t) \in Int
  BY <1>2, <1>3, <1>4 DEF CsumReplace4
<1>5. \A a, b, c \in Int : SumWithCarry(a, b, c) \in Int
  BY Sizes DEF SumWithCarry
<1> QED  BY <1>1, <1>2, <1>3, <1>4, <1>5, <1>6

LEMMA ProtoKeeps ==
  ASSUME NEW p \in Packet, NEW from \in Int, NEW to \in Int, NEW pseudo \in BOOLEAN
  PROVE  LET q == ProtoReplace4(p, from, to, pseudo)
         IN  q \in Packet /\ SameNumbers(p, q)
<1>1. PICK c \in Int, d \in Int :
         ProtoReplace4(p, from, to, pseudo) = [p EXCEPT !.check = c, !.csum = d]
  <2>1. CASE p.summed = "PARTIAL" /\ pseudo
    <3> DEFINE c == Not2(CsumFold(Fold4(Not4(from) + to + p.check)))
    <3>1. ProtoReplace4(p, from, to, pseudo) = [p EXCEPT !.check = c, !.csum = p.csum]
      BY <2>1 DEF ProtoReplace4, Packet
    <3>2. c \in Int /\ p.csum \in Int
      <4>1. p.check \in Int /\ p.csum \in Int
        BY DEF Packet
      <4>2. Not4(from) + to + p.check \in Int
        BY <4>1, ChecksumType
      <4> QED  BY <4>1, <4>2, ChecksumType
    <3> QED  BY <3>1, <3>2
  <2>2. CASE p.summed = "PARTIAL" /\ ~pseudo
    <3>1. ProtoReplace4(p, from, to, pseudo) = [p EXCEPT !.check = p.check, !.csum = p.csum]
      BY <2>2 DEF ProtoReplace4, Packet
    <3>2. p.check \in Int /\ p.csum \in Int
      BY DEF Packet
    <3> QED  BY <3>1, <3>2
  <2>3. CASE p.summed # "PARTIAL"
    <3> DEFINE c == CsumReplace4(p.check, from, to)
               d == IF p.summed = "COMPLETE" /\ pseudo
                    THEN Not4(Fold4(Not4(from) + to + Not4(p.csum))) ELSE p.csum
    <3>1. ProtoReplace4(p, from, to, pseudo) = [p EXCEPT !.check = c, !.csum = d]
      BY <2>3 DEF ProtoReplace4, Packet
    <3>2. p.check \in Int /\ p.csum \in Int
      BY DEF Packet
    <3>3. Not4(from) + to + Not4(p.csum) \in Int
      BY <3>2, ChecksumType
    <3>4. c \in Int
      BY <3>2, ChecksumType
    <3>5. d \in Int
      BY <3>2, <3>3, ChecksumType
    <3> QED  BY <3>1, <3>4, <3>5
  <2> QED  BY <2>1, <2>2, <2>3
<1> QED  BY <1>1 DEF Packet, SameNumbers, SameHistory

-----------------------------------------------------------------------------
(* Each rewriting changes its own field.                                   *)

LEMMA RewriteSame == \A x, a \in Num : Rewrite(x, a, a) = x
BY HAssumption DEF Rewrite, Wrap, Num, W

LEMMA TranslateSeq ==
  ASSUME NEW p \in Packet, NEW m \in MapType
  PROVE  /\ Translate(p, "seq", m) \in Packet
         /\ SameNumbers([p EXCEPT !.seq = Rewrite(@, m.in, m.out)], Translate(p, "seq", m))
<1>1. m.in \in Num /\ m.out \in Num /\ p.seq \in Num /\ Num \subseteq Int
  BY DEF Packet, MapType, Num, W, HAssumption
<1> DEFINE x == Rewrite(p.seq, m.in, m.out)
           q == ProtoReplace4(p, p.seq, x, FALSE)
<1>2. x \in Num /\ (m.in = m.out => x = p.seq)
  BY <1>1, RewriteType, RewriteSame
<1>3. q \in Packet /\ SameNumbers(p, q)
  BY <1>1, <1>2, ProtoKeeps
<1>4. Translate(p, "seq", m) = IF m.in = m.out THEN p ELSE [q EXCEPT !.seq = x]
  BY DEF Translate, Replace
<1> HIDE DEF x, q
<1> QED  BY <1>1, <1>2, <1>3, <1>4 DEF Packet, SameNumbers, SameHistory, x

LEMMA TranslateAck ==
  ASSUME NEW p \in Packet, NEW m \in MapType
  PROVE  /\ Translate(p, "ack", m) \in Packet
         /\ SameNumbers([p EXCEPT !.ack = Rewrite(@, m.in, m.out)], Translate(p, "ack", m))
<1>1. m.in \in Num /\ m.out \in Num /\ p.ack \in Num /\ Num \subseteq Int
  BY DEF Packet, MapType, Num, W, HAssumption
<1> DEFINE x == Rewrite(p.ack, m.in, m.out)
           q == ProtoReplace4(p, p.ack, x, FALSE)
<1>2. x \in Num /\ (m.in = m.out => x = p.ack)
  BY <1>1, RewriteType, RewriteSame
<1>3. q \in Packet /\ SameNumbers(p, q)
  BY <1>1, <1>2, ProtoKeeps
<1>4. Translate(p, "ack", m) = IF m.in = m.out THEN p ELSE [q EXCEPT !.ack = x]
  BY DEF Translate, Replace
<1> HIDE DEF x, q
<1> QED  BY <1>1, <1>2, <1>3, <1>4 DEF Packet, SameNumbers, SameHistory, x

LEMMA TranslateTs ==
  ASSUME NEW p \in Packet, NEW m \in MapType
  PROVE  /\ Translate(p, "ts", m) \in Packet
         /\ SameNumbers([p EXCEPT !.ts = Rewrite(@, m.in, m.out)], Translate(p, "ts", m))
<1>1. m.in \in Num /\ m.out \in Num /\ p.ts \in Num /\ Num \subseteq Int
  BY DEF Packet, MapType, Num, W, HAssumption
<1> DEFINE x == Rewrite(p.ts, m.in, m.out)
           q == ProtoReplace4(p, p.ts, x, FALSE)
<1>2. x \in Num /\ (m.in = m.out => x = p.ts)
  BY <1>1, RewriteType, RewriteSame
<1>3. q \in Packet /\ SameNumbers(p, q)
  BY <1>1, <1>2, ProtoKeeps
<1>4. Translate(p, "ts", m) = IF m.in = m.out THEN p ELSE [q EXCEPT !.ts = x]
  BY DEF Translate, Replace
<1> HIDE DEF x, q
<1> QED  BY <1>1, <1>2, <1>3, <1>4 DEF Packet, SameNumbers, SameHistory, x

LEMMA TranslateTsr ==
  ASSUME NEW p \in Packet, NEW m \in MapType
  PROVE  /\ Translate(p, "tsr", m) \in Packet
         /\ SameNumbers([p EXCEPT !.tsr = Rewrite(@, m.in, m.out)], Translate(p, "tsr", m))
<1>1. m.in \in Num /\ m.out \in Num /\ p.tsr \in Num /\ Num \subseteq Int
  BY DEF Packet, MapType, Num, W, HAssumption
<1> DEFINE x == Rewrite(p.tsr, m.in, m.out)
           q == ProtoReplace4(p, p.tsr, x, FALSE)
<1>2. x \in Num /\ (m.in = m.out => x = p.tsr)
  BY <1>1, RewriteType, RewriteSame
<1>3. q \in Packet /\ SameNumbers(p, q)
  BY <1>1, <1>2, ProtoKeeps
<1>4. Translate(p, "tsr", m) = IF m.in = m.out THEN p ELSE [q EXCEPT !.tsr = x]
  BY DEF Translate, Replace
<1> HIDE DEF x, q
<1> QED  BY <1>1, <1>2, <1>3, <1>4 DEF Packet, SameNumbers, SameHistory, x

LEMMA TcpSackMaps ==
  ASSUME NEW p \in Packet, NEW m \in MapType
  PROVE  /\ TcpSack(p, m) \in Packet
         /\ SameNumbers([p EXCEPT !.sack = <<Rewrite(@[1], m.in, m.out),
                                              Rewrite(@[2], m.in, m.out)>>],
                        TcpSack(p, m))
<1> DEFINE x == Rewrite(p.sack[1], m.in, m.out)
           q == ProtoReplace4(p, p.sack[1], x, FALSE)
           r == [q EXCEPT !.sack[1] = x]
           y == Rewrite(r.sack[2], m.in, m.out)
           s == ProtoReplace4(r, r.sack[2], y, FALSE)
<1>1. /\ m.in \in Num /\ m.out \in Num /\ Num \subseteq Int
      /\ p.sack[1] \in Num /\ p.sack[2] \in Num /\ p.sack = <<p.sack[1], p.sack[2]>>
  BY DEF Packet, MapType, Num, W, HAssumption
<1>2. x \in Num
  BY <1>1, RewriteType
<1>3. q \in Packet /\ SameNumbers(p, q)
  BY <1>1, <1>2, ProtoKeeps
<1> HIDE DEF x, q
<1>4. r \in Packet /\ SameNumbers([p EXCEPT !.sack = <<x, @[2]>>], r)
  <2>1. q.sack = <<p.sack[1], p.sack[2]>>
    BY <1>1, <1>3 DEF SameNumbers
  <2>2. [q.sack EXCEPT ![1] = x] = <<x, p.sack[2]>>
    BY <2>1
  <2>3. r = [q EXCEPT !.sack = <<x, p.sack[2]>>]
    BY <2>2
  <2>4. <<x, p.sack[2]>> \in Num \X Num
    BY <1>1, <1>2
  <2> QED  BY <1>3, <2>3, <2>4 DEF Packet, SameNumbers, SameHistory
<1> HIDE DEF r
<1>5. r.sack[2] = p.sack[2] /\ r.sack = <<x, p.sack[2]>>
  BY <1>4 DEF SameNumbers, Packet
<1>6. y \in Num
  BY <1>1, <1>5, RewriteType
<1>7. s \in Packet /\ SameNumbers(r, s)
  BY <1>1, <1>4, <1>5, <1>6, ProtoKeeps
<1>8. TcpSack(p, m) = [s EXCEPT !.sack[2] = y]
  BY DEF TcpSack, q, r, x
<1> HIDE DEF y, s
<1>9. [s EXCEPT !.sack[2] = y] = [s EXCEPT !.sack = <<x, y>>]
  <2>1. s.sack = <<x, p.sack[2]>>
    BY <1>5, <1>7 DEF SameNumbers
  <2>2. [s.sack EXCEPT ![2] = y] = <<x, y>>
    BY <2>1
  <2> QED  BY <2>2
<1>10. y = Rewrite(p.sack[2], m.in, m.out)
  BY <1>5 DEF y
<1>11. <<x, y>> \in Num \X Num
  BY <1>2, <1>6
<1> QED
  BY <1>4, <1>7, <1>8, <1>9, <1>10, <1>11 DEF Packet, SameNumbers, SameHistory, x

\* A field that carries no number of the segment.
LEMMA ReplacePort ==
  ASSUME NEW p \in Packet, NEW new \in Int
  PROVE  /\ Replace(p, "sport", new) \in Packet /\ SameNumbers(p, Replace(p, "sport", new))
         /\ Replace(p, "dport", new) \in Packet /\ SameNumbers(p, Replace(p, "dport", new))
<1>1. p.sport \in Int /\ p.dport \in Int
  BY DEF Packet
<1>2. LET q == ProtoReplace4(p, p.sport, new, FALSE) IN q \in Packet /\ SameNumbers(p, q)
  BY <1>1, ProtoKeeps
<1>3. LET q == ProtoReplace4(p, p.dport, new, FALSE) IN q \in Packet /\ SameNumbers(p, q)
  BY <1>1, ProtoKeeps
<1>4. \A q \in Packet : SameNumbers(p, q) =>
         /\ [q EXCEPT !.sport = new] \in Packet /\ SameNumbers(p, [q EXCEPT !.sport = new])
         /\ [q EXCEPT !.dport = new] \in Packet /\ SameNumbers(p, [q EXCEPT !.dport = new])
  BY DEF Packet, SameNumbers, SameHistory
<1> QED  BY <1>2, <1>3, <1>4 DEF Replace

LEMMA HdrKeeps ==
  ASSUME NEW p \in Packet, NEW s \in SessionType, NEW c \in Int
  PROVE  HdrRewrite(p, s, c) \in Packet /\ SameNumbers(p, HdrRewrite(p, s, c))
<1> DEFINE from == SumWithCarry(p.src, p.dst, p.dst)
           to == SumWithCarry(s.src, s.dst, c)
           h == [p EXCEPT !.ipcheck = CsumReplace4(@, from, to),
                          !.src = s.src, !.dst = s.dst]
           q == ProtoReplace4(h, from, to, TRUE)
           r == Replace(q, "sport", s.sport)
<1>1. /\ p.src \in Int /\ p.dst \in Int /\ p.ipcheck \in Int
      /\ s.src \in Int /\ s.dst \in Int /\ s.sport \in Int /\ s.dport \in Int
  BY DEF Packet, SessionType
<1>2. from \in Int /\ to \in Int
  BY <1>1, ChecksumType
<1> HIDE DEF from, to
<1>3. CsumReplace4(p.ipcheck, from, to) \in Int
  BY <1>1, <1>2, ChecksumType
<1>4. h \in Packet /\ SameNumbers(p, h)
  BY <1>1, <1>3 DEF Packet, SameNumbers, SameHistory
<1> HIDE DEF h
<1>5. q \in Packet /\ SameNumbers(h, q)
  BY <1>2, <1>4, ProtoKeeps
<1> HIDE DEF q
<1>6. r \in Packet /\ SameNumbers(q, r)
  BY <1>1, <1>5, ReplacePort
<1> HIDE DEF r
<1>7. Replace(r, "dport", s.dport) \in Packet /\ SameNumbers(r, Replace(r, "dport", s.dport))
  BY <1>1, <1>6, ReplacePort
<1>8. HdrRewrite(p, s, c) = Replace(r, "dport", s.dport)
  BY DEF HdrRewrite, r, q, h, to, from
<1> QED  BY <1>4, <1>5, <1>6, <1>7, <1>8 DEF SameNumbers, SameHistory

\* The devices on the way compute checksums.
LEMMA ArrivalKeeps ==
  ASSUME NEW p \in Packet, NEW q \in Arrival(p)
  PROVE  q \in Packet /\ SameNumbers(p, q)
<1>1. PICK c, d, s : /\ q = [p EXCEPT !.check = c, !.csum = d, !.summed = s]
                     /\ c \in Int /\ d \in Int /\ s \in {"NONE", "PARTIAL", "COMPLETE"}
  <2>1. /\ p.check \in Int /\ p.csum \in Int /\ Segment(p) \in Int
        /\ p.summed \in {"NONE", "PARTIAL", "COMPLETE"}
    <3>1. /\ p.sport \in Int /\ p.dport \in Int /\ p.seq \in Int /\ p.ack \in Int
          /\ p.sack[1] \in Int /\ p.sack[2] \in Int /\ p.ts \in Int /\ p.tsr \in Int
          /\ p.wnd \in Int /\ p.check \in Int /\ p.csum \in Int
          /\ p.summed \in {"NONE", "PARTIAL", "COMPLETE"}
      BY Sizes DEF Packet, Num
    <3>2. Segment(p) \in Int
      BY <3>1 DEF Segment
    <3> QED  BY <3>1, <3>2
  <2> DEFINE done == IF p.summed # "PARTIAL" THEN p
                     ELSE [p EXCEPT !.check = CsumFold(Fold4(Fold4(Segment(p) + p.check))),
                                    !.summed = "NONE"]
  <2>2. PICK c \in Int, s \in {"NONE", "PARTIAL", "COMPLETE"} :
           done = [p EXCEPT !.check = c, !.summed = s]
    <3>1. CsumFold(Fold4(Fold4(Segment(p) + p.check))) \in Int
      <4>1. Segment(p) + p.check \in Int
        BY <2>1
      <4> QED  BY <4>1, ChecksumType
    <3>2. p = [p EXCEPT !.check = p.check, !.summed = p.summed]
      BY DEF Packet
    <3>3. CASE p.summed # "PARTIAL"
      BY <2>1, <3>2, <3>3
    <3>4. CASE p.summed = "PARTIAL"
      BY <3>1, <3>4
    <3> QED  BY <3>3, <3>4
  <2>3. Segment(done) = Segment(p) /\ done.check = c /\ done.csum = p.csum
    BY <2>2 DEF Packet, Segment
  <2>4. Fold4(Segment(done) + done.check) \in Int
    <3>1. Segment(done) + done.check \in Int
      BY <2>1, <2>2, <2>3
    <3> QED  BY <3>1, ChecksumType
  <2>5. \/ q = done \/ q = p
        \/ q = [done EXCEPT !.summed = "COMPLETE", !.csum = Fold4(Segment(done) + done.check)]
    BY DEF Arrival
  <2> HIDE DEF done
  <2>6. CASE q = done
    <3>1. q = [p EXCEPT !.check = c, !.csum = p.csum, !.summed = s]
      BY <2>2, <2>6 DEF Packet
    <3> QED  BY <2>1, <2>2, <3>1
  <2>7. CASE q = p
    <3>1. q = [p EXCEPT !.check = p.check, !.csum = p.csum, !.summed = p.summed]
      BY <2>7 DEF Packet
    <3> QED  BY <2>1, <3>1
  <2>8. CASE q = [done EXCEPT !.summed = "COMPLETE", !.csum = Fold4(Segment(done) + done.check)]
    <3> DEFINE d == Fold4(Segment(done) + done.check)
    <3> HIDE DEF d
    <3>1. q = [p EXCEPT !.check = c, !.csum = d, !.summed = "COMPLETE"]
      BY <2>2, <2>8 DEF Packet, d
    <3>2. d \in Int
      BY <2>4 DEF d
    <3> QED  BY <2>2, <3>1, <3>2
  <2> QED  BY <2>5, <2>6, <2>7, <2>8
<1> QED  BY <1>1 DEF Packet, SameNumbers, SameHistory

-----------------------------------------------------------------------------
(* A whole segment through a control block.                                *)

\* RewriteWnd's new window.
Scaled(wnd, m) == ((wnd * 2 ^ m.in) \div 2 ^ m.out) % B

NumbersMapped(p, dcb, q) ==
    /\ q.seq = Rewrite(p.seq, dcb.seq.in, dcb.seq.out)
    /\ q.ack = Rewrite(p.ack, dcb.ack.in, dcb.ack.out)
    /\ q.sack = <<Rewrite(p.sack[1], dcb.ack.in, dcb.ack.out),
                  Rewrite(p.sack[2], dcb.ack.in, dcb.ack.out)>>
    /\ q.ts = IF dcb.ts_ok THEN Rewrite(p.ts, dcb.ts.in, dcb.ts.out) ELSE p.ts
    /\ q.tsr = IF dcb.ts_ok THEN Rewrite(p.tsr, dcb.tsr.in, dcb.tsr.out) ELSE p.tsr
    /\ q.wnd = IF dcb.ws_ok /\ dcb.ws.in # dcb.ws.out THEN Scaled(p.wnd, dcb.ws) ELSE p.wnd
    /\ SameHistory(p, q)

\* Powers of two, for the scales there are.
LEMMA PowersGrow ==
  ASSUME NEW a \in Scale, NEW b \in Scale
  PROVE  2^a \in Nat /\ 2^a > 0 /\ (a <= b => 2^a <= 2^b)
<1>0. \A n \in Nat : n = 0 => 2^n = 1  OBVIOUS
<1>1. \A n \in Nat : n = 1 => 2^n = 2  OBVIOUS
<1>2. \A n \in Nat : n = 2 => 2^n = 4  OBVIOUS
<1>3. \A n \in Nat : n = 3 => 2^n = 8  OBVIOUS
<1>4. \A n \in Nat : n = 4 => 2^n = 16  OBVIOUS
<1>5. \A n \in Nat : n = 5 => 2^n = 32  OBVIOUS
<1>6. \A n \in Nat : n = 6 => 2^n = 64  OBVIOUS
<1>7. \A n \in Nat : n = 7 => 2^n = 128  OBVIOUS
<1>8. \A n \in Nat : n = 8 => 2^n = 256  OBVIOUS
<1>9. \A n \in Nat : n = 9 => 2^n = 512  OBVIOUS
<1>10. \A n \in Nat : n = 10 => 2^n = 1024  OBVIOUS
<1>11. \A n \in Nat : n = 11 => 2^n = 2048  OBVIOUS
<1>12. \A n \in Nat : n = 12 => 2^n = 4096  OBVIOUS
<1>13. \A n \in Nat : n = 13 => 2^n = 8192  OBVIOUS
<1>14. \A n \in Nat : n = 14 => 2^n = 16384  OBVIOUS
<1> QED
  BY <1>0, <1>1, <1>2, <1>3, <1>4, <1>5, <1>6, <1>7,
     <1>8, <1>9, <1>10, <1>11, <1>12, <1>13, <1>14 DEF Scale

LEMMA ScaledType ==
  ASSUME NEW w \in Nat, NEW a \in Scale, NEW b \in Scale
  PROVE  LET new == ((w * 2 ^ a) \div 2 ^ b) % B
         IN  new \in Nat /\ new * 2^b <= w * 2^a
<1> DEFINE x == 2^a  y == 2^b
<1>1. x \in Nat /\ y \in Nat /\ x > 0 /\ y > 0
  BY PowersGrow
<1> HIDE DEF x, y
<1> SUFFICES LET new == ((w * x) \div y) % B
             IN  new \in Nat /\ new * y <= w * x
  BY DEF x, y
<1>2. w * x \in Nat
  BY <1>1
<1>3. \A n \in Nat : n \div y \in Nat /\ (n \div y) * y <= n
  BY <1>1
<1>4. \A n \in Nat : n % B \in Nat /\ n % B <= n
  BY Sizes
<1>5. \A m, n \in Nat : m <= n => m * y <= n * y
  BY <1>1
<1> QED  BY <1>1, <1>2, <1>3, <1>4, <1>5

LEMMA WndMaps ==
  ASSUME NEW p \in Packet, NEW dcb \in Block
  PROVE  /\ RewriteWnd(p, dcb) \in Packet
         /\ SameNumbers([p EXCEPT !.wnd = IF dcb.ws_ok /\ dcb.ws.in # dcb.ws.out
                                          THEN Scaled(@, dcb.ws) ELSE @],
                        RewriteWnd(p, dcb))
<1> DEFINE new == Scaled(p.wnd, dcb.ws)
           q == ProtoReplace4(p, p.wnd, new, FALSE)
<1>1. p.wnd \in Nat /\ p.wnd \in Int /\ dcb.ws.in \in Scale /\ dcb.ws.out \in Scale
  BY DEF Packet, Block
<1>2. new \in Nat /\ new \in Int
  BY <1>1, ScaledType DEF Scaled
<1>3. q \in Packet /\ SameNumbers(p, q)
  BY <1>1, <1>2, ProtoKeeps
<1>4. RewriteWnd(p, dcb) = IF dcb.ws_ok /\ dcb.ws.in # dcb.ws.out
                           THEN [q EXCEPT !.wnd = new] ELSE p
  BY DEF RewriteWnd, Replace, Scaled
<1> HIDE DEF new, q
<1> QED  BY <1>1, <1>2, <1>3, <1>4 DEF Packet, SameNumbers, SameHistory, new

LEMMA NumbersAreMapped ==
  ASSUME NEW p \in Packet, NEW dcb \in Block
  PROVE  /\ RewriteNumbers(p, dcb) \in Packet
         /\ NumbersMapped(p, dcb, RewriteNumbers(p, dcb))
<1>1. /\ dcb.seq \in MapType /\ dcb.ack \in MapType /\ dcb.ts \in MapType
      /\ dcb.tsr \in MapType
  BY DEF Block
<1> DEFINE a == Translate(p, "seq", dcb.seq)
           b == RewriteAck(a, dcb.ack)
           c == RewriteTs(b, dcb)
           d == RewriteWnd(c, dcb)
<1>2. a \in Packet /\ SameNumbers([p EXCEPT !.seq = Rewrite(@, dcb.seq.in, dcb.seq.out)], a)
  BY <1>1, TranslateSeq
<1> HIDE DEF a
<1>3. /\ b \in Packet
      /\ SameNumbers([a EXCEPT !.ack = Rewrite(@, dcb.ack.in, dcb.ack.out),
                               !.sack = <<Rewrite(@[1], dcb.ack.in, dcb.ack.out),
                                          Rewrite(@[2], dcb.ack.in, dcb.ack.out)>>], b)
  <2> DEFINE x == Rewrite(a.sack[1], dcb.ack.in, dcb.ack.out)
             y == Rewrite(a.sack[2], dcb.ack.in, dcb.ack.out)
             z == Rewrite(a.ack, dcb.ack.in, dcb.ack.out)
  <2>1. CASE dcb.ack.in = dcb.ack.out
    <3>1. /\ a.ack \in Num /\ a.sack[1] \in Num /\ a.sack[2] \in Num
          /\ a.sack = <<a.sack[1], a.sack[2]>> /\ dcb.ack.in \in Num
      BY <1>1, <1>2 DEF Packet, MapType
    <3>2. x = a.sack[1] /\ y = a.sack[2] /\ z = a.ack
      BY <2>1, <3>1, RewriteSame
    <3> HIDE DEF x, y, z
    <3>3. b = a
      BY <2>1 DEF RewriteAck
    <3>4. SameNumbers([a EXCEPT !.ack = z, !.sack = <<x, y>>], b)
      BY <1>2, <3>1, <3>2, <3>3 DEF Packet, SameNumbers, SameHistory
    <3> QED  BY <1>2, <3>3, <3>4 DEF x, y, z
  <2>2. CASE dcb.ack.in # dcb.ack.out
    <3> DEFINE e == TcpSack(a, dcb.ack)
    <3>1. e \in Packet /\ SameNumbers([a EXCEPT !.sack = <<x, y>>], e)
      BY <1>1, <1>2, TcpSackMaps
    <3> HIDE DEF e
    <3>2. /\ Translate(e, "ack", dcb.ack) \in Packet
          /\ SameNumbers([e EXCEPT !.ack = Rewrite(@, dcb.ack.in, dcb.ack.out)],
                         Translate(e, "ack", dcb.ack))
      BY <1>1, <3>1, TranslateAck
    <3>3. b = Translate(e, "ack", dcb.ack)
      BY <2>2 DEF RewriteAck, e
    <3>4. e.ack = a.ack
      BY <1>2, <3>1 DEF Packet, SameNumbers
    <3> HIDE DEF x, y, b
    <3>5. SameNumbers([a EXCEPT !.ack = z, !.sack = <<x, y>>], b)
      BY <1>2, <3>1, <3>2, <3>3, <3>4 DEF Packet, SameNumbers, SameHistory
    <3> QED  BY <3>2, <3>3, <3>5 DEF x, y
  <2> QED  BY <2>1, <2>2
<1> HIDE DEF b
<1>4. /\ c \in Packet
      /\ SameNumbers(IF dcb.ts_ok
                     THEN [b EXCEPT !.ts = Rewrite(@, dcb.ts.in, dcb.ts.out),
                                    !.tsr = Rewrite(@, dcb.tsr.in, dcb.tsr.out)]
                     ELSE b, c)
  <2>1. CASE dcb.ts_ok
    <3> DEFINE e == Translate(b, "ts", dcb.ts)
               f == Translate(e, "tsr", dcb.tsr)
    <3>1. e \in Packet /\ SameNumbers([b EXCEPT !.ts = Rewrite(@, dcb.ts.in, dcb.ts.out)], e)
      BY <1>1, <1>3, TranslateTs
    <3> HIDE DEF e
    <3>2. f \in Packet /\ SameNumbers([e EXCEPT !.tsr = Rewrite(@, dcb.tsr.in, dcb.tsr.out)], f)
      BY <1>1, <3>1, TranslateTsr
    <3>3. c = f
      BY <2>1 DEF RewriteTs, e
    <3>4. e.tsr = b.tsr
      BY <1>3, <3>1 DEF Packet, SameNumbers
    <3> HIDE DEF f, c
    <3>5. SameNumbers([b EXCEPT !.ts = Rewrite(@, dcb.ts.in, dcb.ts.out),
                                !.tsr = Rewrite(@, dcb.tsr.in, dcb.tsr.out)], c)
      BY <1>3, <3>1, <3>2, <3>3, <3>4 DEF Packet, SameNumbers, SameHistory
    <3> QED  BY <2>1, <3>2, <3>3, <3>5
  <2>2. CASE ~dcb.ts_ok
    BY <1>3, <2>2 DEF RewriteTs, SameNumbers, SameHistory
  <2> QED  BY <2>1, <2>2
<1> HIDE DEF c
<1>5. /\ d \in Packet
      /\ SameNumbers([c EXCEPT !.wnd = IF dcb.ws_ok /\ dcb.ws.in # dcb.ws.out
                                       THEN Scaled(@, dcb.ws) ELSE @], d)
  BY <1>4, WndMaps
<1> HIDE DEF d
<1>6. RewriteNumbers(p, dcb) = d
  BY DEF RewriteNumbers, d, c, b, a
<1>7. /\ a.seq = Rewrite(p.seq, dcb.seq.in, dcb.seq.out) /\ a.ack = p.ack /\ a.sack = p.sack
      /\ a.ts = p.ts /\ a.tsr = p.tsr /\ a.wnd = p.wnd /\ SameHistory(p, a)
  BY <1>2 DEF SameNumbers, SameHistory, Packet
<1>8. /\ b.seq = a.seq /\ b.ack = Rewrite(a.ack, dcb.ack.in, dcb.ack.out)
      /\ b.sack = <<Rewrite(a.sack[1], dcb.ack.in, dcb.ack.out),
                    Rewrite(a.sack[2], dcb.ack.in, dcb.ack.out)>>
      /\ b.ts = a.ts /\ b.tsr = a.tsr /\ b.wnd = a.wnd /\ SameHistory(a, b)
  BY <1>2, <1>3 DEF SameNumbers, SameHistory, Packet
<1>9. /\ c.seq = b.seq /\ c.ack = b.ack /\ c.sack = b.sack /\ c.wnd = b.wnd
      /\ SameHistory(b, c)
      /\ c.ts = IF dcb.ts_ok THEN Rewrite(b.ts, dcb.ts.in, dcb.ts.out) ELSE b.ts
      /\ c.tsr = IF dcb.ts_ok THEN Rewrite(b.tsr, dcb.tsr.in, dcb.tsr.out) ELSE b.tsr
  BY <1>3, <1>4 DEF SameNumbers, SameHistory, Packet
<1>10. /\ d.seq = c.seq /\ d.ack = c.ack /\ d.sack = c.sack /\ d.ts = c.ts /\ d.tsr = c.tsr
       /\ SameHistory(c, d)
       /\ d.wnd = IF dcb.ws_ok /\ dcb.ws.in # dcb.ws.out THEN Scaled(c.wnd, dcb.ws) ELSE c.wnd
  BY <1>4, <1>5 DEF SameNumbers, SameHistory, Packet
<1> QED  BY <1>5, <1>6, <1>7, <1>8, <1>9, <1>10 DEF NumbersMapped, SameHistory

\* The two directions of a hop: addresses and numbers.
LEMMA OutMaps ==
  ASSUME NEW p \in Packet, NEW dcb \in Block, NEW sub \in SessionType
  PROVE  /\ OutRewrite(p, dcb, sub) \in Packet
         /\ NumbersMapped(p, dcb, OutRewrite(p, dcb, sub))
<1> DEFINE q == RewriteNumbers(p, dcb)
           r == HdrRewrite(q, sub, sub.dst)
<1>1. q \in Packet /\ NumbersMapped(p, dcb, q)
  BY NumbersAreMapped
<1> HIDE DEF q
<1>2. sub.dst \in Int
  BY DEF SessionType
<1>3. r \in Packet /\ SameNumbers(q, r)
  BY <1>1, <1>2, HdrKeeps
<1>4. OutRewrite(p, dcb, sub) = r
  BY DEF OutRewrite, q
<1> HIDE DEF r
<1> QED  BY <1>1, <1>3, <1>4 DEF NumbersMapped, SameNumbers, SameHistory

LEMMA InMaps ==
  ASSUME NEW p \in Packet, NEW dcb \in Block, NEW sub \in SessionType,
         NEW super \in SessionType
  PROVE  /\ InRewrite(p, dcb, sub, super) \in Packet
         /\ NumbersMapped(p, dcb, InRewrite(p, dcb, sub, super))
<1> DEFINE q == HdrRewrite(p, super, sub.dst)
           r == RewriteNumbers(q, dcb)
<1>1. sub.dst \in Int
  BY DEF SessionType
<1>2. q \in Packet /\ SameNumbers(p, q)
  BY <1>1, HdrKeeps
<1> HIDE DEF q
<1>3. r \in Packet /\ NumbersMapped(q, dcb, r)
  BY <1>2, NumbersAreMapped
<1>4. InRewrite(p, dcb, sub, super) = r
  BY DEF InRewrite, q
<1> HIDE DEF r
<1> QED  BY <1>2, <1>3, <1>4 DEF NumbersMapped, SameNumbers, SameHistory

-----------------------------------------------------------------------------
(* A segment on its way.                                                   *)

\* The clock that a host's TCP echoes started at its SYN+ACK on the old path, and
\* on the new one at its peer's, whose time stamps it gets there.
StartOf(h, path) == IF path = "old" THEN setup[h].at ELSE setup[Peer(h)].at
Since(h, o) == o.sent - StartOf(h, o.path)

\* As the sender's TCP wrote it.
AsSent(p, h) ==
    /\ p.seq = Wrap(setup[h].iseq + p.k) /\ p.ack = Wrap(setup[h].mseq + p.k)
    /\ p.sack = <<Wrap(setup[h].mseq + (p.k + 1)), Wrap(setup[h].mseq + (p.k + 2))>>
    /\ p.ts = Wrap(setup[h].ts + (p.sent - setup[h].at))
    /\ Translated => p.tsr = Wrap(setup[h].mts + Since(h, p.echo))
    /\ p.wnd = p.told

\* As the receiver's TCP finds it.
NumbersTaken(p, h) ==
    /\ p.seq = Wrap(setup[h].mseq + p.k) /\ p.ack = Wrap(setup[h].iseq + p.k)
    /\ p.sack = <<Wrap(setup[h].iseq + (p.k + 1)), Wrap(setup[h].iseq + (p.k + 2))>>
ClocksTaken(p, h) ==
    /\ p.ts = Wrap(setup[h].mts + (p.sent - setup[Peer(h)].at))
    /\ p.tsr = Wrap(setup[h].ts + Since(Peer(h), p.echo))
WindowTaken(p, h) ==
    h = "L" \/ (setup.L.ws > 0 /\ setup.R.mws <= setup.R.ws) =>
        p.wnd * 2 ^ setup[h].mws <= p.told * 2 ^ setup[Peer(h)].ws
AsTaken(p, h) ==
    /\ setup.spliced => NumbersTaken(p, h) /\ WindowTaken(p, h)
    /\ Translated => ClocksTaken(p, h)

\* Its time stamps are of the past, and of clocks that had started.
TimesRight(p, from) ==
    /\ p.sent <= now /\ setup.L.at <= p.sent /\ setup.R.at <= p.sent
    /\ Since(from, p.echo) >= 0

\* R's control block has mapped what is on its way to L.
Mapped(to) == setup.spliced /\ to = "L"

NetRight ==
    \/ net = Nothing
    \/ /\ net \in [at : {"K", "host"}, to : Hosts, p : Packet]
       /\ setup.spliced => net.at = "host"
       /\ TimesRight(net.p, Peer(net.to))
       /\ IF Mapped(net.to) THEN AsTaken(net.p, "L") ELSE AsSent(net.p, Peer(net.to))

RecentRight ==
    /\ recent \in [Hosts -> [val : Num, origin : Origin]]
    /\ \A h \in Hosts :
          LET o == recent[h].origin IN
          /\ o.sent <= now /\ Since(h, o) >= 0
          /\ Translated => recent[h].val = Wrap(setup[h].mts + Since(h, o))

GotRight ==
    \/ got = Nothing
    \/ /\ got \in [at : Hosts, p : Packet, dropped : BOOLEAN, against : 0 .. MaxNow]
       /\ AsTaken(got.p, got.at)
       /\ Translated /\ got.dropped => got.p.sent < got.against + Later(Skew, -Skew)

NumbersRight ==
    /\ setup \in Setups
    /\ now \in 0 .. MaxNow /\ setup.L.at <= now /\ setup.R.at <= now
    /\ NetRight /\ RecentRight /\ GotRight

LEMMA SetupType ==
  ASSUME setup \in Setups
  PROVE  /\ setup.spliced \in BOOLEAN /\ setup.K \in Num
         /\ setup.L \in Side /\ setup.R \in Side
         /\ setup["L"] = setup.L /\ setup["R"] = setup.R
         /\ ~setup.spliced => /\ setup.L.mts = setup.R.ts /\ setup.R.mts = setup.L.ts
                              /\ setup.L.at = setup.R.at
BY RewriteAssumption DEF Setup

LEMMA SideType ==
  ASSUME NEW s \in Side
  PROVE  /\ s.iseq \in Num /\ s.ts \in Num /\ s.ws \in Scale
         /\ s.mseq \in Num /\ s.mts \in Num /\ s.mws \in Scale
         /\ s.at \in 0 .. MaxNow /\ s.addr \in Num /\ s.port \in Word /\ s.peer \in Num
BY DEF Side

LEMMA BlockTypes ==
  ASSUME setup \in Setups, NEW h \in Hosts
  PROVE  NoDeltas \in Block /\ OutBlock(h) \in Block /\ InBlock(h) \in Block
<1>1. NoDeltas \in Block
  BY Sizes DEF NoDeltas, Block, Same, Map, MapType, Scale, Num
<1>2. DeltasOut(Recorded("R")) \in Block
  BY SetupType, SideType DEF DeltasOut, Recorded, rcb, Block, Map, MapType
<1>3. DeltasIn(Recorded("R")) \in Block
  BY SetupType, SideType DEF DeltasIn, Recorded, rcb, Block, Map, MapType
<1> QED  BY <1>1, <1>2, <1>3 DEF OutBlock, InBlock

LEMMA SessionTypes ==
  ASSUME setup \in Setups, NEW h \in Hosts
  PROVE  /\ \A a, b \in Num : SubOf(a, b) \in SessionType
         /\ SuperOf(h) \in SessionType /\ Turned(SuperOf(h)) \in SessionType
         /\ Peer(h) \in Hosts /\ Peer(Peer(h)) = h
         /\ setup[h] \in Side /\ setup[Peer(h)] \in Side
         /\ FirstHop(h) \in Num /\ LastHop(h) \in SessionType
<1>1. /\ Peer(h) \in Hosts /\ Peer(Peer(h)) = h
      /\ setup[h] \in Side /\ setup[Peer(h)] \in Side
  BY SetupType DEF Peer, Hosts
<1>2. \A a, b \in Num : SubOf(a, b) \in SessionType
  BY Sizes DEF SubOf, Session, SessionType, Num
<1>3. /\ setup[h].addr \in Int /\ setup[h].peer \in Int /\ setup[h].port \in Int
      /\ setup[Peer(h)].port \in Int
  BY <1>1, SideType, Sizes DEF Num, Word
<1>4. SuperOf(h) \in SessionType /\ Turned(SuperOf(h)) \in SessionType
  BY <1>3 DEF SuperOf, Turned, Session, SessionType
<1>5. FirstHop(h) \in Num /\ setup[h].addr \in Num
  BY <1>1, SideType, SetupType DEF FirstHop
<1>6. LastHop(h) \in SessionType
  BY <1>2, <1>5 DEF LastHop, FirstHop
<1> QED  BY <1>1, <1>2, <1>4, <1>5, <1>6

-----------------------------------------------------------------------------
(* What the right anchor's blocks make of it.                              *)

\* A block without deltas maps nothing.
LEMMA NothingMapped ==
  ASSUME NEW p \in Packet, NEW q \in Packet, NumbersMapped(p, NoDeltas, q)
  PROVE  SameNumbers(p, q)
<1>1. /\ p.seq \in Num /\ p.ack \in Num /\ p.ts \in Num /\ p.tsr \in Num
      /\ p.sack[1] \in Num /\ p.sack[2] \in Num /\ p.sack = <<p.sack[1], p.sack[2]>>
  BY DEF Packet
<1>2. \A x \in Num : Rewrite(x, 0, 0) = x
  BY RewriteSame, Sizes DEF Num
<1> QED  BY <1>1, <1>2 DEF NumbersMapped, NoDeltas, Same, Map, SameNumbers

\* Time passes for less than half the number space.
LEMMA SinceType ==
  ASSUME setup \in Setups, NEW h \in Hosts, NEW o \in Origin
  PROVE  Since(h, o) \in Int /\ Since(h, o) <= MaxNow /\ o.sent \in 0 .. MaxNow
<1>1. o.sent \in 0 .. MaxNow /\ MaxNow \in Nat
  BY RewriteAssumption DEF Origin
<1>2. setup[h].at \in 0 .. MaxNow /\ setup[Peer(h)].at \in 0 .. MaxNow
  BY SessionTypes, SideType
<1> QED  BY <1>1, <1>2 DEF Since, StartOf

LEMMA Elapsed ==
  ASSUME NEW i \in Num, NEW o \in Num, NEW t \in Int, 0 <= t, t <= MaxNow
  PROVE  /\ Wrap(i + t) \in Num
         /\ Rewrite(Wrap(i + t), i, o) = Wrap(o + t)
<1>1. t \in Num
  BY Sizes, RewriteAssumption DEF Num
<1>2. Wrap(i + t) \in Num
  BY <1>1, WrapType, Sizes DEF Num
<1> QED  BY <1>1, <1>2, RewriteShift

LEMMA OffsetsMapped ==
  ASSUME NEW i \in Num, NEW o \in Num, NEW k \in {1, 2}
  PROVE  /\ k \in Num /\ k + 1 \in Num /\ k + 2 \in Num
         /\ \A j \in {0, 1, 2} :
               /\ Wrap(i + (k + j)) \in Num
               /\ Rewrite(Wrap(i + (k + j)), i, o) = Wrap(o + (k + j))
<1>1. k \in Num /\ \A j \in {0, 1, 2} : k + j \in Num
  BY Sizes DEF Num
<1>2. \A n \in Num : Wrap(i + n) \in Num
  BY WrapType, Sizes DEF Num
<1> QED  BY <1>1, <1>2, RewriteShift

LEMMA MapsIn ==
  ASSUME setup \in Setups, setup.spliced, NEW p \in Packet, NEW q \in Packet,
         NumbersMapped(p, DeltasIn(Recorded("R")), q),
         AsSent(p, "L"), TimesRight(p, "L"), now \in Nat
  PROVE  AsTaken(q, "R")
<1> DEFINE l == setup.L  r == setup.R  dcb == DeltasIn(Recorded("R"))
<1>1. l \in Side /\ r \in Side /\ setup["L"] = l /\ setup["R"] = r
  BY SetupType
<1>2. /\ p.k \in {1, 2} /\ p.sent \in 0 .. MaxNow /\ p.echo \in Origin /\ p.wnd \in Nat
      /\ p.ts \in Num /\ p.tsr \in Num
  BY DEF Packet
<1>3. /\ dcb.seq = Map(l.iseq, r.mseq) /\ dcb.ack = Map(l.mseq, r.iseq)
      /\ dcb.ts = Map(l.ts, r.mts) /\ dcb.tsr = Map(l.mts, r.ts)
      /\ dcb.ws = Map(l.ws, r.ws)
      /\ (dcb.ts_ok <=> l.ts # 0) /\ (dcb.ws_ok <=> l.ws # 0)
      /\ NumbersMapped(p, dcb, q)
  BY <1>1 DEF DeltasIn, Recorded, rcb
<1>4. Peer("R") = "L" /\ Peer("L") = "R"
  BY DEF Peer
<1> HIDE DEF l, r, dcb
<1>5. NumbersTaken(q, "R")
  <2>1. /\ l.iseq \in Num /\ l.mseq \in Num /\ r.iseq \in Num /\ r.mseq \in Num
    BY <1>1, SideType
  <2>2. /\ p.seq = Wrap(l.iseq + (p.k + 0)) /\ p.ack = Wrap(l.mseq + (p.k + 0))
        /\ p.sack[1] = Wrap(l.mseq + (p.k + 1)) /\ p.sack[2] = Wrap(l.mseq + (p.k + 2))
    BY <1>1, <1>2 DEF AsSent
  <2>3. /\ q.seq = Rewrite(p.seq, l.iseq, r.mseq) /\ q.ack = Rewrite(p.ack, l.mseq, r.iseq)
        /\ q.sack = <<Rewrite(p.sack[1], l.mseq, r.iseq), Rewrite(p.sack[2], l.mseq, r.iseq)>>
        /\ q.k = p.k
    BY <1>3 DEF NumbersMapped, Map, SameHistory
  <2>4. /\ q.seq = Wrap(r.mseq + (p.k + 0)) /\ q.ack = Wrap(r.iseq + (p.k + 0))
        /\ q.sack = <<Wrap(r.iseq + (p.k + 1)), Wrap(r.iseq + (p.k + 2))>>
    <3>1. Rewrite(p.seq, l.iseq, r.mseq) = Wrap(r.mseq + (p.k + 0))
      BY <1>2, <2>1, <2>2, OffsetsMapped
    <3>2. Rewrite(p.ack, l.mseq, r.iseq) = Wrap(r.iseq + (p.k + 0))
      BY <1>2, <2>1, <2>2, OffsetsMapped
    <3>3. Rewrite(p.sack[1], l.mseq, r.iseq) = Wrap(r.iseq + (p.k + 1))
      BY <1>2, <2>1, <2>2, OffsetsMapped
    <3>4. Rewrite(p.sack[2], l.mseq, r.iseq) = Wrap(r.iseq + (p.k + 2))
      BY <1>2, <2>1, <2>2, OffsetsMapped
    <3> QED  BY <2>3, <3>1, <3>2, <3>3, <3>4
  <2> QED  BY <1>1, <1>2, <2>3, <2>4 DEF NumbersTaken
<1>6. WindowTaken(q, "R")
  <2>1. l.ws \in Scale /\ r.ws \in Scale /\ r.mws \in Scale
    BY <1>1, SideType
  <2>2. /\ p.told = p.wnd /\ q.told = p.wnd
        /\ q.wnd = IF l.ws # 0 /\ l.ws # r.ws THEN Scaled(p.wnd, Map(l.ws, r.ws)) ELSE p.wnd
    BY <1>3 DEF NumbersMapped, AsSent, SameHistory, Map
  <2>3. Scaled(p.wnd, Map(l.ws, r.ws)) \in Nat
        /\ Scaled(p.wnd, Map(l.ws, r.ws)) * 2^r.ws <= p.wnd * 2^l.ws
    BY <1>2, <2>1, ScaledType DEF Scaled, Map
  <2> SUFFICES ASSUME l.ws > 0, r.mws <= r.ws PROVE q.wnd * 2^r.mws <= p.wnd * 2^l.ws
    BY <1>1, <1>4, <2>2 DEF WindowTaken
  <2> DEFINE x == 2^l.ws  y == 2^r.ws  z == 2^r.mws
  <2>4. x \in Nat /\ y \in Nat /\ z \in Nat /\ z <= y /\ (l.ws = r.ws => x = y)
    BY <2>1, PowersGrow
  <2>5. q.wnd \in Nat /\ q.wnd * y <= p.wnd * x
    <3>1. CASE l.ws = r.ws
      BY <1>2, <2>2, <2>4, <3>1
    <3>2. CASE l.ws # r.ws
      BY <2>1, <2>2, <2>3, <3>2 DEF Scale
    <3> QED  BY <3>1, <3>2
  <2> HIDE DEF x, y, z
  <2>6. q.wnd * z <= q.wnd * y
    BY <2>4, <2>5
  <2>7. q.wnd * z <= p.wnd * x
    BY <1>2, <2>4, <2>5, <2>6
  <2> QED  BY <2>7 DEF x, z
<1>7. ASSUME Translated PROVE ClocksTaken(q, "R")
  <2>1. l.ts \in Num /\ l.mts \in Num /\ r.ts \in Num /\ r.mts \in Num /\ l.ts # 0
    BY <1>1, <1>7, SideType DEF Translated, l
  <2>2. /\ p.ts = Wrap(l.ts + (p.sent - l.at))
        /\ p.tsr = Wrap(l.mts + Since("L", p.echo))
    BY <1>1, <1>7 DEF AsSent
  <2>3. /\ q.ts = Rewrite(p.ts, l.ts, r.mts) /\ q.tsr = Rewrite(p.tsr, l.mts, r.ts)
        /\ q.sent = p.sent /\ q.echo = p.echo
    BY <1>3, <2>1 DEF NumbersMapped, Map, SameHistory
  <2>4. p.sent - l.at \in Int /\ 0 <= p.sent - l.at /\ p.sent - l.at <= MaxNow
    BY <1>1, <1>2, SideType, RewriteAssumption DEF TimesRight, l
  <2>5. Since("L", p.echo) \in Int /\ 0 <= Since("L", p.echo) /\ Since("L", p.echo) <= MaxNow
    BY <1>2, SinceType DEF TimesRight, Hosts
  <2>6. q.ts = Wrap(r.mts + (p.sent - l.at)) /\ q.tsr = Wrap(r.ts + Since("L", p.echo))
    BY <2>1, <2>2, <2>3, <2>4, <2>5, Elapsed
  <2> QED  BY <1>1, <1>4, <2>3, <2>6 DEF ClocksTaken
<1> QED  BY <1>5, <1>6, <1>7 DEF AsTaken

LEMMA MapsOut ==
  ASSUME setup \in Setups, setup.spliced, NEW p \in Packet, NEW q \in Packet,
         NumbersMapped(p, DeltasOut(Recorded("R")), q),
         AsSent(p, "R"), TimesRight(p, "R"), now \in Nat
  PROVE  AsTaken(q, "L")
<1> DEFINE l == setup.L  r == setup.R  dcb == DeltasOut(Recorded("R"))
<1>1. l \in Side /\ r \in Side /\ setup["L"] = l /\ setup["R"] = r
  BY SetupType
<1>2. /\ p.k \in {1, 2} /\ p.sent \in 0 .. MaxNow /\ p.echo \in Origin /\ p.wnd \in Nat
      /\ p.ts \in Num /\ p.tsr \in Num
  BY DEF Packet
<1>3. /\ dcb.seq = Map(r.iseq, l.mseq) /\ dcb.ack = Map(r.mseq, l.iseq)
      /\ dcb.ts = Map(r.ts, l.mts) /\ dcb.tsr = Map(r.mts, l.ts)
      /\ dcb.ws = Map(r.ws, l.mws)
      /\ (dcb.ts_ok <=> l.ts # 0) /\ (dcb.ws_ok <=> l.mws # 0)
      /\ NumbersMapped(p, dcb, q)
  BY <1>1 DEF DeltasOut, Recorded, rcb
<1>4. Peer("R") = "L" /\ Peer("L") = "R"
  BY DEF Peer
<1> HIDE DEF l, r, dcb
<1>5. NumbersTaken(q, "L")
  <2>1. /\ l.iseq \in Num /\ l.mseq \in Num /\ r.iseq \in Num /\ r.mseq \in Num
    BY <1>1, SideType
  <2>2. /\ p.seq = Wrap(r.iseq + (p.k + 0)) /\ p.ack = Wrap(r.mseq + (p.k + 0))
        /\ p.sack[1] = Wrap(r.mseq + (p.k + 1)) /\ p.sack[2] = Wrap(r.mseq + (p.k + 2))
    BY <1>1, <1>2 DEF AsSent
  <2>3. /\ q.seq = Rewrite(p.seq, r.iseq, l.mseq) /\ q.ack = Rewrite(p.ack, r.mseq, l.iseq)
        /\ q.sack = <<Rewrite(p.sack[1], r.mseq, l.iseq), Rewrite(p.sack[2], r.mseq, l.iseq)>>
        /\ q.k = p.k
    BY <1>3 DEF NumbersMapped, Map, SameHistory
  <2>4. /\ q.seq = Wrap(l.mseq + (p.k + 0)) /\ q.ack = Wrap(l.iseq + (p.k + 0))
        /\ q.sack = <<Wrap(l.iseq + (p.k + 1)), Wrap(l.iseq + (p.k + 2))>>
    <3>1. Rewrite(p.seq, r.iseq, l.mseq) = Wrap(l.mseq + (p.k + 0))
      BY <1>2, <2>1, <2>2, OffsetsMapped
    <3>2. Rewrite(p.ack, r.mseq, l.iseq) = Wrap(l.iseq + (p.k + 0))
      BY <1>2, <2>1, <2>2, OffsetsMapped
    <3>3. Rewrite(p.sack[1], r.mseq, l.iseq) = Wrap(l.iseq + (p.k + 1))
      BY <1>2, <2>1, <2>2, OffsetsMapped
    <3>4. Rewrite(p.sack[2], r.mseq, l.iseq) = Wrap(l.iseq + (p.k + 2))
      BY <1>2, <2>1, <2>2, OffsetsMapped
    <3> QED  BY <2>3, <3>1, <3>2, <3>3, <3>4
  <2> QED  BY <1>1, <1>2, <2>3, <2>4 DEF NumbersTaken
<1>6. WindowTaken(q, "L")
  <2>1. l.mws \in Scale /\ r.ws \in Scale /\ 0 \in Scale
    BY <1>1, SideType DEF Scale
  <2>2. /\ p.told = p.wnd /\ q.told = p.wnd
        /\ q.wnd = IF l.mws # 0 /\ r.ws # l.mws THEN Scaled(p.wnd, Map(r.ws, l.mws)) ELSE p.wnd
    BY <1>3 DEF NumbersMapped, AsSent, SameHistory, Map
  <2>3. Scaled(p.wnd, Map(r.ws, l.mws)) * 2^l.mws <= p.wnd * 2^r.ws
    BY <1>2, <2>1, ScaledType DEF Scaled, Map
  <2> SUFFICES q.wnd * 2^l.mws <= p.wnd * 2^r.ws
    BY <1>1, <1>4, <2>2 DEF WindowTaken
  <2>4. CASE l.mws # 0 /\ r.ws # l.mws
    BY <2>2, <2>3, <2>4
  <2>5. CASE ~(l.mws # 0 /\ r.ws # l.mws)
    <3> DEFINE x == 2^l.mws  y == 2^r.ws
    <3>1. x \in Nat /\ y \in Nat /\ (l.mws <= r.ws => x <= y)
      BY <2>1, PowersGrow
    <3>2. l.mws <= r.ws
      BY <2>1, <2>5 DEF Scale
    <3> HIDE DEF x, y
    <3>3. q.wnd * x <= p.wnd * y
      BY <1>2, <2>2, <2>5, <3>1, <3>2
    <3> QED  BY <3>3 DEF x, y
  <2> QED  BY <2>4, <2>5
<1>7. ASSUME Translated PROVE ClocksTaken(q, "L")
  <2>1. l.ts \in Num /\ l.mts \in Num /\ r.ts \in Num /\ r.mts \in Num /\ l.ts # 0
    BY <1>1, <1>7, SideType DEF Translated, l
  <2>2. /\ p.ts = Wrap(r.ts + (p.sent - r.at))
        /\ p.tsr = Wrap(r.mts + Since("R", p.echo))
    BY <1>1, <1>7 DEF AsSent
  <2>3. /\ q.ts = Rewrite(p.ts, r.ts, l.mts) /\ q.tsr = Rewrite(p.tsr, r.mts, l.ts)
        /\ q.sent = p.sent /\ q.echo = p.echo
    BY <1>3, <2>1 DEF NumbersMapped, Map, SameHistory
  <2>4. p.sent - r.at \in Int /\ 0 <= p.sent - r.at /\ p.sent - r.at <= MaxNow
    BY <1>1, <1>2, SideType, RewriteAssumption DEF TimesRight, r
  <2>5. Since("R", p.echo) \in Int /\ 0 <= Since("R", p.echo) /\ Since("R", p.echo) <= MaxNow
    BY <1>2, SinceType DEF TimesRight, Hosts
  <2>6. q.ts = Wrap(l.mts + (p.sent - r.at)) /\ q.tsr = Wrap(l.ts + Since("R", p.echo))
    BY <2>1, <2>2, <2>3, <2>4, <2>5, Elapsed
  <2> QED  BY <1>1, <1>4, <2>3, <2>6 DEF ClocksTaken
<1> QED  BY <1>5, <1>6, <1>7 DEF AsTaken

\* In a plain session each host's own numbers are those that its peer knows.
LEMMA PlainTaken ==
  ASSUME setup \in Setups, ~setup.spliced, NEW h \in Hosts, NEW p \in Packet,
         AsSent(p, Peer(h))
  PROVE  AsTaken(p, h)
<1>1. Translated
  BY DEF Translated
<1>2. /\ setup[Peer(h)].ts = setup[h].mts /\ setup[Peer(h)].mts = setup[h].ts
  BY SetupType DEF Peer, Hosts
<1> QED  BY <1>1, <1>2 DEF AsTaken, AsSent, ClocksTaken

LEMMA AsSentSame ==
  ASSUME NEW p, NEW q, NEW h, SameNumbers(p, q), AsSent(p, h)
  PROVE  AsSent(q, h)
BY DEF SameNumbers, SameHistory, AsSent

LEMMA AsTakenSame ==
  ASSUME NEW p, NEW q, NEW h, SameNumbers(p, q), AsTaken(p, h)
  PROVE  AsTaken(q, h)
BY DEF SameNumbers, SameHistory, AsTaken, NumbersTaken, WindowTaken, ClocksTaken

LEMMA TimesSame ==
  ASSUME NEW p, NEW q, NEW h, SameHistory(p, q), TimesRight(p, h)
  PROVE  TimesRight(q, h)
BY DEF SameHistory, TimesRight

-----------------------------------------------------------------------------
(* The steps.                                                              *)

LEMMA NumbersInit == Init => NumbersRight
<1> SUFFICES ASSUME Init PROVE NumbersRight
  OBVIOUS
<1>1. setup \in Setups
  BY DEF Init
<1>2. now \in 0 .. MaxNow /\ setup.L.at <= now /\ setup.R.at <= now
  BY <1>1, SetupType, SideType, RewriteAssumption DEF Init, Later
<1>3. RecentRight
  <2>1. \A h \in Hosts :
           /\ recent[h].val = setup[h].mts
           /\ recent[h].origin = [sent |-> setup[h].at, path |-> "old"]
           /\ recent[h] = [val |-> setup[h].mts,
                           origin |-> [sent |-> setup[h].at, path |-> "old"]]
    BY DEF Init
  <2>2. \A h \in Hosts :
           /\ setup[h].mts \in Num /\ setup[h].at \in 0 .. MaxNow /\ setup[h].at <= now
           /\ Wrap(setup[h].mts + 0) = setup[h].mts
    <3>1. \A x \in Num : Wrap(x + 0) = x
      BY Sizes DEF Wrap, Num
    <3> QED  BY <1>1, <1>2, <3>1, SetupType, SideType DEF Hosts
  <2>3. ASSUME NEW h \in Hosts
        PROVE  /\ Since(h, recent[h].origin) = 0
               /\ recent[h] \in [val : Num, origin : Origin]
               /\ recent[h].origin.sent = setup[h].at
    <3> DEFINE o == [sent |-> setup[h].at, path |-> "old"]
    <3>0. recent[h].origin = o /\ recent[h] = [val |-> setup[h].mts, origin |-> o]
      BY <2>1
    <3>1. recent[h].origin.sent = setup[h].at /\ recent[h].origin.path = "old"
      BY <3>0
    <3>2. setup[h].at \in Int
      BY <2>2, RewriteAssumption
    <3>3. recent[h].origin \in Origin
      BY <3>0, <2>2 DEF Origin
    <3>4. recent[h] \in [val : Num, origin : Origin]
      BY <3>0, <3>3, <2>2
    <3> QED  BY <3>1, <3>2, <3>3, <3>4 DEF Since, StartOf
  <2>4. recent \in [Hosts -> [val : Num, origin : Origin]]
    <3>1. \A h \in Hosts : recent[h] \in [val : Num, origin : Origin]
      BY <2>3
    <3> QED  BY <3>1 DEF Init
  <2>5. ASSUME NEW h \in Hosts
        PROVE  LET o == recent[h].origin IN
               /\ o.sent <= now /\ Since(h, o) >= 0
               /\ recent[h].val = Wrap(setup[h].mts + Since(h, o))
    <3>1. Since(h, recent[h].origin) = 0 /\ recent[h].origin.sent = setup[h].at
      BY <2>3
    <3>2. recent[h].val = setup[h].mts
      BY <2>1
    <3> QED  BY <2>2, <3>1, <3>2
  <2> QED  BY <2>4, <2>5 DEF RecentRight
<1> QED  BY <1>1, <1>2, <1>3 DEF NumbersRight, NetRight, GotRight, Init

\* A new segment is written with the host's numbers and its checksum.
LEMMA WrittenRight ==
  ASSUME NumbersRight, NEW h \in Hosts, NEW k \in {1, 2}, NEW w \in {1, B - 1},
         NEW s \in {"NONE", "PARTIAL"}
  PROVE  LET p == Written(h, k, w, s)
         IN  p \in Packet /\ AsSent(p, h) /\ TimesRight(p, h)
<1> DEFINE super == SuperOf(h)
           b == [src |-> super.src, dst |-> super.dst,
                 sport |-> super.sport, dport |-> super.dport,
                 seq |-> Wrap(setup[h].iseq + k), ack |-> Wrap(setup[h].mseq + k),
                 sack |-> <<Wrap(setup[h].mseq + k + 1), Wrap(setup[h].mseq + k + 2)>>,
                 ts |-> Clock(h, now), tsr |-> recent[h].val, wnd |-> w,
                 ipcheck |-> 0, check |-> 0, csum |-> 0, summed |-> s,
                 k |-> k, told |-> w, sent |-> now, echo |-> recent[h].origin]
           p == WithChecksum(b)
<1>0. setup \in Setups /\ RecentRight /\ now \in 0 .. MaxNow
      /\ setup.L.at <= now /\ setup.R.at <= now
  BY DEF NumbersRight
<1>1. setup[h] \in Side /\ super \in SessionType
  BY <1>0, SessionTypes
<1>2. /\ setup[h].iseq \in Num /\ setup[h].mseq \in Num /\ setup[h].ts \in Num
      /\ setup[h].at \in 0 .. MaxNow /\ setup[h].at <= now
  BY <1>0, <1>1, SideType, SetupType DEF Hosts
<1>3. /\ Wrap(setup[h].iseq + k) \in Num /\ Wrap(setup[h].mseq + k) \in Num
      /\ Wrap(setup[h].mseq + k + 1) \in Num /\ Wrap(setup[h].mseq + k + 2) \in Num
      /\ Wrap(setup[h].mseq + k + 1) = Wrap(setup[h].mseq + (k + 1))
      /\ Wrap(setup[h].mseq + k + 2) = Wrap(setup[h].mseq + (k + 2))
  BY <1>2, Sizes DEF Wrap, Num
<1>4. Clock(h, now) \in Num /\ Clock(h, now) = Wrap(setup[h].ts + (now - setup[h].at))
  <2>1. setup[h].ts + now - setup[h].at = setup[h].ts + (now - setup[h].at)
    BY <1>0, <1>2, RewriteAssumption DEF Num
  <2>2. 0 <= now - setup[h].at /\ now - setup[h].at <= MaxNow /\ now - setup[h].at \in Int
    BY <1>0, <1>2, RewriteAssumption
  <2>3. Clock(h, now) = Wrap(setup[h].ts + (now - setup[h].at))
    BY <2>1 DEF Clock
  <2> QED  BY <1>2, <2>2, <2>3, Elapsed
<1>5. recent[h].val \in Num /\ recent[h].origin \in Origin
  BY <1>0 DEF RecentRight
<1>6. w \in Nat /\ 0 \in Int /\ k \in {1, 2}
  BY Sizes
<1>7. b \in Packet
  <2>1. super.src \in Int /\ super.dst \in Int /\ super.sport \in Int /\ super.dport \in Int
    BY <1>1 DEF SessionType
  <2> HIDE DEF super
  <2> QED  BY <1>0, <1>3, <1>4, <1>5, <1>6, <2>1 DEF Packet
<1>8. AsSent(b, h) /\ TimesRight(b, h)
  <2>1. AsSent(b, h)
    BY <1>0, <1>3, <1>4 DEF AsSent, RecentRight
  <2>2. TimesRight(b, h)
    BY <1>0 DEF TimesRight, RecentRight
  <2> QED  BY <2>1, <2>2
<1> HIDE DEF b
<1>9. p \in Packet /\ SameNumbers(b, p)
  <2>1. /\ b.src \in Int /\ b.dst \in Int /\ b.sport \in Int /\ b.dport \in Int
        /\ b.seq \in Int /\ b.ack \in Int /\ b.sack[1] \in Int /\ b.sack[2] \in Int
        /\ b.ts \in Int /\ b.tsr \in Int /\ b.wnd \in Int
    BY <1>7, Sizes DEF Packet, Num
  <2>2. Segment(b) \in Int /\ Pseudo(b) \in Int /\ b.src + b.dst \in Int
    BY <2>1 DEF Segment, Pseudo
  <2> DEFINE x == CsumFold(Fold4(b.src + b.dst))
             y == IF b.summed = "PARTIAL" THEN Not2(CsumFold(Fold4(Pseudo(b))))
                  ELSE CsumFold(Fold4(Pseudo(b) + Fold4(Segment(b))))
  <2>3. x \in Int
    BY <2>2, ChecksumType
  <2>4. y \in Int
    <3>1. Fold4(Segment(b)) \in Int
      BY <2>2, ChecksumType
    <3>2. Pseudo(b) + Fold4(Segment(b)) \in Int
      BY <2>2, <3>1
    <3> QED  BY <2>2, <3>2, ChecksumType
  <2>5. p = [b EXCEPT !.ipcheck = x, !.check = y]
    BY DEF WithChecksum
  <2> HIDE DEF x, y, p
  <2> QED  BY <1>7, <2>3, <2>4, <2>5 DEF Packet, SameNumbers, SameHistory
<1>10. AsSent(p, h) /\ TimesRight(p, h)
  BY <1>8, <1>9, AsSentSame, TimesSame DEF SameNumbers
<1> QED  BY <1>9, <1>10 DEF b, Written

\* What a step leaves alone stays right when time passes.
LEMMA SinceSame ==
  ASSUME setup' = setup
  PROVE  /\ \A h, o : Since(h, o)' = Since(h, o)
         /\ Translated' = Translated /\ Skew' = Skew
         /\ \A p, h : (AsSent(p, h)' <=> AsSent(p, h)) /\ (AsTaken(p, h)' <=> AsTaken(p, h))
BY DEF Since, StartOf, Translated, Skew, AsSent, AsTaken, NumbersTaken, ClocksTaken,
       WindowTaken

LEMMA TickStep == ASSUME NumbersRight, Tick PROVE NumbersRight'
<1>1. /\ setup' = setup /\ recent' = recent /\ net' = net /\ got' = got
      /\ now \in 0 .. MaxNow /\ now' = now + 1 /\ now' \in 0 .. MaxNow /\ setup \in Setups
      /\ NetRight /\ RecentRight /\ GotRight
  BY RewriteAssumption DEF Tick, NumbersRight
<1>2. setup.L.at \in Int /\ setup.R.at \in Int /\ setup.L.at <= now /\ setup.R.at <= now
  BY <1>1, SetupType, SideType, RewriteAssumption DEF NumbersRight
<1>3. setup'.L.at <= now' /\ setup'.R.at <= now'
  BY <1>1, <1>2
<1>4. RecentRight'
  <2>1. ASSUME NEW h \in Hosts PROVE recent[h].origin.sent <= now'
    <3>1. recent[h].origin.sent <= now /\ recent[h].origin \in Origin
      BY <1>1 DEF RecentRight
    <3>2. recent[h].origin.sent \in Int
      BY <1>1, <3>1, SinceType
    <3> QED  BY <1>1, <3>1, <3>2
  <2> QED  BY <1>1, <2>1, SinceSame DEF RecentRight
<1>5. NetRight'
  <2>1. ASSUME net # Nothing PROVE TimesRight(net.p, Peer(net.to))'
    <3>1. TimesRight(net.p, Peer(net.to)) /\ net.p \in Packet
      BY <1>1, <2>1 DEF NetRight
    <3>2. net.p.sent \in Int
      BY <3>1 DEF Packet
    <3> QED  BY <1>1, <3>1, <3>2, SinceSame DEF TimesRight
  <2> QED  BY <1>1, <2>1, SinceSame DEF NetRight, Mapped
<1>6. GotRight'
  BY <1>1, SinceSame DEF GotRight
<1> QED  BY <1>1, <1>3, <1>4, <1>5, <1>6 DEF NumbersRight

\* Steps that let no time pass.
LEMMA SameTime ==
  ASSUME NumbersRight, setup' = setup, now' = now
  PROVE  /\ setup' \in Setups /\ now' \in 0 .. MaxNow /\ setup'.L.at <= now' /\ setup'.R.at <= now'
         /\ (recent' = recent => RecentRight')
         /\ (got' = got => GotRight')
         /\ (net' = net => NetRight')
         /\ \A p, h : TimesRight(p, h)' <=> TimesRight(p, h)
<1>1. \A p, h : TimesRight(p, h)' <=> TimesRight(p, h)
  BY SinceSame DEF TimesRight
<1> QED  BY <1>1, SinceSame DEF NumbersRight, RecentRight, GotRight, NetRight, Mapped

LEMMA SendStep == ASSUME NumbersRight, NEW h \in Hosts, Send(h) PROVE NumbersRight'
<1>1. setup' = setup /\ now' = now /\ recent' = recent /\ got' = Nothing /\ setup \in Setups
      /\ now \in Nat
  BY RewriteAssumption DEF Send, NumbersRight
<1>2. PICK k \in {1, 2}, w \in {1, B - 1}, s \in {"NONE", "PARTIAL"} :
        net' = [at |-> IF setup.spliced THEN "host" ELSE "K", to |-> Peer(h),
                p |-> OutRewrite(Written(h, k, w, s), OutBlock(h),
                                 SubOf(setup[h].addr, FirstHop(h)))]
  BY DEF Send
<1> DEFINE p == Written(h, k, w, s)
<1>3. p \in Packet /\ AsSent(p, h) /\ TimesRight(p, h)
  BY WrittenRight
<1> HIDE DEF p
<1> DEFINE q == OutRewrite(p, OutBlock(h), SubOf(setup[h].addr, FirstHop(h)))
<1>4. q \in Packet /\ NumbersMapped(p, OutBlock(h), q)
  <2>1. SubOf(setup[h].addr, FirstHop(h)) \in SessionType
    BY <1>1, SessionTypes, SideType
  <2> QED  BY <1>1, <1>3, <2>1, BlockTypes, OutMaps
<1>5. net' = [at |-> IF setup.spliced THEN "host" ELSE "K", to |-> Peer(h), p |-> q]
  BY <1>2 DEF p
<1> HIDE DEF q
<1>6. TimesRight(q, h)
  BY <1>3, <1>4, TimesSame DEF NumbersMapped
<1>7. Peer(h) \in Hosts /\ Peer(Peer(h)) = h /\ (Peer(h) = "L" <=> h = "R")
  BY DEF Peer, Hosts
<1>8. CASE Mapped(Peer(h))
  <2>1. h = "R" /\ setup.spliced /\ OutBlock(h) = DeltasOut(Recorded("R"))
    BY <1>7, <1>8 DEF Mapped, OutBlock
  <2>2. AsTaken(q, "L")
    BY <1>1, <1>3, <1>4, <2>1, MapsOut
  <2>3. NetRight'
    BY <1>1, <1>4, <1>5, <1>6, <1>7, <2>1, <2>2, SinceSame, SameTime DEF NetRight, Mapped
  <2> QED  BY <1>1, <2>3, SameTime DEF NumbersRight, GotRight
<1>9. CASE ~Mapped(Peer(h))
  <2>1. OutBlock(h) = NoDeltas
    BY <1>7, <1>9 DEF Mapped, OutBlock
  <2>2. AsSent(q, h)
    BY <1>3, <1>4, <2>1, NothingMapped, AsSentSame
  <2>3. /\ net'.at \in {"K", "host"} /\ net'.to = Peer(h) /\ net'.p = q
        /\ net' \in [at : {"K", "host"}, to : Hosts, p : Packet]
        /\ setup.spliced => net'.at = "host"
    BY <1>4, <1>5, <1>7
  <2>4. NetRight'
    BY <1>1, <1>6, <1>7, <1>9, <2>2, <2>3, SinceSame, SameTime DEF NetRight, Mapped
  <2> QED  BY <1>1, <2>4, SameTime DEF NumbersRight, GotRight
<1> QED  BY <1>8, <1>9

LEMMA RelayStep == ASSUME NumbersRight, Relay PROVE NumbersRight'
<1>1. setup' = setup /\ now' = now /\ recent' = recent /\ got' = got /\ setup \in Setups
      /\ net.at = "K" /\ NetRight
  BY DEF Relay, NumbersRight
<1>2. /\ net \in [at : {"K", "host"}, to : Hosts, p : Packet] /\ ~setup.spliced
      /\ TimesRight(net.p, Peer(net.to)) /\ AsSent(net.p, Peer(net.to))
  BY <1>1 DEF NetRight, Nothing, Mapped
<1> DEFINE to == net.to  from == Peer(to)
           sub == SubOf(setup[from].addr, setup.K)
           sub2 == SubOf(setup.K, setup[to].addr)
<1>3. PICK p \in Arrival(net.p) :
        net' = [net EXCEPT !.at = "host",
                           !.p = OutRewrite(InRewrite(p, NoDeltas, sub, SuperOf(from)),
                                            NoDeltas, sub2)]
  BY DEF Relay
<1>4. /\ to \in Hosts /\ from \in Hosts /\ sub \in SessionType /\ sub2 \in SessionType
      /\ SuperOf(from) \in SessionType /\ NoDeltas \in Block
  BY <1>1, <1>2, SessionTypes, SideType, SetupType, BlockTypes
<1> DEFINE in == InRewrite(p, NoDeltas, sub, SuperOf(from))
           q == OutRewrite(in, NoDeltas, sub2)
<1>5. p \in Packet /\ SameNumbers(net.p, p)
  BY <1>2, ArrivalKeeps
<1>6. in \in Packet /\ NumbersMapped(p, NoDeltas, in)
  BY <1>4, <1>5, InMaps
<1> HIDE DEF in
<1>7. q \in Packet /\ NumbersMapped(in, NoDeltas, q)
  BY <1>4, <1>6, OutMaps
<1>8. net' = [net EXCEPT !.at = "host", !.p = q]
  BY <1>3 DEF in
<1> HIDE DEF q
<1>9. SameNumbers(net.p, q)
  BY <1>5, <1>6, <1>7, NothingMapped DEF SameNumbers, SameHistory
<1>10. AsSent(q, from) /\ TimesRight(q, from)
  BY <1>2, <1>9, AsSentSame, TimesSame DEF SameNumbers
<1>11. NetRight'
  BY <1>1, <1>2, <1>7, <1>8, <1>10, SinceSame, SameTime DEF NetRight, Mapped
<1> QED  BY <1>1, <1>11, SameTime DEF NumbersRight

\* What the receiving host's TCP finds.
LEMMA ReceivedRight ==
  ASSUME NumbersRight, net.at = "host", NEW arrived \in Arrival(net.p)
  PROVE  LET h == net.to
             p == InRewrite(arrived, InBlock(h), LastHop(h), Turned(SuperOf(h)))
         IN  h \in Hosts /\ p \in Packet /\ AsTaken(p, h) /\ TimesRight(p, Peer(h))
<1> DEFINE h == net.to
           p == InRewrite(arrived, InBlock(h), LastHop(h), Turned(SuperOf(h)))
<1>1. /\ net \in [at : {"K", "host"}, to : Hosts, p : Packet] /\ setup \in Setups
      /\ TimesRight(net.p, Peer(h)) /\ now \in Nat
      /\ IF Mapped(h) THEN AsTaken(net.p, "L") ELSE AsSent(net.p, Peer(h))
  BY RewriteAssumption DEF NumbersRight, NetRight, Nothing
<1>2. h \in Hosts /\ net.p \in Packet
  BY <1>1
<1>3. arrived \in Packet /\ SameNumbers(net.p, arrived)
  BY <1>2, ArrivalKeeps
<1> HIDE DEF h
<1>4. p \in Packet /\ NumbersMapped(arrived, InBlock(h), p)
  BY <1>1, <1>2, <1>3, BlockTypes, SessionTypes, InMaps
<1> HIDE DEF p
<1>5. TimesRight(arrived, Peer(h)) /\ TimesRight(p, Peer(h))
  BY <1>1, <1>3, <1>4, TimesSame DEF NumbersMapped, SameNumbers
<1>6. AsTaken(p, h)
  <2>1. CASE Mapped(h)
    <3>1. InBlock(h) = NoDeltas /\ h = "L"
      BY <2>1 DEF InBlock, Mapped
    <3> QED  BY <1>1, <1>3, <1>4, <2>1, <3>1, NothingMapped, AsTakenSame
  <2>2. CASE setup.spliced /\ h = "R"
    <3>1. InBlock(h) = DeltasIn(Recorded("R")) /\ ~Mapped(h) /\ Peer(h) = "L"
      BY <2>2 DEF InBlock, Mapped, Peer
    <3>2. AsSent(arrived, "L") /\ TimesRight(arrived, "L")
      BY <1>1, <1>3, <1>5, <3>1, AsSentSame
    <3> QED  BY <1>1, <1>3, <1>4, <2>2, <3>1, <3>2, MapsIn
  <2>3. CASE ~setup.spliced
    <3>1. InBlock(h) = NoDeltas /\ ~Mapped(h)
      BY <2>3 DEF InBlock, Mapped
    <3>2. AsSent(p, Peer(h))
      BY <1>1, <1>3, <1>4, <3>1, NothingMapped, AsSentSame
    <3> QED  BY <1>1, <1>2, <1>4, <2>3, <3>2, PlainTaken
  <2> QED  BY <1>2, <2>1, <2>2, <2>3 DEF Mapped, Hosts
<1> QED  BY <1>2, <1>4, <1>5, <1>6 DEF p, h

\* The translation keeps the time stamps that a host compares in the order in which
\* they were sent, but for the time between the two SYN+ACKs.
LEMMA DropsRight ==
  ASSUME setup \in Setups, now \in Nat, RecentRight, Translated, NEW h \in Hosts, NEW p \in Packet,
         AsTaken(p, h), TimesRight(p, Peer(h)), Before(p.ts, recent[h].val)
  PROVE  p.sent < recent[h].origin.sent + Later(Skew, -Skew)
<1> DEFINE o == recent[h].origin
           d == p.sent - setup[Peer(h)].at
           e == Since(h, o)
<1>1. o \in Origin /\ e >= 0 /\ recent[h].val = Wrap(setup[h].mts + e)
  BY DEF RecentRight
<1>2. /\ setup[h].at \in Int /\ setup[Peer(h)].at \in Int /\ setup[h].mts \in Num
      /\ p.sent \in 0 .. MaxNow /\ 0 <= setup[Peer(h)].at
  BY SessionTypes, SideType, RewriteAssumption DEF Packet
<1>3. /\ p.ts = Wrap(setup[h].mts + d) /\ setup[Peer(h)].at <= p.sent
  BY SessionTypes, SetupType DEF AsTaken, ClocksTaken, TimesRight, Hosts
<1>4. d \in 0 .. H - 1 /\ e \in 0 .. H - 1
  <2>1. e \in Int /\ e <= MaxNow
    BY <1>1, SinceType
  <2> QED  BY <1>1, <1>2, <1>3, <2>1, RewriteAssumption, Sizes
<1>5. e > d
  BY <1>1, <1>2, <1>3, <1>4, AfterShift DEF After
<1>6. \/ e = o.sent - setup[h].at
      \/ e = o.sent - setup[Peer(h)].at
  BY DEF Since, StartOf
<1>7. /\ Later(Skew, -Skew) >= 0 /\ Later(Skew, -Skew) \in Int
      /\ Later(Skew, -Skew) >= setup[Peer(h)].at - setup[h].at
  <2>1. setup.L.at \in Int /\ setup.R.at \in Int
    BY SetupType, SideType
  <2>2. CASE h = "L"
    BY <2>1, <2>2, SetupType DEF Later, Skew, Peer
  <2>3. CASE h = "R"
    BY <2>1, <2>3, SetupType DEF Later, Skew, Peer
  <2> QED  BY <2>2, <2>3 DEF Hosts
<1>8. o.sent \in Int
  BY <1>1, SinceType
<1> QED  BY <1>2, <1>4, <1>5, <1>6, <1>7, <1>8

LEMMA ReceiveStep == ASSUME NumbersRight, Receive PROVE NumbersRight'
<1>1. setup' = setup /\ now' = now /\ net' = Nothing /\ net.at = "host"
      /\ setup \in Setups /\ RecentRight /\ now \in Nat
  BY RewriteAssumption DEF Receive, NumbersRight
<1> DEFINE h == net.to
<1>2. PICK arrived \in Arrival(net.p) :
        LET p == InRewrite(arrived, InBlock(h), LastHop(h), Turned(SuperOf(h)))
            old == Before(p.ts, recent[h].val)
        IN  /\ got' = [at |-> h, p |-> p, dropped |-> old,
                       against |-> recent[h].origin.sent]
            /\ recent' = IF old THEN recent
                         ELSE [recent EXCEPT ![h] =
                                  [val |-> p.ts, origin |-> [sent |-> p.sent, path |-> "new"]]]
  BY DEF Receive
<1> DEFINE p == InRewrite(arrived, InBlock(h), LastHop(h), Turned(SuperOf(h)))
           old == Before(p.ts, recent[h].val)
<1>3. h \in Hosts /\ p \in Packet /\ AsTaken(p, h) /\ TimesRight(p, Peer(h))
  BY <1>1, ReceivedRight
<1>4. /\ got' = [at |-> h, p |-> p, dropped |-> old, against |-> recent[h].origin.sent]
      /\ recent' = IF old THEN recent
                   ELSE [recent EXCEPT ![h] =
                            [val |-> p.ts, origin |-> [sent |-> p.sent, path |-> "new"]]]
  BY <1>2
<1> HIDE DEF p, h
<1>5. GotRight'
  <2>1. recent[h].origin \in Origin
    BY <1>1, <1>3 DEF RecentRight
  <2>2. recent[h].origin.sent \in 0 .. MaxNow
    BY <2>1 DEF Origin
  <2>3. old \in BOOLEAN
    BY DEF Before
  <2>4. got' \in [at : Hosts, p : Packet, dropped : BOOLEAN, against : 0 .. MaxNow]
    BY <1>3, <1>4, <2>2, <2>3
  <2>5. Translated /\ old => p.sent < recent[h].origin.sent + Later(Skew, -Skew)
    BY <1>1, <1>3, DropsRight
  <2> HIDE DEF old
  <2>6. got'.at = h /\ got'.p = p /\ got'.dropped = old /\ got'.against = recent[h].origin.sent
    BY <1>4
  <2> QED  BY <1>1, <1>3, <2>4, <2>5, <2>6, SinceSame DEF GotRight
<1>6. RecentRight'
  <2>1. CASE old
    BY <1>1, <1>4, <2>1, SameTime
  <2>2. CASE ~old
    <3> DEFINE o == [sent |-> p.sent, path |-> "new"]
               r == [val |-> p.ts, origin |-> o]
    <3>1. recent' = [recent EXCEPT ![h] = r]
      BY <1>4, <2>2
    <3>2. o.sent = p.sent /\ o.path = "new" /\ p.sent \in 0 .. MaxNow /\ p.ts \in Num
      BY <1>3 DEF Packet
    <3>3. o \in Origin /\ r \in [val : Num, origin : Origin] /\ r.val = p.ts /\ r.origin = o
      BY <3>2 DEF Origin
    <3> HIDE DEF o, r
    <3>4. Since(h, o) = p.sent - setup[Peer(h)].at
      BY <3>2 DEF Since, StartOf
    <3>5. setup[Peer(h)].at <= p.sent /\ p.sent <= now /\ setup[Peer(h)].at \in Int
      BY <1>1, <1>3, SessionTypes, SideType, SetupType DEF TimesRight, Hosts
    <3>6. Translated => p.ts = Wrap(setup[h].mts + Since(h, o))
      BY <1>3, <3>4 DEF AsTaken, ClocksTaken
    <3>7. /\ recent' \in [Hosts -> [val : Num, origin : Origin]]
          /\ recent'[h] = r /\ \A g \in Hosts \ {h} : recent'[g] = recent[g]
      BY <1>1, <1>3, <3>1, <3>3 DEF RecentRight
    <3>8. Since(h, o) >= 0 /\ o.sent <= now
      BY <3>2, <3>4, <3>5
    <3> QED  BY <1>1, <3>3, <3>6, <3>7, <3>8, SinceSame DEF RecentRight
  <2> QED  BY <2>1, <2>2
<1> QED  BY <1>1, <1>5, <1>6, SameTime DEF NumbersRight, NetRight

LEMMA OldStep == ASSUME NumbersRight, NEW h \in Hosts, OldSegment(h) PROVE NumbersRight'
<1>1. setup' = setup /\ now' = now /\ net' = net /\ got' = got
      /\ setup \in Setups /\ RecentRight /\ now \in 0 .. MaxNow
      /\ setup.L.at <= now /\ setup.R.at <= now
  BY DEF OldSegment, NumbersRight
<1> DEFINE ts == Wrap(setup[h].mts + now - setup[h].at)
           o == [sent |-> now, path |-> "old"]
           r == [val |-> ts, origin |-> o]
<1>2. recent' = recent \/ recent' = [recent EXCEPT ![h] = r]
  BY DEF OldSegment
<1>3. o.sent = now /\ o.path = "old" /\ r.val = ts /\ r.origin = o /\ o \in Origin
  BY <1>1 DEF Origin
<1>4. setup[h].at \in Int /\ 0 <= setup[h].at /\ setup[h].at <= now /\ setup[h].mts \in Num
  BY <1>1, SessionTypes, SideType, SetupType, RewriteAssumption DEF Hosts
<1>5. ts \in Num /\ ts = Wrap(setup[h].mts + (now - setup[h].at))
  <2>1. setup[h].mts + now - setup[h].at = setup[h].mts + (now - setup[h].at)
    BY <1>1, <1>4, RewriteAssumption DEF Num
  <2> QED  BY <1>1, <1>4, <2>1, Elapsed, RewriteAssumption
<1>6. r \in [val : Num, origin : Origin]
  BY <1>3, <1>5
<1> HIDE DEF ts, o, r
<1>7. Since(h, o) = now - setup[h].at
  BY <1>3 DEF Since, StartOf
<1>8. RecentRight'
  <2>1. CASE recent' = recent
    BY <1>1, <2>1, SameTime
  <2>2. CASE recent' = [recent EXCEPT ![h] = r]
    <3>1. /\ recent' \in [Hosts -> [val : Num, origin : Origin]]
          /\ recent'[h] = r /\ \A g \in Hosts \ {h} : recent'[g] = recent[g]
      BY <1>1, <1>6, <2>2 DEF RecentRight
    <3>2. Since(h, o) >= 0 /\ o.sent <= now
      BY <1>1, <1>3, <1>4, <1>7, RewriteAssumption
    <3> QED  BY <1>1, <1>3, <1>5, <1>7, <3>1, <3>2, SinceSame DEF RecentRight
  <2> QED  BY <1>2, <2>1, <2>2
<1> QED  BY <1>1, <1>8, SameTime DEF NumbersRight

\* The numbers on the wire, and those taken, are at every step what was sent.
THEOREM NumbersFollowed == Spec => []NumbersRight
<1>1. NumbersRight /\ [Next]_vars => NumbersRight'
  <2> SUFFICES ASSUME NumbersRight, [Next]_vars PROVE NumbersRight'
    OBVIOUS
  <2>1. CASE UNCHANGED vars
    BY <2>1, SameTime DEF vars, NumbersRight
  <2> QED
    BY <2>1, TickStep, RelayStep, ReceiveStep, SendStep, OldStep DEF Next
<1> QED  BY NumbersInit, <1>1, PTL DEF Spec

-----------------------------------------------------------------------------
(* What the numbers followed give.                                         *)

LEMMA GotTaken ==
  ASSUME NumbersRight, NEW h \in Reached
  PROVE  /\ h = got.at /\ h \in Hosts /\ setup \in Setups
         /\ got.p \in Packet /\ AsTaken(got.p, h)
         /\ Translated /\ got.dropped => got.p.sent < got.against + Later(Skew, -Skew)
<1>1. got # Nothing
  BY DEF Reached, Nothing, Hosts
<1> QED  BY <1>1 DEF NumbersRight, GotRight, Reached

\* Sequence number, ack and the edges of a SACK block reach the other host's TCP at
\* the offsets at which the sender's TCP had them, for all initial numbers of the
\* four ends, also where numbers and deltas wrap.
THEOREM OffsetsAlwaysKept == Spec => []OffsetsKept
<1>1. NumbersRight => OffsetsKept
  <2> SUFFICES ASSUME NumbersRight, setup.spliced, NEW h \in Reached
               PROVE  /\ Offset(setup[h].mseq, got.p.seq) = got.p.k
                      /\ Offset(setup[h].iseq, got.p.ack) = got.p.k
                      /\ \A i \in {1, 2} :
                            Offset(setup[h].iseq, got.p.sack[i]) = got.p.k + i
    BY DEF OffsetsKept
  <2>1. got.p \in Packet /\ NumbersTaken(got.p, h) /\ setup[h] \in Side
    BY GotTaken, SessionTypes DEF AsTaken
  <2>2. setup[h].iseq \in Num /\ setup[h].mseq \in Num /\ got.p.k \in {1, 2}
    BY <2>1, SideType DEF Packet
  <2>3. got.p.k \in Num /\ got.p.k + 1 \in Num /\ got.p.k + 2 \in Num
    BY <2>2, Sizes DEF Num
  <2>4. /\ got.p.sack[1] = Wrap(setup[h].iseq + (got.p.k + 1))
        /\ got.p.sack[2] = Wrap(setup[h].iseq + (got.p.k + 2))
    BY <2>1 DEF NumbersTaken
  <2> QED  BY <2>1, <2>2, <2>3, <2>4, OffsetShift DEF NumbersTaken
<1> QED  BY NumbersFollowed, <1>1, PTL

LEMMA WrapTwice ==
  ASSUME NEW t \in Num, NEW d \in Int, NEW f \in Int,
         -H < d, d < H, -H < f, f < H, -H < d + f, d + f < H
  PROVE  Wrap(Wrap(t + d) + f) = Wrap(t + (d + f))
BY HAssumption DEF Wrap, Num, W

\* What a host's TCP reads as the echo of its clock is its clock, for all clocks and
\* both paths; what was echoed across the change of paths is off by the time between
\* the two SYN+ACKs.
THEOREM EchoesReturn == Spec => []EchoReturns
<1>1. NumbersRight => EchoReturns
  <2> SUFFICES ASSUME NumbersRight, Translated, NEW h \in Reached
               PROVE  LET p == got.p
                          off == IF p.echo.path = "new" \/ ~setup.spliced THEN 0
                                 ELSE IF h = "R" THEN Skew ELSE -Skew
                      IN  p.tsr = Wrap(Clock(h, p.echo.sent) + off)
    BY DEF EchoReturns
  <2> DEFINE o == got.p.echo
             off == IF o.path = "new" \/ ~setup.spliced THEN 0
                    ELSE IF h = "R" THEN Skew ELSE -Skew
             s == Since(Peer(h), o)
  <2>1. /\ got.p \in Packet /\ h \in Hosts /\ setup \in Setups
        /\ got.p.tsr = Wrap(setup[h].ts + s)
    BY GotTaken DEF AsTaken, ClocksTaken
  <2>2. o \in Origin /\ Peer(h) \in Hosts /\ Peer(Peer(h)) = h
    BY <2>1, SessionTypes DEF Packet
  <2>3. /\ setup[h].at \in 0 .. MaxNow /\ setup[Peer(h)].at \in 0 .. MaxNow
        /\ setup[h].ts \in Num
    BY <2>1, SessionTypes, SideType
  <2>4. o.sent \in 0 .. MaxNow /\ o.path \in {"old", "new"}
    BY <2>2 DEF Origin
  <2>5. s = (o.sent - setup[h].at) + off /\ off \in Int
    <3>1. CASE o.path = "new"
      BY <2>2, <2>3, <2>4, <3>1, RewriteAssumption DEF Since, StartOf
    <3>2. CASE o.path = "old"
      <4>1. s = o.sent - setup[Peer(h)].at
        BY <3>2 DEF Since, StartOf
      <4>2. CASE ~setup.spliced
        <5>1. setup[h].at = setup[Peer(h)].at
          BY <2>1, <4>2, SetupType DEF Peer, Hosts
        <5> QED  BY <2>3, <2>4, <4>1, <4>2, <5>1, RewriteAssumption
      <4>3. CASE setup.spliced
        <5>1. off = setup[h].at - setup[Peer(h)].at
          BY <2>1, <2>3, <3>2, <4>3, SetupType, RewriteAssumption DEF Skew, Peer, Hosts
        <5> QED  BY <2>3, <2>4, <4>1, <5>1, RewriteAssumption
      <4> QED  BY <4>2, <4>3
    <3> QED  BY <2>4, <3>1, <3>2
  <2> HIDE DEF off
  <2>6. Clock(h, o.sent) = Wrap(setup[h].ts + (o.sent - setup[h].at))
    <3>1. setup[h].ts + o.sent - setup[h].at = setup[h].ts + (o.sent - setup[h].at)
      BY <2>3, <2>4, RewriteAssumption DEF Num
    <3> QED  BY <3>1 DEF Clock
  <2>7. s \in Int /\ -MaxNow <= s /\ s <= MaxNow
    BY <2>2, <2>3, <2>4, RewriteAssumption DEF Since, StartOf
  <2> DEFINE d == o.sent - setup[h].at
  <2>8. d \in Int /\ -MaxNow <= d /\ d <= MaxNow
    BY <2>3, <2>4, RewriteAssumption
  <2>9. -MaxNow <= off /\ off <= MaxNow
    BY <2>1, <2>3, SetupType, SideType, RewriteAssumption DEF off, Skew, Hosts
  <2>10. s = d + off
    BY <2>5
  <2> HIDE DEF s, d
  <2>11. Wrap(setup[h].ts + s) = Wrap(Wrap(setup[h].ts + d) + off)
    <3>1. -H < d /\ d < H /\ -H < off /\ off < H /\ -H < d + off /\ d + off < H
      BY <2>5, <2>7, <2>8, <2>9, <2>10, RewriteAssumption, Sizes
    <3>2. Wrap(Wrap(setup[h].ts + d) + off) = Wrap(setup[h].ts + (d + off))
      BY <2>3, <2>5, <2>8, <3>1, WrapTwice
    <3> QED  BY <2>10, <3>2
  <2> QED  BY <2>1, <2>6, <2>11 DEF off, d, s
<1> QED  BY NumbersFollowed, <1>1, PTL

\* A segment that TCP takes for an old duplicate was sent at most the time between
\* the two SYN+ACKs after the one it is compared with.
THEOREM OnlyOldDropped == Spec => []DroppedWithinSkew
<1>1. NumbersRight => DroppedWithinSkew
  BY GotTaken DEF DroppedWithinSkew
<1> QED  BY NumbersFollowed, <1>1, PTL

\* No host is told of a larger window than the other one has, whatever the four
\* scales are, up to the two that the right anchor takes for other ones.
THEOREM NeverOverrun == Spec => []NoOverrun
<1>1. NumbersRight => NoOverrun
  BY GotTaken DEF NoOverrun, AsTaken, WindowTaken
<1> QED  BY NumbersFollowed, <1>1, PTL

-----------------------------------------------------------------------------
(* Checksums.  One's complement sums are sums modulo B - 1, of which W - 1 *)
(* is a multiple; that 0 and B - 1 are the same sum is what exactness      *)
(* needs: a sum of something is never folded to 0.                         *)

\* The same sum.
Cong(a, b) == \E n \in Int : a - b = n * (B - 1)

LEMMA Digits == B \in Nat /\ B > 2 /\ W = B * B /\ W \in Nat /\ W > 8
<1>1. B \in Nat /\ B > 1 /\ B * B = W /\ W \in Nat /\ W > 4
  BY Sizes, BAssumption
<1>2. B # 2
  BY <1>1
<1>3. B >= 3 /\ B * B >= 3 * B
  BY <1>1, <1>2
<1> QED  BY <1>1, <1>3

LEMMA CongRules ==
    /\ \A a \in Int : Cong(a, a)
    /\ \A a, b, c \in Int : Cong(a, b) /\ Cong(b, c) => Cong(a, c)
    /\ \A a, b, c, d \in Int : Cong(a, b) /\ Cong(c, d) => Cong(a + c, b + d) /\ Cong(a - c, b - d)
    /\ \A a, b \in Int : Cong(a, b) => Cong(b, a) /\ Cong(-a, -b)
<1>0. B - 1 \in Int
  BY Digits
<1> DEFINE m == B - 1
<1> HIDE DEF m
<1>1. m \in Int /\ \A a, b : Cong(a, b) <=> \E n \in Int : a - b = n * m
  BY <1>0 DEF Cong, m
<1>2. ASSUME NEW a \in Int PROVE Cong(a, a)
  <2>1. \E n \in Int : a - a = n * m
    <3>1. a - a = 0 * m /\ 0 \in Int
      BY <1>1
    <3> WITNESS 0 \in Int
    <3> QED  BY <3>1
  <2> QED  BY <1>1, <2>1
<1>3. ASSUME NEW a \in Int, NEW b \in Int, Cong(a, b) PROVE Cong(b, a) /\ Cong(-a, -b)
  <2>1. PICK n \in Int : a - b = n * m
    BY <1>1, <1>3
  <2>2. b - a = (-n) * m /\ (-a) - (-b) = (-n) * m /\ -n \in Int
    BY <1>1, <2>1
  <2> QED  BY <1>1, <2>2
<1>4. ASSUME NEW a \in Int, NEW b \in Int, NEW c \in Int, NEW d \in Int, Cong(a, b), Cong(c, d)
      PROVE  Cong(a + c, b + d) /\ Cong(a - c, b - d)
  <2>1. PICK n \in Int, k \in Int : a - b = n * m /\ c - d = k * m
    BY <1>1, <1>4
  <2>2. (n + k) * m = n * m + k * m /\ (n - k) * m = n * m - k * m /\ n + k \in Int /\ n - k \in Int
    BY <1>1
  <2>3. n * m \in Int /\ k * m \in Int
    BY <1>1
  <2>4. (a + c) - (b + d) = (n + k) * m /\ (a - c) - (b - d) = (n - k) * m
    BY <2>1, <2>2, <2>3
  <2> QED  BY <1>1, <2>2, <2>4
<1>5. ASSUME NEW a \in Int, NEW b \in Int, NEW c \in Int, Cong(a, b), Cong(b, c)
      PROVE  Cong(a, c)
  <2>1. PICK n \in Int, k \in Int : a - b = n * m /\ b - c = k * m
    BY <1>1, <1>5
  <2>2. (n + k) * m = n * m + k * m /\ n + k \in Int /\ n * m \in Int /\ k * m \in Int
    BY <1>1
  <2>3. a - c = (n + k) * m
    BY <2>1, <2>2
  <2> QED  BY <1>1, <2>2, <2>3
<1> QED  BY <1>2, <1>3, <1>4, <1>5

\* All ones is no sum at all.
LEMMA AllOnes == Cong(B - 1, 0) /\ Cong(W - 1, 0)
<1>1. /\ (B - 1) - 0 = 1 * (B - 1) /\ 1 \in Int
      /\ (W - 1) - 0 = (B + 1) * (B - 1) /\ B + 1 \in Int
  BY Digits
<1>2. Cong(B - 1, 0)
  <2> SUFFICES \E n \in Int : (B - 1) - 0 = n * (B - 1)
    BY DEF Cong
  <2> WITNESS 1 \in Int
  <2> QED  BY <1>1
<1>3. Cong(W - 1, 0)
  <2>1. PICK n \in Int : n = B + 1
    BY <1>1
  <2> QED  BY <1>1, <2>1 DEF Cong
<1> QED  BY <1>2, <1>3

\* The number of a digit and a rest.
LEMMA DivMod ==
  ASSUME NEW s \in Nat, NEW b \in Nat, b > 0
  PROVE  s \div b \in Nat /\ s % b \in 0 .. b - 1 /\ s = (s \div b) * b + (s % b)
OBVIOUS

\* A fold to b of something is something, the same sum modulo b - 1, and below b.
LEMMA FoldTwice ==
  ASSUME NEW b \in Nat, b > 2, NEW s \in Nat, s \div b <= b - 1
  PROVE  LET t == (s % b) + (s \div b)
             u == (t % b) + (t \div b)
         IN  /\ u \in 0 .. b - 1
             /\ \E n \in Nat : s - u = n * (b - 1)
             /\ s > 0 => u > 0
<1> DEFINE q == s \div b  r == s % b  t == r + q
           d == t \div b  e == t % b  u == e + d
<1>1. q \in Nat /\ r \in 0 .. b - 1 /\ s = q * b + r
  BY DivMod
<1>2. t \in Nat /\ t <= 2 * (b - 1)
  BY <1>1
<1> HIDE DEF q, r, t
<1>3. d \in Nat /\ e \in 0 .. b - 1 /\ t = d * b + e
  BY <1>2, DivMod
<1> HIDE DEF d, e
<1>4. d = 0 \/ d = 1
  <2>1. ASSUME d >= 2 PROVE FALSE
    <3>1. d * b >= 2 * b
      BY <1>3, <2>1
    <3> QED  BY <1>2, <1>3, <3>1
  <2> QED  BY <1>3, <2>1
<1>5. u \in 0 .. b - 1
  BY <1>2, <1>3, <1>4
<1>6. s - u = (q + d) * (b - 1) /\ q + d \in Nat
  <2>1. t = r + q
    BY DEF t
  <2>2. q * b \in Nat /\ d * b \in Nat /\ (q + d) * (b - 1) = q * b + d * b - q - d
    BY <1>1, <1>3
  <2> QED  BY <1>1, <1>3, <2>1, <2>2
<1>7. s > 0 => u > 0
  <2>1. t = r + q
    BY DEF t
  <2>2. ASSUME u = 0 PROVE s = 0
    <3>1. d = 0 /\ e = 0
      BY <1>3, <2>2
    <3>2. t = 0
      BY <1>3, <3>1
    <3>3. q = 0 /\ r = 0
      BY <1>1, <2>1, <3>2
    <3> QED  BY <1>1, <3>3
  <2> QED  BY <1>5, <2>2
<1> QED  BY <1>5, <1>6, <1>7 DEF u, d, e, t, q, r

LEMMA Fold4Is ==
  ASSUME NEW s \in Nat, s \div W <= W - 1
  PROVE  /\ Fold4(s) \in Num /\ Cong(Fold4(s), s)
         /\ s > 0 => Fold4(s) > 0
<1>1. W \in Nat /\ W > 2 /\ B \in Int /\ W - 1 = (B + 1) * (B - 1)
  BY Digits
<1>2. /\ Fold4(s) \in 0 .. W - 1 /\ (s > 0 => Fold4(s) > 0)
      /\ \E n \in Nat : s - Fold4(s) = n * (W - 1)
  BY <1>1, FoldTwice DEF Fold4
<1>3. PICK n \in Nat : s - Fold4(s) = n * (W - 1)
  BY <1>2
<1>4. Cong(s, Fold4(s))
  <2>1. n * ((B + 1) * (B - 1)) = (n * (B + 1)) * (B - 1) /\ n * (B + 1) \in Int
    BY <1>1
  <2>2. s - Fold4(s) = (n * (B + 1)) * (B - 1)
    BY <1>1, <1>3, <2>1
  <2>3. PICK k \in Int : k = n * (B + 1)
    BY <2>1
  <2> QED  BY <2>2, <2>3 DEF Cong
<1>5. Fold4(s) \in Int
  BY <1>2
<1> QED  BY <1>2, <1>4, <1>5, CongRules DEF Num

\* The checksum of a sum is its opposite, and all ones only of nothing.
LEMMA CsumFoldIs ==
  ASSUME NEW s \in Num
  PROVE  /\ CsumFold(s) \in Word /\ Cong(CsumFold(s), -s)
         /\ s > 0 => CsumFold(s) < B - 1
<1>1. B \in Nat /\ B > 2 /\ W = B * B /\ s \in Nat /\ s < B * B
  BY Digits DEF Num
<1>2. s \div B <= B - 1
  <2>1. s \div B \in Nat /\ s % B \in 0 .. B - 1 /\ s = (s \div B) * B + (s % B)
    BY <1>1, DivMod
  <2> DEFINE q == s \div B
  <2> HIDE DEF q
  <2>2. ASSUME q >= B PROVE FALSE
    <3>1. q \in Nat /\ q * B >= B * B /\ s >= q * B
      BY <1>1, <2>1, <2>2 DEF q
    <3> QED  BY <1>1, <3>1
  <2> QED  BY <1>1, <2>1, <2>2 DEF q
<1> DEFINE t == (s % B) + (s \div B)
           u == (t % B) + (t \div B)
<1>3. u \in 0 .. B - 1 /\ (s > 0 => u > 0) /\ \E n \in Nat : s - u = n * (B - 1)
  BY <1>1, <1>2, FoldTwice
<1>4. CsumFold(s) = B - 1 - u
  BY DEF CsumFold, Not2
<1> HIDE DEF u
<1>5. u \in Int /\ Cong(s, u)
  BY <1>3 DEF Cong
<1>6. Cong((B - 1) - u, 0 - s)
  BY <1>1, <1>5, AllOnes, CongRules
<1>7. (B - 1) - u = B - 1 - u /\ 0 - s = -s
  BY <1>1, <1>5
<1> QED  BY <1>1, <1>3, <1>4, <1>6, <1>7 DEF Word

LEMMA Not4Is == \A x \in Num : Not4(x) \in Num /\ Cong(Not4(x), -x)
<1> SUFFICES ASSUME NEW x \in Num PROVE Not4(x) \in Num /\ Cong(Not4(x), -x)
  OBVIOUS
<1>1. x \in Int /\ W \in Int /\ 0 <= x /\ x <= W - 1
  BY Digits DEF Num
<1>2. Cong((W - 1) - x, 0 - x)
  BY <1>1, AllOnes, CongRules
<1>3. (W - 1) - x = Not4(x) /\ 0 - x = -x
  BY <1>1 DEF Not4
<1> QED  BY <1>1, <1>2, <1>3 DEF Num

LEMMA Not2Is == \A x \in Word : Not2(x) \in Word /\ Cong(Not2(x), -x)
<1> SUFFICES ASSUME NEW x \in Word PROVE Not2(x) \in Word /\ Cong(Not2(x), -x)
  OBVIOUS
<1>1. x \in Int /\ B \in Int /\ 0 <= x /\ x <= B - 1
  BY Digits DEF Word
<1>2. Cong((B - 1) - x, 0 - x)
  BY <1>1, AllOnes, CongRules
<1>3. (B - 1) - x = Not2(x) /\ 0 - x = -x
  BY <1>1 DEF Not2
<1> QED  BY <1>1, <1>2, <1>3 DEF Word

\* Words that are not all ones are told apart by their sums.
LEMMA CongUnique ==
  ASSUME NEW a \in Word, NEW b \in Word, a < B - 1, b < B - 1, Cong(a, b)
  PROVE  a = b
<1>1. B \in Int /\ a \in Int /\ b \in Int /\ 0 <= a /\ 0 <= b
  BY Digits DEF Word
<1>2. PICK n \in Int : a - b = n * (B - 1)
  BY DEF Cong
<1> DEFINE m == B - 1
<1>3. m \in Int /\ m > 0 /\ a - b < m /\ b - a < m /\ a - b = n * m
  BY <1>1, <1>2, Digits
<1> HIDE DEF m
<1>4. ASSUME n >= 1 PROVE FALSE
  <2>1. n * m >= m
    BY <1>3, <1>4
  <2> QED  BY <1>1, <1>3, <2>1
<1>5. ASSUME n <= -1 PROVE FALSE
  <2>1. n * m <= -m
    BY <1>3, <1>5
  <2> QED  BY <1>1, <1>3, <2>1
<1>6. n = 0
  BY <1>4, <1>5
<1> QED  BY <1>1, <1>3, <1>6

\* No sum of the code has more than a few words.
LEMMA SmallSums ==
  \A s \in Nat : s <= 8 * (W - 1) => s \div W <= W - 1
<1> SUFFICES ASSUME NEW s \in Nat, s <= 8 * (W - 1) PROVE s \div W <= W - 1
  OBVIOUS
<1>1. W \in Nat /\ W > 8
  BY Digits
<1>2. s \div W \in Nat /\ s % W \in 0 .. W - 1 /\ s = (s \div W) * W + (s % W)
  BY <1>1, DivMod
<1> DEFINE q == s \div W
<1> HIDE DEF q
<1>3. ASSUME q >= 8 PROVE FALSE
  <2>1. q * W >= 8 * W /\ q \in Nat
    BY <1>1, <1>2, <1>3 DEF q
  <2> QED  BY <1>1, <1>2, <2>1 DEF q
<1> QED  BY <1>1, <1>2, <1>3 DEF q

\* The checksum of a sum of words, and that it is right.
LEMMA ChecksumIs ==
  ASSUME NEW s \in Nat, s <= 8 * (W - 1)
  PROVE  /\ CsumFold(Fold4(s)) \in Word /\ Cong(CsumFold(Fold4(s)), -s)
         /\ s > 0 => CsumFold(Fold4(s)) < B - 1
         /\ s > 0 /\ Cong(s, 0) => CsumFold(Fold4(s)) = 0
<1> DEFINE f == Fold4(s)  c == CsumFold(f)
<1>1. f \in Num /\ Cong(f, s) /\ (s > 0 => f > 0)
  BY SmallSums, Fold4Is
<1> HIDE DEF f
<1>2. c \in Word /\ Cong(c, -f) /\ (f > 0 => c < B - 1)
  BY <1>1, CsumFoldIs
<1> HIDE DEF c
<1>3. f \in Int /\ c \in Int /\ -f \in Int /\ -s \in Int /\ 0 \in Word /\ 0 < B - 1
  BY <1>1, <1>2, Digits DEF Num, Word
<1>4. Cong(-f, -s)
  BY <1>1, <1>3, CongRules
<1>5. Cong(c, -s)
  BY <1>2, <1>3, <1>4, CongRules
<1>6. ASSUME s > 0, Cong(s, 0) PROVE c = 0
  <2>1. s \in Int /\ 0 \in Int /\ -s = 0 - s
    OBVIOUS
  <2>2. Cong(0 - s, 0 - 0)
    BY <1>6, <2>1, CongRules
  <2>3. Cong(-s, 0)
    BY <2>1, <2>2
  <2>4. Cong(c, 0)
    BY <1>3, <1>5, <2>1, <2>3, CongRules
  <2> QED  BY <1>1, <1>2, <1>3, <1>6, <2>4, CongUnique
<1> QED  BY <1>1, <1>2, <1>5, <1>6 DEF c, f

\* Sums and differences of sums: e - f is the one or the other.
LEMMA CongAdd ==
  ASSUME NEW a \in Int, NEW b \in Int, NEW c \in Int, NEW d \in Int,
         NEW e \in Int, NEW f \in Int, Cong(a, b), Cong(c, d)
  PROVE  /\ e - f = (a - b) + (c - d) => Cong(e, f)
         /\ e - f = (a - b) - (c - d) => Cong(e, f)
<1>1. Cong(a + c, b + d) /\ Cong(a - c, b - d)
  BY CongRules
<1>2. /\ e - f = (a - b) + (c - d) => e - f = (a + c) - (b + d)
      /\ e - f = (a - b) - (c - d) => e - f = (a - c) - (b - d)
  OBVIOUS
<1> QED  BY <1>1, <1>2 DEF Cong

LEMMA CongSame ==
  ASSUME NEW a \in Int, NEW b \in Int, NEW e \in Int, NEW f \in Int, Cong(a, b)
  PROVE  e - f = a - b => Cong(e, f)
BY DEF Cong

LEMMA Words == /\ \A x \in Num : x \in Nat /\ x \in Int /\ x <= W - 1
               /\ \A x \in Word : x \in Num /\ x \in Nat /\ x \in Int /\ x <= B - 1
               /\ 4 * (B - 1) <= W - 1
<1>1. B \in Nat /\ B > 2 /\ W \in Nat /\ W = B * B
  BY Digits
<1>2. B * B - 1 = (B + 1) * (B - 1) /\ (B + 1) * (B - 1) >= 4 * (B - 1) /\ B * B >= B
  BY <1>1
<1> QED  BY <1>1, <1>2 DEF Word, Num

\* Opposites of the same sum.
LEMMA CongOpposite ==
  ASSUME NEW c \in Int, NEW n \in Int, NEW x \in Int, NEW a \in Int,
         Cong(c, -a), Cong(n, -x), Cong(x, a)
  PROVE  Cong(c, n)
<1>1. -a \in Int /\ -x \in Int /\ Cong(-x, -a)
  BY CongRules
<1> DEFINE y == -x  b == -a
<1>2. y \in Int /\ b \in Int /\ Cong(y, b) /\ Cong(n, y) /\ Cong(c, b)
  BY <1>1
<1> HIDE DEF y, b
<1> QED  BY <1>2, CongRules

\* The checksum of a header whose word from became to.
LEMMA CsumReplace4Is ==
  ASSUME NEW sum \in Num, NEW from \in Num, NEW to \in Num
  PROVE  /\ CsumReplace4(sum, from, to) \in Word
         /\ Cong(CsumReplace4(sum, from, to), sum + from - to)
<1> DEFINE a == Not4(from)  b == Not4(sum)  s == a + to + b
<1>1. /\ a \in Num /\ Cong(a, -from) /\ b \in Num /\ Cong(b, -sum)
  BY Not4Is
<1> HIDE DEF a, b
<1>2. /\ a \in Int /\ b \in Int /\ from \in Int /\ to \in Int /\ sum \in Int
      /\ -from \in Int /\ -sum \in Int
  BY <1>1, Words
<1>3. s \in Nat /\ s <= 8 * (W - 1)
  BY <1>1, Words, Digits
<1>4. s \in Int /\ to - from - sum \in Int
  BY <1>2
<1>5. Cong(s, to - from - sum)
  <2>1. s - (to - from - sum) = (a - -from) + (b - -sum)
    BY <1>2
  <2> HIDE DEF s
  <2> QED  BY <1>1, <1>2, <1>4, <2>1, CongAdd
<1> DEFINE c == CsumFold(Fold4(s))
<1>6. c \in Word /\ Cong(c, -s)
  BY <1>3, ChecksumIs
<1>7. CsumReplace4(sum, from, to) = c
  BY DEF CsumReplace4, a, b
<1> HIDE DEF c, s
<1>8. c \in Int /\ -s \in Int /\ sum + from - to \in Int
      /\ c - (sum + from - to) = (c - -s) - (s - (to - from - sum))
  BY <1>2, <1>4, <1>6, Words
<1>9. Cong(c, sum + from - to)
  BY <1>4, <1>5, <1>6, <1>8, CongAdd
<1> QED  BY <1>6, <1>7, <1>9

\* The sum of two addresses, one of which is not 0, with its carry.
LEMMA SumWithCarryIs ==
  ASSUME NEW a \in Num, NEW b \in Num, NEW c \in Num,
         c > (a + b) % W <=> b > (a + b) % W
  PROVE  /\ SumWithCarry(a, b, c) \in Num
         /\ Cong(SumWithCarry(a, b, c), a + b)
<1> DEFINE s == (a + b) % W
           t == SumWithCarry(a, b, c)
<1>1. a \in Nat /\ b \in Nat /\ a < W /\ b < W /\ W \in Nat /\ W > 8
  BY Digits DEF Num
<1>2. t = (s + (IF b > s THEN 1 ELSE 0)) % W
  BY DEF SumWithCarry
<1> HIDE DEF t
<1>3. CASE a + b < W
  <2>1. s = a + b /\ ~(b > s)
    BY <1>1, <1>3
  <2>2. t = a + b
    BY <1>1, <1>2, <1>3, <2>1
  <2> QED  BY <1>1, <1>3, <2>2, CongRules DEF Num, t
<1>4. CASE a + b >= W
  <2>1. s = a + b - W /\ b > s
    BY <1>1, <1>4
  <2>2. t = a + b - W + 1 /\ t \in Num
    <3>1. a + b - W + 1 \in 0 .. W - 1
      BY <1>1, <1>4
    <3>2. \A x \in 0 .. W - 1 : x % W = x
      BY <1>1
    <3> HIDE DEF s
    <3>3. s + (IF b > s THEN 1 ELSE 0) = a + b - W + 1
      BY <1>1, <2>1
    <3> QED  BY <1>2, <3>1, <3>2, <3>3 DEF Num
  <2>3. W - 1 \in Int /\ 0 \in Int /\ a + b \in Int /\ t \in Int
        /\ a + b - t = (W - 1) - 0
    BY <1>1, <2>2
  <2>4. Cong(a + b, t)
    <3> HIDE DEF s
    <3> DEFINE x == a + b  m == W - 1
    <3>0. Cong(m, 0)
      BY AllOnes
    <3>1. x \in Int /\ m \in Int /\ t \in Int /\ 0 \in Int /\ x - t = m - 0 /\ Cong(m, 0)
      BY <2>3, <3>0, Digits, <1>1
    <3> HIDE DEF x, m
    <3>2. Cong(x, t)
      BY <3>1, CongSame
    <3> QED  BY <3>2 DEF x
  <2> QED  BY <2>2, <2>3, <2>4, CongRules DEF t
<1> QED  BY <1>1, <1>3, <1>4

-----------------------------------------------------------------------------
(* What holds of the sums of a packet at every hop.                        *)

Summed == [src : Num, dst : Num, sport : Word, dport : Word,
           seq : Num, ack : Num, sack : Num \X Num, ts : Num, tsr : Num, wnd : Word,
           ipcheck : Word, check : Word, csum : Num,
           summed : {"NONE", "PARTIAL", "COMPLETE"},
           k : {1, 2}, told : Nat, sent : 0 .. MaxNow, echo : Origin]

\* The check covers the pseudo header, and if its sender computed it the segment.
CheckRight(p) ==
    IF p.summed = "PARTIAL" THEN p.check # 0 /\ Cong(p.check, p.src + p.dst)
    ELSE Cong(p.src + p.dst + Segment(p) + p.check, 0)

Sums(p) ==
    /\ p \in Summed
    /\ p.src + p.dst > 0
    /\ Cong(p.src + p.dst + p.ipcheck, 0)
    /\ CheckRight(p)
    /\ p.summed = "COMPLETE" => Cong(p.src + p.dst + p.csum, 0)

LEMMA SummedType ==
  ASSUME NEW p \in Summed
  PROVE  /\ p \in Packet
         /\ p.src \in Num /\ p.dst \in Num /\ p.src + p.dst \in Nat
         /\ p.src + p.dst <= 2 * (W - 1)
         /\ p.seq \in Num /\ p.ack \in Num /\ p.ts \in Num /\ p.tsr \in Num
         /\ p.sack[1] \in Num /\ p.sack[2] \in Num /\ p.sack = <<p.sack[1], p.sack[2]>>
         /\ p.sport \in Word /\ p.dport \in Word /\ p.wnd \in Word
         /\ p.ipcheck \in Word /\ p.check \in Word /\ p.csum \in Num
         /\ p.summed \in {"NONE", "PARTIAL", "COMPLETE"}
         /\ Segment(p) \in Nat /\ Segment(p) + p.check <= 7 * (W - 1)
<1>1. /\ p.src \in Num /\ p.dst \in Num
      /\ p.seq \in Num /\ p.ack \in Num /\ p.ts \in Num /\ p.tsr \in Num
      /\ p.sack[1] \in Num /\ p.sack[2] \in Num /\ p.sack = <<p.sack[1], p.sack[2]>>
      /\ p.sport \in Word /\ p.dport \in Word /\ p.wnd \in Word
      /\ p.ipcheck \in Word /\ p.check \in Word /\ p.csum \in Num
      /\ p.summed \in {"NONE", "PARTIAL", "COMPLETE"}
  BY DEF Summed
<1>2. /\ p.src \in Int /\ p.dst \in Int /\ p.sport \in Int /\ p.dport \in Int
      /\ p.wnd \in Nat /\ p.ipcheck \in Int /\ p.check \in Int /\ p.csum \in Int
  BY <1>1, Words
<1>3. p \in Packet
  BY <1>2 DEF Summed, Packet
<1> DEFINE a == p.sport  b == p.dport  c == p.seq  d == p.ack  e == p.sack[1]  f == p.sack[2]
           g == p.ts  h == p.tsr  i == p.wnd  j == p.check  m == W - 1  n == B - 1
           s == p.src  t == p.dst
<1>4. /\ a \in Nat /\ b \in Nat /\ c \in Nat /\ d \in Nat /\ e \in Nat /\ f \in Nat
      /\ g \in Nat /\ h \in Nat /\ i \in Nat /\ j \in Nat /\ m \in Nat /\ n \in Nat
      /\ s \in Nat /\ t \in Nat
      /\ a <= n /\ b <= n /\ i <= n /\ j <= n /\ 4 * n <= m /\ s <= m /\ t <= m
      /\ c <= m /\ d <= m /\ e <= m /\ f <= m /\ g <= m /\ h <= m
  BY <1>1, Words, Digits
<1>5. Segment(p) = a + b + c + d + e + f + g + h + i
  BY DEF Segment
<1> HIDE DEF a, b, c, d, e, f, g, h, i, j, m, n, s, t
<1>6. /\ a + b + c + d + e + f + g + h + i \in Nat
      /\ a + b + c + d + e + f + g + h + i + j <= 7 * m
      /\ s + t \in Nat /\ s + t <= 2 * m
  BY <1>4
<1> QED  BY <1>1, <1>3, <1>5, <1>6 DEF m, j, s, t

\* The receiver's TCP accepts such a packet.
LEMMA SumsVerify == ASSUME NEW p, Sums(p) PROVE Verifies(p)
<1> DEFINE a == p.src + p.dst
<1>1. /\ p \in Summed /\ a \in Nat /\ a > 0 /\ a <= 2 * (W - 1)
      /\ p.summed \in {"NONE", "PARTIAL", "COMPLETE"}
      /\ p.ipcheck \in Word /\ p.check \in Word /\ p.csum \in Num
      /\ p.ipcheck \in Num /\ p.check \in Num /\ Segment(p) \in Nat
      /\ p.ipcheck \in Nat /\ p.check \in Nat /\ p.csum \in Nat
      /\ p.ipcheck <= W - 1 /\ p.csum <= W - 1
      /\ Segment(p) + p.check <= 7 * (W - 1)
      /\ Cong(a + p.ipcheck, 0) /\ CheckRight(p)
      /\ p.summed = "COMPLETE" => Cong(a + p.csum, 0)
  BY SummedType, Words DEF Sums
<1>2. CsumFold(Fold4(a + p.ipcheck)) = 0
  <2>1. a + p.ipcheck \in Nat /\ a + p.ipcheck > 0 /\ a + p.ipcheck <= 8 * (W - 1)
    BY <1>1, Words, Digits
  <2> QED  BY <1>1, <2>1, ChecksumIs
<1>3. CASE p.summed = "COMPLETE"
  <2>1. a + p.csum \in Nat /\ a + p.csum > 0 /\ a + p.csum <= 8 * (W - 1)
    BY <1>1, Words, Digits
  <2>2. CsumFold(Fold4(a + p.csum)) = 0
    BY <1>1, <1>3, <2>1, ChecksumIs
  <2> QED  BY <1>2, <1>3, <2>2 DEF Verifies, Pseudo
<1>4. CASE p.summed = "NONE"
  <2> DEFINE s == Segment(p) + p.check  f == Fold4(s)
  <2>1. s \in Nat /\ s <= 8 * (W - 1)
    BY <1>1, Digits
  <2>2. f \in Num /\ Cong(f, s)
    BY <2>1, SmallSums, Fold4Is
  <2>3. Cong(a + s, 0)
    <3>1. Cong(a + Segment(p) + p.check, 0)
      BY <1>1, <1>4 DEF CheckRight
    <3>2. a + Segment(p) + p.check = a + s
      BY <1>1, Words
    <3> QED  BY <3>1, <3>2
  <2> HIDE DEF s, f
  <2>4. a + f \in Nat /\ a + f > 0 /\ a + f <= 8 * (W - 1)
    BY <1>1, <2>2, Words, Digits
  <2>5. Cong(a + f, 0)
    <3>1. a + f \in Int /\ a + s \in Int /\ f \in Int /\ s \in Int /\ 0 \in Int
          /\ (a + f) - 0 = ((a + s) - 0) + (f - s)
      BY <1>1, <2>1, <2>2, <2>4, Words
    <3> QED  BY <2>2, <2>3, <3>1, CongAdd
  <2>6. CsumFold(Fold4(a + f)) = 0
    BY <2>4, <2>5, ChecksumIs
  <2> QED  BY <1>2, <1>4, <2>6 DEF Verifies, Pseudo, f, s
<1>5. CASE p.summed = "PARTIAL"
  <2> DEFINE c == CsumFold(Fold4(a))  n == Not2(p.check)
  <2>1. c \in Word /\ Cong(c, -a) /\ c < B - 1
    BY <1>1, ChecksumIs, Digits
  <2>2. n \in Word /\ Cong(n, -p.check) /\ n < B - 1
    <3>1. p.check # 0 /\ p.check \in Nat
      BY <1>1, <1>5, Words DEF CheckRight
    <3> QED  BY <1>1, <3>1, Not2Is, Digits DEF Not2
  <2>3. Cong(p.check, a)
    BY <1>1, <1>5 DEF CheckRight
  <2> HIDE DEF c, n
  <2>4. c \in Int /\ n \in Int /\ a \in Int /\ p.check \in Int
    BY <1>1, <2>1, <2>2, Words
  <2>6. Cong(c, n)
    BY <2>1, <2>2, <2>3, <2>4, CongOpposite
  <2>7. c = n
    BY <2>1, <2>2, <2>6, CongUnique
  <2> QED  BY <1>2, <1>5, <2>7 DEF Verifies, Pseudo, c, n
<1> QED  BY <1>1, <1>3, <1>4, <1>5

\* What the incremental update of a field's word does to the check.
LEMMA PatchField ==
  ASSUME NEW p, Sums(p), NEW from \in Num, NEW to \in Num
  PROVE  \E c \in Word :
            /\ ProtoReplace4(p, from, to, FALSE) = [p EXCEPT !.check = c]
            /\ IF p.summed = "PARTIAL" THEN c = p.check ELSE Cong(c, p.check + from - to)
<1>1. /\ p \in Summed /\ p.check \in Word /\ p.check \in Num
  BY SummedType, Words DEF Sums
<1>2. CASE p.summed = "PARTIAL"
  <2>1. ProtoReplace4(p, from, to, FALSE) = [p EXCEPT !.check = p.check]
    BY <1>1, <1>2 DEF ProtoReplace4, Summed
  <2> QED  BY <1>1, <1>2, <2>1
<1>3. CASE p.summed # "PARTIAL"
  <2> DEFINE c == CsumReplace4(p.check, from, to)
  <2>1. ProtoReplace4(p, from, to, FALSE) = [p EXCEPT !.check = c]
    BY <1>1, <1>3 DEF ProtoReplace4, Summed
  <2>2. c \in Word /\ Cong(c, p.check + from - to)
    BY <1>1, CsumReplace4Is
  <2> HIDE DEF c
  <2> QED  BY <1>3, <2>1, <2>2
<1> QED  BY <1>2, <1>3

\* A packet r that differs from p in a word of the segment and in the check for it.
LEMMA Patched ==
  ASSUME NEW p, Sums(p), NEW from \in Num, NEW to \in Num, NEW r \in Summed,
         r.src = p.src, r.dst = p.dst, r.ipcheck = p.ipcheck, r.summed = p.summed,
         r.csum = p.csum, Segment(r) = Segment(p) + (to - from),
         IF p.summed = "PARTIAL" THEN r.check = p.check ELSE Cong(r.check, p.check + from - to)
  PROVE  Sums(r)
<1> DEFINE a == p.src + p.dst  s == Segment(p)  c == p.check  d == r.check
           t == Segment(r)
<1>1. /\ a \in Int /\ s \in Int /\ c \in Int /\ d \in Int /\ t \in Int
      /\ from \in Int /\ to \in Int /\ p \in Summed
  BY SummedType, Words DEF Sums
<1>2. CheckRight(r)
  <2>1. CASE p.summed = "PARTIAL"
    BY <2>1 DEF Sums, CheckRight
  <2>2. CASE p.summed # "PARTIAL"
    <3>1. Cong(a + s + c, 0) /\ Cong(d, c + from - to) /\ t = s + (to - from)
      BY <2>2 DEF Sums, CheckRight
    <3>2. Cong(a + t + d, 0)
      <4> HIDE DEF a, s, c, d, t
      <4>1. /\ a + s + c \in Int /\ a + t + d \in Int /\ 0 \in Int /\ c + from - to \in Int
            /\ (a + t + d) - 0 = ((a + s + c) - 0) + (d - (c + from - to))
        BY <1>1, <3>1
      <4> QED  BY <1>1, <3>1, <4>1, CongAdd
    <3> QED  BY <2>2, <3>2 DEF CheckRight
  <2> QED  BY <2>1, <2>2
<1> QED  BY <1>2 DEF Sums

LEMMA ReplaceSums ==
  ASSUME NEW p, Sums(p)
  PROVE  /\ \A new \in Num : /\ Sums(Replace(p, "seq", new)) /\ Sums(Replace(p, "ack", new))
                             /\ Sums(Replace(p, "ts", new)) /\ Sums(Replace(p, "tsr", new))
         /\ \A new \in Word : /\ Sums(Replace(p, "sport", new)) /\ Sums(Replace(p, "dport", new))
                              /\ Sums(Replace(p, "wnd", new))
<1>1. p \in Summed
  BY DEF Sums
<1>2. ASSUME NEW f \in {"seq", "ack", "ts", "tsr", "sport", "dport", "wnd"}, NEW new \in Num,
             f \in {"sport", "dport", "wnd"} => new \in Word
      PROVE  Sums(Replace(p, f, new))
  <2>1. p[f] \in Num
    BY <1>1, SummedType, Words
  <2>2. PICK c \in Word :
           /\ ProtoReplace4(p, p[f], new, FALSE) = [p EXCEPT !.check = c]
           /\ IF p.summed = "PARTIAL" THEN c = p.check ELSE Cong(c, p.check + p[f] - new)
    BY <2>1, PatchField
  <2> DEFINE r == [[p EXCEPT !.check = c] EXCEPT ![f] = new]
  <2>3. Replace(p, f, new) = r
    BY <2>2 DEF Replace
  <2>4. /\ r \in Summed
        /\ r.src = p.src /\ r.dst = p.dst /\ r.ipcheck = p.ipcheck /\ r.summed = p.summed
        /\ r.csum = p.csum /\ r.check = c
    BY <1>1, <1>2 DEF Summed
  <2>5. Segment(r) = Segment(p) + (new - p[f])
    <3>1. /\ p.sport \in Int /\ p.dport \in Int /\ p.seq \in Int /\ p.ack \in Int
          /\ p.sack[1] \in Int /\ p.sack[2] \in Int /\ p.ts \in Int /\ p.tsr \in Int
          /\ p.wnd \in Int /\ new \in Int
      BY <1>1, SummedType, Words
    <3>2. CASE f = "seq"
      <4>1. Segment(r) = p.sport + p.dport + new + p.ack + p.sack[1] + p.sack[2]
                        + p.ts + p.tsr + p.wnd
        BY <1>1, <3>2 DEF Summed, Segment
      <4> QED  BY <3>1, <3>2, <4>1 DEF Segment
    <3>3. CASE f = "ack"
      <4>1. Segment(r) = p.sport + p.dport + p.seq + new + p.sack[1] + p.sack[2]
                        + p.ts + p.tsr + p.wnd
        BY <1>1, <3>3 DEF Summed, Segment
      <4> QED  BY <3>1, <3>3, <4>1 DEF Segment
    <3>4. CASE f = "ts"
      <4>1. Segment(r) = p.sport + p.dport + p.seq + p.ack + p.sack[1] + p.sack[2]
                        + new + p.tsr + p.wnd
        BY <1>1, <3>4 DEF Summed, Segment
      <4> QED  BY <3>1, <3>4, <4>1 DEF Segment
    <3>5. CASE f = "tsr"
      <4>1. Segment(r) = p.sport + p.dport + p.seq + p.ack + p.sack[1] + p.sack[2]
                        + p.ts + new + p.wnd
        BY <1>1, <3>5 DEF Summed, Segment
      <4> QED  BY <3>1, <3>5, <4>1 DEF Segment
    <3>6. CASE f = "sport"
      <4>1. Segment(r) = new + p.dport + p.seq + p.ack + p.sack[1] + p.sack[2]
                        + p.ts + p.tsr + p.wnd
        BY <1>1, <3>6 DEF Summed, Segment
      <4> QED  BY <3>1, <3>6, <4>1 DEF Segment
    <3>7. CASE f = "dport"
      <4>1. Segment(r) = p.sport + new + p.seq + p.ack + p.sack[1] + p.sack[2]
                        + p.ts + p.tsr + p.wnd
        BY <1>1, <3>7 DEF Summed, Segment
      <4> QED  BY <3>1, <3>7, <4>1 DEF Segment
    <3>8. CASE f = "wnd"
      <4>1. Segment(r) = p.sport + p.dport + p.seq + p.ack + p.sack[1] + p.sack[2]
                        + p.ts + p.tsr + new
        BY <1>1, <3>8 DEF Summed, Segment
      <4> QED  BY <3>1, <3>8, <4>1 DEF Segment
    <3> QED  BY <3>2, <3>3, <3>4, <3>5, <3>6, <3>7, <3>8
  <2> HIDE DEF r
  <2> QED  BY <2>1, <2>2, <2>3, <2>4, <2>5, Patched
<1> QED  BY <1>2, Words

LEMMA ScaledWord ==
  ASSUME NEW w \in Nat, NEW a \in Scale, NEW b \in Scale
  PROVE  ((w * 2 ^ a) \div 2 ^ b) % B \in Word
<1> DEFINE x == 2^a  y == 2^b
<1>1. x \in Nat /\ y \in Nat /\ y > 0
  BY PowersGrow
<1> HIDE DEF x, y
<1>2. w * x \in Nat
  BY <1>1
<1>3. (w * x) \div y \in Nat
  BY <1>1, <1>2
<1>4. \A n \in Nat : n % B \in 0 .. B - 1
  BY Sizes
<1> QED  BY <1>3, <1>4 DEF x, y, Word

LEMMA SackSums ==
  ASSUME NEW p, Sums(p), NEW m \in MapType
  PROVE  Sums(TcpSack(p, m))
<1> DEFINE x == Rewrite(p.sack[1], m.in, m.out)
           q == ProtoReplace4(p, p.sack[1], x, FALSE)
           r == [q EXCEPT !.sack[1] = x]
           y == Rewrite(r.sack[2], m.in, m.out)
           s == ProtoReplace4(r, r.sack[2], y, FALSE)
<1>1. /\ p \in Summed /\ m.in \in Num /\ m.out \in Num
      /\ p.sack[1] \in Num /\ p.sack[2] \in Num /\ p.sack = <<p.sack[1], p.sack[2]>>
  BY SummedType DEF Sums, MapType
<1>2. x \in Num
  BY <1>1, RewriteType
<1>3. PICK c \in Word :
         /\ q = [p EXCEPT !.check = c]
         /\ IF p.summed = "PARTIAL" THEN c = p.check ELSE Cong(c, p.check + p.sack[1] - x)
  BY <1>1, <1>2, PatchField
<1> HIDE DEF x, q
<1>4. r = [p EXCEPT !.check = c, !.sack = <<x, p.sack[2]>>] /\ r \in Summed
  <2>1. q.sack = <<p.sack[1], p.sack[2]>>
    BY <1>1, <1>3 DEF Summed
  <2>2. [q.sack EXCEPT ![1] = x] = <<x, p.sack[2]>>
    BY <2>1
  <2>3. r = [q EXCEPT !.sack = <<x, p.sack[2]>>]
    BY <2>2
  <2>4. <<x, p.sack[2]>> \in Num \X Num
    BY <1>1, <1>2
  <2> QED  BY <1>1, <1>3, <2>3, <2>4 DEF Summed
<1> HIDE DEF r
<1>5. Sums(r) /\ r.sack = <<x, p.sack[2]>> /\ r.sack[2] = p.sack[2]
  <2>1. /\ r.src = p.src /\ r.dst = p.dst /\ r.ipcheck = p.ipcheck /\ r.summed = p.summed
        /\ r.csum = p.csum /\ r.check = c /\ r.sack = <<x, p.sack[2]>>
        /\ r.sport = p.sport /\ r.dport = p.dport /\ r.seq = p.seq /\ r.ack = p.ack
        /\ r.ts = p.ts /\ r.tsr = p.tsr /\ r.wnd = p.wnd
    BY <1>1, <1>4 DEF Summed
  <2>2. r.sack[1] = x /\ r.sack[2] = p.sack[2]
    BY <2>1
  <2>3. Segment(r) = Segment(p) + (x - p.sack[1])
    <3>1. /\ p.sport \in Int /\ p.dport \in Int /\ p.seq \in Int /\ p.ack \in Int
          /\ p.sack[1] \in Int /\ p.sack[2] \in Int /\ p.ts \in Int /\ p.tsr \in Int
          /\ p.wnd \in Int /\ x \in Int
      BY <1>1, <1>2, SummedType, Words
    <3> QED  BY <2>1, <2>2, <3>1 DEF Segment
  <2>4. IF p.summed = "PARTIAL" THEN r.check = p.check
        ELSE Cong(r.check, p.check + p.sack[1] - x)
    BY <1>3, <2>1
  <2>5. p.sack[1] \in Num /\ r \in Summed
    BY <1>1, <1>4
  <2>6. /\ r.src = p.src /\ r.dst = p.dst /\ r.ipcheck = p.ipcheck
        /\ r.summed = p.summed /\ r.csum = p.csum
    BY <2>1
  <2>7. Sums(r)
    BY <1>2, <2>3, <2>4, <2>5, <2>6, Patched
  <2> QED  BY <2>1, <2>2, <2>7
<1>6. y \in Num /\ r.sack[2] \in Num
  BY <1>1, <1>5, RewriteType
<1>7. PICK d \in Word :
         /\ s = [r EXCEPT !.check = d]
         /\ IF r.summed = "PARTIAL" THEN d = r.check ELSE Cong(d, r.check + r.sack[2] - y)
  BY <1>5, <1>6, PatchField
<1> DEFINE t == [s EXCEPT !.sack[2] = y]
<1>8. TcpSack(p, m) = t
  BY DEF TcpSack, s, y, r, q, x
<1> HIDE DEF y, s
<1>9. t = [r EXCEPT !.check = d, !.sack = <<x, y>>] /\ t \in Summed
  <2>1. s.sack = <<x, p.sack[2]>>
    BY <1>4, <1>5, <1>7 DEF Summed
  <2>2. [s.sack EXCEPT ![2] = y] = <<x, y>>
    BY <2>1
  <2>3. t = [s EXCEPT !.sack = <<x, y>>]
    BY <2>2
  <2>4. <<x, y>> \in Num \X Num
    BY <1>2, <1>6
  <2> HIDE DEF t
  <2>5. t = [r EXCEPT !.check = d, !.sack = <<x, y>>]
    BY <1>7, <2>3
  <2> QED  BY <1>4, <1>7, <2>4, <2>5 DEF Summed
<1> HIDE DEF t
<1>10. Sums(t)
  <2>1. /\ t.src = r.src /\ t.dst = r.dst /\ t.ipcheck = r.ipcheck /\ t.summed = r.summed
        /\ t.csum = r.csum /\ t.check = d /\ t.sack = <<x, y>>
        /\ t.sport = r.sport /\ t.dport = r.dport /\ t.seq = r.seq /\ t.ack = r.ack
        /\ t.ts = r.ts /\ t.tsr = r.tsr /\ t.wnd = r.wnd
    BY <1>4, <1>9 DEF Summed
  <2>2. t.sack[1] = x /\ t.sack[2] = y /\ r.sack[1] = x
    BY <1>5, <2>1
  <2>3. Segment(t) = Segment(r) + (y - r.sack[2])
    <3>1. /\ r.sport \in Int /\ r.dport \in Int /\ r.seq \in Int /\ r.ack \in Int
          /\ r.sack[1] \in Int /\ r.sack[2] \in Int /\ r.ts \in Int /\ r.tsr \in Int
          /\ r.wnd \in Int /\ y \in Int
      BY <1>4, <1>6, SummedType, Words
    <3> QED  BY <2>1, <2>2, <3>1 DEF Segment
  <2>4. IF r.summed = "PARTIAL" THEN t.check = r.check
        ELSE Cong(t.check, r.check + r.sack[2] - y)
    BY <1>7, <2>1
  <2>5. /\ t.src = r.src /\ t.dst = r.dst /\ t.ipcheck = r.ipcheck
        /\ t.summed = r.summed /\ t.csum = r.csum /\ Sums(r) /\ t \in Summed
    BY <1>5, <1>9, <2>1
  <2> QED  BY <1>6, <2>3, <2>4, <2>5, Patched
<1> QED  BY <1>8, <1>10

\* Whatever numbers a control block rewrites.
LEMMA NumbersSum ==
  ASSUME NEW p, Sums(p), NEW dcb \in Block
  PROVE  Sums(RewriteNumbers(p, dcb))
<1>1. /\ dcb.seq \in MapType /\ dcb.ack \in MapType /\ dcb.ts \in MapType
      /\ dcb.tsr \in MapType /\ dcb.ws.in \in Scale /\ dcb.ws.out \in Scale
  BY DEF Block
<1>2. ASSUME NEW q, Sums(q), NEW f \in {"seq", "ack", "ts", "tsr"}, NEW m \in MapType
      PROVE  Sums(Translate(q, f, m))
  <2>1. q[f] \in Num /\ m.in \in Num /\ m.out \in Num
    BY <1>2, SummedType DEF Sums, MapType
  <2>2. Rewrite(q[f], m.in, m.out) \in Num
    BY <2>1, RewriteType
  <2>3. Sums(Replace(q, f, Rewrite(q[f], m.in, m.out)))
    BY <1>2, <2>2, ReplaceSums
  <2> QED  BY <1>2, <2>3 DEF Translate
<1> DEFINE a == Translate(p, "seq", dcb.seq)
           b == RewriteAck(a, dcb.ack)
           c == RewriteTs(b, dcb)
           new == ((c.wnd * 2 ^ dcb.ws.in) \div 2 ^ dcb.ws.out) % B
<1>3. Sums(a)
  BY <1>1, <1>2
<1> HIDE DEF a
<1>4. Sums(b)
  <2>1. Sums(TcpSack(a, dcb.ack))
    BY <1>1, <1>3, SackSums
  <2> QED  BY <1>1, <1>2, <1>3, <2>1 DEF RewriteAck
<1> HIDE DEF b
<1>5. Sums(c)
  <2>1. Sums(Translate(Translate(b, "ts", dcb.ts), "tsr", dcb.tsr))
    <3>1. Sums(Translate(b, "ts", dcb.ts))
      BY <1>1, <1>2, <1>4
    <3> QED  BY <1>1, <1>2, <3>1
  <2> QED  BY <1>4, <2>1 DEF RewriteTs
<1> HIDE DEF c
<1>6. Sums(RewriteWnd(c, dcb))
  <2>1. c.wnd \in Nat
    BY <1>5, SummedType, Words DEF Sums
  <2>2. new \in Word
    BY <1>1, <2>1, ScaledWord
  <2>3. Sums(Replace(c, "wnd", new))
    BY <1>5, <2>2, ReplaceSums
  <2>4. RewriteWnd(c, dcb) = c \/ RewriteWnd(c, dcb) = Replace(c, "wnd", new)
    BY DEF RewriteWnd
  <2> QED  BY <1>5, <2>3, <2>4
<1> QED  BY <1>6 DEF RewriteNumbers, a, b, c

\* Words j and i that make up for u and for v.
LEMMA CongMoved ==
  ASSUME NEW u \in Int, NEW v \in Int, NEW from \in Int, NEW to \in Int,
         NEW j \in Int, NEW i \in Int,
         Cong(u + j, 0), Cong(i, j + from - to), Cong(from, u), Cong(to, v)
  PROVE  Cong(v + i, 0)
<1> DEFINE a == u + j  b == j + from - to  c == i + to  d == j + from
<1>1. /\ a \in Int /\ b \in Int /\ c \in Int /\ d \in Int /\ 0 \in Int /\ v + i \in Int
      /\ c - d = i - b /\ d - 0 = (a - 0) + (from - u) /\ (v + i) - 0 = (c - 0) - (to - v)
      /\ Cong(a, 0) /\ Cong(i, b)
  OBVIOUS
<1> HIDE DEF a, b, c, d
<1>2. Cong(d, 0)
  BY <1>1, CongAdd
<1>3. Cong(c, d)
  BY <1>1, CongSame
<1>4. Cong(c, 0)
  BY <1>1, <1>2, <1>3, CongRules
<1> DEFINE e == v + i
<1>5. e \in Int /\ e - 0 = (c - 0) - (to - v)
  BY <1>1
<1> HIDE DEF e
<1>6. Cong(e, 0)
  BY <1>1, <1>4, <1>5, CongAdd
<1> QED  BY <1>6 DEF e

\* Twice the opposite.
LEMMA CongTwice ==
  ASSUME NEW d \in Int, NEW f \in Int, NEW t \in Int, NEW v \in Int,
         Cong(d, -f), Cong(f, -t), Cong(t, v)
  PROVE  Cong(d, v)
<1> DEFINE g == -f  h == -t
<1>1. g \in Int /\ h \in Int /\ Cong(d, g) /\ Cong(f, h) /\ d - t = (d - g) - (f - h)
  OBVIOUS
<1> HIDE DEF g, h
<1>2. Cong(d, t)
  BY <1>1, CongAdd
<1> QED  BY <1>2, CongRules

\* The sum of a COMPLETE segment after the word from was replaced by to.
LEMMA CsumComplete ==
  ASSUME NEW sum \in Num, NEW from \in Num, NEW to \in Num
  PROVE  LET e == Not4(Fold4(Not4(from) + to + Not4(sum)))
         IN  e \in Num /\ Cong(e, sum + from - to)
<1> DEFINE a == Not4(from)  b == Not4(sum)  s == a + to + b  f == Fold4(s)  e == Not4(f)
<1>1. a \in Num /\ Cong(a, -from) /\ b \in Num /\ Cong(b, -sum)
  BY Not4Is
<1> HIDE DEF a, b
<1>2. a \in Int /\ b \in Int /\ from \in Int /\ to \in Int /\ sum \in Int
  BY <1>1, Words
<1>3. s \in Nat /\ s <= 8 * (W - 1) /\ s \in Int
  BY <1>1, Words, Digits
<1>4. Cong(s, to - from - sum)
  <2> DEFINE m == -from  n == -sum  x == to - from - sum
  <2>1. m \in Int /\ n \in Int /\ x \in Int /\ s - x = (a - m) + (b - n)
        /\ Cong(a, m) /\ Cong(b, n)
    BY <1>1, <1>2
  <2> HIDE DEF s, m, n, x
  <2>2. Cong(s, x)
    BY <1>2, <1>3, <2>1, CongAdd
  <2> QED  BY <2>2 DEF x
<1> HIDE DEF s
<1>5. f \in Num /\ Cong(f, s)
  BY <1>3, SmallSums, Fold4Is
<1> HIDE DEF f
<1>6. e \in Num /\ Cong(e, -f) /\ f \in Int /\ e \in Int
  BY <1>5, Not4Is, Words
<1> HIDE DEF e
<1>7. Cong(e, sum + from - to)
  <2> DEFINE x == to - from - sum  y == sum + from - to  g == -f
  <2>1. x \in Int /\ y \in Int /\ g \in Int /\ 0 - x = y /\ 0 - f = g /\ 0 \in Int
        /\ Cong(e, g) /\ Cong(s, x)
    BY <1>2, <1>4, <1>6
  <2> HIDE DEF x, y, g
  <2>2. Cong(f, x)
    BY <1>3, <1>5, <1>6, <2>1, CongRules
  <2>3. e - y = (e - g) - (f - x)
    BY <1>6, <2>1
  <2>4. Cong(e, y)
    BY <1>6, <2>1, <2>2, <2>3, CongAdd
  <2> QED  BY <2>4 DEF y
<1> QED  BY <1>6, <1>7 DEF e, f, s, a, b

\* The addresses of a session, where the carry of their sum is found.
Addressed == [src : Num, dst : Num, sport : Word, dport : Word]
RightCarry(s, c) ==
    s.src + s.dst > 0 /\ (c > (s.src + s.dst) % W <=> s.dst > (s.src + s.dst) % W)

LEMMA HdrSums ==
  ASSUME NEW p, Sums(p), NEW s \in Addressed, NEW c \in Num, RightCarry(s, c)
  PROVE  Sums(HdrRewrite(p, s, c))
<1> DEFINE from == SumWithCarry(p.src, p.dst, p.dst)
           to == SumWithCarry(s.src, s.dst, c)
           i == CsumReplace4(p.ipcheck, from, to)
           h == [p EXCEPT !.ipcheck = i, !.src = s.src, !.dst = s.dst]
           q == ProtoReplace4(h, from, to, TRUE)
           r == Replace(q, "sport", s.sport)
           u == p.src + p.dst
           v == s.src + s.dst
<1>1. /\ p \in Summed /\ p.src \in Num /\ p.dst \in Num /\ p.ipcheck \in Word
      /\ p.check \in Word /\ p.csum \in Num /\ p.ipcheck \in Num /\ p.check \in Num
      /\ p.summed \in {"NONE", "PARTIAL", "COMPLETE"}
      /\ s.src \in Num /\ s.dst \in Num /\ s.sport \in Word /\ s.dport \in Word
  BY SummedType, Words DEF Sums, Addressed
<1>2. /\ from \in Num /\ Cong(from, u) /\ to \in Num /\ Cong(to, v)
  BY <1>1, SumWithCarryIs DEF RightCarry
<1>3. u \in Int /\ v \in Int /\ u > 0 /\ v > 0 /\ from \in Int /\ to \in Int
  <2>1. p.src \in Int /\ p.dst \in Int /\ s.src \in Int /\ s.dst \in Int
    BY <1>1, Words
  <2> QED  BY <1>2, <2>1, Words DEF Sums, RightCarry
<1> HIDE DEF from, to
<1>4. i \in Word /\ Cong(i, p.ipcheck + from - to)
  BY <1>1, <1>2, CsumReplace4Is
<1> HIDE DEF i
<1>5. /\ h \in Summed /\ h.src = s.src /\ h.dst = s.dst /\ h.ipcheck = i
      /\ h.check = p.check /\ h.csum = p.csum /\ h.summed = p.summed
      /\ Segment(h) = Segment(p)
  BY <1>1, <1>4 DEF Summed, Segment
<1> HIDE DEF h
<1>6. Cong(v + i, 0)
  <2> DEFINE j == p.ipcheck
  <2>1. Cong(u + j, 0) /\ j \in Int /\ i \in Int /\ Cong(i, j + from - to)
    BY <1>1, <1>4, Words DEF Sums
  <2>2. Cong(from, u) /\ Cong(to, v) /\ u \in Int /\ v \in Int
    BY <1>2, <1>3
  <2> HIDE DEF j, u, v
  <2>3. Cong(v + i, 0)
    BY <1>3, <2>1, <2>2, CongMoved
  <2> QED  BY <2>3 DEF v
<1>7. \E d \in Word, e \in Num :
         /\ q = [h EXCEPT !.check = d, !.csum = e]
         /\ IF p.summed = "PARTIAL" THEN d # 0 /\ Cong(d, v)
            ELSE Cong(d, p.check + from - to)
         /\ p.summed = "COMPLETE" => Cong(v + e, 0)
  <2>1. CASE p.summed = "PARTIAL"
    <3> DEFINE a == Not4(from)  t == a + to + p.check  f == CsumFold(Fold4(t))  d == Not2(f)
    <3>1. a \in Num /\ Cong(a, -from)
      BY <1>2, Not4Is
    <3> HIDE DEF a
    <3>2. /\ a \in Nat /\ to \in Nat /\ p.check \in Nat /\ p.check # 0 /\ -from \in Int
          /\ p.check <= W - 1 /\ a <= W - 1 /\ to <= W - 1 /\ Cong(p.check, u)
      BY <1>1, <1>2, <1>3, <2>1, <3>1, Words DEF Sums, CheckRight
    <3>3. t \in Nat /\ t > 0 /\ t <= 8 * (W - 1) /\ t \in Int
      BY <3>2, Digits
    <3> HIDE DEF t
    <3>4. f \in Word /\ Cong(f, -t) /\ f < B - 1
      BY <3>3, ChecksumIs
    <3> HIDE DEF f
    <3>5. d \in Word /\ Cong(d, -f) /\ d # 0
      <4>1. f \in Nat
        BY <3>4, Words
      <4> QED  BY <3>4, <4>1, Not2Is, Digits DEF Not2
    <3> HIDE DEF d
    <3>6. f \in Int /\ d \in Int /\ p.check \in Int /\ a \in Int
      BY <3>2, <3>4, <3>5, Words
    <3>7. Cong(t, v)
      <4> DEFINE c1 == p.check  k == a + to
      <4>1. Cong(a, -from) /\ Cong(c1, u) /\ Cong(from, u) /\ Cong(to, v)
        BY <1>2, <3>1, <3>2
      <4> HIDE DEF u, v, c1
      <4>2. u \in Int /\ v \in Int /\ c1 \in Int
        BY <1>3, <3>6 DEF u, v, c1
      <4>3. Cong(k, v - from)
        <5>1. k \in Int /\ v - from \in Int /\ k - (v - from) = (a - -from) + (to - v)
          BY <1>3, <3>2, <3>6, <4>2
        <5> HIDE DEF k
        <5> QED  BY <1>3, <3>2, <3>6, <4>1, <4>2, <5>1, CongAdd
      <4>4. Cong(c1, from)
        BY <1>3, <4>1, <4>2, CongRules
      <4>5. k \in Int /\ v - from \in Int /\ t - v = (k - (v - from)) + (c1 - from)
        BY <1>3, <3>6, <4>2 DEF t, c1
      <4> HIDE DEF k
      <4>6. Cong(t, v)
        BY <1>3, <3>3, <4>2, <4>3, <4>4, <4>5, CongAdd
      <4> QED  BY <4>6 DEF v
    <3>8. Cong(d, v)
      BY <1>3, <3>3, <3>4, <3>5, <3>6, <3>7, CongTwice
    <3>9. q = [h EXCEPT !.check = d, !.csum = h.csum]
      <4>1. q = [h EXCEPT !.check = d]
        BY <1>5, <2>1 DEF ProtoReplace4, d, f, t, a
      <4> QED  BY <1>5, <4>1 DEF Summed
    <3> QED  BY <1>1, <1>5, <2>1, <3>5, <3>8, <3>9
  <2>2. CASE p.summed # "PARTIAL"
    <3> DEFINE d == CsumReplace4(p.check, from, to)
    <3>1. d \in Word /\ Cong(d, p.check + from - to)
      BY <1>1, <1>2, CsumReplace4Is
    <3>2. CASE p.summed = "COMPLETE"
      <4> DEFINE e == Not4(Fold4(Not4(from) + to + Not4(p.csum)))
      <4>1. e \in Num /\ Cong(e, p.csum + from - to)
        BY <1>1, <1>2, CsumComplete
      <4>2. q = [h EXCEPT !.check = d, !.csum = e]
        BY <1>5, <3>2 DEF ProtoReplace4
      <4> HIDE DEF d, e
      <4>3. Cong(v + e, 0)
        <5> DEFINE j == p.csum
        <5>1. Cong(u + j, 0) /\ j \in Int /\ e \in Int /\ Cong(e, j + from - to)
          BY <1>1, <3>2, <4>1, Words DEF Sums
        <5>2. Cong(from, u) /\ Cong(to, v) /\ u \in Int /\ v \in Int
          BY <1>2, <1>3
        <5> HIDE DEF j, u, v
        <5>3. Cong(v + e, 0)
          BY <1>3, <5>1, <5>2, CongMoved
        <5> QED  BY <5>3 DEF v
      <4> QED  BY <2>2, <3>1, <3>2, <4>1, <4>2, <4>3 DEF d
    <3>3. CASE p.summed # "COMPLETE"
      <4>1. q = [h EXCEPT !.check = d, !.csum = h.csum]
        BY <1>5, <2>2, <3>3 DEF ProtoReplace4, Summed
      <4> HIDE DEF d, q
      <4> QED  BY <1>1, <1>5, <2>2, <3>1, <3>3, <4>1 DEF d
    <3> QED  BY <3>2, <3>3
  <2> QED  BY <2>1, <2>2
<1>8. PICK d \in Word, e \in Num :
         /\ q = [h EXCEPT !.check = d, !.csum = e]
         /\ IF p.summed = "PARTIAL" THEN d # 0 /\ Cong(d, v)
            ELSE Cong(d, p.check + from - to)
         /\ p.summed = "COMPLETE" => Cong(v + e, 0)
  BY <1>7
<1> HIDE DEF q
<1>9. /\ q \in Summed /\ q.src = s.src /\ q.dst = s.dst /\ q.ipcheck = i
      /\ q.check = d /\ q.csum = e /\ q.summed = p.summed /\ Segment(q) = Segment(p)
  <2>1. Segment(q) = Segment(h)
    BY <1>5, <1>8 DEF Summed, Segment
  <2> QED  BY <1>5, <1>8, <2>1 DEF Summed
<1>10. CheckRight(q)
  <2>1. CASE p.summed = "PARTIAL"
    BY <1>8, <1>9, <2>1 DEF CheckRight
  <2>2. CASE p.summed # "PARTIAL"
    <3> DEFINE g == Segment(p)  c1 == p.check
    <3>1. Cong(u + g + c1, 0) /\ Cong(d, c1 + from - to) /\ g \in Int /\ c1 \in Int /\ d \in Int
      BY <1>1, <1>8, <2>2, SummedType, Words DEF Sums, CheckRight
    <3>2. Cong(from, u) /\ Cong(to, v) /\ u \in Int /\ v \in Int
      BY <1>2, <1>3
    <3> HIDE DEF g, c1, u, v
    <3>3. Cong(u + (g + c1), 0) /\ Cong(g + d, (g + c1) + from - to)
          /\ g + c1 \in Int /\ g + d \in Int
      <4>1. /\ u + (g + c1) = u + g + c1 /\ c1 + from - to \in Int
            /\ (g + d) - ((g + c1) + from - to) = d - (c1 + from - to)
            /\ g + d \in Int /\ (g + c1) + from - to \in Int /\ g + c1 \in Int
        BY <1>3, <3>1, <3>2
      <4>2. Cong(g + d, (g + c1) + from - to)
        BY <3>1, <4>1, CongSame
      <4> QED  BY <3>1, <4>1, <4>2
    <3>4. Cong(v + (g + d), 0)
      BY <1>3, <3>2, <3>3, CongMoved
    <3>5. v + (g + d) = v + g + d
      BY <3>1, <3>2
    <3>6. Cong(v + g + d, 0)
      BY <3>4, <3>5
    <3> QED  BY <1>9, <2>2, <3>6 DEF CheckRight, v, g
  <2> QED  BY <2>1, <2>2
<1>11. Sums(q)
  BY <1>3, <1>6, <1>8, <1>9, <1>10 DEF Sums
<1>12. Sums(r)
  BY <1>1, <1>11, ReplaceSums
<1> HIDE DEF r
<1>13. Sums(Replace(r, "dport", s.dport))
  BY <1>1, <1>12, ReplaceSums
<1>14. HdrRewrite(p, s, c) = Replace(r, "dport", s.dport)
  BY DEF HdrRewrite, r, q, h, i, to, from
<1> QED  BY <1>13, <1>14

\* The checks that the devices on the way compute are as right as those they find.
LEMMA ArrivalSums ==
  ASSUME NEW p, Sums(p), NEW r \in Arrival(p)
  PROVE  Sums(r)
<1> DEFINE u == p.src + p.dst  g == Segment(p)
           x == g + p.check  f == Fold4(x)  c == CsumFold(Fold4(f))
           done == IF p.summed # "PARTIAL" THEN p
                   ELSE [p EXCEPT !.check = c, !.summed = "NONE"]
           y == Segment(done) + done.check
           e == Fold4(y)
<1>1. /\ p \in Summed /\ u \in Int /\ g \in Int /\ p.check \in Int /\ x \in Nat /\ x \in Int
      /\ x <= 8 * (W - 1)
      /\ p.summed \in {"NONE", "PARTIAL", "COMPLETE"}
  BY SummedType, Words, Digits DEF Sums
<1>2. Sums(done) /\ done.summed \in {"NONE", "COMPLETE"}
  <2>1. CASE p.summed # "PARTIAL"
    BY <1>1, <2>1
  <2>2. CASE p.summed = "PARTIAL"
    <3> HIDE DEF x
    <3>1. f \in Num /\ Cong(f, x)
      BY <1>1, SmallSums, Fold4Is
    <3> HIDE DEF f
    <3>2. f \in Nat /\ f <= 8 * (W - 1) /\ f \in Int
      BY <3>1, Words, Digits
    <3>3. c \in Word /\ Cong(c, -f) /\ c \in Int
      BY <3>2, ChecksumIs, Words
    <3> HIDE DEF c
    <3>4. done = [p EXCEPT !.check = c, !.summed = "NONE"]
      BY <2>2
    <3> HIDE DEF done
    <3>5. /\ done \in Summed /\ done.check = c /\ done.summed = "NONE" /\ Segment(done) = g
          /\ done.src = p.src /\ done.dst = p.dst /\ done.ipcheck = p.ipcheck
      BY <1>1, <3>3, <3>4 DEF Summed, Segment
    <3>6. Cong(u + g + c, 0)
      <4> DEFINE k == p.check  m == -f  z == u + g + c
      <4>1. Cong(k, u) /\ k \in Int /\ x = g + k /\ m \in Int /\ Cong(c, m) /\ z \in Int
            /\ z - 0 = (u - x + g) + (c - m) - (f - x)
        BY <1>1, <2>2, <3>2, <3>3 DEF Sums, CheckRight, x
      <4> HIDE DEF k, m, u, g
      <4>2. u \in Int /\ g \in Int
        BY <1>1 DEF u, g
      <4> DEFINE d == c + x
      <4>3. d \in Int /\ 0 \in Int /\ d - 0 = (c - m) - (f - x)
        <5>1. m = -f
          BY DEF m
        <5> QED  BY <1>1, <3>2, <3>3, <5>1
      <4>4. z - 0 = (d - 0) - (k - u)
        BY <3>3, <4>1, <4>2
      <4> HIDE DEF d, z
      <4>5. Cong(d, 0)
        BY <1>1, <3>1, <3>2, <3>3, <4>1, <4>3, CongAdd
      <4>6. Cong(z, 0)
        BY <4>1, <4>2, <4>3, <4>4, <4>5, CongAdd
      <4> QED  BY <4>6 DEF z, u, g
    <3> QED  BY <3>5, <3>6 DEF Sums, CheckRight
  <2> QED  BY <2>1, <2>2
<1> HIDE DEF done
<1>3. CASE r = [done EXCEPT !.summed = "COMPLETE", !.csum = e]
  <2> DEFINE v == done.src + done.dst  h == Segment(done)  k == done.check
  <2>1. /\ done \in Summed /\ v \in Int /\ h \in Int /\ k \in Int /\ y \in Nat /\ y \in Int
        /\ y <= 8 * (W - 1) /\ Cong(v + h + k, 0)
    BY <1>2, SummedType, Words, Digits DEF Sums, CheckRight
  <2>2. e \in Num /\ Cong(e, y) /\ e \in Int
    BY <2>1, SmallSums, Fold4Is, Words
  <2>3. v + h + k = v + y
    BY <2>1
  <2> HIDE DEF y, e
  <2>4. /\ r \in Summed /\ r.check = k /\ r.summed = "COMPLETE" /\ Segment(r) = h
        /\ r.src = done.src /\ r.dst = done.dst /\ r.ipcheck = done.ipcheck /\ r.csum = e
    BY <1>3, <2>1, <2>2 DEF Summed, Segment
  <2>5. Cong(v + e, 0)
    <3> HIDE DEF v, h, k
    <3>1. /\ v + e \in Int /\ v + y \in Int /\ 0 \in Int
          /\ (v + e) - 0 = ((v + y) - 0) + (e - y) /\ Cong(v + y, 0)
      BY <2>1, <2>2, <2>3
    <3>2. Cong(v + e, 0)
      BY <2>1, <2>2, <3>1, CongAdd
    <3> QED  BY <3>2 DEF v
  <2> QED  BY <1>2, <2>1, <2>4, <2>5 DEF Sums, CheckRight
<1> QED
  <2>1. r = done \/ r = p \/ r = [done EXCEPT !.summed = "COMPLETE", !.csum = e]
    BY DEF Arrival, done, y, e, c, f, x, g
  <2> QED  BY <1>2, <1>3, <2>1

\* A checksum computed from scratch is right.
LEMMA FreshSums ==
  ASSUME NEW b \in Summed, b.src + b.dst > 0, b.summed \in {"NONE", "PARTIAL"},
         b.check = 0
  PROVE  Sums(WithChecksum(b))
<1> DEFINE u == b.src + b.dst  g == Segment(b)  F == Fold4(g)
           i == CsumFold(Fold4(u))  n == CsumFold(Fold4(u + F))
           c == IF b.summed = "PARTIAL" THEN Not2(i) ELSE n
           p == WithChecksum(b)
<1>1. /\ u \in Nat /\ u > 0 /\ u <= 2 * (W - 1) /\ g \in Nat /\ g <= 7 * (W - 1)
      /\ u \in Int /\ g \in Int
  BY SummedType
<1>2. p = [b EXCEPT !.ipcheck = i, !.check = c]
  BY DEF WithChecksum, Pseudo
<1> HIDE DEF p
<1>3. i \in Word /\ Cong(i, -u) /\ i < B - 1 /\ i \in Int /\ i \in Nat
  BY <1>1, ChecksumIs, Words, Digits
<1>4. Cong(u + i, 0)
  <2> HIDE DEF u, i
  <2>1. /\ u + i \in Int /\ 0 \in Int /\ -u \in Int /\ (u + i) - 0 = i - (-u)
    BY <1>1, <1>3
  <2> DEFINE a == -u  d == u + i
  <2>2. a \in Int /\ d \in Int /\ d - 0 = i - a /\ Cong(i, a)
    BY <1>3, <2>1
  <2> HIDE DEF a, d
  <2>3. Cong(d, 0)
    BY <1>3, <2>1, <2>2, CongSame
  <2> QED  BY <2>3 DEF d, u, i
<1>5. F \in Num /\ Cong(F, g) /\ F \in Nat /\ F <= W - 1 /\ F \in Int
  <2>1. g <= 8 * (W - 1)
    BY <1>1, Digits
  <2> HIDE DEF g
  <2> QED  BY <1>1, <2>1, SmallSums, Fold4Is, Words
<1>6. n \in Word /\ Cong(n, -(u + F)) /\ n \in Int
  <2> HIDE DEF F
  <2>1. u + F \in Nat /\ u + F <= 8 * (W - 1)
    BY <1>1, <1>5, Digits
  <2> QED  BY <2>1, ChecksumIs, Words
<1>7. Cong(u + g + n, 0)
  <2> HIDE DEF u, g, F, n
  <2> DEFINE a == -(u + F)  d == u + g + n  t == u + F + n
  <2>1. /\ a \in Int /\ d \in Int /\ t \in Int /\ 0 \in Int /\ Cong(n, a)
        /\ t - 0 = n - a /\ d - 0 = (t - 0) - (F - g)
    BY <1>1, <1>5, <1>6
  <2> HIDE DEF a, d, t
  <2>2. Cong(t, 0)
    BY <1>6, <2>1, CongSame
  <2>3. Cong(d, 0)
    BY <1>1, <1>5, <2>1, <2>2, CongAdd
  <2> QED  BY <2>3 DEF d, u, g
<1>8. Not2(i) \in Word /\ Not2(i) # 0 /\ Cong(Not2(i), u)
  <2> DEFINE d == Not2(i)
  <2>1. d \in Word /\ Cong(d, -i) /\ d # 0
    BY <1>3, Not2Is, Digits DEF Not2
  <2>2. d \in Int
    BY <2>1, Words
  <2> HIDE DEF d, i
  <2>3. Cong(d, u)
    BY <1>1, <1>3, <2>1, <2>2, CongRules, CongTwice
  <2> QED  BY <2>1, <2>3 DEF d
<1>9. c \in Word
  BY <1>6, <1>8
<1> HIDE DEF i, n, c
<1>10. /\ p \in Summed /\ p.src = b.src /\ p.dst = b.dst /\ p.ipcheck = i /\ p.check = c
       /\ p.summed = b.summed /\ Segment(p) = g
  BY <1>2, <1>3, <1>9 DEF Summed, Segment
<1>11. CheckRight(p)
  <2>1. CASE b.summed = "PARTIAL"
    BY <1>8, <1>10, <2>1 DEF CheckRight, c
  <2>2. CASE b.summed = "NONE"
    BY <1>7, <1>10, <2>2 DEF CheckRight, c
  <2> QED  BY <2>1, <2>2
<1> QED  BY <1>1, <1>4, <1>10, <1>11 DEF Sums, p

-----------------------------------------------------------------------------
(* The checksums on the way.                                               *)

\* The checksum is right on every wire and in K's and the receiver's TCP; only
\* what K, for the wrong carry, makes of the addresses is not.
SumsRight ==
    /\ net # Nothing => (net.at = "K" \/ CarryIsRight(net.to) => Sums(net.p))
    /\ \A h \in Reached : CarryIsRight(h) => Sums(got.p)

LEMMA AddressTypes ==
  ASSUME setup \in Setups, NEW h \in Hosts
  PROVE  LET s == SuperOf(h)  a == setup[h].addr IN
         /\ s \in Addressed /\ Turned(s) \in Addressed /\ s.dst \in Num
         /\ s.src + s.dst > 0 /\ Turned(s).src + Turned(s).dst > 0 /\ Turned(s).dst = a
         /\ a \in Num /\ setup.K \in Num
         /\ \A b \in Num : /\ SubOf(a, b) \in Addressed /\ SubOf(b, a) \in Addressed
                           /\ SubOf(a, b).dst = b /\ SubOf(b, a).dst = a
                           /\ SubOf(a, b).src + SubOf(a, b).dst > 0
                           /\ SubOf(b, a).src + SubOf(b, a).dst > 0
<1>1. setup[h] \in Side /\ setup[Peer(h)] \in Side /\ setup.K \in Num
  BY SessionTypes, SetupType
<1>2. /\ setup[h].addr \in Num /\ setup[h].addr # 0 /\ setup[h].peer \in Num
      /\ setup[h].port \in Word /\ setup[Peer(h)].port \in Word
  BY <1>1 DEF Side
<1>3. \A x, y \in Num : x # 0 => x + y > 0 /\ y + x > 0
  BY DEF Num
<1>4. \A x \in Num : x % B \in Word
  BY Sizes DEF Num, Word
<1>5. \A x, y \in Num : SubOf(x, y) \in Addressed /\ SubOf(x, y).src = x /\ SubOf(x, y).dst = y
  BY <1>4 DEF SubOf, Session, Addressed
<1>6. /\ SuperOf(h) \in Addressed /\ Turned(SuperOf(h)) \in Addressed
      /\ SuperOf(h).src = setup[h].addr /\ SuperOf(h).dst = setup[h].peer
      /\ Turned(SuperOf(h)).src = setup[h].peer /\ Turned(SuperOf(h)).dst = setup[h].addr
  BY <1>2 DEF SuperOf, Turned, Session, Addressed
<1> QED  BY <1>1, <1>2, <1>3, <1>5, <1>6

\* The two directions of a hop.
LEMMA OutSums ==
  ASSUME NEW p, Sums(p), NEW dcb \in Block, NEW sub \in Addressed, sub.src + sub.dst > 0
  PROVE  Sums(OutRewrite(p, dcb, sub))
<1>1. Sums(RewriteNumbers(p, dcb))
  BY NumbersSum
<1>2. sub.dst \in Num /\ RightCarry(sub, sub.dst)
  BY DEF Addressed, RightCarry
<1> QED  BY <1>1, <1>2, HdrSums DEF OutRewrite

LEMMA InSums ==
  ASSUME NEW p, Sums(p), NEW dcb \in Block, NEW sub, NEW super \in Addressed,
         sub.dst \in Num, RightCarry(super, sub.dst)
  PROVE  Sums(InRewrite(p, dcb, sub, super))
<1>1. Sums(HdrRewrite(p, super, sub.dst))
  BY HdrSums
<1> QED  BY <1>1, NumbersSum DEF InRewrite

LEMMA WrittenSums ==
  ASSUME NumbersRight, NEW h \in Hosts, NEW k \in {1, 2}, NEW w \in {1, B - 1},
         NEW s \in {"NONE", "PARTIAL"}
  PROVE  Sums(Written(h, k, w, s))
<1> DEFINE super == SuperOf(h)
           b == [src |-> super.src, dst |-> super.dst,
                 sport |-> super.sport, dport |-> super.dport,
                 seq |-> Wrap(setup[h].iseq + k), ack |-> Wrap(setup[h].mseq + k),
                 sack |-> <<Wrap(setup[h].mseq + k + 1), Wrap(setup[h].mseq + k + 2)>>,
                 ts |-> Clock(h, now), tsr |-> recent[h].val, wnd |-> w,
                 ipcheck |-> 0, check |-> 0, csum |-> 0, summed |-> s,
                 k |-> k, told |-> w, sent |-> now, echo |-> recent[h].origin]
           p == Written(h, k, w, s)
<1>1. p = WithChecksum(b)
  BY DEF Written
<1>2. p \in Packet
  BY WrittenRight
<1>3. /\ super.src \in Num /\ super.dst \in Num /\ super.sport \in Word
      /\ super.dport \in Word /\ super.src + super.dst > 0
  <2>1. super \in Addressed /\ super.src + super.dst > 0
    BY AddressTypes DEF NumbersRight
  <2> HIDE DEF super
  <2> QED  BY <2>1 DEF Addressed
<1> HIDE DEF super
<1>4. /\ b.seq \in Num /\ b.ack \in Num /\ b.sack \in Num \X Num /\ b.ts \in Num
      /\ b.tsr \in Num /\ b.sent \in 0 .. MaxNow /\ b.echo \in Origin
  <2> HIDE DEF p, b
  <2>1. /\ p.seq \in Num /\ p.ack \in Num /\ p.sack \in Num \X Num /\ p.ts \in Num
        /\ p.tsr \in Num /\ p.sent \in 0 .. MaxNow /\ p.echo \in Origin
    BY <1>2 DEF Packet
  <2>2. /\ p.seq = b.seq /\ p.ack = b.ack /\ p.sack = b.sack /\ p.ts = b.ts
        /\ p.tsr = b.tsr /\ p.sent = b.sent /\ p.echo = b.echo
    BY <1>1 DEF WithChecksum, b
  <2> QED  BY <2>1, <2>2
<1>5. 0 \in Word /\ 0 \in Num /\ w \in Word /\ w \in Nat
  BY Digits DEF Word, Num
<1>6. b \in Summed
  <2> DEFINE x1 == Wrap(setup[h].iseq + k)  x2 == Wrap(setup[h].mseq + k)
             x3 == <<Wrap(setup[h].mseq + k + 1), Wrap(setup[h].mseq + k + 2)>>
             x4 == Clock(h, now)  x5 == recent[h].val  x6 == recent[h].origin
  <2>1. /\ x1 \in Num /\ x2 \in Num /\ x3 \in Num \X Num /\ x4 \in Num
        /\ x5 \in Num /\ now \in 0 .. MaxNow /\ x6 \in Origin
    BY <1>4
  <2> HIDE DEF x1, x2, x3, x4, x5, x6
  <2>2. [src |-> super.src, dst |-> super.dst, sport |-> super.sport, dport |-> super.dport,
         seq |-> x1, ack |-> x2, sack |-> x3, ts |-> x4, tsr |-> x5, wnd |-> w,
         ipcheck |-> 0, check |-> 0, csum |-> 0, summed |-> s,
         k |-> k, told |-> w, sent |-> now, echo |-> x6] \in Summed
    BY <1>3, <1>5, <2>1 DEF Summed
  <2> QED  BY <2>2 DEF x1, x2, x3, x4, x5, x6
<1>7. b.src + b.dst > 0 /\ b.summed \in {"NONE", "PARTIAL"} /\ b.check = 0
  BY <1>3
<1> HIDE DEF b
<1> QED  BY <1>1, <1>6, <1>7, FreshSums

LEMMA CarrySame == ASSUME setup' = setup PROVE \A h : CarryIsRight(h)' <=> CarryIsRight(h)
BY DEF CarryIsRight, SuperOf

LEMMA SendSums ==
  ASSUME NumbersRight, NEW h \in Hosts, Send(h) PROVE SumsRight'
<1>1. PICK k \in {1, 2}, w \in {1, B - 1}, s \in {"NONE", "PARTIAL"} :
        net' = [at |-> IF setup.spliced THEN "host" ELSE "K", to |-> Peer(h),
                p |-> OutRewrite(Written(h, k, w, s), OutBlock(h),
                                 SubOf(setup[h].addr, FirstHop(h)))]
  BY DEF Send
<1>2. Sums(Written(h, k, w, s))
  BY WrittenSums
<1>3. setup \in Setups /\ OutBlock(h) \in Block /\ FirstHop(h) \in Num
  BY BlockTypes, SessionTypes DEF NumbersRight
<1> DEFINE sub == SubOf(setup[h].addr, FirstHop(h))
<1>4. sub \in Addressed /\ sub.src + sub.dst > 0
  BY <1>3, AddressTypes
<1>5. Sums(OutRewrite(Written(h, k, w, s), OutBlock(h), sub))
  BY <1>2, <1>3, <1>4, OutSums
<1>6. Sums(net'.p)
  BY <1>1, <1>5
<1>7. got' = Nothing
  BY DEF Send
<1>8. Sums(net.p)' /\ Reached' = {}
  BY <1>6, <1>7 DEF Sums, CheckRight, Reached, Nothing, Hosts
<1> QED  BY <1>8 DEF SumsRight

LEMMA RelaySums ==
  ASSUME NumbersRight, SumsRight, Relay PROVE SumsRight'
<1>1. /\ setup' = setup /\ got' = got /\ net.at = "K" /\ setup \in Setups
      /\ net \in [at : {"K", "host"}, to : Hosts, p : Packet] /\ ~setup.spliced
  BY DEF Relay, NumbersRight, NetRight, Nothing
<1> DEFINE to == net.to  from == Peer(to)
           sub == SubOf(setup[from].addr, setup.K)
           sub2 == SubOf(setup.K, setup[to].addr)
<1>2. PICK p \in Arrival(net.p) :
        net' = [net EXCEPT !.at = "host",
                           !.p = OutRewrite(InRewrite(p, NoDeltas, sub, SuperOf(from)),
                                            NoDeltas, sub2)]
  BY DEF Relay
<1>3. Sums(net.p)
  BY <1>1 DEF SumsRight, Nothing
<1>4. Sums(p)
  BY <1>3, ArrivalSums
<1>5. /\ to \in Hosts /\ from \in Hosts /\ NoDeltas \in Block
      /\ sub.dst = setup.K /\ sub.dst \in Num
      /\ SuperOf(from) \in Addressed /\ SuperOf(from).src + SuperOf(from).dst > 0
      /\ sub2 \in Addressed /\ sub2.src + sub2.dst > 0
  <2>1. to \in Hosts /\ from \in Hosts /\ NoDeltas \in Block
    BY <1>1, SessionTypes, BlockTypes
  <2> HIDE DEF to, from
  <2> QED  BY <1>1, <2>1, AddressTypes
<1>6. /\ net'.at = "host" /\ net'.to = to
      /\ net'.p = OutRewrite(InRewrite(p, NoDeltas, sub, SuperOf(from)), NoDeltas, sub2)
  BY <1>1, <1>2
<1>7. ASSUME CarryIsRight(to) PROVE Sums(net'.p)
  <2>1. RightCarry(SuperOf(from), sub.dst)
    BY <1>1, <1>5, <1>7 DEF CarryIsRight, RightCarry
  <2>2. Sums(InRewrite(p, NoDeltas, sub, SuperOf(from)))
    BY <1>4, <1>5, <2>1, InSums
  <2> QED  BY <1>5, <1>6, <2>2, OutSums
<1>8. Sums(net.p)' <=> Sums(net'.p)
  BY DEF Sums, CheckRight
<1>9. (net # Nothing => (net.at = "K" \/ CarryIsRight(net.to) => Sums(net.p)))'
  BY <1>1, <1>6, <1>7, <1>8, CarrySame
<1>10. (\A h \in Reached : CarryIsRight(h) => Sums(got.p))'
  BY <1>1, CarrySame DEF SumsRight, Reached, Sums, CheckRight
<1> QED  BY <1>9, <1>10 DEF SumsRight

LEMMA ReceiveSums ==
  ASSUME NumbersRight, SumsRight, Receive PROVE SumsRight'
<1>1. /\ setup' = setup /\ net' = Nothing /\ net.at = "host" /\ setup \in Setups
      /\ net \in [at : {"K", "host"}, to : Hosts, p : Packet]
  BY DEF Receive, NumbersRight, NetRight, Nothing
<1> DEFINE h == net.to
<1>2. PICK arrived \in Arrival(net.p) :
        /\ got'.at = h
        /\ got'.p = InRewrite(arrived, InBlock(h), LastHop(h), Turned(SuperOf(h)))
  BY DEF Receive
<1>3. h \in Hosts
  BY <1>1
<1> HIDE DEF h
<1>4. ASSUME CarryIsRight(h) PROVE Sums(got'.p)
  <2>1. Sums(net.p)
    BY <1>1, <1>4 DEF SumsRight, Nothing, h
  <2>2. Sums(arrived)
    BY <2>1, ArrivalSums
  <2> DEFINE a == setup[h].addr
             x == IF setup.spliced THEN setup[Peer(h)].addr ELSE setup.K
             s == Turned(SuperOf(h))
  <2>3. LastHop(h) = SubOf(x, a) /\ x \in Num
    <3>1. Peer(h) \in Hosts
      BY <1>1, <1>3, SessionTypes
    <3> QED  BY <1>1, <1>3, <3>1, AddressTypes DEF LastHop
  <2>4. /\ s \in Addressed /\ s.src + s.dst > 0 /\ s.dst = a /\ a \in Num
        /\ SubOf(x, a).dst = a
    BY <1>1, <1>3, <2>3, AddressTypes
  <2> HIDE DEF a, x, s
  <2>5. LastHop(h).dst \in Num /\ RightCarry(s, LastHop(h).dst)
    BY <2>3, <2>4 DEF RightCarry
  <2>6. InBlock(h) \in Block
    BY <1>1, <1>3, BlockTypes
  <2>7. Sums(InRewrite(arrived, InBlock(h), LastHop(h), s))
    BY <2>2, <2>4, <2>5, <2>6, InSums
  <2> QED  BY <1>2, <2>7 DEF s
<1>5. Sums(got.p)' <=> Sums(got'.p)
  BY DEF Sums, CheckRight
<1>6. (\A g \in Reached : CarryIsRight(g) => Sums(got.p))'
  BY <1>1, <1>2, <1>4, <1>5, CarrySame DEF Reached
<1>7. (net = Nothing)'
  BY <1>1 DEF Nothing
<1> QED  BY <1>6, <1>7 DEF SumsRight

\* The receiver's TCP finds the checksum right, whoever computes it at either end,
\* whatever is rewritten on the way, and for all numbers, addresses and ports: the
\* incremental updates of check and csum, and the carries of the sums of addresses
\* (dysco_csum_replace4, dysco_inet_proto_csum_replace4), keep it, but for the carry
\* that dysco_in_hdr_rewrite_csum takes from the wrong address.
THEOREM ChecksumsRight == Spec => []ChecksumsHold
<1>1. Init => SumsRight
  BY DEF Init, SumsRight, Reached, Nothing, Hosts
<1>2. NumbersRight /\ SumsRight /\ [Next]_vars => SumsRight'
  <2> SUFFICES ASSUME NumbersRight, SumsRight, [Next]_vars PROVE SumsRight'
    OBVIOUS
  <2>1. CASE setup' = setup /\ net' = net /\ got' = got
    BY <2>1, CarrySame DEF SumsRight, Reached, Sums, CheckRight
  <2>2. CASE Relay
    BY <2>2, RelaySums
  <2>3. CASE Receive
    BY <2>3, ReceiveSums
  <2>4. CASE \E h \in Hosts : Send(h)
    BY <2>4, SendSums
  <2> QED  BY <2>1, <2>2, <2>3, <2>4 DEF Next, Tick, OldSegment, vars
<1>3. SumsRight => ChecksumsHold
  BY SumsVerify DEF SumsRight, ChecksumsHold
<1> QED  BY NumbersFollowed, <1>1, <1>2, <1>3, PTL DEF Spec
=============================================================================
