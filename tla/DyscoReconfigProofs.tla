------------------------ MODULE DyscoReconfigProofs ------------------------
(***************************************************************************)
(* Proofs about DyscoReconfig, for every size of the number space, every   *)
(* choice of the initial numbers and every length of the stream.           *)
(***************************************************************************)
EXTENDS DyscoReconfig, DyscoSeqProofs

\* What the assumptions and the definitions of the constants give.
LEMMA ConstantTypes ==
    /\ H \in Nat \ {0} /\ N \in Nat \ {0} /\ N + 2 < H
    /\ Sender \in Anchors /\ Receiver \in Anchors
    /\ ISeq \in [Anchors -> Num] /\ IAck \in [Anchors -> Num]
    /\ Pos \subseteq Num /\ Pos \subseteq 0 .. H - 1
    /\ StateTransfer \in BOOLEAN
    /\ LSeq \in Num /\ LAck \in Num /\ 0 \in Num
BY HAssumption, ReconfigAssumption
   DEF Anchors, Receiver, ISeq, IAck, Pos, Num, W

\* The numbers of positions are numbers, and so is what a block makes of one.
LEMMA NumberTypes ==
    ASSUME NEW a \in Anchors, NEW p \in Pos
    PROVE  SeqOf(a, p) \in Num /\ AckOf(a, p) \in Num
<1>1. ISeq[a] \in Num /\ IAck[a] \in Num /\ p \in Num  BY ConstantTypes
<1>2. /\ ISeq[a] + p \in Int /\ -W <= ISeq[a] + p /\ ISeq[a] + p < 2 * W
      /\ IAck[a] + p \in Int /\ -W <= IAck[a] + p /\ IAck[a] + p < 2 * W
  BY <1>1, HAssumption DEF Num, W
<1> QED  BY <1>2, WrapType DEF SeqOf, AckOf

LEMMA TranslationTypes ==
    ASSUME TypeOK, NEW a \in Anchors, NEW x \in Num
    PROVE  /\ NewSeq(a, x) \in Num /\ NewAck(a, x) \in Num
           /\ HostSeq(a, x) \in Num /\ HostAck(a, x) \in Num
<1>1. nb[a].iseq \in Num /\ nb[a].iack \in Num  BY DEF TypeOK
<1>2. ISeq[a] \in Num /\ IAck[a] \in Num  BY ConstantTypes
<1> QED  BY <1>1, <1>2, RewriteType DEF NewSeq, NewAck, HostSeq, HostAck

\* The operators of the data path keep a control block a control block.
LEMMA RecordSeqType ==
    ASSUME NEW c \in ControlBlock, NEW end \in Num
    PROVE  RecordSeq(c, end) \in ControlBlock
BY DEF RecordSeq, ControlBlock

LEMMA CountAckType ==
    ASSUME NEW c \in ControlBlock
    PROVE  CountAck(c) \in ControlBlock
<1> DEFINE ctr == IF c.ack_ctr < 2 THEN c.ack_ctr + 1 ELSE 2
           d   == [c EXCEPT !.ack_ctr = ctr]
<1>1. ctr \in 0 .. 2  BY DEF ControlBlock
<1>2. d \in ControlBlock
  <2> HIDE DEF ctr
  <2> QED  BY <1>1 DEF ControlBlock
<1>3. CountAck(c) = [d EXCEPT !.use_np_ack = c.ack_ctr >= 1]  BY DEF CountAck
<1>4. (c.ack_ctr >= 1) \in BOOLEAN  OBVIOUS
<1>5. \A e \in ControlBlock, b \in BOOLEAN :
         [e EXCEPT !.use_np_ack = b] \in ControlBlock
  BY DEF ControlBlock
<1> HIDE DEF d
<1> QED  BY <1>2, <1>3, <1>4, <1>5

LEMMA AckPathType ==
    ASSUME NEW c \in ControlBlock, NEW ack \in Num, NEW fin
    PROVE  /\ AckPath(c, ack, fin).cb \in ControlBlock
           /\ AckPath(c, ack, fin).ack \in Num
<1>1. c.ack_cutoff \in Num  BY DEF ControlBlock
<1> QED  BY <1>1, CountAckType DEF AckPath, PickPathAck

LEMMA TwoPathsAckType ==
    ASSUME TypeOK, NEW a \in Anchors, NEW path \in {"old", "new"}, NEW ack \in Num,
           TwoPathsAck(a, path, ack)
    PROVE  /\ cb' \in [Anchors -> ControlBlock]
           /\ two' \in [Anchors -> [old : BOOLEAN, new : BOOLEAN]]
<1>1. cb[a] \in ControlBlock  BY DEF TypeOK
<1>2. cb' \in [Anchors -> ControlBlock]
  BY <1>1 DEF TwoPathsAck, TypeOK, ControlBlock
<1>3. two' \in [Anchors -> [old : BOOLEAN, new : BOOLEAN]]
  <2>1. CASE path = "old"  BY <2>1 DEF TwoPathsAck, TypeOK
  <2>2. CASE path = "new"  BY <2>2 DEF TwoPathsAck, TypeOK
  <2> QED  BY <2>1, <2>2
<1> QED  BY <1>2, <1>3

LEMMA TwoPathsDataType ==
    ASSUME TypeOK, NEW a \in Anchors, NEW seq \in Num, TwoPathsData(a, seq)
    PROVE  cb' \in [Anchors -> ControlBlock]
<1>1. HostSeq(a, seq) \in Num  BY TranslationTypes
<1>2. cb[a] \in ControlBlock  BY DEF TypeOK
<1> QED  BY <1>1, <1>2 DEF TwoPathsData, TypeOK, ControlBlock

Blocks == [Anchors -> ControlBlock]

\* One field of one anchor's block set to a value of its type.
LEMMA FieldUpdates ==
    ASSUME NEW f \in Blocks, NEW a \in Anchors
    PROVE  /\ \A v \in States : [f EXCEPT ![a].state = v] \in Blocks
           /\ \A v \in BOOLEAN : /\ [f EXCEPT ![a].other = v] \in Blocks
                                 /\ [f EXCEPT ![a].state_t = v] \in Blocks
                                 /\ [f EXCEPT ![a].valid_ack_cut = v] \in Blocks
           /\ \A v \in Num : [f EXCEPT ![a].ack_cutoff = v] \in Blocks
BY DEF Blocks, ControlBlock

LEMMA ControlTypes ==
    ASSUME TypeOK, NEW m \in ctl
    PROVE  /\ m.type = "SYN" => m.iseq \in Num /\ m.iack \in Num
           /\ m.type \in {"SYN_ACK", "ACK"} => m.cut \in Num
BY DEF TypeOK, Control

\* A step of the control plane keeps the types.
LEMMA ControlTypeStep == TypeOK /\ ControlStep => TypeOK'
<1> SUFFICES ASSUME TypeOK, ControlStep PROVE TypeOK'  OBVIOUS
<1> USE DEF kernel, control, packets, ends
<1>0. cb \in Blocks /\ "L" \in Anchors /\ "R" \in Anchors
  BY DEF TypeOK, Blocks, Anchors
<1>1. CASE LeftSyn
  <2>1. [type |-> "SYN", iseq |-> LSeq, iack |-> LAck] \in Control
    BY ConstantTypes DEF Control
  <2>2. CASE rcb["L"] # "none" /\ UNCHANGED <<rcb, nb, two, cb>>
    BY <1>1, <2>1, <2>2 DEF LeftSyn, TypeOK
  <2>3. CASE rcb["L"] = "none"
    <3>1. cb' = [[[cb EXCEPT !["L"].state = "SYN_SENT"]
                      EXCEPT !["L"].other = TRUE]
                      EXCEPT !["L"].state_t = StateTransfer]
      BY <1>1, <2>3 DEF LeftSyn
    <3>2. [cb EXCEPT !["L"].state = "SYN_SENT"] \in Blocks
      BY <1>0, FieldUpdates DEF States
    <3>3. [[cb EXCEPT !["L"].state = "SYN_SENT"]
                EXCEPT !["L"].other = TRUE] \in Blocks
      BY <1>0, <3>2, FieldUpdates
    <3>4. cb' \in Blocks
      BY <1>0, <3>1, <3>3, FieldUpdates, ConstantTypes
    <3>5. rcb' \in [Anchors -> Rcb]
      BY <1>0, <1>1, <2>3 DEF LeftSyn, TypeOK, Rcb
    <3>6. nb' \in [Anchors -> [up : BOOLEAN, iseq : Num, iack : Num]]
      <4> DEFINE r == [up |-> TRUE, iseq |-> LSeq, iack |-> LAck]
      <4>1. r \in [up : BOOLEAN, iseq : Num, iack : Num]  BY ConstantTypes
      <4>2. nb' = [nb EXCEPT !["L"] = r]  BY <1>1, <2>3 DEF LeftSyn
      <4> HIDE DEF r
      <4> QED  BY <1>0, <4>1, <4>2 DEF TypeOK
    <3>7. two' \in [Anchors -> [old : BOOLEAN, new : BOOLEAN]]
      <4> DEFINE r == [old |-> TRUE, new |-> TRUE]
      <4>1. r \in [old : BOOLEAN, new : BOOLEAN]  OBVIOUS
      <4>2. two' = [two EXCEPT !["L"] = r]  BY <1>1, <2>3 DEF LeftSyn
      <4> HIDE DEF r
      <4> QED  BY <1>0, <4>1, <4>2 DEF TypeOK
    <3> QED  BY <1>1, <2>1, <3>4, <3>5, <3>6, <3>7 DEF LeftSyn, TypeOK, Blocks
  <2> QED  BY <1>1, <2>2, <2>3 DEF LeftSyn
<1>2. CASE LeftSynAllocFails
  BY <1>2 DEF LeftSynAllocFails, TypeOK, Rcb, Anchors
<1>3. ASSUME NEW m \in ctl, RightSyn(m) PROVE TypeOK'
  <2>1. m.iseq \in Num /\ m.iack \in Num  BY <1>3, ControlTypes DEF RightSyn
  <2>2. cb' \in Blocks
    BY <1>0, <1>3, FieldUpdates, ConstantTypes DEF RightSyn
  <2> QED  BY <1>3, <2>1, <2>2 DEF RightSyn, TypeOK, Blocks, Rcb, Anchors
<1>4. CASE RightSynAck
  <2>1. cb["R"].seq_cutoff \in Num  BY <1>0 DEF Blocks, ControlBlock
  <2>2. NewSeq("R", cb["R"].seq_cutoff) \in Num  BY <1>0, <2>1, TranslationTypes
  <2>3. cb' = [[cb EXCEPT !["R"].state = "SYN_RECEIVED"] EXCEPT !["R"].other = TRUE]
    BY <1>4 DEF RightSynAck
  <2>4. [cb EXCEPT !["R"].state = "SYN_RECEIVED"] \in Blocks
    BY <1>0, FieldUpdates DEF States
  <2>5. cb' \in Blocks  BY <1>0, <2>3, <2>4, FieldUpdates
  <2>6. [type |-> "SYN_ACK", cut |-> NewSeq("R", cb["R"].seq_cutoff)] \in Control
    BY <2>2 DEF Control
  <2> QED  BY <1>4, <2>5, <2>6 DEF RightSynAck, TypeOK, Blocks
<1>5. ASSUME NEW m \in ctl, LeftSynAck(m) PROVE TypeOK'
  <2>1. m.cut \in Num  BY <1>5, ControlTypes DEF LeftSynAck
  <2>2. [cb EXCEPT !["L"].ack_cutoff = m.cut] \in Blocks
    BY <1>0, <2>1, FieldUpdates
  <2>3. [[cb EXCEPT !["L"].ack_cutoff = m.cut]
             EXCEPT !["L"].valid_ack_cut = TRUE] \in Blocks
    BY <1>0, <2>2, FieldUpdates
  <2>4. cb' \in Blocks  BY <1>0, <1>5, <2>3 DEF LeftSynAck
  <2> QED  BY <1>5, <2>4 DEF LeftSynAck, TypeOK, Blocks
<1>6. LeftEstablish => cb' \in Blocks
  <2> DEFINE v == IF cb["L"].state = "SYN_SENT" THEN "ESTABLISHED"
                                                ELSE cb["L"].state
  <2>1. v \in States  BY <1>0 DEF Blocks, ControlBlock, States
  <2>2. [cb EXCEPT !["L"].state = v] \in Blocks
    <3> HIDE DEF v
    <3> QED  BY <1>0, <2>1, FieldUpdates
  <2> QED  BY <2>2 DEF LeftEstablish
<1>7. CASE LeftAckLock
  BY <1>6, <1>7 DEF LeftAckLock, TypeOK, Blocks
<1>8. CASE LeftAckFill
  <2>1. cb["L"].seq_cutoff \in Num  BY <1>0 DEF Blocks, ControlBlock
  <2>2. [type |-> "ACK", cut |-> cb["L"].seq_cutoff] \in Control
    BY <2>1 DEF Control
  <2> QED  BY <1>8, <2>2 DEF LeftAckFill, TypeOK
<1>9. CASE LeftAckStateTransfer
  <2>1. [type |-> "ACK", cut |-> 0] \in Control  BY ConstantTypes DEF Control
  <2> QED  BY <1>9, <2>1 DEF LeftAckStateTransfer, TypeOK
<1>10. CASE LeftFollowsWildPointer
  BY <1>10 DEF LeftFollowsWildPointer, TypeOK, Rcb, Anchors
<1>11. ASSUME NEW m \in ctl, RightAck(m) PROVE TypeOK'
  <2>1. HostSeq("R", m.cut) \in Num
    BY <1>0, <1>11, ControlTypes, TranslationTypes DEF RightAck
  <2>2. cb' = [[[cb EXCEPT !["R"].ack_cutoff = HostSeq("R", m.cut)]
                    EXCEPT !["R"].valid_ack_cut = TRUE]
                    EXCEPT !["R"].state = "ESTABLISHED"]
    BY <1>11 DEF RightAck
  <2>3. [cb EXCEPT !["R"].ack_cutoff = HostSeq("R", m.cut)] \in Blocks
    BY <1>0, <2>1, FieldUpdates
  <2>4. [[cb EXCEPT !["R"].ack_cutoff = HostSeq("R", m.cut)]
              EXCEPT !["R"].valid_ack_cut = TRUE] \in Blocks
    BY <1>0, <2>3, FieldUpdates
  <2>5. cb' \in Blocks  BY <1>0, <2>2, <2>4, FieldUpdates DEF States
  <2> QED  BY <1>11, <2>5 DEF RightAck, TypeOK, Blocks
<1>12. ASSUME NEW a \in Anchors, SendStateTransferred(a) PROVE TypeOK'
  <2>1. [type |-> "STATE_TRANSFERRED", to |-> a] \in Control  BY DEF Control
  <2> QED  BY <1>12, <2>1 DEF SendStateTransferred, TypeOK
<1>13. ASSUME NEW m \in ctl, LeftStateTransferred(m) PROVE TypeOK'
  BY <1>6, <1>13 DEF LeftStateTransferred, TypeOK, Blocks
<1>14. ASSUME NEW m \in ctl, RightStateTransferred(m) PROVE TypeOK'
  <2>1. cb' \in Blocks
    BY <1>0, <1>14, FieldUpdates DEF RightStateTransferred, States
  <2> QED  BY <1>14, <2>1 DEF RightStateTransferred, TypeOK, Blocks
<1> QED  BY <1>1, <1>2, <1>3, <1>4, <1>5, <1>7, <1>8, <1>9, <1>10, <1>11, <1>12,
            <1>13, <1>14 DEF ControlStep

\* Where payload ends is a position, and the higher of two positions is one.
LEMMA PositionTypes ==
    \A p, q \in Pos : DataEnd(p) \in Pos /\ MaxOf(p, q) \in Pos
BY ConstantTypes DEF DataEnd, MaxOf, Pos

LEMMA NewPacketType ==
    ASSUME TypeOK, NEW s \in Pos, NEW e \in Pos, NEW ack \in Num
    PROVE  NewPacket(s, e, ack) \in Packet
<1>1. SeqOf(Sender, s) \in Num  BY ConstantTypes, NumberTypes
<1> QED  BY <1>1, ConstantTypes, TranslationTypes DEF NewPacket, Packet

\* What is taken from a packet are positions.
LEMMA TakenType ==
    ASSUME NEW p \in Packet
    PROVE  Taken(p) \subseteq Pos \X Pos
<1>1. p.s .. p.e - 1 \subseteq Pos /\ 1 .. N + 1 \subseteq Pos
  BY ConstantTypes DEF Packet, Pos
<1> QED  BY <1>1 DEF Taken

\* A step of the data path keeps the types.
LEMMA DataTypeStep == TypeOK /\ DataStep => TypeOK'
<1> SUFFICES ASSUME TypeOK, DataStep PROVE TypeOK'  OBVIOUS
<1> USE DEF control, packets, kernel
<1>0. /\ cb \in Blocks /\ Sender \in Anchors /\ Receiver \in Anchors
      /\ 1 \in Pos
  BY ConstantTypes DEF TypeOK, Blocks, Pos
<1>1. ASSUME NEW s \in Pos, NEW e \in Pos, NEW lost \in BOOLEAN,
             SendData(s, e, lost)
      PROVE  TypeOK'
  <2> DEFINE c == cb[Sender]
             end == SeqOf(Sender, DataEnd(e))
             new == SeqTakesNewPath(c, end)
             pkt == NewPacket(s, e, AckOf(Sender, 1))
  <2>1. end \in Num /\ c \in ControlBlock /\ pkt \in Packet
    BY <1>0, PositionTypes, NumberTypes, NewPacketType DEF Blocks
  <2>2. cb' = [cb EXCEPT ![Sender] = IF new THEN c ELSE RecordSeq(c, end)]
    BY <1>1 DEF SendData
  <2>3. cb' \in Blocks
    <3> HIDE DEF c, end, new
    <3> QED  BY <1>0, <2>1, <2>2, RecordSeqType DEF Blocks
  <2>4. sndNxt' \in Pos /\ oldEnd' \in Pos
    BY <1>1, PositionTypes DEF SendData, TypeOK
  <2>5. oldData' \subseteq Pos \X Pos
    BY <1>1 DEF SendData, TypeOK
  <2>6. newData' \subseteq Packet
    <3>1. newData' = newData \/ newData' = newData \cup {pkt}
      BY <1>1 DEF SendData
    <3> QED  BY <2>1, <3>1 DEF TypeOK
  <2> QED  BY <1>1, <2>3, <2>4, <2>5, <2>6 DEF SendData, TypeOK, Blocks
<1>2. ASSUME NEW s \in Pos, NEW e \in Pos, NEW lost \in BOOLEAN,
             SendBare(s, e, lost)
      PROVE  TypeOK'
  <2> DEFINE r == AckPath(cb[Sender], AckOf(Sender, 1), e > s)
             pkt == NewPacket(s, e, r.ack)
  <2>1. AckOf(Sender, 1) \in Num /\ cb[Sender] \in ControlBlock
    BY <1>0, NumberTypes DEF Blocks
  <2>2. r.cb \in ControlBlock /\ r.ack \in Num
    BY <2>1, AckPathType
  <2>3. pkt \in Packet  BY <2>2, NewPacketType
  <2>4. cb' \in Blocks
    <3>1. cb' = [cb EXCEPT ![Sender] = r.cb]  BY <1>2 DEF SendBare
    <3> HIDE DEF r
    <3> QED  BY <1>0, <2>2, <3>1 DEF Blocks
  <2>5. sndNxt' \in Pos  BY <1>2, PositionTypes DEF SendBare, TypeOK
  <2>6. oldData' \subseteq Pos \X Pos  BY <1>2 DEF SendBare, TypeOK
  <2>7. newData' \subseteq Packet
    <3>1. newData' = newData \/ newData' = newData \cup {pkt}
      BY <1>2 DEF SendBare
    <3> QED  BY <2>3, <3>1 DEF TypeOK
  <2> QED  BY <1>2, <2>4, <2>5, <2>6, <2>7 DEF SendBare, TypeOK, Blocks
<1>3. ASSUME NEW nxt \in 1 .. N + 2, NEW fin \in BOOLEAN, NEW lost \in BOOLEAN,
             ReceiverAck(nxt, fin, lost)
      PROVE  TypeOK'
  <2> DEFINE r == AckPath(cb[Receiver], AckOf(Receiver, nxt), fin)
             p == Offset(IAck[Receiver], r.ack)
  <2>1. nxt \in Pos  BY ConstantTypes DEF Pos
  <2>2. AckOf(Receiver, nxt) \in Num /\ cb[Receiver] \in ControlBlock
    BY <1>0, <2>1, NumberTypes DEF Blocks
  <2>3. r.cb \in ControlBlock /\ r.ack \in Num  BY <2>2, AckPathType
  <2>4. cb' \in Blocks
    <3>1. cb' = [cb EXCEPT ![Receiver] = r.cb]  BY <1>3 DEF ReceiverAck
    <3> HIDE DEF r
    <3> QED  BY <1>0, <2>3, <3>1 DEF Blocks
  <2>5. newAcks' \subseteq Num
    <3>1. NewAck(Receiver, r.ack) \in Num  BY <1>0, <2>3, TranslationTypes
    <3>2. newAcks' = newAcks \/ newAcks' = newAcks \cup {NewAck(Receiver, r.ack)}
      BY <1>3 DEF ReceiverAck
    <3> QED  BY <3>1, <3>2 DEF TypeOK
  <2>6. mUna' \in Pos
    <3>1. p \in Num
      <4>1. IAck[Receiver] \in Num  BY ConstantTypes
      <4> HIDE DEF r
      <4>2. /\ r.ack - IAck[Receiver] \in Int /\ -W <= r.ack - IAck[Receiver]
            /\ r.ack - IAck[Receiver] < 2 * W
        BY <2>3, <4>1, HAssumption DEF Num, W
      <4> QED  BY <4>2, WrapType DEF Offset
    <3>2. p <= N + 2 => p \in Pos  BY <3>1, ConstantTypes DEF Num, Pos
    <3>3. mUna' = mUna \/ (mUna' = MaxOf(mUna, p) /\ ~(p > N + 2))
      BY <1>3 DEF ReceiverAck
    <3>4. ~(p > N + 2) => p <= N + 2  BY <3>1, ConstantTypes DEF Num, W
    <3>5. mUna \in Pos  BY DEF TypeOK
    <3> HIDE DEF p
    <3> QED  BY <3>2, <3>3, <3>4, <3>5, PositionTypes
  <2> QED  BY <1>3, <2>4, <2>5, <2>6 DEF ReceiverAck, TypeOK, Blocks
<1>4. ASSUME NEW p \in newData, NewArrive(p) PROVE TypeOK'
  <2>1. p \in Packet  BY DEF TypeOK
  <2>2. p.seq \in Num /\ p.ack \in Num  BY <2>1 DEF Packet
  <2>3. /\ cb' \in Blocks
        /\ two' \in [Anchors -> [old : BOOLEAN, new : BOOLEAN]]
    <3>1. CASE p.s < DataEnd(p.e)
      BY <1>0, <1>4, <2>2, <3>1, TwoPathsDataType DEF NewArrive, TypeOK, Blocks
    <3>2. CASE ~(p.s < DataEnd(p.e))
      BY <1>0, <1>4, <2>2, <3>2, TwoPathsAckType DEF NewArrive, Blocks
    <3> QED  BY <3>1, <3>2
  <2>4. rcvd' \subseteq Pos \X Pos
    BY <1>4, <2>1, TakenType DEF NewArrive, TypeOK
  <2> QED  BY <1>4, <2>3, <2>4 DEF NewArrive, TypeOK, Blocks
<1>5. ASSUME NEW x \in newAcks, NewAckArrive(x) PROVE TypeOK'
  <2>1. x \in Num  BY DEF TypeOK
  <2>2. /\ cb' \in Blocks
        /\ two' \in [Anchors -> [old : BOOLEAN, new : BOOLEAN]]
    BY <1>0, <1>5, <2>1, TwoPathsAckType DEF NewAckArrive, Blocks
  <2>3. sndUna' \in Pos
    <3> DEFINE p == Offset(ISeq[Sender], HostAck(Sender, x))
    <3>1. p \in Num
      <4>1. HostAck(Sender, x) \in Num /\ ISeq[Sender] \in Num
        BY <1>0, <2>1, TranslationTypes, ConstantTypes
      <4>2. /\ HostAck(Sender, x) - ISeq[Sender] \in Int
            /\ -W <= HostAck(Sender, x) - ISeq[Sender]
            /\ HostAck(Sender, x) - ISeq[Sender] < 2 * W
        BY <4>1, HAssumption DEF Num, W
      <4> QED  BY <4>2, WrapType DEF Offset
    <3>2. sndUna' = IF p <= sndNxt THEN MaxOf(sndUna, p) ELSE sndUna
      BY <1>5 DEF NewAckArrive
    <3>3. sndNxt \in Pos /\ sndUna \in Pos  BY DEF TypeOK
    <3> HIDE DEF p
    <3>4. p <= sndNxt => p \in Pos  BY <3>1, <3>3, ConstantTypes DEF Num, Pos
    <3> QED  BY <3>2, <3>3, <3>4, PositionTypes
  <2> QED  BY <1>5, <2>2, <2>3 DEF NewAckArrive, TypeOK, Blocks
<1>6. ASSUME NEW seg \in oldData, OldArrive(seg[1], seg[2]) PROVE TypeOK'
  BY <1>6 DEF OldArrive, TypeOK
<1>7. ASSUME NEW p \in 1 .. N + 1, OldDeliver(p) PROVE TypeOK'
  <2>1. p \in Pos  BY ConstantTypes DEF Pos
  <2>2. SeqOf(Receiver, 1) \in Num  BY <1>0, NumberTypes
  <2>3. /\ cb' \in Blocks
        /\ two' \in [Anchors -> [old : BOOLEAN, new : BOOLEAN]]
    BY <1>0, <1>7, <2>2, TwoPathsAckType DEF OldDeliver, TypeOK, Blocks
  <2> QED  BY <1>7, <2>1, <2>3 DEF OldDeliver, TypeOK, Blocks
<1>8. ASSUME NEW p \in 1 .. N + 2, OldAckArrive(p) PROVE TypeOK'
  <2>1. p \in Pos  BY ConstantTypes DEF Pos
  <2>2. SeqOf(Sender, p) \in Num  BY <1>0, <2>1, NumberTypes
  <2>3. /\ cb' \in Blocks
        /\ two' \in [Anchors -> [old : BOOLEAN, new : BOOLEAN]]
    BY <1>0, <1>8, <2>2, TwoPathsAckType DEF OldAckArrive, Blocks
  <2>4. sndUna' \in Pos  BY <1>8, <2>1, PositionTypes DEF OldAckArrive, TypeOK
  <2> QED  BY <1>8, <2>3, <2>4 DEF OldAckArrive, TypeOK, Blocks
<1> QED  BY <1>1, <1>2, <1>3, <1>4, <1>5, <1>6, <1>7, <1>8 DEF DataStep

\* The state keeps its types.
THEOREM TypeCorrect == Spec => []TypeOK
<1>1. Init => TypeOK
  <2> SUFFICES ASSUME Init PROVE TypeOK  OBVIOUS
  <2>1. cb \in [Anchors -> ControlBlock]
    <3> DEFINE b(a) == [state |-> "ONE_PATH", other |-> FALSE, state_t |-> FALSE,
                        seq_cutoff |-> IF a = "L" /\ ~LeftIsEndpoint THEN 0
                                                                 ELSE ISeq[a],
                        ack_cutoff |-> 0, valid_ack_cut |-> FALSE,
                        use_np_seq |-> FALSE, use_np_ack |-> FALSE, ack_ctr |-> 0]
    <3>1. \A a \in Anchors : b(a) \in ControlBlock
      BY ConstantTypes DEF ControlBlock, States
    <3>2. cb = [a \in Anchors |-> b(a)]  BY DEF Init
    <3> HIDE DEF b
    <3> QED  BY <3>1, <3>2
  <2>2. nb \in [Anchors -> [up : BOOLEAN, iseq : Num, iack : Num]]
    BY ConstantTypes DEF Init
  <2>3. two \in [Anchors -> [old : BOOLEAN, new : BOOLEAN]]  BY DEF Init
  <2>4. rcb \in [Anchors -> Rcb]  BY DEF Init, Rcb
  <2>5. 0 \in Pos /\ 1 \in Pos  BY ConstantTypes DEF Pos
  <2> QED  BY <2>1, <2>2, <2>3, <2>4, <2>5 DEF Init, TypeOK
<1>2. TypeOK /\ [Next]_vars => TypeOK'
  <2>1. TypeOK /\ UNCHANGED vars => TypeOK'
    BY DEF TypeOK, vars, kernel, control, packets, ends
  <2> QED  BY <2>1, ControlTypeStep, DataTypeStep DEF Next
<1> QED  BY <1>1, <1>2, PTL DEF Spec

-----------------------------------------------------------------------------
(***************************************************************************)
(* The receiver's TCP gets exactly the bytes that were sent: whatever the  *)
(* initial numbers of the two anchors, the numbers on the new path and     *)
(* their translation stand for the positions they should.  Together with   *)
(* what is known of the acks: it implements a reliable stream.             *)
(***************************************************************************)

\* A DYSCO_SYN carries the left anchor's initial numbers, and a new path's
\* blocks are made of them; an anchor that may use the new path has its block.
Numbers ==
    /\ \A m \in ctl : m.type = "SYN" => m.iseq = LSeq /\ m.iack = LAck
    /\ nb["L"].up => nb["L"].iseq = LSeq /\ nb["L"].iack = LAck
    /\ nb["R"].up => nb["R"].iseq = LAck /\ nb["R"].iack = LSeq
    /\ \A a \in Anchors : cb[a].other => nb[a].up
    /\ rcb["R"] = "set" => nb["R"].up

\* A packet of the new path has the number of its first byte.
WireExact == \A p \in newData : p.seq = WireOf(p.s)

StreamInv == Numbers /\ WireExact /\ StreamIntact

-----------------------------------------------------------------------------
\* Translation at the sender: to the numbers of the wire.
LEMMA SenderTranslates ==
    ASSUME Numbers, nb[Sender].up, NEW p \in Pos
    PROVE  NewSeq(Sender, SeqOf(Sender, p)) = WireOf(p)
<1>1. /\ p \in Num /\ LSeq \in Num /\ LAck \in Num /\ ISeq[Sender] \in Num
      /\ Sender \in {"L", "R"}
  BY ConstantTypes DEF Anchors
<1>2. CASE Sender = "L"
  <2>1. ISeq["L"] = LSeq /\ nb["L"].iseq = LSeq  BY <1>2 DEF Numbers, ISeq, Anchors
  <2>2. Rewrite(Wrap(LSeq + p), LSeq, LSeq) = Wrap(LSeq + p)
    BY <1>1, RewriteShift
  <2> QED  BY <1>2, <2>1, <2>2 DEF NewSeq, SeqOf, WireOf
<1>3. CASE Sender = "R"
  <2>1. nb["R"].iseq = LAck /\ IAck["L"] = LAck
    BY <1>3 DEF Numbers, IAck, Anchors
  <2>2. Rewrite(Wrap(ISeq["R"] + p), ISeq["R"], LAck) = Wrap(LAck + p)
    BY <1>1, <1>3, RewriteShift
  <2> QED  BY <1>3, <2>1, <2>2 DEF NewSeq, SeqOf, AckOf, WireOf
<1> QED  BY <1>1, <1>2, <1>3

\* Translation at the receiver: from the numbers of the wire.
LEMMA ReceiverTranslates ==
    ASSUME Numbers, nb[Receiver].up, NEW p \in Pos
    PROVE  HostSeq(Receiver, WireOf(p)) = AckOf(Receiver, p)
<1>1. /\ p \in Num /\ LSeq \in Num /\ LAck \in Num /\ IAck[Receiver] \in Num
      /\ Sender \in {"L", "R"}
  BY ConstantTypes DEF Anchors
<1>2. CASE Sender = "L"
  <2>1. Receiver = "R" /\ nb["R"].iack = LSeq /\ ISeq["L"] = LSeq
    BY <1>2 DEF Numbers, Receiver, ISeq, Anchors
  <2>2. Rewrite(Wrap(LSeq + p), LSeq, IAck["R"]) = Wrap(IAck["R"] + p)
    BY <1>1, <2>1, RewriteShift
  <2> QED  BY <1>2, <2>1, <2>2 DEF HostSeq, SeqOf, AckOf, WireOf
<1>3. CASE Sender = "R"
  <2>1. Receiver = "L" /\ nb["L"].iack = LAck /\ IAck["L"] = LAck
    BY <1>3 DEF Numbers, Receiver, IAck, Anchors
  <2>2. Rewrite(Wrap(LAck + p), LAck, LAck) = Wrap(LAck + p)
    BY <1>1, RewriteShift
  <2> QED  BY <1>3, <2>1, <2>2 DEF HostSeq, AckOf, WireOf
<1> QED  BY <1>1, <1>2, <1>3

\* Each byte of a packet is taken for the position it has.
LEMMA TakenExact ==
    ASSUME TypeOK, Numbers, WireExact, nb[Receiver].up, NEW p \in newData
    PROVE  \A t \in Taken(p) : t[1] = t[2]
<1>1. p.s \in Pos /\ p.e \in Pos /\ p.seq = WireOf(p.s)
  BY DEF TypeOK, Packet, WireExact
<1>2. HostSeq(Receiver, p.seq) = Wrap(IAck[Receiver] + p.s)
  BY <1>1, ReceiverTranslates DEF AckOf
<1>3. ASSUME NEW b \in p.s .. p.e - 1
      PROVE  Offset(IAck[Receiver],
                    Wrap(HostSeq(Receiver, p.seq) + (b - p.s))) = b
  <2> DEFINE i == IAck[Receiver]
             d == b - p.s
  <2>1. i \in Num  BY ConstantTypes
  <2>2. p.s \in Num /\ d \in Num /\ b \in Num /\ p.s + d = b /\ b < W
    BY <1>1, ConstantTypes DEF Pos, Num, W
  <2> HIDE DEF i, d
  <2>3. Wrap(Wrap(i + p.s) + d) = Wrap(i + (p.s + d))
    BY <2>1, <2>2, WrapAdd
  <2>4. Offset(i, Wrap(i + b)) = b  BY <2>1, <2>2, OffsetShift
  <2>5. Offset(i, Wrap(Wrap(i + p.s) + d)) = b  BY <2>2, <2>3, <2>4
  <2> QED  BY <1>2, <2>5 DEF i, d
<1> QED  BY <1>3 DEF Taken

\* The data path leaves the handshake's fields of a block alone.
LEMMA RecordSeqKeeps ==
    ASSUME NEW c \in ControlBlock, NEW end
    PROVE  /\ RecordSeq(c, end).other = c.other
           /\ RecordSeq(c, end).state = c.state
           /\ RecordSeq(c, end).state_t = c.state_t
           /\ RecordSeq(c, end).ack_cutoff = c.ack_cutoff
BY DEF RecordSeq, ControlBlock

LEMMA AckPathKeeps ==
    ASSUME NEW c \in ControlBlock, NEW ack, NEW fin
    PROVE  /\ AckPath(c, ack, fin).cb.other = c.other
           /\ AckPath(c, ack, fin).cb.state = c.state
           /\ AckPath(c, ack, fin).cb.state_t = c.state_t
           /\ AckPath(c, ack, fin).cb.seq_cutoff = c.seq_cutoff
           /\ AckPath(c, ack, fin).cb.ack_cutoff = c.ack_cutoff
           /\ AckPath(c, ack, fin).new => c.other
<1>1. /\ CountAck(c).other = c.other /\ CountAck(c).state = c.state
      /\ CountAck(c).state_t = c.state_t /\ CountAck(c).seq_cutoff = c.seq_cutoff
      /\ CountAck(c).ack_cutoff = c.ack_cutoff
  BY DEF CountAck, ControlBlock
<1> QED  BY <1>1 DEF AckPath, PickPathAck

LEMMA TwoPathsAckKeeps ==
    ASSUME TypeOK, NEW a \in Anchors, NEW path, NEW ack, TwoPathsAck(a, path, ack),
           NEW x \in Anchors
    PROVE  /\ cb'[x].other = cb[x].other /\ cb'[x].state = cb[x].state
           /\ cb'[x].state_t = cb[x].state_t
           /\ cb'[x].seq_cutoff = cb[x].seq_cutoff
           /\ cb'[x].ack_cutoff = cb[x].ack_cutoff
BY DEF TwoPathsAck, TypeOK, ControlBlock

LEMMA TwoPathsDataKeeps ==
    ASSUME TypeOK, NEW a \in Anchors, NEW seq, TwoPathsData(a, seq),
           NEW x \in Anchors
    PROVE  /\ cb'[x].other = cb[x].other /\ cb'[x].state = cb[x].state
           /\ cb'[x].state_t = cb[x].state_t
           /\ cb'[x].seq_cutoff = cb[x].seq_cutoff
           /\ cb[x].state = "ESTABLISHED" => cb'[x].ack_cutoff = cb[x].ack_cutoff
BY DEF TwoPathsData, TypeOK, ControlBlock

\* A block as a step of the data path may leave it, but for seq_cutoff.
Kept(x) ==
    /\ cb'[x].other = cb[x].other /\ cb'[x].state = cb[x].state
    /\ cb'[x].state_t = cb[x].state_t
    /\ cb[x].state = "ESTABLISHED" => cb'[x].ack_cutoff = cb[x].ack_cutoff

\* Data, bare segments and acks sent.
LEMMA SendDataKeeps ==
    ASSUME TypeOK, NEW s, NEW e, NEW lost, SendData(s, e, lost), NEW x \in Anchors
    PROVE  Kept(x)
<1> DEFINE c   == cb[Sender]
           end == SeqOf(Sender, DataEnd(e))
           new == SeqTakesNewPath(c, end)
<1>1. cb' = [cb EXCEPT ![Sender] = IF new THEN c ELSE RecordSeq(c, end)]
  BY DEF SendData
<1>2. c \in ControlBlock /\ cb \in Blocks  BY ConstantTypes DEF TypeOK, Blocks
<1>3. x # Sender => cb'[x] = cb[x]  BY <1>1, <1>2 DEF Blocks
<1>4. x = Sender => cb'[x] = c \/ cb'[x] = RecordSeq(c, end)
  BY <1>1, <1>2 DEF Blocks
<1> HIDE DEF end
<1> QED  BY <1>2, <1>3, <1>4, RecordSeqKeeps DEF Kept

LEMMA AckSentKeeps ==
    ASSUME TypeOK, NEW a \in Anchors, NEW ack, NEW fin,
           cb' = [cb EXCEPT ![a] = AckPath(cb[a], ack, fin).cb],
           NEW x \in Anchors
    PROVE  Kept(x) /\ cb'[x].seq_cutoff = cb[x].seq_cutoff
<1>1. cb[a] \in ControlBlock /\ cb \in Blocks  BY DEF TypeOK, Blocks
<1>2. x # a => cb'[x] = cb[x]  BY <1>1 DEF Blocks
<1>3. x = a => cb'[x] = AckPath(cb[a], ack, fin).cb  BY <1>1 DEF Blocks
<1> QED  BY <1>1, <1>2, <1>3, AckPathKeeps DEF Kept

\* What any step of the data path leaves alone.  Only a segment with payload
\* changes a seq_cutoff.
LEMMA DataStepKeeps ==
    ASSUME TypeOK, DataStep
    PROVE  /\ UNCHANGED <<ctl, answered, nb, rcb, filling>>
           /\ \A x \in Anchors : Kept(x)
           /\ \/ \E s, e \in Pos, lost \in BOOLEAN : SendData(s, e, lost)
              \/ /\ oldEnd' = oldEnd
                 /\ \A x \in Anchors : cb'[x].seq_cutoff = cb[x].seq_cutoff
<1> USE DEF control, packets, kernel
<1>0. Sender \in Anchors /\ Receiver \in Anchors  BY ConstantTypes
<1>1. ASSUME NEW s \in Pos, NEW e \in Pos, NEW lost \in BOOLEAN,
             SendData(s, e, lost)
      PROVE  /\ UNCHANGED <<ctl, answered, nb, rcb, filling>>
             /\ \A x \in Anchors : Kept(x)
  BY <1>1, SendDataKeeps DEF SendData
<1> DEFINE Rest == /\ UNCHANGED <<ctl, answered, nb, rcb, filling>>
                   /\ oldEnd' = oldEnd
                   /\ \A x \in Anchors : /\ Kept(x)
                                         /\ cb'[x].seq_cutoff = cb[x].seq_cutoff
<1>2. ASSUME NEW s \in Pos, NEW e \in Pos, NEW lost \in BOOLEAN,
             SendBare(s, e, lost)
      PROVE  Rest
  <2>1. cb' = [cb EXCEPT ![Sender] = AckPath(cb[Sender], AckOf(Sender, 1), e > s).cb]
    BY <1>2 DEF SendBare
  <2> QED  BY <1>0, <1>2, <2>1, AckSentKeeps DEF SendBare
<1>3. ASSUME NEW nxt \in 1 .. N + 2, NEW fin \in BOOLEAN, NEW lost \in BOOLEAN,
             ReceiverAck(nxt, fin, lost)
      PROVE  Rest
  <2>1. cb' = [cb EXCEPT ![Receiver] =
                  AckPath(cb[Receiver], AckOf(Receiver, nxt), fin).cb]
    BY <1>3 DEF ReceiverAck
  <2> QED  BY <1>0, <1>3, <2>1, AckSentKeeps DEF ReceiverAck
<1>4. ASSUME NEW p \in newData, NewArrive(p) PROVE Rest
  <2>1. CASE TwoPathsData(Receiver, p.seq)
    BY <1>0, <1>4, <2>1, TwoPathsDataKeeps DEF NewArrive, Kept
  <2>2. CASE TwoPathsAck(Receiver, "new", p.ack)
    BY <1>0, <1>4, <2>2, TwoPathsAckKeeps DEF NewArrive, Kept
  <2> QED  BY <1>4, <2>1, <2>2 DEF NewArrive
<1>5. ASSUME NEW x \in newAcks, NewAckArrive(x) PROVE Rest
  BY <1>0, <1>5, TwoPathsAckKeeps DEF NewAckArrive, Kept
<1>6. ASSUME NEW seg \in oldData, OldArrive(seg[1], seg[2]) PROVE Rest
  BY <1>6 DEF OldArrive, Kept
<1>7. ASSUME NEW p \in 1 .. N + 1, OldDeliver(p) PROVE Rest
  <2>1. CASE TwoPathsAck(Receiver, "old", SeqOf(Receiver, 1))
    BY <1>0, <1>7, <2>1, TwoPathsAckKeeps DEF OldDeliver, Kept
  <2>2. CASE UNCHANGED <<cb, two>>
    BY <1>7, <2>2 DEF OldDeliver, Kept
  <2> QED  BY <1>7, <2>1, <2>2 DEF OldDeliver
<1>8. ASSUME NEW p \in 1 .. N + 2, OldAckArrive(p) PROVE Rest
  BY <1>0, <1>8, TwoPathsAckKeeps DEF OldAckArrive, Kept
<1> HIDE DEF Rest
<1>9. Rest \/ \E s, e \in Pos, lost \in BOOLEAN : SendData(s, e, lost)
  BY <1>2, <1>3, <1>4, <1>5, <1>6, <1>7, <1>8 DEF DataStep
<1> USE DEF Rest
<1> QED  BY <1>1, <1>9

-----------------------------------------------------------------------------
LEMMA NumbersControlStep == TypeOK /\ Numbers /\ ControlStep => Numbers'
<1> SUFFICES ASSUME TypeOK, Numbers, ControlStep PROVE Numbers'  OBVIOUS
<1> USE DEF kernel, control
<1>0. /\ cb \in Blocks /\ nb \in [Anchors -> [up : BOOLEAN, iseq : Num, iack : Num]]
      /\ rcb \in [Anchors -> Rcb] /\ Anchors = {"L", "R"}
  BY DEF TypeOK, Blocks, Anchors
<1>1. CASE LeftSyn
  <2>1. \A m \in ctl' : m.type = "SYN" => m.iseq = LSeq /\ m.iack = LAck
    BY <1>1 DEF LeftSyn, Numbers
  <2>2. CASE UNCHANGED <<rcb, nb, two, cb>>
    BY <2>1, <2>2 DEF Numbers
  <2>3. CASE rcb["L"] = "none"
    <3>1. nb' = [nb EXCEPT !["L"] = [up |-> TRUE, iseq |-> LSeq, iack |-> LAck]]
      BY <1>1, <2>3 DEF LeftSyn
    <3>2. nb'["R"] = nb["R"] /\ nb'["L"] = [up |-> TRUE, iseq |-> LSeq, iack |-> LAck]
      BY <1>0, <3>1
    <3>3. cb'["R"] = cb["R"] /\ rcb'["R"] = rcb["R"]
      BY <1>0, <1>1, <2>3 DEF LeftSyn, Blocks
    <3> QED  BY <1>0, <2>1, <3>2, <3>3 DEF Numbers
  <2> QED  BY <1>1, <2>2, <2>3 DEF LeftSyn
<1>2. CASE LeftSynAllocFails
  BY <1>0, <1>2 DEF LeftSynAllocFails, Numbers
<1>3. ASSUME NEW m \in ctl, RightSyn(m) PROVE Numbers'
  <2>1. m.iseq = LSeq /\ m.iack = LAck  BY <1>3 DEF RightSyn, Numbers
  <2>2. nb' = [nb EXCEPT !["R"] = [up |-> TRUE, iseq |-> LAck, iack |-> LSeq]]
    BY <1>3, <2>1 DEF RightSyn
  <2>3. nb'["L"] = nb["L"] /\ nb'["R"] = [up |-> TRUE, iseq |-> LAck, iack |-> LSeq]
    BY <1>0, <2>2
  <2>4. ctl' = ctl /\ \A a \in Anchors : cb'[a].other = cb[a].other
    BY <1>0, <1>3 DEF RightSyn, Blocks, ControlBlock
  <2> QED  BY <1>0, <2>3, <2>4 DEF Numbers
<1>4. CASE RightSynAck
  <2>1. UNCHANGED <<nb, rcb>> /\ cb'["L"] = cb["L"]
    BY <1>0, <1>4 DEF RightSynAck, Blocks
  <2>2. \A m \in ctl' : m.type = "SYN" => m \in ctl
    BY <1>4 DEF RightSynAck
  <2> QED  BY <1>0, <1>4, <2>1, <2>2 DEF Numbers, RightSynAck
<1>5. ASSUME /\ \A m \in ctl' : m.type = "SYN" => m \in ctl
             /\ UNCHANGED <<nb, rcb>>
             /\ \A a \in Anchors : cb'[a].other = cb[a].other
      PROVE  Numbers'
  BY <1>5 DEF Numbers
<1>6. ASSUME NEW m \in ctl, LeftSynAck(m) PROVE Numbers'
  <2>1. \A a \in Anchors : cb'[a].other = cb[a].other
    BY <1>0, <1>6 DEF LeftSynAck, Blocks, ControlBlock
  <2> QED  BY <1>5, <1>6, <2>1 DEF LeftSynAck
<1>7. LeftEstablish => \A a \in Anchors : cb'[a].other = cb[a].other
  BY <1>0 DEF LeftEstablish, Blocks, ControlBlock
<1>8. CASE LeftAckLock  BY <1>5, <1>7, <1>8 DEF LeftAckLock
<1>9. CASE LeftAckFill  BY <1>5, <1>9 DEF LeftAckFill
<1>10. CASE LeftAckStateTransfer  BY <1>5, <1>10 DEF LeftAckStateTransfer
<1>11. CASE LeftFollowsWildPointer
  BY <1>0, <1>11 DEF LeftFollowsWildPointer, Numbers
<1>12. ASSUME NEW m \in ctl, RightAck(m) PROVE Numbers'
  <2>1. \A a \in Anchors : cb'[a].other = cb[a].other
    BY <1>0, <1>12 DEF RightAck, Blocks, ControlBlock
  <2> QED  BY <1>5, <1>12, <2>1 DEF RightAck
<1>13. ASSUME NEW a \in Anchors, SendStateTransferred(a) PROVE Numbers'
  BY <1>5, <1>13 DEF SendStateTransferred
<1>14. ASSUME NEW m \in ctl, LeftStateTransferred(m) PROVE Numbers'
  BY <1>5, <1>7, <1>14 DEF LeftStateTransferred
<1>15. ASSUME NEW m \in ctl, RightStateTransferred(m) PROVE Numbers'
  <2>1. \A a \in Anchors : cb'[a].other = cb[a].other
    BY <1>0, <1>15 DEF RightStateTransferred, Blocks, ControlBlock
  <2> QED  BY <1>5, <1>15, <2>1 DEF RightStateTransferred
<1> QED  BY <1>1, <1>2, <1>3, <1>4, <1>6, <1>8, <1>9, <1>10, <1>11, <1>12, <1>13,
            <1>14, <1>15 DEF ControlStep

LEMMA NumbersDataStep == TypeOK /\ Numbers /\ DataStep => Numbers'
BY DataStepKeeps DEF Numbers, Kept

\* A packet is put on the new path only by an anchor that has its block.
LEMMA WireExactDataStep ==
    ASSUME TypeOK, Numbers, WireExact, DataStep
    PROVE  WireExact'
<1> USE DEF control, packets, kernel
<1>0. cb[Sender] \in ControlBlock /\ Sender \in Anchors
  BY ConstantTypes DEF TypeOK
<1>1. ASSUME NEW s \in Pos, NEW e \in Pos, NEW ack, cb[Sender].other
      PROVE  NewPacket(s, e, ack).seq = WireOf(NewPacket(s, e, ack).s)
  <2>1. nb[Sender].up  BY <1>0, <1>1 DEF Numbers
  <2> QED  BY <2>1, SenderTranslates DEF NewPacket
<1>2. ASSUME NEW s \in Pos, NEW e \in Pos, NEW lost \in BOOLEAN,
             SendData(s, e, lost)
      PROVE  WireExact'
  <2>1. \/ newData' = newData
        \/ /\ newData' = newData \cup {NewPacket(s, e, AckOf(Sender, 1))}
           /\ cb[Sender].other
    BY <1>2 DEF SendData, SeqTakesNewPath
  <2> QED  BY <1>1, <2>1 DEF WireExact
<1>3. ASSUME NEW s \in Pos, NEW e \in Pos, NEW lost \in BOOLEAN,
             SendBare(s, e, lost)
      PROVE  WireExact'
  <2> DEFINE r == AckPath(cb[Sender], AckOf(Sender, 1), e > s)
  <2>1. \/ newData' = newData
        \/ newData' = newData \cup {NewPacket(s, e, r.ack)} /\ r.new
    BY <1>3 DEF SendBare
  <2>2. r.new => cb[Sender].other  BY <1>0, AckPathKeeps
  <2> HIDE DEF r
  <2> QED  BY <1>1, <2>1, <2>2 DEF WireExact
<1>4. newData' = newData => WireExact'  BY DEF WireExact
<1> QED  BY <1>2, <1>3, <1>4
         DEF DataStep, ReceiverAck, NewArrive, NewAckArrive, OldArrive, OldDeliver,
             OldAckArrive

LEMMA StreamIntactDataStep ==
    ASSUME TypeOK, Numbers, WireExact, StreamIntact, DataStep
    PROVE  StreamIntact'
<1> USE DEF packets
<1>1. ASSUME NEW p \in newData, NewArrive(p) PROVE StreamIntact'
  <2>1. \A t \in Taken(p) : t[1] = t[2]  BY <1>1, TakenExact DEF NewArrive
  <2> QED  BY <1>1, <2>1 DEF NewArrive, StreamIntact
<1>2. ASSUME NEW p \in 1 .. N + 1, OldDeliver(p) PROVE StreamIntact'
  BY <1>2 DEF OldDeliver, StreamIntact
<1>3. rcvd' = rcvd => StreamIntact'  BY DEF StreamIntact
<1> QED  BY <1>1, <1>2, <1>3
         DEF DataStep, SendData, SendBare, ReceiverAck, NewAckArrive, OldArrive,
             OldAckArrive

LEMMA ControlKeepsData == ControlStep => UNCHANGED <<packets, ends>>
BY DEF ControlStep, LeftSyn, LeftSynAllocFails, RightSyn, RightSynAck, LeftSynAck,
       LeftAckLock, LeftAckFill, LeftAckStateTransfer, LeftFollowsWildPointer, RightAck,
       SendStateTransferred, LeftStateTransferred, RightStateTransferred

LEMMA StreamStep == TypeOK /\ StreamInv /\ [Next]_vars => StreamInv'
<1> SUFFICES ASSUME TypeOK, StreamInv, [Next]_vars PROVE StreamInv'  OBVIOUS
<1>1. CASE ControlStep
  <2>1. UNCHANGED <<packets, ends>>  BY <1>1, ControlKeepsData
  <2> QED  BY <1>1, <2>1, NumbersControlStep
           DEF StreamInv, WireExact, StreamIntact, packets, ends
<1>2. CASE DataStep
  BY <1>2, NumbersDataStep, WireExactDataStep, StreamIntactDataStep DEF StreamInv
<1>3. CASE UNCHANGED vars
  BY <1>3 DEF StreamInv, Numbers, WireExact, StreamIntact, vars, kernel, control,
              packets, ends
<1> QED  BY <1>1, <1>2, <1>3 DEF Next

LEMMA StreamInvariant == Spec => []StreamInv
<1>1. Init => StreamInv
  BY ConstantTypes DEF Init, StreamInv, Numbers, WireExact, StreamIntact, Anchors
<1> QED  BY <1>1, StreamStep, TypeCorrect, PTL DEF Spec

\* With any initial numbers, and control messages and packets lost, repeated
\* and reordered, with or without state transfer, and bare segments or not,
\* every byte the receiver's TCP takes is the byte of that position.
THEOREM StreamCorrect == Spec => []StreamIntact
<1>1. StreamInv => StreamIntact
  BY DEF StreamInv
<1> QED  BY <1>1, StreamInvariant, PTL

-----------------------------------------------------------------------------
(* Acknowledgements.                                                       *)

\* All that comes before the position p is at M or at the receiver.
Held(p) == \A q \in 1 .. N + 1 : q < p => q < mRcv \/ <<q, q>> \in rcvd

\* An ack on the wire of the new path has the number of a position up to which the
\* receiver has all.
AcksExact == \A x \in newAcks : \E p \in 1 .. N + 2 : x = WireOf(p) /\ Held(p)

\* Translation at the receiver: of its ack to the number of the wire.
LEMMA AckTranslates ==
    ASSUME Numbers, nb[Receiver].up, NEW p \in Pos
    PROVE  NewAck(Receiver, AckOf(Receiver, p)) = WireOf(p)
<1>1. /\ p \in Num /\ LSeq \in Num /\ LAck \in Num /\ IAck[Receiver] \in Num
      /\ Sender \in {"L", "R"}
  BY ConstantTypes DEF Anchors
<1>2. CASE Sender = "L"
  <2>1. Receiver = "R" /\ nb["R"].iack = LSeq /\ ISeq["L"] = LSeq
    BY <1>2 DEF Numbers, Receiver, ISeq, Anchors
  <2>2. Rewrite(Wrap(IAck["R"] + p), IAck["R"], LSeq) = Wrap(LSeq + p)
    BY <1>1, <2>1, RewriteShift
  <2> QED  BY <1>2, <2>1, <2>2 DEF NewAck, SeqOf, AckOf, WireOf
<1>3. CASE Sender = "R"
  <2>1. Receiver = "L" /\ nb["L"].iack = LAck /\ IAck["L"] = LAck
    BY <1>3 DEF Numbers, Receiver, IAck, Anchors
  <2>2. Rewrite(Wrap(LAck + p), LAck, LAck) = Wrap(LAck + p)
    BY <1>1, RewriteShift
  <2> QED  BY <1>3, <2>1, <2>2 DEF NewAck, AckOf, WireOf
<1> QED  BY <1>1, <1>2, <1>3

\* And back, at the sender.
LEMMA HostAckTranslates ==
    ASSUME Numbers, nb[Sender].up, NEW p \in Pos
    PROVE  Offset(ISeq[Sender], HostAck(Sender, WireOf(p))) = p
<1>1. /\ p \in Num /\ LSeq \in Num /\ LAck \in Num /\ ISeq[Sender] \in Num
      /\ Sender \in {"L", "R"}
  BY ConstantTypes DEF Anchors
<1>2. HostAck(Sender, WireOf(p)) = Wrap(ISeq[Sender] + p)
  <2>1. CASE Sender = "L"
    <3>1. nb["L"].iseq = LSeq /\ ISeq["L"] = LSeq
      BY <2>1 DEF Numbers, ISeq, Anchors
    <3>2. Rewrite(Wrap(LSeq + p), LSeq, LSeq) = Wrap(LSeq + p)
      BY <1>1, RewriteShift
    <3> QED  BY <2>1, <3>1, <3>2 DEF HostAck, SeqOf, WireOf
  <2>2. CASE Sender = "R"
    <3>1. nb["R"].iseq = LAck /\ IAck["L"] = LAck
      BY <2>2 DEF Numbers, IAck, Anchors
    <3>2. Rewrite(Wrap(LAck + p), LAck, ISeq["R"]) = Wrap(ISeq["R"] + p)
      BY <1>1, <2>2, RewriteShift
    <3> QED  BY <2>2, <3>1, <3>2 DEF HostAck, AckOf, WireOf
  <2> QED  BY <1>1, <2>1, <2>2
<1> QED  BY <1>1, <1>2, OffsetShift

\* An ack that takes the new path is not lowered.
LEMMA NewPathAck ==
    ASSUME NEW c, NEW ack, NEW fin, AckPath(c, ack, fin).new
    PROVE  AckPath(c, ack, fin).ack = ack
BY DEF AckPath, PickPathAck

LEMMA HeldStep ==
    ASSUME TypeOK, DataStep
    PROVE  \A p \in Pos : Held(p) => Held(p)'
<1> USE DEF packets
<1>1. mRcv \in Int /\ mRcv' >= mRcv /\ mRcv' \in Int /\ rcvd \subseteq rcvd'
  <2>0. mRcv \in Int  BY DEF TypeOK, Pos
  <2>1. ASSUME NEW seg \in oldData, OldArrive(seg[1], seg[2])
        PROVE  mRcv' >= mRcv /\ mRcv' \in Int /\ rcvd' = rcvd
    <3>1. seg[2] \in Int  BY DEF TypeOK, Pos
    <3> QED  BY <2>0, <2>1, <3>1 DEF OldArrive
  <2>2. \/ \E seg \in oldData : OldArrive(seg[1], seg[2])
        \/ mRcv' = mRcv /\ rcvd \subseteq rcvd'
    BY DEF DataStep, SendData, SendBare, ReceiverAck, NewArrive, NewAckArrive, OldDeliver,
           OldAckArrive
  <2> QED  BY <2>0, <2>1, <2>2
<1> QED  BY <1>1 DEF Held, Pos

LEMMA AcksExactStep ==
    ASSUME TypeOK, Numbers, StreamIntact, AcksExact, DataStep
    PROVE  AcksExact'
<1> USE DEF packets
<1>0. \A p \in 1 .. N + 2 : p \in Pos  BY ConstantTypes DEF Pos
<1>1. newAcks' = newAcks => AcksExact'
  BY <1>0, HeldStep DEF AcksExact, WireOf
<1>2. ASSUME NEW nxt \in 1 .. N + 2, NEW fin \in BOOLEAN, NEW lost \in BOOLEAN,
             ReceiverAck(nxt, fin, lost)
      PROVE  AcksExact'
  <2> DEFINE r == AckPath(cb[Receiver], AckOf(Receiver, nxt), fin)
  <2>1. CASE newAcks' = newAcks  BY <1>1, <2>1
  <2>2. CASE r.new /\ newAcks' = newAcks \cup {NewAck(Receiver, r.ack)}
    <3>1. nb[Receiver].up
      <4>1. cb[Receiver] \in ControlBlock /\ Receiver \in Anchors
        BY ConstantTypes DEF TypeOK
      <4> QED  BY <2>2, <4>1, AckPathKeeps DEF Numbers
    <3>2. r.ack = AckOf(Receiver, nxt)  BY <2>2, NewPathAck
    <3> HIDE DEF r
    <3>3. NewAck(Receiver, r.ack) = WireOf(nxt)
      BY <1>0, <3>1, <3>2, AckTranslates
    <3>4. Held(nxt)
      <4>1. ASSUME NEW q \in 1 .. N + 1, q < nxt PROVE <<q, q>> \in rcvd
        <5>1. q \in 1 .. nxt - 1  BY <4>1, ConstantTypes
        <5>2. PICK t \in rcvd : q = t[1]
          BY <1>2, <5>1 DEF ReceiverAck, IsRcvNxt
        <5>3. t[1] = t[2] /\ t \in Pos \X Pos  BY DEF StreamIntact, TypeOK
        <5>4. t = <<t[1], t[2]>>  BY <5>3
        <5> QED  BY <5>2, <5>3, <5>4
      <4> QED  BY <4>1 DEF Held
    <3>5. \A x \in newAcks' : \E p \in 1 .. N + 2 : x = WireOf(p) /\ Held(p)
      BY <2>2, <3>3, <3>4 DEF AcksExact
    <3>6. \A p \in 1 .. N + 2 : Held(p) => Held(p)'  BY <1>0, HeldStep
    <3> QED  BY <3>5, <3>6 DEF AcksExact, WireOf
  <2> QED  BY <1>2, <2>1, <2>2 DEF ReceiverAck
<1> QED  BY <1>1, <1>2
         DEF DataStep, SendData, SendBare, NewArrive, NewAckArrive, OldArrive, OldDeliver,
             OldAckArrive

LEMMA HeldToUnaStep ==
    ASSUME TypeOK, Numbers, AcksExact, Held(sndUna), DataStep
    PROVE  Held(sndUna)'
<1> USE DEF packets
<1>0. sndUna \in Pos /\ mRcv \in Pos /\ \A p \in 1 .. N + 2 : p \in Pos
  BY ConstantTypes DEF TypeOK, Pos
<1>1. ASSUME NEW p \in Pos, Held(p), sndUna' = p PROVE Held(sndUna)'
  BY <1>1, HeldStep DEF Held
<1>2. CASE sndUna' = sndUna  BY <1>0, <1>1, <1>2
<1>3. ASSUME NEW x \in newAcks, NewAckArrive(x) PROVE Held(sndUna)'
  <2>1. PICK p \in 1 .. N + 2 : x = WireOf(p) /\ Held(p)  BY DEF AcksExact
  <2>2. Offset(ISeq[Sender], HostAck(Sender, x)) = p
    BY <1>0, <1>3, <2>1, HostAckTranslates DEF NewAckArrive
  <2>3. sndUna' \in {p, sndUna}
    BY <1>3, <2>2 DEF NewAckArrive, MaxOf
  <2> QED  BY <1>0, <1>1, <2>1, <2>3
<1>4. ASSUME NEW p \in 1 .. N + 2, OldAckArrive(p) PROVE Held(sndUna)'
  <2>1. p <= mRcv /\ sndUna' \in {p, sndUna}  BY <1>4 DEF OldAckArrive, MaxOf
  <2>2. Held(p)  BY <1>0, <2>1 DEF Held, Pos
  <2> QED  BY <1>0, <1>1, <2>1, <2>2
<1> QED  BY <1>2, <1>3, <1>4
         DEF DataStep, SendData, SendBare, NewArrive, ReceiverAck, OldArrive, OldDeliver

LEMMA AcksInvariant == Spec => [](AcksExact /\ Held(sndUna))
<1>1. Init => AcksExact /\ Held(sndUna)
  BY DEF Init, AcksExact, Held
<1>2. TypeOK /\ StreamInv /\ AcksExact /\ Held(sndUna) /\ [Next]_vars
        => AcksExact' /\ Held(sndUna)'
  <2> SUFFICES ASSUME TypeOK, StreamInv, AcksExact, Held(sndUna), [Next]_vars
               PROVE  AcksExact' /\ Held(sndUna)'
    OBVIOUS
  <2>1. CASE DataStep
    BY <2>1, AcksExactStep, HeldToUnaStep DEF StreamInv
  <2>2. CASE ControlStep \/ UNCHANGED vars
    <3>1. UNCHANGED <<packets, ends>>
      BY <2>2, ControlKeepsData DEF vars
    <3> QED  BY <3>1 DEF AcksExact, Held, WireOf, packets, ends
  <2> QED  BY <2>1, <2>2 DEF Next
<1> QED
  BY <1>1, <1>2, TypeCorrect, StreamInvariant, PTL DEF Spec

\* Whatever the paths, the cutoffs and the numbers, and with or without state
\* transfer: what the sender's TCP takes for acknowledged is at M or at the receiver.
THEOREM NothingLost == Spec => []AckedIsHeld
<1>1. TypeOK /\ Held(sndUna) => AckedIsHeld
  BY DEF Held, AckedIsHeld
<1> QED
  BY <1>1, AcksInvariant, TypeCorrect, PTL

-----------------------------------------------------------------------------
(* The reliable stream.                                                    *)

\* Nothing is anywhere that was not sent.
Within ==
    /\ 1 <= sndNxt /\ mRcv <= sndNxt /\ 1 <= sndUna
    /\ \A seg \in oldData : seg[2] <= sndNxt
    /\ \A p \in newData : p.e <= sndNxt

LEMMA WithinDataStep ==
    ASSUME TypeOK, Within, DataStep
    PROVE  Within'
<1> USE DEF packets
<1>0. /\ sndNxt \in Int /\ mRcv \in Int /\ sndUna \in Int
      /\ oldData \subseteq Pos \X Pos
      /\ \A p \in newData : p.e \in Int
      /\ Pos \subseteq Int
  BY DEF TypeOK, Pos, Packet
<1>1. ASSUME NEW s \in Pos, NEW e \in Pos, NEW lost \in BOOLEAN,
             sndNxt' = MaxOf(sndNxt, e), mRcv' = mRcv, sndUna' = sndUna,
             oldData' = oldData \/ oldData' = oldData \cup {<<s, e>>},
             \/ newData' = newData
             \/ \E ack : newData' = newData \cup {NewPacket(s, e, ack)}
      PROVE  Within'
  <2>1. e \in Int /\ sndNxt' \in Int /\ sndNxt <= sndNxt' /\ e <= sndNxt'
    BY <1>0, <1>1 DEF MaxOf
  <2>2. \A seg \in oldData' : seg[2] <= sndNxt'
    <3>1. \A seg \in oldData' : seg \in oldData \/ seg[2] = e
      BY <1>1
    <3>2. \A seg \in oldData : seg[2] \in Int /\ seg[2] <= sndNxt
      BY <1>0 DEF Within
    <3> QED  BY <1>0, <2>1, <3>1, <3>2
  <2>3. \A p \in newData' : p.e <= sndNxt'
    BY <1>0, <1>1, <2>1 DEF Within, NewPacket
  <2> QED  BY <1>0, <1>1, <2>1, <2>2, <2>3 DEF Within
<1>2. ASSUME NEW s \in Pos, NEW e \in Pos, NEW lost \in BOOLEAN,
             SendData(s, e, lost)
      PROVE  Within'
  <2>1. \/ newData' = newData
        \/ \E ack : newData' = newData \cup {NewPacket(s, e, ack)}
    BY <1>2 DEF SendData
  <2> QED  BY <1>1, <1>2, <2>1 DEF SendData
<1>3. ASSUME NEW s \in Pos, NEW e \in Pos, NEW lost \in BOOLEAN,
             SendBare(s, e, lost)
      PROVE  Within'
  <2>1. \/ newData' = newData
        \/ \E ack : newData' = newData \cup {NewPacket(s, e, ack)}
    BY <1>3 DEF SendBare
  <2> QED  BY <1>1, <1>3, <2>1 DEF SendBare
<1>4. ASSUME NEW seg \in oldData, OldArrive(seg[1], seg[2]) PROVE Within'
  BY <1>4 DEF OldArrive, Within
<1>5. ASSUME UNCHANGED <<sndNxt, mRcv, oldData, newData>>, sndUna' >= sndUna,
             sndUna' \in Int
      PROVE  Within'
  BY <1>0, <1>5 DEF Within
<1>6. ASSUME NEW x \in newAcks, NewAckArrive(x) PROVE Within'
  <2>1. sndUna' \in Int /\ sndUna' >= sndUna
    BY <1>0, <1>6 DEF NewAckArrive, MaxOf
  <2> QED  BY <1>5, <1>6, <2>1 DEF NewAckArrive
<1>7. ASSUME NEW p \in 1 .. N + 2, OldAckArrive(p) PROVE Within'
  <2>1. sndUna' \in Int /\ sndUna' >= sndUna
    BY <1>0, <1>7 DEF OldAckArrive, MaxOf
  <2> QED  BY <1>5, <1>7, <2>1 DEF OldAckArrive
<1>8. CASE UNCHANGED <<sndNxt, mRcv, oldData, newData, sndUna>>
  BY <1>8 DEF Within
<1> QED  BY <1>2, <1>3, <1>4, <1>6, <1>7, <1>8
         DEF DataStep, ReceiverAck, NewArrive, NewAckArrive, OldDeliver, OldAckArrive

\* What the stream's held stands for.
HeldSet == {p \in 1 .. N + 1 : p < mRcv \/ <<p, p>> \in rcvd}

\* The receiver takes bytes of a packet at their positions, and they were sent.
LEMMA TakenSent ==
    ASSUME TypeOK, Numbers, WireExact, Within, NEW p \in newData, NewArrive(p)
    PROVE  \E S \in SUBSET (1 .. sndNxt - 1) :
              S \subseteq 1 .. N + 1 /\ rcvd' = rcvd \cup {<<q, q>> : q \in S}
<1> DEFINE S == {t[1] : t \in Taken(p)}
<1>0. /\ p.s \in Int /\ p.e \in Int /\ p.e <= sndNxt /\ sndNxt \in Int
      /\ N \in Int
  BY ConstantTypes DEF TypeOK, Packet, Pos, Within
<1>1. \A t \in Taken(p) : t[1] = t[2]  BY TakenExact DEF NewArrive
<1>2. \A t \in Taken(p) : /\ t = <<t[1], t[2]>>
                          /\ t[1] \in 1 .. N + 1 /\ t[2] \in p.s .. p.e - 1
  BY DEF Taken
<1>3. S \subseteq 1 .. N + 1 /\ S \subseteq 1 .. sndNxt - 1
  <2>1. ASSUME NEW t \in Taken(p)
        PROVE  t[1] \in 1 .. N + 1 /\ t[1] \in 1 .. sndNxt - 1
    <3> HIDE DEF S
    <3>1. t[1] = t[2] /\ t[1] \in 1 .. N + 1 /\ t[2] \in p.s .. p.e - 1
      BY <1>1, <1>2
    <3> QED  BY <1>0, <3>1
  <2> QED  BY <2>1
<1>4. Taken(p) = {<<q, q>> : q \in S}
  <2>1. \A t \in Taken(p) : t = <<t[1], t[1]>>  BY <1>1, <1>2
  <2> QED  BY <2>1
<1>5. rcvd' = rcvd \cup {<<q, q>> : q \in S}  BY <1>4 DEF NewArrive
<1> QED  BY <1>3, <1>5

LEMMA StreamDataStep ==
    ASSUME TypeOK, StreamInv, AcksExact, Within, DataStep
    PROVE  [Stream!StreamNext]_(Stream!streamVars)
<1> USE DEF packets
<1>0. /\ sndNxt \in Int /\ sndUna \in Int /\ mRcv \in Int /\ N \in Nat
      /\ 1 <= sndNxt /\ sndNxt <= N + 2 /\ mRcv <= sndNxt /\ 1 <= sndUna
      /\ Pos = 0 .. N + 2
  BY ConstantTypes DEF TypeOK, Within, Pos
<1>1. UNCHANGED <<sndNxt, sndUna, rcvd, mRcv>> => UNCHANGED Stream!streamVars
  BY DEF Stream!streamVars
<1>2. ASSUME NEW e \in Pos, sndNxt' = MaxOf(sndNxt, e), UNCHANGED <<sndUna, rcvd, mRcv>>
      PROVE  [Stream!StreamNext]_(Stream!streamVars)
  <2>1. CASE e > sndNxt
    <3>1. sndNxt' = e /\ e \in 2 .. N + 2 /\ sndNxt < e
      BY <1>0, <1>2, <2>1 DEF MaxOf
    <3>2. Stream!Send(e)  BY <1>2, <3>1 DEF Stream!Send
    <3> QED  BY <3>1, <3>2 DEF Stream!StreamNext
  <2>2. CASE ~(e > sndNxt)
    <3>1. sndNxt' = sndNxt  BY <1>0, <1>2, <2>2 DEF MaxOf
    <3> QED  BY <1>1, <1>2, <3>1
  <2> QED  BY <2>1, <2>2
<1>3. ASSUME NEW n \in Int, n <= sndNxt, Held(n), UNCHANGED <<sndNxt, rcvd, mRcv>>,
             sndUna' = MaxOf(sndUna, n)
      PROVE  [Stream!StreamNext]_(Stream!streamVars)
  <2>1. CASE n > sndUna
    <3>1. sndUna' = n /\ sndUna < n  BY <1>0, <1>3, <2>1 DEF MaxOf
    <3>2. 1 .. n - 1 \subseteq HeldSet
      BY <1>0, <1>3 DEF Held, HeldSet
    <3>3. Stream!Acknowledge(n)
      BY <1>3, <3>1, <3>2 DEF Stream!Acknowledge, HeldSet
    <3>4. n \in 2 .. N + 2
      BY <1>0, <1>3, <2>1 DEF Within
    <3> QED  BY <3>3, <3>4 DEF Stream!StreamNext
  <2>2. CASE ~(n > sndUna)
    <3>1. sndUna' = sndUna  BY <1>0, <1>3, <2>2 DEF MaxOf
    <3> QED  BY <1>1, <1>3, <3>1
  <2> QED  BY <2>1, <2>2
<1>4. ASSUME NEW S \in SUBSET (1 .. sndNxt - 1), S \subseteq 1 .. N + 1,
             rcvd' = rcvd \cup {<<q, q>> : q \in S}, UNCHANGED <<sndNxt, sndUna, mRcv>>
      PROVE  [Stream!StreamNext]_(Stream!streamVars)
  <2>1. HeldSet' = HeldSet \cup S
    <3>1. \A q : <<q, q>> \in rcvd' <=> <<q, q>> \in rcvd \/ q \in S
      BY <1>4
    <3> QED  BY <1>4, <3>1 DEF HeldSet
  <2>2. Stream!Get(S)  BY <1>4, <2>1 DEF Stream!Get, HeldSet
  <2> QED  BY <2>2 DEF Stream!StreamNext, Stream!Sent
<1>5. ASSUME NEW e \in Int, mRcv < e, e <= sndNxt, mRcv' = e,
             UNCHANGED <<sndNxt, sndUna, rcvd>>
      PROVE  [Stream!StreamNext]_(Stream!streamVars)
  <2>1. PICK S \in SUBSET (1 .. sndNxt - 1) :
           S = {q \in 1 .. N + 1 : mRcv <= q /\ q < e}
    <3>1. \A q \in 1 .. N + 1 : mRcv <= q /\ q < e => q \in 1 .. sndNxt - 1
      BY <1>0, <1>5
    <3> QED  BY <3>1
  <2>2. HeldSet' = HeldSet \cup S
    <3>1. \A q \in 1 .. N + 1 : q < mRcv' <=> q < mRcv \/ (mRcv <= q /\ q < e)
      BY <1>0, <1>5
    <3> QED  BY <1>5, <2>1, <3>1 DEF HeldSet
  <2>3. Stream!Hold(S)  BY <1>5, <2>2 DEF Stream!Hold, HeldSet
  <2> QED  BY <2>3 DEF Stream!StreamNext, Stream!Sent
<1>6. ASSUME NEW s \in Pos, NEW e \in Pos, NEW lost \in BOOLEAN,
             SendData(s, e, lost) \/ SendBare(s, e, lost)
      PROVE  [Stream!StreamNext]_(Stream!streamVars)
  BY <1>2, <1>6 DEF SendData, SendBare
<1>7. ASSUME NEW nxt \in 1 .. N + 2, NEW fin \in BOOLEAN, NEW lost \in BOOLEAN,
             ReceiverAck(nxt, fin, lost)
      PROVE  [Stream!StreamNext]_(Stream!streamVars)
  BY <1>1, <1>7 DEF ReceiverAck
<1>8. ASSUME NEW p \in newData, NewArrive(p)
      PROVE  [Stream!StreamNext]_(Stream!streamVars)
  <2>1. PICK S \in SUBSET (1 .. sndNxt - 1) :
              S \subseteq 1 .. N + 1 /\ rcvd' = rcvd \cup {<<q, q>> : q \in S}
    BY <1>8, TakenSent DEF StreamInv
  <2> QED  BY <1>4, <1>8, <2>1 DEF NewArrive
<1>9. ASSUME NEW x \in newAcks, NewAckArrive(x)
      PROVE  [Stream!StreamNext]_(Stream!streamVars)
  <2>1. PICK n \in 1 .. N + 2 : x = WireOf(n) /\ Held(n)  BY DEF AcksExact
  <2>2. Offset(ISeq[Sender], HostAck(Sender, x)) = n
    BY <1>0, <1>9, <2>1, HostAckTranslates DEF NewAckArrive, StreamInv
  <2>3. sndUna' = IF n <= sndNxt THEN MaxOf(sndUna, n) ELSE sndUna
    BY <1>9, <2>2 DEF NewAckArrive
  <2> QED  BY <1>0, <1>1, <1>3, <1>9, <2>1, <2>3 DEF NewAckArrive
<1>10. ASSUME NEW seg \in oldData, OldArrive(seg[1], seg[2])
       PROVE  [Stream!StreamNext]_(Stream!streamVars)
  <2>1. seg[2] \in Int /\ seg[2] <= sndNxt  BY <1>0 DEF TypeOK, Within
  <2> QED  BY <1>5, <1>10, <2>1 DEF OldArrive
<1>11. ASSUME NEW p \in 1 .. N + 1, OldDeliver(p)
       PROVE  [Stream!StreamNext]_(Stream!streamVars)
  <2>1. {p} \in SUBSET (1 .. sndNxt - 1) /\ {p} \subseteq 1 .. N + 1
    BY <1>0, <1>11 DEF OldDeliver
  <2>2. rcvd' = rcvd \cup {<<q, q>> : q \in {p}}
    BY <1>11 DEF OldDeliver
  <2> QED  BY <1>4, <1>11, <2>1, <2>2 DEF OldDeliver
<1>12. ASSUME NEW p \in 1 .. N + 2, OldAckArrive(p)
       PROVE  [Stream!StreamNext]_(Stream!streamVars)
  <2>1. p \in Int /\ p <= sndNxt /\ Held(p)
    BY <1>0, <1>12 DEF OldAckArrive, Held
  <2> QED  BY <1>3, <1>12, <2>1 DEF OldAckArrive
<1> QED  BY <1>6, <1>7, <1>8, <1>9, <1>10, <1>11, <1>12 DEF DataStep

\* For all numbers, lengths, roles, with or without state transfer, whatever is lost,
\* repeated and reordered: to the TCP ends the two paths, the anchors that move data
\* and acks between them and the numbers they translate are one reliable stream.
THEOREM StreamImplemented == Spec => ImplementsStream
<1>1. Init => Within /\ Stream!StreamInit
  BY ConstantTypes DEF Init, Within, Stream!StreamInit
<1>2. TypeOK /\ Within /\ [Next]_vars => Within'
  <2> SUFFICES ASSUME TypeOK, Within, [Next]_vars PROVE Within'  OBVIOUS
  <2>1. CASE ControlStep \/ UNCHANGED vars
    <3>1. UNCHANGED <<packets, ends>>  BY <2>1, ControlKeepsData DEF vars
    <3> QED  BY <3>1 DEF Within, packets, ends
  <2> QED  BY <2>1, WithinDataStep DEF Next
<1>3. TypeOK /\ StreamInv /\ AcksExact /\ Within /\ [Next]_vars
        => [Stream!StreamNext]_(Stream!streamVars)
  <2> SUFFICES ASSUME TypeOK, StreamInv, AcksExact, Within, [Next]_vars
               PROVE  [Stream!StreamNext]_(Stream!streamVars)
    OBVIOUS
  <2>1. CASE ControlStep \/ UNCHANGED vars
    <3>1. UNCHANGED <<packets, ends>>  BY <2>1, ControlKeepsData DEF vars
    <3> QED  BY <3>1 DEF Stream!streamVars, ends
  <2> QED  BY <2>1, StreamDataStep DEF Next
<1> QED
  BY <1>1, <1>2, <1>3, TypeCorrect, StreamInvariant, AcksInvariant, PTL
  DEF Spec, ImplementsStream, Stream!StreamSpec

-----------------------------------------------------------------------------
(***************************************************************************)
(* The cutoff.  Without state transfer the two anchors agree on where the  *)
(* stream moves from the old path to the new one.                          *)
(***************************************************************************)
\* How far the handshake is, at each anchor, and what its messages say of it.
Settled ==
    /\ \A a \in Anchors : ~cb[a].state_t
    /\ \A a \in Anchors : ~cb[a].other => cb[a].state = "ONE_PATH"
    /\ cb["L"].other => cb["L"].state \in {"SYN_SENT", "ESTABLISHED"}
    /\ cb["R"].other => cb["R"].state \in {"SYN_RECEIVED", "ESTABLISHED"}
    /\ rcb["L"] = "none" => ~cb["L"].other
    /\ rcb["L"] = "set" => cb["L"].other
    /\ filling => cb["L"].state = "ESTABLISHED"
    /\ \A m \in ctl : /\ m.type # "STATE_TRANSFERRED"
                      /\ m.type = "ACK" => cb["L"].state = "ESTABLISHED"
                      /\ m.type = "SYN_ACK" => cb["R"].other

\* The sending anchor's cutoff, and all that was announced of it.
CutInv ==
    /\ oldEnd <= N + 1
    /\ CutoffExact
    /\ AnnouncedCutoff

\* When the right anchor receives: its cutoff comes from a DYSCO_ACK.
Agreed ==
    cb["R"].state = "ESTABLISHED" => /\ \E m \in ctl : m.type = "ACK"
                                     /\ cb["R"].ack_cutoff = AckOf("R", oldEnd)

\* The sending anchor has left the old path, for new data.
Switched == cb[Sender].other /\ cb[Sender].state # "SYN_SENT"

-----------------------------------------------------------------------------
LEMMA SettledControlStep ==
    ASSUME ~StateTransfer, TypeOK, Settled, ControlStep
    PROVE  Settled'
<1> USE DEF kernel, control
<1>0. /\ cb \in Blocks /\ rcb \in [Anchors -> Rcb] /\ Anchors = {"L", "R"}
  BY DEF TypeOK, Blocks, Anchors
<1>1. CASE LeftSyn
  <2>1. CASE UNCHANGED <<rcb, nb, two, cb>>
    BY <1>1, <2>1 DEF LeftSyn, Settled
  <2>2. CASE rcb["L"] = "none"
    <3>1. /\ cb'["L"].state = "SYN_SENT" /\ cb'["L"].other
          /\ ~cb'["L"].state_t /\ cb'["R"] = cb["R"]
      BY <1>0, <1>1, <2>2 DEF LeftSyn, Blocks, ControlBlock
    <3>2. rcb'["L"] = "set"  BY <1>0, <1>1, <2>2 DEF LeftSyn
    <3>3. ~filling /\ \A m \in ctl : m.type # "ACK"
      BY <1>0, <2>2 DEF Settled
    <3> QED  BY <1>0, <1>1, <3>1, <3>2, <3>3 DEF LeftSyn, Settled
  <2> QED  BY <1>1, <2>1, <2>2 DEF LeftSyn
<1>2. CASE LeftSynAllocFails
  <2>1. rcb'["L"] = "wild"  BY <1>0, <1>2 DEF LeftSynAllocFails
  <2> QED  BY <1>2, <2>1 DEF LeftSynAllocFails, Settled
<1>3. ASSUME NEW m \in ctl, RightSyn(m) PROVE Settled'
  <2>1. /\ cb'["L"] = cb["L"] /\ ~cb'["R"].state_t
        /\ cb'["R"].other = cb["R"].other /\ cb'["R"].state = cb["R"].state
    BY <1>0, <1>3 DEF RightSyn, Blocks, ControlBlock
  <2>2. rcb'["L"] = rcb["L"] /\ ctl' = ctl /\ filling' = filling
    BY <1>0, <1>3 DEF RightSyn
  <2> QED  BY <1>0, <2>1, <2>2 DEF Settled
<1>4. CASE RightSynAck
  <2>1. /\ cb'["L"] = cb["L"] /\ cb'["R"].other
        /\ cb'["R"].state = "SYN_RECEIVED" /\ cb'["R"].state_t = cb["R"].state_t
    BY <1>0, <1>4 DEF RightSynAck, Blocks, ControlBlock
  <2>2. rcb'["L"] = rcb["L"] /\ filling' = filling  BY <1>4 DEF RightSynAck
  <2>3. \A m \in ctl' : m \in ctl \/ m.type = "SYN_ACK"
    BY <1>4 DEF RightSynAck
  <2>4. \A m \in ctl' : /\ m.type # "STATE_TRANSFERRED"
                        /\ m.type = "ACK" => cb'["L"].state = "ESTABLISHED"
                        /\ m.type = "SYN_ACK" => cb'["R"].other
    BY <2>1, <2>3 DEF Settled
  <2>5. \A a \in Anchors : ~cb'[a].state_t  BY <1>0, <2>1 DEF Settled
  <2>6. \A a \in Anchors : ~cb'[a].other => cb'[a].state = "ONE_PATH"
    BY <1>0, <2>1 DEF Settled
  <2>7. cb'["R"].other => cb'["R"].state \in {"SYN_RECEIVED", "ESTABLISHED"}
    BY <2>1
  <2>8. /\ cb'["L"].other => cb'["L"].state \in {"SYN_SENT", "ESTABLISHED"}
        /\ rcb'["L"] = "none" => ~cb'["L"].other
        /\ rcb'["L"] = "set" => cb'["L"].other
        /\ filling' => cb'["L"].state = "ESTABLISHED"
    BY <2>1, <2>2 DEF Settled
  <2> QED  BY <2>4, <2>5, <2>6, <2>7, <2>8 DEF Settled
<1>5. ASSUME NEW m \in ctl, LeftSynAck(m) PROVE Settled'
  <2>1. \A a \in Anchors : /\ cb'[a].other = cb[a].other
                           /\ cb'[a].state = cb[a].state
                           /\ cb'[a].state_t = cb[a].state_t
    BY <1>0, <1>5 DEF LeftSynAck, Blocks, ControlBlock
  <2> QED  BY <1>0, <1>5, <2>1 DEF LeftSynAck, Settled
<1>6. CASE LeftAckLock
  <2>1. cb["L"].other  BY <1>6 DEF LeftAckLock, Settled
  <2>2. /\ cb'["L"].state = "ESTABLISHED" /\ cb'["L"].other = cb["L"].other
        /\ cb'["L"].state_t = cb["L"].state_t /\ cb'["R"] = cb["R"]
    BY <1>0, <1>6, <2>1 DEF LeftAckLock, LeftEstablish, Blocks, ControlBlock, Settled
  <2> QED  BY <1>0, <1>6, <2>1, <2>2 DEF LeftAckLock, Settled
<1>7. CASE LeftAckFill
  BY <1>7 DEF LeftAckFill, Settled
<1>8. CASE LeftFollowsWildPointer
  <2>1. rcb'["L"] = "crashed"  BY <1>0, <1>8 DEF LeftFollowsWildPointer
  <2> QED  BY <1>8, <2>1 DEF LeftFollowsWildPointer, Settled
<1>9. ASSUME NEW m \in ctl, RightAck(m) PROVE Settled'
  <2>1. /\ cb'["L"] = cb["L"] /\ cb'["R"].other = cb["R"].other
        /\ cb'["R"].state = "ESTABLISHED" /\ cb'["R"].state_t = cb["R"].state_t
        /\ cb["R"].other
    BY <1>0, <1>9 DEF RightAck, Blocks, ControlBlock
  <2> QED  BY <1>0, <1>9, <2>1 DEF RightAck, Settled
<1>10. ~LeftAckStateTransfer /\ \A a \in Anchors : ~SendStateTransferred(a)
  BY DEF LeftAckStateTransfer, SendStateTransferred
<1>11. \A m \in ctl : ~LeftStateTransferred(m) /\ ~RightStateTransferred(m)
  BY DEF LeftStateTransferred, RightStateTransferred, Settled
<1> QED  BY <1>1, <1>2, <1>3, <1>4, <1>5, <1>6, <1>7, <1>8, <1>9, <1>10, <1>11
         DEF ControlStep

LEMMA SettledStep ==
    ASSUME ~StateTransfer, TypeOK, Settled, [Next]_vars
    PROVE  Settled'
<1>1. CASE ControlStep  BY <1>1, SettledControlStep
<1>2. CASE DataStep  BY <1>2, DataStepKeeps DEF Settled, Kept, Anchors
<1>3. CASE UNCHANGED vars  BY <1>3 DEF Settled, vars, kernel, control
<1> QED  BY <1>1, <1>2, <1>3 DEF Next

-----------------------------------------------------------------------------
\* The end of a payload, in numbers, is compared as it should with the cutoff.
LEMMA CutoffCompares ==
    ASSUME CutInv, TypeOK, NEW p \in Pos
    PROVE  After(SeqOf(Sender, p), cb[Sender].seq_cutoff) <=> p > oldEnd
<1>1. ISeq[Sender] \in Num /\ p \in 0 .. H - 1 /\ oldEnd \in 0 .. H - 1
  BY ConstantTypes DEF TypeOK
<1> QED  BY <1>1, AfterShift DEF CutInv, CutoffExact, SeqOf

LEMMA CutoffComparesBefore ==
    ASSUME CutInv, TypeOK, NEW p \in Pos
    PROVE  Before(SeqOf(Sender, p), cb[Sender].seq_cutoff) <=> p < oldEnd
<1>1. ISeq[Sender] \in Num /\ p \in 0 .. H - 1 /\ oldEnd \in 0 .. H - 1
  BY ConstantTypes DEF TypeOK
<1>2. After(Wrap(ISeq[Sender] + oldEnd), Wrap(ISeq[Sender] + p)) <=> oldEnd > p
  BY <1>1, AfterShift
<1> QED  BY <1>1, <1>2 DEF CutInv, CutoffExact, SeqOf, After

\* Payload sent before the switch moves the cutoff; after it, payload on the
\* old path is within the cutoff.
LEMMA SendDataCutoff ==
    ASSUME TypeOK, Settled, CutInv,
           NEW s \in Pos, NEW e \in Pos, NEW lost \in BOOLEAN, SendData(s, e, lost)
    PROVE  /\ cb'[Sender].seq_cutoff = SeqOf(Sender, oldEnd')
           /\ oldEnd' <= N + 1
           /\ Switched => oldEnd' = oldEnd
<1> DEFINE c   == cb[Sender]
           pos == DataEnd(e)
           end == SeqOf(Sender, pos)
           new == SeqTakesNewPath(c, end)
<1>1. /\ cb' = [cb EXCEPT ![Sender] = IF new THEN c ELSE RecordSeq(c, end)]
      /\ oldEnd' = IF new THEN oldEnd ELSE MaxOf(oldEnd, pos)
  BY DEF SendData
<1>2. /\ cb \in Blocks /\ c \in ControlBlock /\ Sender \in {"L", "R"}
      /\ oldEnd \in Int /\ pos \in Pos /\ pos \in Int /\ oldEnd <= N + 1
  BY ConstantTypes, PositionTypes DEF TypeOK, Blocks, Anchors, Pos, CutInv
<1>3. cb'[Sender] = IF new THEN c ELSE RecordSeq(c, end)
  <2> HIDE DEF c, end, new
  <2> QED  BY <1>1, <1>2 DEF Blocks, Anchors
<1>4. pos <= N + 1  BY <1>2, ConstantTypes DEF DataEnd, Pos
<1>5. c.seq_cutoff = SeqOf(Sender, oldEnd)  BY DEF CutInv, CutoffExact
<1>6. /\ After(end, c.seq_cutoff) <=> pos > oldEnd
      /\ Before(end, c.seq_cutoff) <=> pos < oldEnd
  BY <1>2, CutoffCompares, CutoffComparesBefore
<1>7. Sender \in Anchors /\ ~c.state_t  BY <1>2 DEF Settled, Anchors
<1>8. CASE new
  <2>1. cb'[Sender] = c /\ oldEnd' = oldEnd  BY <1>1, <1>3, <1>8
  <2> QED  BY <1>2, <1>5, <2>1
<1>9. CASE ~new /\ Switched
  <2>1. c.other /\ c.state \in {"SYN_RECEIVED", "ESTABLISHED"}
    BY <1>2, <1>9 DEF Switched, Settled
  <2>2. ~PickPathSeq(c, end)  BY <1>9, <2>1 DEF SeqTakesNewPath
  <2>3. pos < oldEnd  BY <1>6, <1>7, <2>2 DEF PickPathSeq
  <2>4. RecordSeq(c, end) = c  BY <2>1 DEF RecordSeq
  <2>5. MaxOf(oldEnd, pos) = oldEnd  BY <1>2, <2>3 DEF MaxOf
  <2> QED  BY <1>1, <1>2, <1>3, <1>5, <1>9, <2>4, <2>5
<1>10. CASE ~new /\ ~Switched
  <2>1. ~c.other \/ c.state = "SYN_SENT"  BY <1>10 DEF Switched
  <2>2. CASE pos > oldEnd
    <3>1. RecordSeq(c, end) = [c EXCEPT !.seq_cutoff = end]
      BY <1>6, <2>1, <2>2 DEF RecordSeq
    <3>2. RecordSeq(c, end).seq_cutoff = end  BY <1>2, <3>1 DEF ControlBlock
    <3>3. MaxOf(oldEnd, pos) = pos  BY <1>2, <2>2 DEF MaxOf
    <3> QED  BY <1>1, <1>3, <1>4, <1>10, <3>2, <3>3
  <2>3. CASE ~(pos > oldEnd)
    <3>1. RecordSeq(c, end) = c  BY <1>6, <2>3 DEF RecordSeq
    <3>2. MaxOf(oldEnd, pos) = oldEnd  BY <1>2, <2>3 DEF MaxOf
    <3> QED  BY <1>1, <1>2, <1>3, <1>5, <1>10, <3>1, <3>2
  <2> QED  BY <2>2, <2>3
<1> QED  BY <1>8, <1>9, <1>10

\* An announcement was made by an anchor that has switched.
LEMMA AnnouncedSwitched ==
    ASSUME Settled, NEW m \in ctl, m.type = Announcement
    PROVE  Switched
<1>1. Sender \in Anchors /\ Sender \in {"L", "R"}  BY ConstantTypes DEF Anchors
<1>2. CASE Sender = "L"
  <2>1. cb["L"].state = "ESTABLISHED"  BY <1>2 DEF Announcement, Settled
  <2> QED  BY <1>1, <1>2, <2>1 DEF Settled, Switched
<1>3. CASE Sender = "R"
  <2>1. cb["R"].other  BY <1>3 DEF Announcement, Settled
  <2> QED  BY <1>3, <2>1 DEF Settled, Switched
<1> QED  BY <1>1, <1>2, <1>3

\* A step that leaves the sending anchor's cutoff alone, and announces only it.
LEMMA CutoffKept ==
    ASSUME CutInv, oldEnd' = oldEnd,
           cb'[Sender].seq_cutoff = cb[Sender].seq_cutoff,
           \A m \in ctl' : m.type = Announcement => m \in ctl \/ m.cut = WireOf(oldEnd)
    PROVE  CutInv'
BY DEF CutInv, CutoffExact, AnnouncedCutoff, WireOf, SeqOf, AckOf

LEMMA CutoffControlStep ==
    ASSUME ~StateTransfer, TypeOK, Numbers, Settled, CutInv, ControlStep
    PROVE  CutInv'
<1> USE DEF kernel, control, ends
<1>0. /\ cb \in Blocks /\ Anchors = {"L", "R"} /\ Sender \in {"L", "R"}
      /\ oldEnd \in Pos
  BY ConstantTypes DEF TypeOK, Blocks, Anchors
<1>1. oldEnd' = oldEnd
  BY DEF ControlStep, LeftSyn, LeftSynAllocFails, RightSyn, RightSynAck,
         LeftSynAck, LeftAckLock, LeftAckFill, LeftAckStateTransfer,
         LeftFollowsWildPointer, RightAck, SendStateTransferred,
         LeftStateTransferred, RightStateTransferred
<1>2. cb'[Sender].seq_cutoff = cb[Sender].seq_cutoff
  <2>1. CASE LeftSyn \/ LeftSynAllocFails \/ LeftFollowsWildPointer
    BY <1>0, <2>1 DEF LeftSyn, LeftSynAllocFails, LeftFollowsWildPointer, Blocks,
                      ControlBlock
  <2>2. CASE RightSynAck \/ \E m \in ctl : RightSyn(m)
    BY <1>0, <2>2 DEF RightSyn, RightSynAck, Blocks, ControlBlock
  <2>3. CASE LeftAckLock \/ LeftAckFill
    BY <1>0, <2>3 DEF LeftAckLock, LeftEstablish, LeftAckFill, Blocks, ControlBlock
  <2>4. CASE \E m \in ctl : LeftSynAck(m) \/ RightAck(m)
    BY <1>0, <2>4 DEF LeftSynAck, RightAck, Blocks, ControlBlock
  <2>5. CASE LeftAckStateTransfer \/ \E a \in Anchors : SendStateTransferred(a)
    BY <2>5 DEF LeftAckStateTransfer, SendStateTransferred
  <2>6. CASE \E m \in ctl : LeftStateTransferred(m) \/ RightStateTransferred(m)
    BY <2>6 DEF LeftStateTransferred, RightStateTransferred, Settled
  <2> QED  BY <2>1, <2>2, <2>3, <2>4, <2>5, <2>6 DEF ControlStep
<1>3. CASE RightSynAck
  <2>1. \A m \in ctl' : m \in ctl \/ /\ m.type = "SYN_ACK"
                                     /\ m.cut = NewSeq("R", cb["R"].seq_cutoff)
    <3>1. \A m \in ctl' :
             m \in ctl \/ m = [type |-> "SYN_ACK",
                              cut |-> NewSeq("R", cb["R"].seq_cutoff)]
      BY <1>3 DEF RightSynAck
    <3> QED  BY <3>1
  <2>2. CASE Sender = "L"
    BY <1>1, <1>2, <2>1, <2>2, CutoffKept DEF Announcement
  <2>3. CASE Sender = "R"
    <3>1. nb[Sender].up  BY <1>3, <2>3 DEF RightSynAck, Numbers
    <3>2. NewSeq("R", cb["R"].seq_cutoff) = WireOf(oldEnd)
      BY <1>0, <2>3, <3>1, SenderTranslates DEF CutInv, CutoffExact
    <3> QED  BY <1>1, <1>2, <2>1, <3>2, CutoffKept
  <2> QED  BY <1>0, <2>2, <2>3
<1>4. CASE LeftAckFill
  <2>1. \A m \in ctl' : m \in ctl \/ /\ m.type = "ACK"
                                     /\ m.cut = cb["L"].seq_cutoff
    <3>1. \A m \in ctl' :
             m \in ctl \/ m = [type |-> "ACK", cut |-> cb["L"].seq_cutoff]
      BY <1>4 DEF LeftAckFill
    <3> QED  BY <3>1
  <2>2. CASE Sender = "R"
    BY <1>1, <1>2, <2>1, <2>2, CutoffKept DEF Announcement
  <2>3. CASE Sender = "L"
    <3>1. cb["L"].seq_cutoff = WireOf(oldEnd)
      BY <2>3 DEF CutInv, CutoffExact, WireOf
    <3> QED  BY <1>1, <1>2, <2>1, <3>1, CutoffKept
  <2> QED  BY <1>0, <2>2, <2>3
<1>5. CASE LeftSyn
  <2>1. \A m \in ctl' : m \in ctl \/ m.type = "SYN"  BY <1>5 DEF LeftSyn
  <2> QED  BY <1>1, <1>2, <2>1, CutoffKept DEF Announcement
<1>6. CASE ctl' = ctl
  BY <1>1, <1>2, <1>6, CutoffKept
<1> QED  BY <1>3, <1>4, <1>5, <1>6
         DEF ControlStep, LeftSynAllocFails, RightSyn, LeftSynAck, LeftAckLock,
             LeftAckStateTransfer, LeftFollowsWildPointer, RightAck,
             SendStateTransferred, LeftStateTransferred, RightStateTransferred

LEMMA CutoffDataStep ==
    ASSUME TypeOK, Settled, CutInv, DataStep
    PROVE  CutInv'
<1>1. Sender \in Anchors /\ ctl' = ctl  BY ConstantTypes, DataStepKeeps
<1>2. CASE \E s, e \in Pos, lost \in BOOLEAN : SendData(s, e, lost)
  <2>1. /\ cb'[Sender].seq_cutoff = SeqOf(Sender, oldEnd') /\ oldEnd' <= N + 1
        /\ Switched => oldEnd' = oldEnd
    BY <1>2, SendDataCutoff
  <2>2. AnnouncedCutoff'
    <3>1. ASSUME NEW m \in ctl, m.type = Announcement
          PROVE  m.cut = WireOf(oldEnd) /\ oldEnd' = oldEnd
      BY <2>1, <3>1, AnnouncedSwitched DEF CutInv, AnnouncedCutoff
    <3>2. \A m \in ctl' : m.type = Announcement => m.cut = WireOf(oldEnd')
      BY <1>1, <3>1
    <3> QED  BY <3>2 DEF AnnouncedCutoff, Announcement, WireOf, SeqOf, AckOf
  <2> QED  BY <2>1, <2>2 DEF CutInv, CutoffExact, SeqOf
<1>3. CASE /\ oldEnd' = oldEnd
           /\ \A x \in Anchors : cb'[x].seq_cutoff = cb[x].seq_cutoff
  BY <1>1, <1>3, CutoffKept
<1> QED  BY <1>2, <1>3, DataStepKeeps

LEMMA CutoffStep ==
    ASSUME ~StateTransfer, TypeOK, Numbers, Settled, CutInv, [Next]_vars
    PROVE  CutInv'
<1>1. CASE ControlStep  BY <1>1, CutoffControlStep
<1>2. CASE DataStep  BY <1>2, CutoffDataStep
<1>3. CASE UNCHANGED vars
  BY <1>3 DEF CutInv, CutoffExact, AnnouncedCutoff, Announcement, WireOf, SeqOf,
              AckOf, vars, kernel, control, ends
<1> QED  BY <1>1, <1>2, <1>3 DEF Next

LEMMA CutoffInit ==
    ASSUME LeftIsEndpoint \/ Sender = "R", Init
    PROVE  Settled /\ CutInv
<1>1. Sender \in Anchors /\ ISeq[Sender] \in Num /\ oldEnd = 0 /\ ctl = {}
  BY ConstantTypes DEF Init
<1>2. cb[Sender].seq_cutoff = ISeq[Sender]  BY <1>1 DEF Init, Anchors
<1>3. SeqOf(Sender, 0) = ISeq[Sender]  BY <1>1, HAssumption DEF SeqOf, Wrap, Num, W
<1>4. CutInv
  BY <1>1, <1>2, <1>3, ConstantTypes DEF CutInv, CutoffExact, AnnouncedCutoff
<1>5. Settled  BY DEF Init, Settled, Anchors
<1> QED  BY <1>4, <1>5

\* Without state transfer, and when the sending anchor saw its own SYN, its
\* seq_cutoff is the end of what it sent on the old path, and every cutoff
\* announced in a DYSCO_SYN_ACK or DYSCO_ACK stays true, although the message
\* takes seq_cutoff after dysco_replace_cb_leftA has released the lock.
THEOREM CutoffCorrect ==
    ASSUME ~StateTransfer, LeftIsEndpoint \/ Sender = "R"
    PROVE  Spec => [](CutoffExact /\ AnnouncedCutoff)
<1>1. Init => Settled /\ CutInv  BY CutoffInit
<1>2. TypeOK /\ StreamInv /\ Settled /\ CutInv /\ [Next]_vars => Settled' /\ CutInv'
  BY SettledStep, CutoffStep DEF StreamInv
<1>3. Init => StreamInv
  BY ConstantTypes DEF Init, StreamInv, Numbers, WireExact, StreamIntact, Anchors
<1>4. CutInv => CutoffExact /\ AnnouncedCutoff  BY DEF CutInv
<1> QED  BY <1>1, <1>2, <1>3, <1>4, StreamStep, TypeCorrect, PTL DEF Spec

-----------------------------------------------------------------------------
\* Once a DYSCO_ACK was sent the end of the old path's data stands.
LEMMA AnnouncedStands ==
    ASSUME TypeOK, Settled, CutInv, DataStep, NEW m \in ctl, m.type = Announcement
    PROVE  oldEnd' = oldEnd
BY AnnouncedSwitched, SendDataCutoff, DataStepKeeps

LEMMA AgreedControlStep ==
    ASSUME ~StateTransfer, Sender = "L", TypeOK, Numbers, Settled, CutInv, Agreed,
           ControlStep
    PROVE  Agreed'
<1> USE DEF kernel, control, ends
<1>0. /\ cb \in Blocks /\ Anchors = {"L", "R"} /\ Receiver = "R" /\ oldEnd \in Pos
  BY DEF TypeOK, Blocks, Anchors, Receiver
<1>1. oldEnd' = oldEnd /\ ctl \subseteq ctl'
  BY DEF ControlStep, LeftSyn, LeftSynAllocFails, RightSyn, RightSynAck,
         LeftSynAck, LeftAckLock, LeftAckFill, LeftAckStateTransfer,
         LeftFollowsWildPointer, RightAck, SendStateTransferred,
         LeftStateTransferred, RightStateTransferred
<1>2. ASSUME cb'["R"].state = cb["R"].state, cb'["R"].ack_cutoff = cb["R"].ack_cutoff
      PROVE  Agreed'
  BY <1>1, <1>2 DEF Agreed, AckOf
<1>3. CASE LeftSyn \/ LeftSynAllocFails \/ LeftFollowsWildPointer
  BY <1>0, <1>2, <1>3 DEF LeftSyn, LeftSynAllocFails, LeftFollowsWildPointer, Blocks
<1>4. ASSUME NEW m \in ctl, RightSyn(m) PROVE Agreed'
  BY <1>0, <1>2, <1>4 DEF RightSyn, Blocks, ControlBlock
<1>5. CASE RightSynAck
  <2>1. cb'["R"].state = "SYN_RECEIVED"
    BY <1>0, <1>5 DEF RightSynAck, Blocks, ControlBlock
  <2> QED  BY <2>1 DEF Agreed
<1>6. ASSUME NEW m \in ctl, LeftSynAck(m) PROVE Agreed'
  BY <1>0, <1>2, <1>6 DEF LeftSynAck, Blocks
<1>7. CASE LeftAckLock \/ LeftAckFill
  BY <1>0, <1>2, <1>7 DEF LeftAckLock, LeftEstablish, LeftAckFill, Blocks
<1>8. ASSUME NEW m \in ctl, RightAck(m) PROVE Agreed'
  <2>1. m.type = "ACK" /\ m.cut = WireOf(oldEnd)
    BY <1>8 DEF RightAck, CutInv, AnnouncedCutoff, Announcement
  <2>2. nb[Receiver].up  BY <1>0, <1>8 DEF RightAck, Numbers
  <2>3. HostSeq("R", m.cut) = AckOf("R", oldEnd)
    BY <1>0, <2>1, <2>2, ReceiverTranslates
  <2>4. cb'["R"].ack_cutoff = HostSeq("R", m.cut)
    BY <1>0, <1>8 DEF RightAck, Blocks, ControlBlock
  <2> QED  BY <1>1, <2>1, <2>3, <2>4 DEF Agreed, AckOf
<1>9. ~LeftAckStateTransfer /\ \A a \in Anchors : ~SendStateTransferred(a)
  BY DEF LeftAckStateTransfer, SendStateTransferred
<1>10. \A m \in ctl : ~LeftStateTransferred(m) /\ ~RightStateTransferred(m)
  BY DEF LeftStateTransferred, RightStateTransferred, Settled
<1> QED  BY <1>3, <1>4, <1>5, <1>6, <1>7, <1>8, <1>9, <1>10 DEF ControlStep

LEMMA AgreedStep ==
    ASSUME ~StateTransfer, Sender = "L", TypeOK, Numbers, Settled, CutInv, Agreed,
           [Next]_vars
    PROVE  Agreed'
<1>1. CASE ControlStep  BY <1>1, AgreedControlStep
<1>2. CASE DataStep
  <2>1. ctl' = ctl /\ Kept("R")  BY <1>2, DataStepKeeps DEF Anchors
  <2>2. ASSUME NEW m \in ctl, m.type = "ACK" PROVE oldEnd' = oldEnd
    BY <1>2, <2>2, AnnouncedStands DEF Announcement
  <2> QED  BY <2>1, <2>2 DEF Agreed, Kept, AckOf
<1>3. CASE UNCHANGED vars
  BY <1>3 DEF Agreed, AckOf, vars, kernel, control, ends
<1> QED  BY <1>1, <1>2, <1>3 DEF Next

\* Without state transfer, and for data from the client's host to the right
\* anchor, the right anchor, once it has received a DYSCO_ACK, moves its acks
\* exactly where the left one moved its data, whatever cutoff it guessed from
\* the data it saw before, and after every DYSCO_SYN_ACK sent again.
THEOREM CutoffAgreed ==
    ASSUME ~StateTransfer, Sender = "L", LeftIsEndpoint
    PROVE  Spec => []CutoffAgreement
<1>1. Init => Settled /\ CutInv  BY CutoffInit
<1>2. Init => StreamInv /\ Agreed
  BY ConstantTypes
     DEF Init, StreamInv, Numbers, WireExact, StreamIntact, Agreed, Anchors
<1>3. TypeOK /\ StreamInv /\ Settled /\ CutInv /\ Agreed /\ [Next]_vars
         => Settled' /\ CutInv' /\ Agreed'
  BY SettledStep, CutoffStep, AgreedStep DEF StreamInv
<1>4. Agreed => CutoffAgreement  BY DEF Agreed, CutoffAgreement, Receiver
<1> QED  BY <1>1, <1>2, <1>3, <1>4, StreamStep, TypeCorrect, PTL DEF Spec

-----------------------------------------------------------------------------
(***************************************************************************)
(* With state transfer the switch is the state ESTABLISHED itself.         *)
(***************************************************************************)

\* Nothing leaves the left anchor on the new path before it is ESTABLISHED, and
\* a DYSCO_SYN sent again does not take that back.
Transferring ==
    /\ cb["L"].other => cb["L"].state_t
    /\ rcb["L"] = "none" => ~cb["L"].other
    /\ newData # {} => cb["L"].other /\ cb["L"].state = "ESTABLISHED"

LEMMA TransferringControlStep ==
    ASSUME StateTransfer, TypeOK, Transferring, ControlStep
    PROVE  Transferring' /\ oldEnd' = oldEnd
<1> USE DEF kernel, control, packets, ends
<1>0. cb \in Blocks /\ rcb \in [Anchors -> Rcb] /\ Anchors = {"L", "R"}
  BY DEF TypeOK, Blocks, Anchors
<1>1. oldEnd' = oldEnd /\ newData' = newData
  BY DEF ControlStep, LeftSyn, LeftSynAllocFails, RightSyn, RightSynAck,
         LeftSynAck, LeftAckLock, LeftAckFill, LeftAckStateTransfer,
         LeftFollowsWildPointer, RightAck, SendStateTransferred,
         LeftStateTransferred, RightStateTransferred
<1>2. ASSUME cb'["L"].other = cb["L"].other, cb'["L"].state_t = cb["L"].state_t,
             cb["L"].state = "ESTABLISHED" => cb'["L"].state = "ESTABLISHED",
             rcb'["L"] = "none" => rcb["L"] = "none"
      PROVE  Transferring'
  BY <1>1, <1>2 DEF Transferring
<1> SUFFICES Transferring'  BY <1>1
<1>3. CASE LeftSyn
  <2>1. CASE UNCHANGED <<rcb, nb, two, cb>>  BY <1>2, <2>1
  <2>2. CASE rcb["L"] = "none" /\ rcb' = [rcb EXCEPT !["L"] = "set"]
    <3>1. cb'["L"].other /\ cb'["L"].state_t
      BY <1>0, <1>3, <2>2 DEF LeftSyn, Blocks, ControlBlock
    <3>2. newData' = {} /\ rcb'["L"] = "set"
      BY <1>0, <1>1, <2>2 DEF Transferring
    <3> QED  BY <3>1, <3>2 DEF Transferring
  <2> QED  BY <1>3, <2>1, <2>2 DEF LeftSyn
<1>4. CASE LeftSynAllocFails \/ LeftFollowsWildPointer
  <2>1. rcb'["L"] # "none" /\ cb' = cb
    BY <1>0, <1>4 DEF LeftSynAllocFails, LeftFollowsWildPointer
  <2> QED  BY <1>2, <2>1
<1>5. CASE RightSynAck \/ \E m \in ctl : \/ RightSyn(m) \/ RightAck(m)
                                         \/ RightStateTransferred(m)
  <2>1. cb'["L"] = cb["L"] /\ rcb'["L"] = rcb["L"]
    BY <1>0, <1>5 DEF RightSyn, RightSynAck, RightAck, RightStateTransferred, Blocks
  <2> QED  BY <1>2, <2>1
<1>6. CASE LeftAckLock \/ \E m \in ctl : LeftStateTransferred(m)
  <2>1. LeftEstablish /\ rcb' = rcb
    BY <1>6 DEF LeftAckLock, LeftStateTransferred
  <2>2. /\ cb'["L"].other = cb["L"].other /\ cb'["L"].state_t = cb["L"].state_t
        /\ cb["L"].state = "ESTABLISHED" => cb'["L"].state = "ESTABLISHED"
    BY <1>0, <2>1 DEF LeftEstablish, Blocks, ControlBlock
  <2> QED  BY <1>2, <2>1, <2>2
<1>7. ASSUME NEW m \in ctl, LeftSynAck(m) PROVE Transferring'
  <2>1. /\ cb'["L"].other = cb["L"].other /\ cb'["L"].state_t = cb["L"].state_t
        /\ cb'["L"].state = cb["L"].state /\ rcb' = rcb
    BY <1>0, <1>7 DEF LeftSynAck, Blocks, ControlBlock
  <2> QED  BY <1>2, <2>1
<1>8. CASE LeftAckFill \/ LeftAckStateTransfer \/ \E a \in Anchors : SendStateTransferred(a)
  <2>1. cb' = cb /\ rcb' = rcb
    BY <1>8 DEF LeftAckFill, LeftAckStateTransfer, SendStateTransferred
  <2> QED  BY <1>2, <2>1
<1> QED  BY <1>1, <1>3, <1>4, <1>5, <1>6, <1>7, <1>8 DEF ControlStep

LEMMA TransferringDataStep ==
    ASSUME Sender = "L", TypeOK, Transferring, DataStep
    PROVE  Transferring' /\ (newData # {} => oldEnd' = oldEnd)
<1> USE DEF packets
<1>0. /\ cb["L"] \in ControlBlock /\ "L" \in Anchors
  BY DEF TypeOK, Anchors
<1>1. Kept("L") /\ rcb' = rcb  BY <1>0, DataStepKeeps
<1>2. ASSUME \/ newData' = newData
             \/ cb["L"].other /\ cb["L"].state = "ESTABLISHED"
      PROVE  Transferring'
  BY <1>1, <1>2 DEF Transferring, Kept
<1>3. ASSUME NEW s \in Pos, NEW e \in Pos, NEW lost \in BOOLEAN, SendData(s, e, lost)
      PROVE  Transferring' /\ (newData # {} => oldEnd' = oldEnd)
  <2> DEFINE c   == cb["L"]
             end == SeqOf("L", DataEnd(e))
             new == SeqTakesNewPath(c, end)
  <2>1. /\ oldEnd' = IF new THEN oldEnd ELSE MaxOf(oldEnd, DataEnd(e))
        /\ ~new => newData' = newData
    BY <1>3 DEF SendData
  <2> HIDE DEF end
  <2>2. new => c.other /\ c.state = "ESTABLISHED"
    BY DEF SeqTakesNewPath, PickPathSeq, Transferring
  <2>3. newData # {} => new
    BY DEF SeqTakesNewPath, PickPathSeq, Transferring
  <2> QED  BY <1>2, <2>1, <2>2, <2>3
<1>4. ASSUME NEW s \in Pos, NEW e \in Pos, NEW lost \in BOOLEAN, SendBare(s, e, lost)
      PROVE  Transferring' /\ oldEnd' = oldEnd
  <2> DEFINE r == AckPath(cb["L"], AckOf("L", 1), e > s)
  <2>1. oldEnd' = oldEnd /\ (~r.new => newData' = newData)
    BY <1>4 DEF SendBare
  <2>2. r.new => cb["L"].other /\ cb["L"].state = "ESTABLISHED"
    BY DEF AckPath, PickPathAck, Transferring
  <2> HIDE DEF r
  <2> QED  BY <1>2, <2>1, <2>2
<1>5. CASE oldEnd' = oldEnd /\ newData' = newData  BY <1>2, <1>5
<1> QED  BY <1>3, <1>4, <1>5
         DEF DataStep, ReceiverAck, NewArrive, NewAckArrive, OldArrive, OldDeliver,
             OldAckArrive

\* With state transfer, once the left anchor has sent anything on the new path it
\* sends no new data on the old one, whatever messages its daemon repeats.
THEOREM SwitchedForGood ==
    ASSUME StateTransfer, Sender = "L"
    PROVE  Spec => NewPathIsForGood
<1>1. Init => Transferring  BY DEF Init, Transferring, Anchors
<1>2. TypeOK /\ Transferring /\ [Next]_vars
        => Transferring' /\ (newData # {} => oldEnd' = oldEnd)
  <2>1. CASE UNCHANGED vars
    BY <2>1 DEF Transferring, vars, kernel, packets, ends
  <2> QED  BY <2>1, TransferringControlStep, TransferringDataStep DEF Next
<1>3. TypeOK /\ Transferring /\ [Next]_vars => [newData # {} => oldEnd' = oldEnd]_vars
  BY <1>2
<1> QED  BY <1>1, <1>2, <1>3, TypeCorrect, PTL DEF Spec, NewPathIsForGood

-----------------------------------------------------------------------------
(***************************************************************************)
(* Acks change paths where data does.                                      *)
(***************************************************************************)

\* The new path carries data only after the right anchor's DYSCO_SYN_ACK has come,
\* and the right anchor then sees each of its segments (two_paths).
Answering ==
    /\ cb["L"].state = "ESTABLISHED" => answered
    /\ answered => cb["R"].other
    /\ rcb["R"] = "set" => two["R"].new
    /\ cb["R"].other => two["R"].new
    /\ cb["R"].state = "ESTABLISHED" => cb["R"].valid_ack_cut
    /\ cb["R"].valid_ack_cut => cb["R"].other
    /\ newData # {} => cb["L"].state = "ESTABLISHED"
    /\ \A p \in newData : p.s < DataEnd(p.e)

\* The old path was used up to n; it has brought or will bring byte n.
OnOld(n) == n <= 1 \/ n <= oldEnd \/ \E seg \in oldData : n <= seg[2]
FromOld(n) == n < mRcv \/ n < oldEnd

\* c is the right anchor's cutoff, if it has one: what the receiver has from beyond
\* it came on the new path, and only that.
Apart(c) ==
    /\ cb["R"].valid_ack_cut => cb["R"].ack_cutoff = AckOf("R", c)
    /\ \A t \in rcvd : FromOld(t[1]) \/ (cb["R"].valid_ack_cut /\ c <= t[1])

SplitAcks == OnOld(mRcv) /\ OnOld(mUna) /\ \E c \in Pos : Apart(c)

LEMMA AnsweringControlStep ==
    ASSUME ~StateTransfer, TypeOK, Settled, Answering, ControlStep
    PROVE  Answering'
<1> USE DEF kernel, control, packets, ends
<1>0. /\ cb \in Blocks /\ rcb \in [Anchors -> Rcb] /\ Anchors = {"L", "R"}
      /\ two \in [Anchors -> [old : BOOLEAN, new : BOOLEAN]]
  BY DEF TypeOK, Blocks, Anchors
<1>1. newData' = newData  BY ControlKeepsData
<1>2. CASE LeftSyn
  <2>1. CASE UNCHANGED <<rcb, nb, two, cb>>
    BY <1>1, <1>2, <2>1 DEF LeftSyn, Answering
  <2>2. CASE rcb["L"] = "none"
    <3>1. /\ cb'["L"].state = "SYN_SENT" /\ cb'["R"] = cb["R"]
          /\ two'["R"] = two["R"] /\ rcb'["R"] = rcb["R"]
      BY <1>0, <1>2, <2>2 DEF LeftSyn, Blocks, ControlBlock
    <3>2. newData = {}  BY <1>0, <2>2 DEF Settled, Answering
    <3> QED  BY <1>1, <1>2, <3>1, <3>2 DEF LeftSyn, Answering
  <2> QED  BY <1>2, <2>1, <2>2 DEF LeftSyn
<1>3. CASE LeftSynAllocFails \/ LeftFollowsWildPointer
  <2>1. rcb'["R"] = rcb["R"] /\ cb' = cb /\ two' = two /\ answered' = answered
    BY <1>0, <1>3 DEF LeftSynAllocFails, LeftFollowsWildPointer
  <2> QED  BY <1>1, <2>1 DEF Answering
<1>4. ASSUME NEW m \in ctl, RightSyn(m) PROVE Answering'
  <2>1. /\ cb'["L"] = cb["L"] /\ cb'["R"].other = cb["R"].other
        /\ cb'["R"].state = cb["R"].state
        /\ cb'["R"].valid_ack_cut = cb["R"].valid_ack_cut
        /\ two'["R"].new /\ answered' = answered
    BY <1>0, <1>4 DEF RightSyn, Blocks, ControlBlock
  <2> QED  BY <1>1, <2>1 DEF Answering
<1>5. CASE RightSynAck
  <2>1. /\ cb'["L"] = cb["L"] /\ cb'["R"].state = "SYN_RECEIVED" /\ cb'["R"].other
        /\ two' = two /\ rcb' = rcb /\ answered' = answered /\ rcb["R"] = "set"
    BY <1>0, <1>5 DEF RightSynAck, Blocks, ControlBlock
  <2> QED  BY <1>1, <2>1 DEF Answering
<1>6. ASSUME NEW m \in ctl, LeftSynAck(m) PROVE Answering'
  <2>1. /\ cb'["L"].state = cb["L"].state /\ cb'["R"] = cb["R"]
        /\ two' = two /\ rcb' = rcb /\ answered'
    BY <1>0, <1>6 DEF LeftSynAck, Blocks, ControlBlock
  <2>2. cb["R"].other  BY <1>6 DEF LeftSynAck, Settled
  <2> QED  BY <1>1, <2>1, <2>2 DEF Answering
<1>7. CASE LeftAckLock
  <2>1. /\ answered /\ cb'["R"] = cb["R"] /\ answered' = answered
        /\ two' = two /\ rcb' = rcb
    BY <1>0, <1>7 DEF LeftAckLock, LeftEstablish, Blocks
  <2>2. cb["L"].state = "ESTABLISHED" => cb'["L"].state = "ESTABLISHED"
    BY <1>0, <1>7 DEF LeftAckLock, LeftEstablish, Blocks, ControlBlock
  <2> QED  BY <1>1, <2>1, <2>2 DEF Answering
<1>8. CASE LeftAckFill  BY <1>1, <1>8 DEF LeftAckFill, Answering
<1>9. ASSUME NEW m \in ctl, RightAck(m) PROVE Answering'
  <2>1. /\ cb'["L"] = cb["L"] /\ cb'["R"].other = cb["R"].other
        /\ cb'["R"].valid_ack_cut /\ two' = two /\ rcb' = rcb /\ answered' = answered
    BY <1>0, <1>9 DEF RightAck, Blocks, ControlBlock
  <2>2. cb["R"].other  BY <1>9 DEF RightAck
  <2> QED  BY <1>1, <2>1, <2>2 DEF Answering
<1>10. ~LeftAckStateTransfer /\ \A a \in Anchors : ~SendStateTransferred(a)
  BY DEF LeftAckStateTransfer, SendStateTransferred
<1>11. \A m \in ctl : ~LeftStateTransferred(m) /\ ~RightStateTransferred(m)
  BY DEF LeftStateTransferred, RightStateTransferred, Settled
<1> QED  BY <1>2, <1>3, <1>4, <1>5, <1>6, <1>7, <1>8, <1>9, <1>10, <1>11 DEF ControlStep

\* What the right anchor's block and two_paths may become by a step of the data path.
LEMMA RightBlock ==
    ASSUME Sender = "L", ~SenderBare, TypeOK, Answering, DataStep
    PROVE  /\ cb["R"].valid_ack_cut => cb'["R"].valid_ack_cut
           /\ two'["R"].new = two["R"].new
           /\ \/ \E p \in newData : NewArrive(p)
              \/ /\ cb'["R"].valid_ack_cut = cb["R"].valid_ack_cut
                 /\ cb'["R"].ack_cutoff = cb["R"].ack_cutoff
<1> USE DEF kernel, control, packets, ends
<1>0. /\ cb \in Blocks /\ Anchors = {"L", "R"} /\ Receiver = "R"
      /\ two \in [Anchors -> [old : BOOLEAN, new : BOOLEAN]]
      /\ cb["R"] \in ControlBlock
  BY DEF TypeOK, Blocks, Anchors, Receiver
<1> DEFINE Same == /\ cb'["R"].valid_ack_cut = cb["R"].valid_ack_cut
                   /\ cb'["R"].ack_cutoff = cb["R"].ack_cutoff
                   /\ two'["R"].new = two["R"].new
<1>1. ASSUME NEW s \in Pos, NEW e \in Pos, NEW lost \in BOOLEAN, SendData(s, e, lost)
      PROVE  Same
  <2>1. cb'["R"] = cb["R"] /\ two' = two  BY <1>0, <1>1 DEF SendData, Blocks
  <2> QED  BY <2>1
<1>2. \A s, e, lost : ~SendBare(s, e, lost)  BY DEF SendBare
<1>3. ASSUME NEW nxt \in 1 .. N + 2, NEW fin \in BOOLEAN, NEW lost \in BOOLEAN,
             ReceiverAck(nxt, fin, lost)
      PROVE  Same
  <2> DEFINE r == AckPath(cb["R"], AckOf("R", nxt), fin)
  <2>1. cb' = [cb EXCEPT !["R"] = r.cb] /\ two' = two  BY <1>0, <1>3 DEF ReceiverAck
  <2>2. r.cb.ack_cutoff = cb["R"].ack_cutoff  BY <1>0, AckPathKeeps
  <2>3. r.cb.valid_ack_cut = cb["R"].valid_ack_cut
    BY <1>0 DEF AckPath, PickPathAck, CountAck, ControlBlock
  <2> HIDE DEF r
  <2> QED  BY <1>0, <2>1, <2>2, <2>3 DEF Blocks
<1>4. ASSUME NEW p \in newData, NewArrive(p)
      PROVE  /\ cb["R"].valid_ack_cut => cb'["R"].valid_ack_cut
             /\ two'["R"].new = two["R"].new
  <2>1. TwoPathsData("R", p.seq) /\ two' = two
    BY <1>0, <1>4 DEF NewArrive, Answering
  <2> QED  BY <1>0, <2>1 DEF TwoPathsData, Blocks, ControlBlock
<1>5. ASSUME NEW path \in {"old", "new"}, NEW ack, TwoPathsAck("L", path, ack)
      PROVE  Same
  BY <1>0, <1>5 DEF TwoPathsAck, Blocks
<1>6. ASSUME NEW p \in 1 .. N + 1, OldDeliver(p) PROVE Same
  <2>1. CASE TwoPathsAck("R", "old", SeqOf("R", 1))
    BY <1>0, <2>1 DEF TwoPathsAck, Blocks, ControlBlock
  <2> QED  BY <1>0, <1>6, <2>1 DEF OldDeliver
<1>7. ASSUME NEW x \in newAcks, NewAckArrive(x) PROVE Same
  BY <1>5, <1>7 DEF NewAckArrive
<1>8. ASSUME NEW p \in 1 .. N + 2, OldAckArrive(p) PROVE Same
  BY <1>5, <1>8 DEF OldAckArrive
<1>9. ASSUME NEW seg \in oldData, OldArrive(seg[1], seg[2]) PROVE Same
  BY <1>9 DEF OldArrive
<1> HIDE DEF Same
<1>10. Same \/ \E p \in newData : NewArrive(p)
  BY <1>1, <1>2, <1>3, <1>6, <1>7, <1>8, <1>9 DEF DataStep
<1> QED  BY <1>4, <1>10 DEF Same

LEMMA AnsweringDataStep ==
    ASSUME Sender = "L", ~SenderBare, TypeOK, Settled, Answering, DataStep
    PROVE  Answering'
<1> USE DEF kernel, control, packets, ends
<1>1. /\ Kept("L") /\ Kept("R") /\ answered' = answered /\ rcb' = rcb
  BY DataStepKeeps DEF Anchors
<1>2. \/ newData' = newData
      \/ \E s, e : /\ newData' = newData \cup {NewPacket(s, e, AckOf(Sender, 1))}
                   /\ s < DataEnd(e) /\ cb["L"].state = "ESTABLISHED"
  <2>1. \A s, e, lost : ~SendBare(s, e, lost)  BY DEF SendBare
  <2>2. ASSUME NEW s, NEW e, NEW lost, SendData(s, e, lost)
        PROVE  \/ newData' = newData
               \/ /\ newData' = newData \cup {NewPacket(s, e, AckOf(Sender, 1))}
                  /\ s < DataEnd(e) /\ cb["L"].state = "ESTABLISHED"
    <3>1. \/ newData' = newData
          \/ /\ newData' = newData \cup {NewPacket(s, e, AckOf(Sender, 1))}
             /\ cb["L"].other /\ cb["L"].state \in {"ESTABLISHED", "SYN_RECEIVED"}
      BY <2>2 DEF SendData, SeqTakesNewPath
    <3>2. s < DataEnd(e)  BY <2>2 DEF SendData
    <3> QED  BY <3>1, <3>2 DEF Settled
  <2> QED  BY <2>1, <2>2 DEF DataStep, ReceiverAck, NewArrive, NewAckArrive, OldArrive,
                             OldDeliver, OldAckArrive
<1>3. /\ newData' # {} => cb'["L"].state = "ESTABLISHED"
      /\ \A p \in newData' : p.s < DataEnd(p.e)
  BY <1>1, <1>2 DEF Answering, Kept, NewPacket
<1>4. cb'["R"].valid_ack_cut => cb'["R"].other
  <2>1. CASE newData # {}
    <3>1. cb["R"].other  BY <2>1 DEF Answering
    <3> QED  BY <1>1, <3>1 DEF Kept
  <2>2. CASE cb'["R"].valid_ack_cut = cb["R"].valid_ack_cut
    BY <1>1, <2>2 DEF Answering, Kept
  <2> QED  BY <2>1, <2>2, RightBlock
<1> QED  BY <1>1, <1>3, <1>4, RightBlock DEF Answering, Kept

LEMMA AnsweringStep ==
    ASSUME ~StateTransfer, Sender = "L", ~SenderBare, TypeOK, Settled, Answering,
           [Next]_vars
    PROVE  Answering'
<1>1. CASE UNCHANGED vars
  BY <1>1 DEF Answering, vars, kernel, control, packets
<1> QED  BY <1>1, AnsweringControlStep, AnsweringDataStep DEF Next

\* Nothing that was used is taken back.
LEMMA OnlyMore ==
    ASSUME TypeOK, DataStep
    PROVE  /\ oldEnd \in Int /\ oldEnd' \in Int /\ oldEnd <= oldEnd'
           /\ mRcv \in Int /\ mRcv' \in Int /\ mRcv <= mRcv'
           /\ oldData \subseteq oldData'
<1> USE DEF packets
<1>0. oldEnd \in Int /\ mRcv \in Int  BY DEF TypeOK, Pos
<1>1. ASSUME NEW s \in Pos, NEW e \in Pos, NEW lost \in BOOLEAN, SendData(s, e, lost)
      PROVE  /\ oldEnd' \in Int /\ oldEnd <= oldEnd' /\ mRcv' = mRcv
             /\ oldData \subseteq oldData'
  <2>1. DataEnd(e) \in Int  BY PositionTypes DEF Pos
  <2>2. oldEnd' = oldEnd \/ oldEnd' = MaxOf(oldEnd, DataEnd(e))
    BY <1>1 DEF SendData
  <2>3. oldEnd' \in Int /\ oldEnd <= oldEnd'  BY <1>0, <2>1, <2>2 DEF MaxOf
  <2> QED  BY <1>1, <2>3 DEF SendData
<1>2. ASSUME NEW seg \in oldData, OldArrive(seg[1], seg[2])
      PROVE  /\ oldEnd' = oldEnd /\ mRcv' \in Int /\ mRcv <= mRcv' /\ oldData' = oldData
  <2>1. seg[2] \in Int  BY DEF TypeOK, Pos
  <2> QED  BY <1>0, <1>2, <2>1 DEF OldArrive
<1>3. \/ \E s, e \in Pos, lost \in BOOLEAN : SendData(s, e, lost)
      \/ \E seg \in oldData : OldArrive(seg[1], seg[2])
      \/ oldEnd' = oldEnd /\ mRcv' = mRcv /\ oldData \subseteq oldData'
  BY DEF DataStep, SendBare, ReceiverAck, NewArrive, NewAckArrive, OldDeliver, OldAckArrive
<1> QED  BY <1>0, <1>1, <1>2, <1>3

LEMMA OnOldStep ==
    ASSUME TypeOK, DataStep, NEW n \in Int, OnOld(n)
    PROVE  n <= 1 \/ n <= oldEnd' \/ \E seg \in oldData' : n <= seg[2]
BY OnlyMore DEF OnOld

\* A step that brings nothing to the receiver, or only what the old path has brought.
LEMMA ApartStep ==
    ASSUME TypeOK, DataStep, NEW c \in Pos, Apart(c),
           cb'["R"].valid_ack_cut = cb["R"].valid_ack_cut,
           cb'["R"].ack_cutoff = cb["R"].ack_cutoff,
           \A t \in rcvd' : t \in rcvd \/ t[1] < mRcv
    PROVE  Apart(c)'
<1>1. \A t \in rcvd : t[1] \in Int /\ c \in Int  BY DEF TypeOK, Pos
<1>2. ASSUME NEW t \in rcvd', t \in rcvd
      PROVE  t[1] < mRcv' \/ t[1] < oldEnd' \/ (cb'["R"].valid_ack_cut /\ c <= t[1])
  BY <1>1, <1>2, OnlyMore DEF Apart, FromOld
<1>3. ASSUME NEW t \in rcvd', t[1] < mRcv, t \notin rcvd, t[1] \in Int
      PROVE  t[1] < mRcv'
  BY <1>3, OnlyMore
<1>4. \A t \in rcvd' : t[1] \in Int
  <2>1. TypeOK'  BY DataTypeStep
  <2> QED  BY <2>1 DEF TypeOK, Pos
<1>5. \A t \in rcvd' : t[1] < mRcv' \/ t[1] < oldEnd' \/ (cb'["R"].valid_ack_cut /\ c <= t[1])
  BY <1>2, <1>3, <1>4
<1>6. cb'["R"].valid_ack_cut => cb'["R"].ack_cutoff = AckOf("R", c)  BY DEF Apart
<1> QED  BY <1>5, <1>6 DEF Apart, FromOld, AckOf

\* The cutoff that the right anchor has after a segment of the new path is not beyond
\* what it had, nor beyond the segment.
LEMMA CutoffLowered ==
    ASSUME Sender = "L", TypeOK, Numbers, WireExact, Settled, Answering, Agreed,
           NEW p \in newData, TwoPathsData("R", p.seq), nb["R"].up, NEW c \in Pos,
           cb["R"].valid_ack_cut => cb["R"].ack_cutoff = AckOf("R", c)
    PROVE  /\ cb'["R"].valid_ack_cut
           /\ \E d \in Pos :
                /\ cb'["R"].ack_cutoff = AckOf("R", d)
                /\ cb["R"].valid_ack_cut => d <= c
                /\ d <= p.s \/ (cb["R"].state = "ESTABLISHED" /\ d = c /\ d = oldEnd)
<1>0. /\ cb \in Blocks /\ Anchors = {"L", "R"} /\ Receiver = "R" /\ cb["R"] \in ControlBlock
      /\ p.s \in Pos /\ p.seq = WireOf(p.s) /\ oldEnd \in Pos
  BY DEF TypeOK, Blocks, Anchors, Receiver, WireExact, Packet
<1>1. HostSeq("R", p.seq) = AckOf("R", p.s)  BY <1>0, ReceiverTranslates
<1>2. two["R"].new /\ cb["R"].state \in {"SYN_RECEIVED", "ESTABLISHED"}
  BY DEF Answering, Settled
<1>3. \A q, r \in Pos : Before(AckOf("R", q), AckOf("R", r)) <=> q < r
  <2>1. IAck["R"] \in Num /\ Pos \subseteq 0 .. H - 1
    BY <1>0, ConstantTypes
  <2>2. \A q, r \in Pos : After(Wrap(IAck["R"] + r), Wrap(IAck["R"] + q)) <=> r > q
    BY <2>1, AfterShift
  <2>3. \A q, r \in Pos : q \in Int /\ r \in Int  BY DEF Pos
  <2> QED  BY <2>2, <2>3 DEF After, AckOf
<1>4. CASE cb["R"].state = "ESTABLISHED"
  <2>1. cb' = cb /\ cb["R"].valid_ack_cut
    BY <1>4 DEF TwoPathsData, Answering
  <2>2. cb["R"].ack_cutoff = AckOf("R", oldEnd)  BY <1>4 DEF Agreed
  <2>3. oldEnd = c
    <3>1. ~Before(AckOf("R", oldEnd), AckOf("R", c)) /\ ~Before(AckOf("R", c), AckOf("R", oldEnd))
      <4>1. AckOf("R", oldEnd) = AckOf("R", c)  BY <2>1, <2>2
      <4>2. ~Before(AckOf("R", oldEnd), AckOf("R", oldEnd))
        BY <1>0, <1>3 DEF Pos
      <4> QED  BY <4>1, <4>2
    <3> QED  BY <1>0, <1>3, <3>1 DEF Pos
  <2> QED  BY <1>0, <1>4, <2>1, <2>2, <2>3 DEF Pos
<1>5. CASE cb["R"].state = "SYN_RECEIVED"
  <2>1. cb' = IF cb["R"].valid_ack_cut => p.s < c
              THEN [cb EXCEPT !["R"].ack_cutoff = AckOf("R", p.s),
                              !["R"].valid_ack_cut = TRUE]
              ELSE cb
    <3>1. CASE cb["R"].valid_ack_cut
      BY <1>0, <1>1, <1>2, <1>3, <1>5, <3>1 DEF TwoPathsData
    <3>2. CASE ~cb["R"].valid_ack_cut
      BY <1>0, <1>1, <1>2, <1>5, <3>2 DEF TwoPathsData
    <3> QED  BY <3>1, <3>2
  <2>2. CASE cb["R"].valid_ack_cut => p.s < c
    <3>1. cb'["R"].valid_ack_cut /\ cb'["R"].ack_cutoff = AckOf("R", p.s)
      BY <1>0, <2>1, <2>2 DEF Blocks, ControlBlock
    <3>2. cb["R"].valid_ack_cut => p.s <= c  BY <1>0, <2>2 DEF Pos
    <3>3. p.s <= p.s  BY <1>0 DEF Pos
    <3> QED  BY <1>0, <3>1, <3>2, <3>3
  <2>3. CASE ~(cb["R"].valid_ack_cut => p.s < c)
    <3>1. cb' = cb /\ cb["R"].valid_ack_cut /\ c <= p.s /\ c <= c
      BY <1>0, <2>1, <2>3 DEF Pos
    <3> QED  BY <3>1
  <2> QED  BY <2>2, <2>3
<1> QED  BY <1>2, <1>4, <1>5

LEMMA ApartNewArrive ==
    ASSUME Sender = "L", TypeOK, Numbers, WireExact, Settled, Answering, Agreed,
           DataStep, NEW c \in Pos, Apart(c), NEW p \in newData, NewArrive(p)
    PROVE  \E d \in Pos : Apart(d)'
<1>0. /\ Receiver = "R" /\ p.s \in Int /\ p.s < DataEnd(p.e) /\ c \in Int
      /\ \A t \in rcvd : t[1] \in Int
  BY DEF Receiver, TypeOK, Packet, Pos, Answering
<1>1. TwoPathsData("R", p.seq) /\ nb["R"].up /\ rcvd' = rcvd \cup Taken(p)
  BY <1>0 DEF NewArrive
<1>2. PICK d \in Pos :
        /\ cb'["R"].valid_ack_cut /\ cb'["R"].ack_cutoff = AckOf("R", d)
        /\ cb["R"].valid_ack_cut => d <= c
        /\ d <= p.s \/ (cb["R"].state = "ESTABLISHED" /\ d = c /\ d = oldEnd)
  BY <1>1, CutoffLowered DEF Apart
<1>3. d \in Int  BY DEF Pos
<1>4. ASSUME NEW t \in rcvd
      PROVE  t[1] < mRcv' \/ t[1] < oldEnd' \/ d <= t[1]
  BY <1>0, <1>2, <1>3, OnlyMore DEF Apart, FromOld
<1>5. ASSUME NEW t \in Taken(p)
      PROVE  t[1] < mRcv' \/ t[1] < oldEnd' \/ d <= t[1]
  <2>1. t[1] = t[2] /\ t[2] \in p.s .. p.e - 1
    <3>1. t[1] = t[2]  BY <1>0, <1>1, TakenExact
    <3> QED  BY <3>1 DEF Taken
  <2>2. p.e \in Int  BY DEF TypeOK, Packet, Pos
  <2>3. t[1] \in Int /\ p.s <= t[1]  BY <1>0, <2>1, <2>2
  <2> QED  BY <1>0, <1>2, <1>3, <2>3, OnlyMore
<1>6. \A t \in rcvd' : t[1] < mRcv' \/ t[1] < oldEnd' \/ d <= t[1]
  BY <1>1, <1>4, <1>5
<1>7. Apart(d)'  BY <1>2, <1>6 DEF Apart, FromOld, AckOf
<1> QED  BY <1>7

\* What the right anchor acknowledges on the old path, lowered or not.
LEMMA AckOnOld ==
    ASSUME ~StateTransfer, Sender = "L", TypeOK, Settled, Answering, SplitAcks,
           NEW nxt \in 1 .. N + 2, NEW fin \in BOOLEAN, IsRcvNxt(nxt),
           ~AckPath(cb["R"], AckOf("R", nxt), fin).new
    PROVE  OnOld(Offset(IAck["R"], AckPath(cb["R"], AckOf("R", nxt), fin).ack))
<1> DEFINE r == AckPath(cb["R"], AckOf("R", nxt), fin)
<1>0. /\ cb["R"] \in ControlBlock /\ "R" \in Anchors /\ nxt \in Pos /\ nxt \in Int
      /\ N \in Nat /\ IAck["R"] \in Num /\ Pos \subseteq Num /\ Pos \subseteq 0 .. H - 1
      /\ mRcv \in Int /\ oldEnd \in Int /\ Pos \subseteq Int
  BY ConstantTypes DEF TypeOK, Anchors, Pos
<1>1. \A q \in Pos : Offset(IAck["R"], AckOf("R", q)) = q
  BY <1>0, OffsetShift DEF AckOf
<1>2. PICK c \in Pos : Apart(c)  BY DEF SplitAcks
<1>3. c \in Int  BY <1>0
<1>4. ASSUME NEW n \in Int, n = 1 \/ n - 1 < mRcv \/ n - 1 < oldEnd
      PROVE  OnOld(n)
  <2>1. n <= 1 \/ n <= mRcv \/ n <= oldEnd  BY <1>0, <1>4
  <2>2. CASE n <= mRcv
    <3>1. mRcv <= 1 \/ mRcv <= oldEnd \/ \E seg \in oldData : mRcv <= seg[2]
      BY DEF SplitAcks, OnOld
    <3>2. \A seg \in oldData : seg[2] \in Int  BY DEF TypeOK, Pos
    <3> QED  BY <1>0, <2>2, <3>1, <3>2 DEF OnOld
  <2> QED  BY <2>1, <2>2 DEF OnOld
\* Byte q < nxt, below the cutoff if there is one, was on the old path.
<1>5. ASSUME NEW q \in Int, 1 <= q, q < nxt, ~(cb["R"].valid_ack_cut /\ c <= q)
      PROVE  q < mRcv \/ q < oldEnd
  <2>1. q \in 1 .. nxt - 1  BY <1>0, <1>5
  <2>2. PICK t \in rcvd : t[1] = q  BY <2>1 DEF IsRcvNxt
  <2> QED  BY <1>2, <1>5, <2>2 DEF Apart, FromOld
<1>6. CASE r.ack = AckOf("R", nxt) /\ ~cb["R"].valid_ack_cut
  <2>1. nxt = 1 \/ nxt - 1 < mRcv \/ nxt - 1 < oldEnd
    BY <1>0, <1>5, <1>6
  <2> QED  BY <1>0, <1>1, <1>4, <1>6, <2>1
<1>7. CASE r.ack = AckOf("R", nxt) /\ nxt < c
  <2>1. nxt = 1 \/ nxt - 1 < mRcv \/ nxt - 1 < oldEnd
    BY <1>0, <1>3, <1>5, <1>7
  <2> QED  BY <1>0, <1>1, <1>4, <1>7, <2>1
<1>8. CASE r.ack = AckOf("R", c) /\ c <= nxt
  <2>1. c <= 1 \/ c - 1 < mRcv \/ c - 1 < oldEnd
    BY <1>0, <1>3, <1>5, <1>8
  <2>2. OnOld(c)
    <3>1. CASE c <= 1  BY <3>1 DEF OnOld
    <3>2. CASE c - 1 < mRcv \/ c - 1 < oldEnd  BY <1>3, <1>4, <3>2
    <3> QED  BY <2>1, <3>1, <3>2
  <2> QED  BY <1>1, <1>8, <2>2
<1>9. \/ r.ack = AckOf("R", nxt) /\ ~cb["R"].valid_ack_cut
      \/ r.ack = AckOf("R", nxt) /\ nxt < c
      \/ r.ack = AckOf("R", c) /\ c <= nxt
  <2>1. CASE cb["R"].valid_ack_cut
    <3>1. ~cb["R"].state_t /\ cb["R"].other /\ cb["R"].state # "ONE_PATH"
      BY <1>0, <2>1 DEF Settled, Answering
    <3>2. cb["R"].ack_cutoff = AckOf("R", c)  BY <1>2, <2>1 DEF Apart
    <3>3. After(AckOf("R", c), AckOf("R", nxt)) <=> c > nxt
      BY <1>0, AfterShift DEF AckOf
    <3> QED  BY <1>0, <1>3, <2>1, <3>1, <3>2, <3>3 DEF AckPath, PickPathAck
  <2>2. CASE ~cb["R"].valid_ack_cut
    BY <1>0, <2>2 DEF AckPath, PickPathAck, Settled
  <2> QED  BY <2>1, <2>2
<1> QED  BY <1>6, <1>7, <1>8, <1>9

LEMMA SplitDataStep ==
    ASSUME ~StateTransfer, Sender = "L", ~SenderBare, TypeOK, StreamInv, Settled,
           Answering, Agreed, SplitAcks, DataStep
    PROVE  SplitAcks'
<1> USE DEF kernel, control, packets, ends
<1>0. /\ Receiver = "R" /\ mRcv \in Int /\ mUna \in Int /\ Pos \subseteq Int
      /\ Anchors = {"L", "R"}
  BY DEF Receiver, TypeOK, Pos, Anchors
<1>1. OnOld(mRcv)'
  <2>1. mRcv' = mRcv \/ \E seg \in oldData : mRcv' = seg[2] /\ oldData' = oldData
    BY DEF DataStep, SendData, SendBare, ReceiverAck, NewArrive, NewAckArrive, OldArrive,
           OldDeliver, OldAckArrive
  <2>2. CASE mRcv' = mRcv
    BY <1>0, <2>2, OnOldStep DEF SplitAcks, OnOld
  <2>3. ASSUME NEW seg \in oldData, mRcv' = seg[2], oldData' = oldData
        PROVE  OnOld(mRcv)'
    <3>1. seg[2] \in Int  BY DEF TypeOK, Pos
    <3> QED  BY <2>3, <3>1 DEF OnOld
  <2> QED  BY <2>1, <2>2, <2>3
<1>2. OnOld(mUna)'
  <2>1. mUna' = mUna => OnOld(mUna)'
    BY <1>0, OnOldStep DEF SplitAcks, OnOld
  <2>2. ASSUME NEW nxt \in 1 .. N + 2, NEW fin \in BOOLEAN, NEW lost \in BOOLEAN,
               ReceiverAck(nxt, fin, lost), mUna' # mUna
        PROVE  OnOld(mUna)'
    <3> DEFINE r == AckPath(cb["R"], AckOf("R", nxt), fin)
               p == Offset(IAck["R"], r.ack)
    <3>1. ~r.new /\ mUna' = MaxOf(mUna, p) /\ IsRcvNxt(nxt)
          /\ UNCHANGED <<oldEnd, oldData>>
      BY <1>0, <2>2 DEF ReceiverAck
    <3>2. OnOld(p)  BY <3>1, AckOnOld
    <3>3. mUna' = p  BY <2>2, <3>1 DEF MaxOf
    <3> QED  BY <3>1, <3>2, <3>3 DEF OnOld
  <2> QED  BY <2>1, <2>2
           DEF DataStep, SendData, SendBare, NewArrive, NewAckArrive, OldArrive,
               OldDeliver, OldAckArrive
<1>3. \E c \in Pos : Apart(c)'
  <2>1. PICK c \in Pos : Apart(c)  BY DEF SplitAcks
  <2>2. CASE \E p \in newData : NewArrive(p)
    BY <2>1, <2>2, ApartNewArrive DEF StreamInv
  <2>3. CASE ~\E p \in newData : NewArrive(p)
    <3>1. \A t \in rcvd' : t \in rcvd \/ t[1] < mRcv
      BY <2>3 DEF DataStep, SendData, SendBare, ReceiverAck, NewAckArrive, OldArrive,
                  OldDeliver, OldAckArrive
    <3> QED  BY <2>1, <2>3, <3>1, RightBlock, ApartStep
  <2> QED  BY <2>2, <2>3
<1> QED  BY <1>1, <1>2, <1>3 DEF SplitAcks, Pos

\* The cutoff of the right anchor is its own or the one that the DYSCO_ACK announced.
LEMMA SplitControlStep ==
    ASSUME ~StateTransfer, Sender = "L", TypeOK, Numbers, Settled, CutInv, SplitAcks,
           ControlStep
    PROVE  SplitAcks'
<1> USE DEF kernel, control
<1>0. /\ cb \in Blocks /\ Anchors = {"L", "R"} /\ Receiver = "R" /\ oldEnd \in Pos
  BY DEF TypeOK, Blocks, Anchors, Receiver
<1>1. UNCHANGED <<oldData, rcvd, mRcv, mUna, oldEnd>>
  BY ControlKeepsData DEF packets, ends
<1>2. OnOld(mRcv)' /\ OnOld(mUna)'
  BY <1>1 DEF SplitAcks, OnOld
<1>3. PICK c \in Pos : Apart(c)  BY DEF SplitAcks
<1>4. ASSUME cb'["R"].valid_ack_cut = cb["R"].valid_ack_cut,
             cb'["R"].ack_cutoff = cb["R"].ack_cutoff
      PROVE  Apart(c)'
  BY <1>1, <1>3, <1>4 DEF Apart, FromOld, AckOf
<1>5. CASE \E m \in ctl : RightAck(m)
  <2>1. PICK m \in ctl : RightAck(m)  BY <1>5
  <2>2. m.type = "ACK" /\ m.cut = WireOf(oldEnd)
    BY <2>1 DEF RightAck, CutInv, AnnouncedCutoff, Announcement
  <2>3. nb[Receiver].up  BY <1>0, <2>1 DEF RightAck, Numbers
  <2>4. HostSeq("R", m.cut) = AckOf("R", oldEnd)
    BY <1>0, <2>2, <2>3, ReceiverTranslates
  <2>5. cb'["R"].ack_cutoff = AckOf("R", oldEnd) /\ cb'["R"].valid_ack_cut
    BY <1>0, <2>1, <2>4 DEF RightAck, Blocks, ControlBlock
  <2>6. \A t \in rcvd : t[1] < oldEnd \/ oldEnd <= t[1]
    BY <1>0 DEF TypeOK, Pos
  <2>7. PICK d \in Pos : d = oldEnd  BY <1>0
  <2>8. \A t \in rcvd' : FromOld(t[1])' \/ (cb'["R"].valid_ack_cut /\ d <= t[1])
    BY <1>1, <2>5, <2>6, <2>7 DEF FromOld
  <2>9. Apart(d)'  BY <2>5, <2>7, <2>8 DEF Apart, AckOf
  <2> QED  BY <1>2, <2>9 DEF SplitAcks, Pos
<1>6. CASE ~\E m \in ctl : RightAck(m)
  <2>1. /\ cb'["R"].valid_ack_cut = cb["R"].valid_ack_cut
        /\ cb'["R"].ack_cutoff = cb["R"].ack_cutoff
    <3>1. CASE LeftSyn \/ LeftSynAllocFails \/ LeftFollowsWildPointer
      BY <1>0, <3>1 DEF LeftSyn, LeftSynAllocFails, LeftFollowsWildPointer, Blocks
    <3>2. CASE RightSynAck \/ \E m \in ctl : RightSyn(m)
      BY <1>0, <3>2 DEF RightSyn, RightSynAck, Blocks, ControlBlock
    <3>3. CASE LeftAckLock \/ LeftAckFill
      BY <1>0, <3>3 DEF LeftAckLock, LeftEstablish, LeftAckFill, Blocks
    <3>4. CASE \E m \in ctl : LeftSynAck(m)
      BY <1>0, <3>4 DEF LeftSynAck, Blocks
    <3>5. CASE LeftAckStateTransfer \/ \E a \in Anchors : SendStateTransferred(a)
      BY <3>5 DEF LeftAckStateTransfer, SendStateTransferred
    <3>6. CASE \E m \in ctl : LeftStateTransferred(m) \/ RightStateTransferred(m)
      BY <3>6 DEF LeftStateTransferred, RightStateTransferred, Settled
    <3> QED  BY <1>6, <3>1, <3>2, <3>3, <3>4, <3>5, <3>6 DEF ControlStep
  <2>2. Apart(c)'  BY <1>4, <2>1
  <2> QED  BY <1>2, <2>2 DEF SplitAcks, Pos
<1> QED  BY <1>5, <1>6

\* Without state transfer, for data from the client's host without bare FINs: the right
\* anchor, whether its cutoff is a guess or was announced, never acknowledges on the old
\* path what went on the new one only.
THEOREM AcksStayApart ==
    ASSUME ~StateTransfer, Sender = "L", LeftIsEndpoint, ~SenderBare
    PROVE  Spec => []AcksSplitAtCutoff
<1>1. Init => Settled /\ CutInv  BY CutoffInit
<1>2. Init => StreamInv /\ Agreed /\ Answering
  BY ConstantTypes DEF Init, StreamInv, Numbers, WireExact, StreamIntact, Agreed, Anchors,
                       Answering
<1>3. Init => SplitAcks
  <2> SUFFICES ASSUME Init PROVE SplitAcks  OBVIOUS
  <2>1. Apart(0)  BY DEF Init, Apart, Anchors
  <2>2. OnOld(mRcv) /\ OnOld(mUna)  BY DEF Init, OnOld
  <2>3. 0 \in Pos  BY ConstantTypes DEF Pos
  <2> QED  BY <2>1, <2>2, <2>3 DEF SplitAcks
<1>4. TypeOK /\ StreamInv /\ Settled /\ CutInv /\ Agreed /\ Answering /\ SplitAcks
        /\ [Next]_vars => SplitAcks'
  <2> SUFFICES ASSUME TypeOK, StreamInv, Settled, CutInv, Agreed, Answering, SplitAcks,
                      [Next]_vars
               PROVE  SplitAcks'
    OBVIOUS
  <2>1. CASE UNCHANGED vars
    BY <2>1 DEF SplitAcks, OnOld, Apart, FromOld, AckOf, vars, kernel, packets, ends
  <2> QED  BY <2>1, SplitControlStep, SplitDataStep DEF StreamInv, Next
<1>5. TypeOK /\ StreamInv /\ Settled /\ CutInv /\ Agreed /\ Answering /\ [Next]_vars
         => Settled' /\ CutInv' /\ Agreed' /\ Answering'
  BY SettledStep, CutoffStep, AgreedStep, AnsweringStep DEF StreamInv
<1>6. TypeOK /\ SplitAcks => AcksSplitAtCutoff
  BY DEF TypeOK, Pos, SplitAcks, OnOld, AcksSplitAtCutoff
<1> QED  BY <1>1, <1>2, <1>3, <1>4, <1>5, <1>6, StreamStep, TypeCorrect, PTL DEF Spec

-----------------------------------------------------------------------------
(***************************************************************************)
(* The right anchor sends: it leaves the old path when all that went there *)
(* is acknowledged.  The code compares the ack as it is on the wire with   *)
(* a cutoff in its own numbers, which says nothing.  It is right because   *)
(* no ack takes the new path before the receiver has all of the old one.   *)
(***************************************************************************)

\* The receiver has all from position c on that was sent on the old path.
TakenOldFrom(c) == \A q \in 1 .. oldEnd - 1 : c <= q => <<q, q>> \in rcvd

\* The left anchor's cutoff is one above which nothing of the old path is missing, and
\* it counts acks, and lets them go on the new path, only then.
LeftKnows ==
    /\ cb["L"].valid_ack_cut =>
          /\ Switched
          /\ \E c \in Pos : cb["L"].ack_cutoff = AckOf("L", c) /\ TakenOldFrom(c)
    /\ cb["L"].use_np_ack => Switched /\ TakenOldFrom(1)

\* What the new path carries, in either direction, reaches beyond the old path's data.
Beyond ==
    /\ newData # {} => Switched
    /\ \A p \in newData : p.s < DataEnd(p.e) => 1 <= p.s /\ oldEnd <= DataEnd(p.e)
    /\ newAcks # {} => Switched
    /\ \A x \in newAcks : \E p \in 1 .. N + 2 : x = WireOf(p) /\ oldEnd <= p

Release ==
    /\ ~two["R"].old
    /\ \A t \in rcvd : t[1] < sndNxt
    /\ cb["R"].use_np_seq => Switched /\ oldEnd <= sndUna
    /\ LeftKnows
    /\ Beyond

\* Acks on the new path's wire are not beyond what was sent.
LEMMA AckWithinSent ==
    ASSUME TypeOK, Within, Release, NEW p \in 1 .. N + 2, Held(p)
    PROVE  p <= sndNxt
<1>1. /\ sndNxt \in Int /\ mRcv \in Int /\ N \in Nat /\ 1 <= sndNxt /\ mRcv <= sndNxt
  BY ConstantTypes DEF TypeOK, Pos, Within
<1>2. CASE p = 1  BY <1>1, <1>2
<1>3. CASE p # 1
  <2>1. p - 1 \in 1 .. N + 1 /\ p - 1 < p  BY <1>1, <1>3
  <2>2. p - 1 < mRcv \/ <<p - 1, p - 1>> \in rcvd  BY <2>1 DEF Held
  <2>3. p - 1 < sndNxt
    <3>1. CASE <<p - 1, p - 1>> \in rcvd
      BY <3>1 DEF Release
    <3>2. CASE p - 1 < mRcv  BY <1>1, <2>1, <3>2
    <3> QED  BY <2>2, <3>1, <3>2
  <2> QED  BY <1>1, <2>3
<1> QED  BY <1>2, <1>3

\* Once the anchor has switched the old path's data ends where it ended.
LEMMA SwitchedStands ==
    ASSUME TypeOK, Settled, CutInv, DataStep
    PROVE  Switched => Switched' /\ oldEnd' = oldEnd
<1>1. Sender \in Anchors  BY ConstantTypes
<1>2. Switched => Switched'  BY <1>1, DataStepKeeps DEF Switched, Kept
<1> QED  BY <1>2, SendDataCutoff, DataStepKeeps

\* What the sender puts on the new path.
LEMMA NewDataBeyond ==
    ASSUME ~StateTransfer, Sender = "R", TypeOK, Settled, CutInv, Within, Release,
           NEW s \in Pos, NEW e \in Pos, NEW lost \in BOOLEAN, SendData(s, e, lost),
           newData' # newData
    PROVE  /\ Switched /\ newData' = newData \cup {NewPacket(s, e, AckOf(Sender, 1))}
           /\ 1 <= s /\ oldEnd <= DataEnd(e)
<1> DEFINE c   == cb[Sender]
           pos == DataEnd(e)
           end == SeqOf(Sender, pos)
           new == SeqTakesNewPath(c, end)
<1>1. new /\ newData' = newData \cup {NewPacket(s, e, AckOf(Sender, 1))}
  BY DEF SendData
<1>2. /\ pos \in Pos /\ pos \in Int /\ s \in Int /\ sndUna \in Int /\ oldEnd \in Int
      /\ sndUna <= s /\ s < pos /\ 1 <= sndUna
  BY PositionTypes DEF SendData, TypeOK, Pos, Within
<1>3. Before(end, c.seq_cutoff) <=> pos < oldEnd
  BY <1>2, CutoffComparesBefore
<1>4. Switched  BY <1>1 DEF SeqTakesNewPath, Switched
<1>5. ~c.state_t /\ PickPathSeq(c, end)
  BY <1>1 DEF SeqTakesNewPath, Settled, Anchors
<1>6. c.use_np_seq \/ ~(pos < oldEnd)  BY <1>3, <1>5 DEF PickPathSeq
<1>7. oldEnd <= pos
  <2>1. CASE c.use_np_seq
    <3>1. oldEnd <= sndUna  BY <2>1 DEF Release
    <3> QED  BY <1>2, <3>1
  <2>2. CASE ~(pos < oldEnd)  BY <1>2, <2>2
  <2> QED  BY <1>6, <2>1, <2>2
<1> QED  BY <1>1, <1>2, <1>4, <1>7

\* Where the left anchor lets acks go on the new path, or counts them, the receiver has
\* all that went on the old path.
LEMMA AcksWait ==
    ASSUME ~StateTransfer, Sender = "R", TypeOK, StreamIntact, Settled, LeftKnows,
           NEW nxt \in 1 .. N + 2, NEW fin \in BOOLEAN, IsRcvNxt(nxt)
    PROVE  LET r == AckPath(cb["L"], AckOf("L", nxt), fin)
           IN  /\ r.new => Switched /\ oldEnd <= nxt
               /\ r.cb.use_np_ack => Switched /\ TakenOldFrom(1)
               /\ r.cb.valid_ack_cut = cb["L"].valid_ack_cut
               /\ r.cb.ack_cutoff = cb["L"].ack_cutoff
<1> DEFINE r == AckPath(cb["L"], AckOf("L", nxt), fin)
<1>0. /\ cb["L"] \in ControlBlock /\ nxt \in Pos /\ nxt \in Int /\ N \in Nat
      /\ Pos \subseteq Int /\ Pos \subseteq 0 .. H - 1 /\ IAck["L"] \in Num
      /\ oldEnd \in Int /\ oldEnd <= N + 2 /\ "L" \in Anchors
  BY ConstantTypes DEF TypeOK, Anchors, Pos
<1>1. ~cb["L"].state_t  BY <1>0 DEF Settled
<1>2. ASSUME NEW c \in Pos, TakenOldFrom(c), c <= nxt
      PROVE  oldEnd <= nxt /\ TakenOldFrom(1)
  <2>1. oldEnd <= nxt
    <3> SUFFICES ASSUME nxt < oldEnd PROVE FALSE  BY <1>0
    <3>1. nxt \in 1 .. oldEnd - 1 /\ c <= nxt  BY <1>0, <1>2
    <3>2. <<nxt, nxt>> \in rcvd  BY <1>2, <3>1 DEF TakenOldFrom
    <3> QED  BY <3>2 DEF IsRcvNxt
  <2>2. ASSUME NEW q \in 1 .. oldEnd - 1, ~(c <= q) PROVE <<q, q>> \in rcvd
    <3>1. q \in 1 .. nxt - 1  BY <1>0, <2>1
    <3>2. PICK t \in rcvd : t[1] = q  BY <3>1 DEF IsRcvNxt
    <3>3. t = <<q, q>>  BY <3>2 DEF StreamIntact, TypeOK
    <3> QED  BY <3>2, <3>3
  <2>3. TakenOldFrom(1)  BY <1>2, <2>2 DEF TakenOldFrom
  <2> QED  BY <2>1, <2>3
<1>3. CASE cb["L"].use_np_ack
  <2>1. Switched /\ TakenOldFrom(1) /\ 1 <= nxt /\ 1 \in Pos
    BY <1>0, <1>3 DEF LeftKnows, Pos
  <2>2. oldEnd <= nxt  BY <1>2, <2>1
  <2>3. r.cb = cb["L"] \/ r.cb = CountAck(cb["L"])
    BY DEF AckPath, PickPathAck
  <2>4. r.cb = cb["L"]  BY <1>1, <1>3 DEF AckPath, PickPathAck
  <2> QED  BY <2>1, <2>2, <2>4
<1>4. CASE ~cb["L"].use_np_ack
  <2>1. CASE r.cb = cb["L"] /\ ~r.new  BY <1>4, <2>1
  <2>2. CASE ~(r.cb = cb["L"] /\ ~r.new)
    <3>1. /\ cb["L"].valid_ack_cut
          /\ ~After(cb["L"].ack_cutoff, AckOf("L", nxt))
          /\ r.cb \in {cb["L"], CountAck(cb["L"])}
      BY <1>1, <1>4, <2>2 DEF AckPath, PickPathAck
    <3>2. PICK c \in Pos : cb["L"].ack_cutoff = AckOf("L", c) /\ TakenOldFrom(c)
      BY <3>1 DEF LeftKnows
    <3>3. After(AckOf("L", c), AckOf("L", nxt)) <=> c > nxt
      BY <1>0, AfterShift DEF AckOf
    <3>4. c <= nxt  BY <1>0, <3>1, <3>2, <3>3
    <3>5. oldEnd <= nxt /\ TakenOldFrom(1) /\ Switched
      BY <1>2, <3>1, <3>2, <3>4 DEF LeftKnows
    <3>6. /\ CountAck(cb["L"]).valid_ack_cut = cb["L"].valid_ack_cut
          /\ CountAck(cb["L"]).ack_cutoff = cb["L"].ack_cutoff
      BY <1>0 DEF CountAck, ControlBlock
    <3> QED  BY <3>1, <3>5, <3>6
  <2> QED  BY <2>1, <2>2
<1> QED  BY <1>3, <1>4

\* Each byte of a packet within the stream is taken, as itself.
LEMMA ByteTaken ==
    ASSUME TypeOK, Numbers, WireExact, nb[Receiver].up, NEW p \in newData,
           NEW b \in p.s .. p.e - 1, b \in 1 .. N + 1
    PROVE  <<b, b>> \in Taken(p)
<1> DEFINE t == <<Offset(IAck[Receiver],
                         Wrap(HostSeq(Receiver, p.seq) + (b - p.s))), b>>
<1>1. t[1] = t[2]
  <2>1. p.s \in Pos /\ p.e \in Pos /\ p.seq = WireOf(p.s)
    BY DEF TypeOK, Packet, WireExact
  <2>2. HostSeq(Receiver, p.seq) = Wrap(IAck[Receiver] + p.s)
    BY <2>1, ReceiverTranslates DEF AckOf
  <2> DEFINE i == IAck[Receiver]
             d == b - p.s
  <2>3. i \in Num  BY ConstantTypes
  <2>4. p.s \in Num /\ d \in Num /\ b \in Num /\ p.s + d = b /\ p.s + d < W
    BY <2>1, ConstantTypes DEF Pos, Num, W
  <2>5. Wrap(HostSeq(Receiver, p.seq) + (b - p.s)) = Wrap(Wrap(i + p.s) + d)
    BY <2>2
  <2> HIDE DEF i, d
  <2>6. Wrap(Wrap(i + p.s) + d) = Wrap(i + (p.s + d))  BY <2>3, <2>4, WrapAdd
  <2>7. Wrap(Wrap(i + p.s) + d) = Wrap(i + b)  BY <2>4, <2>6
  <2>8. Offset(i, Wrap(i + b)) = b  BY <2>3, <2>4, OffsetShift
  <2> QED  BY <2>5, <2>7, <2>8 DEF i
<1>2. t = <<b, b>>  BY <1>1
<1> QED  BY <1>2 DEF Taken

LEMMA LeftKnowsStep ==
    ASSUME TypeOK, Settled, CutInv, DataStep, LeftKnows,
           cb'["L"].valid_ack_cut = cb["L"].valid_ack_cut,
           cb'["L"].ack_cutoff = cb["L"].ack_cutoff,
           cb'["L"].use_np_ack = cb["L"].use_np_ack
    PROVE  LeftKnows'
<1> USE DEF packets
<1>1. rcvd \subseteq rcvd'
  BY DEF DataStep, SendData, SendBare, ReceiverAck, NewArrive, NewAckArrive, OldArrive,
         OldDeliver, OldAckArrive
<1>2. ASSUME NEW c \in Int, Switched, TakenOldFrom(c)
      PROVE  TakenOldFrom(c)'
  BY <1>1, <1>2, SwitchedStands DEF TakenOldFrom
<1>3. CASE Switched
  <2>1. Switched'  BY <1>3, SwitchedStands
  <2>2. cb'["L"].use_np_ack => TakenOldFrom(1)'  BY <1>2, <1>3 DEF LeftKnows
  <2>3. ASSUME cb'["L"].valid_ack_cut
        PROVE  \E c \in Pos : cb'["L"].ack_cutoff = AckOf("L", c) /\ TakenOldFrom(c)'
    BY <1>2, <1>3, <2>3 DEF LeftKnows, Pos
  <2> QED  BY <2>1, <2>2, <2>3 DEF LeftKnows, AckOf, Pos
<1>4. CASE ~Switched
  <2>1. ~cb'["L"].use_np_ack /\ ~cb'["L"].valid_ack_cut  BY <1>4 DEF LeftKnows
  <2> QED  BY <2>1 DEF LeftKnows
<1> QED  BY <1>3, <1>4

LEMMA BeyondStep ==
    ASSUME TypeOK, Settled, CutInv, DataStep, Beyond, newData' = newData,
           newAcks' = newAcks
    PROVE  Beyond'
<1>1. CASE Switched  BY <1>1, SwitchedStands DEF Beyond, WireOf
<1>2. CASE ~Switched
  <2>1. newData' = {} /\ newAcks' = {}  BY <1>2 DEF Beyond
  <2> QED  BY <2>1 DEF Beyond
<1> QED  BY <1>1, <1>2

\* The left anchor's cutoff, when it is lowered to the start of a segment that came on
\* the new path: with the segment the rest of the old path's data has come.
LEMMA LeftLearns ==
    ASSUME Sender = "R", TypeOK, StreamInv, Settled, CutInv, Release,
           NEW p \in newData, NewArrive(p), p.s < DataEnd(p.e)
    PROVE  LeftKnows'
<1>0. /\ cb \in Blocks /\ Receiver = "L" /\ p.s \in Pos /\ p.e \in Pos
      /\ p.s \in Int /\ p.e \in Int /\ p.seq = WireOf(p.s) /\ "L" \in Anchors
      /\ N \in Nat /\ oldEnd \in Int /\ oldEnd <= N + 1 /\ Pos \subseteq Int
  BY ConstantTypes DEF TypeOK, Blocks, Anchors, Receiver, StreamInv, WireExact, Packet,
                       Pos, CutInv
<1>1. /\ nb[Receiver].up /\ TwoPathsData("L", p.seq) /\ rcvd' = rcvd \cup Taken(p)
      /\ oldEnd' = oldEnd
  BY <1>0 DEF NewArrive
<1>2. Switched /\ 1 <= p.s /\ oldEnd <= DataEnd(p.e)
  BY DEF Release, Beyond
<1>3. Switched'
  <2>1. Sender \in Anchors /\ DataStep  BY ConstantTypes DEF DataStep
  <2> QED  BY <1>2, <2>1, SwitchedStands
<1>4. HostSeq("L", p.seq) = AckOf("L", p.s)
  BY <1>0, <1>1, ReceiverTranslates DEF StreamInv
<1>5. TakenOldFrom(p.s)'
  <2>1. ASSUME NEW q \in 1 .. oldEnd - 1, p.s <= q PROVE <<q, q>> \in Taken(p)
    <3>1. DataEnd(p.e) <= p.e  BY <1>0 DEF DataEnd
    <3>2. q \in p.s .. p.e - 1 /\ q \in 1 .. N + 1
      <4>1. DataEnd(p.e) \in Int  BY <1>0 DEF DataEnd
      <4> QED  BY <1>0, <1>2, <2>1, <3>1, <4>1
    <3> QED  BY <1>1, <3>2, ByteTaken DEF StreamInv
  <2> QED  BY <1>1, <2>1 DEF TakenOldFrom
<1>6. ASSUME NEW c \in Int, TakenOldFrom(c) PROVE TakenOldFrom(c)'
  BY <1>1, <1>6 DEF TakenOldFrom
<1>7. cb'["L"].use_np_ack = cb["L"].use_np_ack
  BY <1>0, <1>1 DEF TwoPathsData, Blocks, ControlBlock
<1>8. \/ /\ cb'["L"].valid_ack_cut = cb["L"].valid_ack_cut
         /\ cb'["L"].ack_cutoff = cb["L"].ack_cutoff
      \/ cb'["L"].ack_cutoff = AckOf("L", p.s)
  BY <1>0, <1>1, <1>4 DEF TwoPathsData, Blocks, ControlBlock
<1>9. cb'["L"].use_np_ack => TakenOldFrom(1)'
  BY <1>6, <1>7 DEF Release, LeftKnows
<1>10. cb'["L"].valid_ack_cut
         => \E c \in Pos : cb'["L"].ack_cutoff = AckOf("L", c) /\ TakenOldFrom(c)'
  <2>1. CASE cb'["L"].ack_cutoff = AckOf("L", p.s)
    BY <1>0, <1>5, <2>1
  <2>2. CASE /\ cb'["L"].valid_ack_cut = cb["L"].valid_ack_cut
             /\ cb'["L"].ack_cutoff = cb["L"].ack_cutoff
    <3> SUFFICES ASSUME cb["L"].valid_ack_cut
                 PROVE  \E c \in Pos : cb'["L"].ack_cutoff = AckOf("L", c) /\ TakenOldFrom(c)'
      BY <2>2
    <3>1. PICK c \in Pos : cb["L"].ack_cutoff = AckOf("L", c) /\ TakenOldFrom(c)
      BY DEF Release, LeftKnows
    <3>2. TakenOldFrom(c)'  BY <1>0, <1>6, <3>1
    <3> QED  BY <2>2, <3>1, <3>2
  <2> QED  BY <1>8, <2>1, <2>2
<1> QED  BY <1>3, <1>9, <1>10 DEF LeftKnows, AckOf, Pos

LEMMA LeftKnowsDataStep ==
    ASSUME ~StateTransfer, Sender = "R", TypeOK, StreamInv, Settled, CutInv, Release,
           DataStep
    PROVE  LeftKnows'
<1> USE DEF kernel, control, packets, ends
<1>0. /\ cb \in Blocks /\ Anchors = {"L", "R"} /\ Receiver = "L" /\ LeftKnows
      /\ cb["L"] \in ControlBlock
  BY DEF TypeOK, Blocks, Anchors, Receiver, Release
<1> DEFINE Same == /\ cb'["L"].valid_ack_cut = cb["L"].valid_ack_cut
                   /\ cb'["L"].ack_cutoff = cb["L"].ack_cutoff
                   /\ cb'["L"].use_np_ack = cb["L"].use_np_ack
<1>1. Same => LeftKnows'  BY <1>0, LeftKnowsStep
<1>2. ASSUME NEW s \in Pos, NEW e \in Pos, NEW lost \in BOOLEAN,
             SendData(s, e, lost) \/ SendBare(s, e, lost)
      PROVE  Same
  <2>1. cb'["L"] = cb["L"]  BY <1>0, <1>2 DEF SendData, SendBare, Blocks
  <2> QED  BY <2>1
<1>3. ASSUME NEW a \in Anchors, NEW path, NEW ack, TwoPathsAck(a, path, ack) PROVE Same
  BY <1>0, <1>3 DEF TwoPathsAck, Blocks, ControlBlock
<1>4. ASSUME NEW nxt \in 1 .. N + 2, NEW fin \in BOOLEAN, NEW lost \in BOOLEAN,
             ReceiverAck(nxt, fin, lost)
      PROVE  LeftKnows'
  <2> DEFINE r == AckPath(cb["L"], AckOf("L", nxt), fin)
  <2>1. cb'["L"] = r.cb /\ rcvd' = rcvd /\ oldEnd' = oldEnd
    <3>1. cb' = [cb EXCEPT !["L"] = r.cb]  BY <1>0, <1>4 DEF ReceiverAck
    <3> HIDE DEF r
    <3> QED  BY <1>0, <1>4, <3>1 DEF ReceiverAck, Blocks
  <2>2. /\ r.cb.use_np_ack => Switched /\ TakenOldFrom(1)
        /\ r.cb.valid_ack_cut = cb["L"].valid_ack_cut
        /\ r.cb.ack_cutoff = cb["L"].ack_cutoff
    BY <1>0, <1>4, AcksWait DEF ReceiverAck, StreamInv
  <2> HIDE DEF r
  <2>3. Switched => Switched'  BY SwitchedStands
  <2> QED  BY <1>0, <2>1, <2>2, <2>3 DEF LeftKnows, TakenOldFrom, AckOf, Pos
<1>5. ASSUME NEW p \in newData, NewArrive(p) PROVE LeftKnows'
  <2>1. CASE p.s < DataEnd(p.e)  BY <1>5, <2>1, LeftLearns
  <2>2. CASE ~(p.s < DataEnd(p.e))
    <3>1. TwoPathsAck("L", "new", p.ack)  BY <1>0, <1>5, <2>2 DEF NewArrive
    <3> QED  BY <1>0, <1>1, <1>3, <3>1
  <2> QED  BY <2>1, <2>2
<1>6. ASSUME NEW p \in 1 .. N + 1, OldDeliver(p) PROVE Same
  <2>1. cb' = cb \/ TwoPathsAck("L", "old", SeqOf("L", 1))
    BY <1>0, <1>6 DEF OldDeliver
  <2> QED  BY <1>0, <1>3, <2>1
<1>7. ASSUME NEW x \in newAcks, NewAckArrive(x) PROVE Same
  BY <1>0, <1>3, <1>7 DEF NewAckArrive
<1>8. ASSUME NEW p \in 1 .. N + 2, OldAckArrive(p) PROVE Same
  BY <1>0, <1>3, <1>8 DEF OldAckArrive
<1>9. ASSUME NEW seg \in oldData, OldArrive(seg[1], seg[2]) PROVE Same
  BY <1>9 DEF OldArrive
<1> HIDE DEF Same
<1> QED  BY <1>1, <1>2, <1>4, <1>5, <1>6, <1>7, <1>8, <1>9 DEF DataStep

LEMMA BeyondDataStep ==
    ASSUME ~StateTransfer, Sender = "R", TypeOK, StreamInv, Settled, CutInv, Within,
           Release, DataStep
    PROVE  Beyond'
<1> USE DEF packets
<1>0. /\ Receiver = "L" /\ Beyond /\ LeftKnows /\ Anchors = {"L", "R"}
      /\ cb["R"] \in ControlBlock /\ cb["L"] \in ControlBlock
      /\ oldEnd \in Int /\ oldEnd' \in Int
  BY OnlyMore DEF Receiver, Release, Anchors, TypeOK
<1>1. newData' = newData /\ newAcks' = newAcks => Beyond'  BY <1>0, BeyondStep
<1>2. ASSUME Switched, newAcks' = newAcks, NEW q, newData' = newData \cup {q},
             q.s < DataEnd(q.e) => 1 <= q.s /\ oldEnd <= DataEnd(q.e)
      PROVE  Beyond'
  <2>1. Switched' /\ oldEnd' = oldEnd  BY <1>2, SwitchedStands
  <2> QED  BY <1>0, <1>2, <2>1 DEF Beyond, WireOf
<1>3. ASSUME NEW s \in Pos, NEW e \in Pos, NEW lost \in BOOLEAN, SendData(s, e, lost)
      PROVE  Beyond'
  <2>1. CASE newData' = newData  BY <1>1, <1>3, <2>1 DEF SendData
  <2>2. CASE newData' # newData
    <3>1. /\ Switched /\ newData' = newData \cup {NewPacket(s, e, AckOf(Sender, 1))}
          /\ 1 <= s /\ oldEnd <= DataEnd(e)
      BY <1>3, <2>2, NewDataBeyond
    <3>2. newAcks' = newAcks  BY <1>3 DEF SendData
    <3>3. NewPacket(s, e, AckOf(Sender, 1)).s = s /\ NewPacket(s, e, AckOf(Sender, 1)).e = e
      BY DEF NewPacket
    <3> QED  BY <1>2, <3>1, <3>2, <3>3
  <2> QED  BY <2>1, <2>2
<1>4. ASSUME NEW s \in Pos, NEW e \in Pos, NEW lost \in BOOLEAN, SendBare(s, e, lost)
      PROVE  Beyond'
  <2> DEFINE r == AckPath(cb["R"], AckOf("R", 1), e > s)
             q == NewPacket(s, e, r.ack)
  <2>1. newData' = newData \/ (r.new /\ newData' = newData \cup {q})
    BY <1>4 DEF SendBare
  <2>2. newAcks' = newAcks /\ ~(s < DataEnd(e))
    BY <1>4, ConstantTypes DEF SendBare, DataEnd
  <2>3. r.new => Switched
    <3>1. r.new => cb["R"].other  BY <1>0, AckPathKeeps
    <3> QED  BY <3>1 DEF Switched, Settled
  <2>4. q.s = s /\ q.e = e  BY DEF NewPacket
  <2> HIDE DEF r, q
  <2> QED  BY <1>1, <1>2, <2>1, <2>2, <2>3, <2>4
<1>5. ASSUME NEW nxt \in 1 .. N + 2, NEW fin \in BOOLEAN, NEW lost \in BOOLEAN,
             ReceiverAck(nxt, fin, lost)
      PROVE  Beyond'
  <2> DEFINE r == AckPath(cb["L"], AckOf("L", nxt), fin)
  <2>1. /\ newData' = newData
        /\ newAcks' = newAcks \/ (r.new /\ newAcks' = newAcks \cup {NewAck("L", r.ack)})
    BY <1>0, <1>5 DEF ReceiverAck
  <2>2. CASE newAcks' = newAcks  BY <1>1, <2>1, <2>2
  <2>3. CASE r.new /\ newAcks' = newAcks \cup {NewAck("L", r.ack)}
    <3>1. Switched /\ oldEnd <= nxt
      BY <1>0, <1>5, <2>3, AcksWait DEF ReceiverAck, StreamInv
    <3>2. nxt \in Pos  BY ConstantTypes DEF Pos
    <3>3. nb["L"].up
      <4>1. cb["L"].other  BY <1>0, <2>3, AckPathKeeps
      <4> QED  BY <1>0, <4>1 DEF StreamInv, Numbers
    <3>4. r.ack = AckOf("L", nxt)  BY <2>3, NewPathAck
    <3> HIDE DEF r
    <3>5. NewAck("L", r.ack) = WireOf(nxt)
      BY <1>0, <3>2, <3>3, <3>4, AckTranslates DEF StreamInv
    <3>6. Switched' /\ oldEnd' = oldEnd  BY <3>1, SwitchedStands
    <3>7. \A x \in newAcks' : \E p \in 1 .. N + 2 : x = WireOf(p) /\ oldEnd <= p
      BY <1>0, <2>3, <3>1, <3>5 DEF Beyond
    <3> QED  BY <1>0, <2>1, <3>1, <3>6, <3>7 DEF Beyond, WireOf
  <2> QED  BY <2>1, <2>2, <2>3
<1>6. \/ UNCHANGED <<newData, newAcks>>
      \/ \E s, e \in Pos, lost \in BOOLEAN : SendData(s, e, lost) \/ SendBare(s, e, lost)
      \/ \E nxt \in 1 .. N + 2, fin, lost \in BOOLEAN : ReceiverAck(nxt, fin, lost)
  BY DEF DataStep, NewArrive, NewAckArrive, OldArrive, OldDeliver, OldAckArrive
<1> QED  BY <1>1, <1>3, <1>4, <1>5, <1>6

\* The release itself.  The comparison of the ack in dysco_in_two_paths_ack may go either
\* way: what the ack covers is what counts.
LEMMA UseNewPathStep ==
    ASSUME ~StateTransfer, Sender = "R", TypeOK, StreamInv, Settled, CutInv, AcksExact,
           Within, Release, DataStep
    PROVE  /\ ~two'["R"].old
           /\ cb'["R"].use_np_seq => Switched' /\ oldEnd' <= sndUna'
<1> USE DEF kernel, control, packets, ends
<1>0. /\ cb \in Blocks /\ Anchors = {"L", "R"} /\ Receiver = "L"
      /\ two \in [Anchors -> [old : BOOLEAN, new : BOOLEAN]]
      /\ cb["R"] \in ControlBlock /\ oldEnd \in Int /\ sndUna \in Int /\ sndNxt \in Int
      /\ N \in Nat
  BY ConstantTypes DEF TypeOK, Blocks, Anchors, Receiver, Pos
<1> DEFINE Same == /\ cb'["R"].use_np_seq = cb["R"].use_np_seq
                   /\ two'["R"].old = two["R"].old
                   /\ sndUna' \in Int /\ sndUna <= sndUna'
           Goal == /\ ~two'["R"].old
                   /\ cb'["R"].use_np_seq => Switched' /\ oldEnd' <= sndUna'
<1>1. Same => Goal
  <2> SUFFICES ASSUME Same PROVE Goal  OBVIOUS
  <2>1. cb'["R"].use_np_seq => Switched /\ oldEnd <= sndUna  BY DEF Release
  <2>2. cb'["R"].use_np_seq => Switched' /\ oldEnd' = oldEnd  BY <2>1, SwitchedStands
  <2>3. cb'["R"].use_np_seq => oldEnd' <= sndUna'  BY <1>0, <2>1, <2>2
  <2> QED  BY <2>2, <2>3 DEF Release
<1>2. ASSUME NEW s \in Pos, NEW e \in Pos, NEW lost \in BOOLEAN, SendData(s, e, lost)
      PROVE  Same
  <2> DEFINE c == cb["R"]
             end == SeqOf("R", DataEnd(e))
  <2>1. cb'["R"] = c \/ cb'["R"] = RecordSeq(c, end)
    BY <1>0, <1>2 DEF SendData, Blocks
  <2>2. RecordSeq(c, end).use_np_seq = c.use_np_seq
    BY <1>0 DEF RecordSeq, ControlBlock
  <2> HIDE DEF end
  <2> QED  BY <1>0, <1>2, <2>1, <2>2 DEF SendData
<1>3. ASSUME NEW s \in Pos, NEW e \in Pos, NEW lost \in BOOLEAN, SendBare(s, e, lost)
      PROVE  Same
  <2> DEFINE r == AckPath(cb["R"], AckOf("R", 1), e > s)
  <2>1. cb' = [cb EXCEPT !["R"] = r.cb]  BY <1>3 DEF SendBare
  <2>2. r.cb.use_np_seq = cb["R"].use_np_seq
    BY <1>0 DEF AckPath, PickPathAck, CountAck, ControlBlock
  <2> HIDE DEF r
  <2>3. cb'["R"].use_np_seq = cb["R"].use_np_seq  BY <1>0, <2>1, <2>2 DEF Blocks
  <2> QED  BY <1>0, <1>3, <2>3 DEF SendBare
<1>4. ASSUME NEW path \in {"old", "new"}, NEW ack, TwoPathsAck("L", path, ack),
             sndUna' = sndUna
      PROVE  Same
  BY <1>0, <1>4 DEF TwoPathsAck, Blocks
<1>5. ASSUME cb'["R"] = cb["R"], two' = two, sndUna' = sndUna PROVE Same
  BY <1>0, <1>5
<1>6. ASSUME NEW nxt \in 1 .. N + 2, NEW fin \in BOOLEAN, NEW lost \in BOOLEAN,
             ReceiverAck(nxt, fin, lost)
      PROVE  Same
  <2>1. cb'["R"] = cb["R"]  BY <1>0, <1>6 DEF ReceiverAck, Blocks
  <2> QED  BY <1>5, <1>6, <2>1 DEF ReceiverAck
<1>7. ASSUME NEW p \in newData, NewArrive(p) PROVE Same
  <2>1. CASE TwoPathsData("L", p.seq) /\ two' = two
    <3>1. cb'["R"] = cb["R"]  BY <1>0, <2>1 DEF TwoPathsData, Blocks
    <3> QED  BY <1>5, <1>7, <2>1, <3>1 DEF NewArrive
  <2>2. CASE TwoPathsAck("L", "new", p.ack)
    BY <1>4, <1>7, <2>2 DEF NewArrive
  <2> QED  BY <1>0, <1>7, <2>1, <2>2 DEF NewArrive
<1>8. ASSUME NEW x \in newAcks, NewAckArrive(x) PROVE Goal
  <2>1. PICK p \in 1 .. N + 2 : x = WireOf(p) /\ Held(p)  BY DEF AcksExact
  <2>2. PICK q \in 1 .. N + 2 : x = WireOf(q) /\ oldEnd <= q  BY DEF Release, Beyond
  <2>3. nb[Sender].up /\ p \in Pos /\ q \in Pos
    BY <1>0, <1>8 DEF NewAckArrive, Pos
  <2>4. /\ Offset(ISeq[Sender], HostAck(Sender, x)) = p
        /\ Offset(ISeq[Sender], HostAck(Sender, x)) = q
    BY <2>1, <2>2, <2>3, HostAckTranslates DEF StreamInv
  <2>5. p <= sndNxt  BY <2>1, AckWithinSent
  <2>6. sndUna' = MaxOf(sndUna, p)  BY <1>8, <2>4, <2>5 DEF NewAckArrive
  <2>7. oldEnd <= sndUna'
    <3>1. p = q /\ p \in Int  BY <2>4
    <3> QED  BY <1>0, <2>2, <2>6, <3>1 DEF MaxOf
  <2>8. Switched' /\ oldEnd' = oldEnd
    <3>1. Switched  BY DEF Release, Beyond
    <3> QED  BY <3>1, SwitchedStands
  <2>9. two'["R"].old = two["R"].old
    <3>1. TwoPathsAck("R", "new", x)  BY <1>8 DEF NewAckArrive
    <3> QED  BY <1>0, <3>1 DEF TwoPathsAck
  <2> QED  BY <2>7, <2>8, <2>9 DEF Release
<1>9. ASSUME NEW p \in 1 .. N + 2, OldAckArrive(p) PROVE Same
  <2>1. TwoPathsAck("R", "old", SeqOf("R", p)) /\ sndUna' = MaxOf(sndUna, p)
    BY <1>9 DEF OldAckArrive
  <2>2. ~two["R"].old  BY DEF Release
  <2>3. cb'["R"].use_np_seq = cb["R"].use_np_seq /\ two'["R"].old = two["R"].old
    BY <1>0, <2>1, <2>2 DEF TwoPathsAck, Blocks, ControlBlock
  <2>4. sndUna' \in Int /\ sndUna <= sndUna'  BY <1>0, <2>1 DEF MaxOf
  <2> QED  BY <2>3, <2>4
<1>10. ASSUME NEW p \in 1 .. N + 1, OldDeliver(p) PROVE Same
  <2>1. CASE TwoPathsAck("L", "old", SeqOf("L", 1))
    BY <1>4, <1>10, <2>1 DEF OldDeliver
  <2>2. CASE UNCHANGED <<cb, two>>
    BY <1>5, <1>10, <2>2 DEF OldDeliver
  <2> QED  BY <1>0, <1>10, <2>1, <2>2 DEF OldDeliver
<1>11. ASSUME NEW seg \in oldData, OldArrive(seg[1], seg[2]) PROVE Same
  BY <1>5, <1>11 DEF OldArrive
<1> HIDE DEF Same, Goal
<1>12. Goal
  BY <1>1, <1>2, <1>3, <1>6, <1>7, <1>8, <1>9, <1>10, <1>11 DEF DataStep
<1> QED  BY <1>12 DEF Goal

LEMMA ReleaseDataStep ==
    ASSUME ~StateTransfer, Sender = "R", TypeOK, StreamInv, Settled, CutInv, AcksExact,
           Within, Release, DataStep
    PROVE  Release'
<1> USE DEF packets
<1>0. /\ sndNxt \in Int /\ sndNxt' \in Int /\ mRcv \in Int
      /\ \A t \in rcvd : t[1] \in Int
  <2>1. TypeOK'  BY DataTypeStep
  <2> QED  BY <2>1 DEF TypeOK, Pos
<1>1. sndNxt <= sndNxt'
  <2>1. sndNxt' = sndNxt \/ \E e \in Pos : sndNxt' = MaxOf(sndNxt, e)
    BY DEF DataStep, SendData, SendBare, ReceiverAck, NewArrive, NewAckArrive, OldArrive,
           OldDeliver, OldAckArrive
  <2> QED  BY <1>0, <2>1 DEF MaxOf, Pos
<1>2. \A t \in rcvd' : t \in rcvd \/ t[1] < sndNxt
  <2>1. ASSUME NEW p \in newData, NewArrive(p)
        PROVE  \A t \in rcvd' : t \in rcvd \/ t[1] < sndNxt
    <3>1. PICK S \in SUBSET (1 .. sndNxt - 1) : rcvd' = rcvd \cup {<<q, q>> : q \in S}
      BY <2>1, TakenSent DEF StreamInv
    <3>2. \A q \in S : q < sndNxt  BY <1>0
    <3> QED  BY <3>1, <3>2
  <2>2. ASSUME NEW p \in 1 .. N + 1, OldDeliver(p)
        PROVE  \A t \in rcvd' : t \in rcvd \/ t[1] < sndNxt
    <3>1. p < sndNxt
      <4>1. p \in Int /\ p < mRcv  BY <2>2 DEF OldDeliver
      <4>2. mRcv <= sndNxt  BY DEF Within
      <4> QED  BY <1>0, <4>1, <4>2
    <3> QED  BY <2>2, <3>1 DEF OldDeliver
  <2> QED  BY <2>1, <2>2 DEF DataStep, SendData, SendBare, ReceiverAck, NewAckArrive,
                             OldArrive, OldAckArrive
<1>3. \A t \in rcvd' : t[1] < sndNxt'
  <2>1. ASSUME NEW t \in rcvd', t[1] < sndNxt PROVE t[1] < sndNxt'
    <3>1. t[1] \in Int
      <4>1. TypeOK'  BY DataTypeStep
      <4> QED  BY <4>1 DEF TypeOK, Pos
    <3> QED  BY <1>0, <1>1, <2>1, <3>1
  <2> QED  BY <1>2, <2>1 DEF Release
<1> QED  BY <1>3, UseNewPathStep, LeftKnowsDataStep, BeyondDataStep DEF Release

LEMMA ReleaseControlStep ==
    ASSUME ~StateTransfer, Sender = "R", TypeOK, Numbers, Settled, CutInv, Release,
           ControlStep
    PROVE  Release'
<1> USE DEF kernel, control
<1>0. /\ cb \in Blocks /\ Anchors = {"L", "R"} /\ Receiver = "L" /\ oldEnd \in Pos
      /\ two \in [Anchors -> [old : BOOLEAN, new : BOOLEAN]]
  BY DEF TypeOK, Blocks, Anchors, Receiver
<1>1. UNCHANGED <<newData, newAcks, rcvd, sndNxt, sndUna, oldEnd>>
  BY ControlKeepsData DEF packets, ends
<1> DEFINE Right == /\ cb["R"].other => cb'["R"].other
                    /\ cb'["R"].use_np_seq = cb["R"].use_np_seq
                    /\ two'["R"].old = two["R"].old
           Left == /\ cb'["L"].valid_ack_cut = cb["L"].valid_ack_cut
                   /\ cb'["L"].ack_cutoff = cb["L"].ack_cutoff
           LeftAcks == cb'["L"].use_np_ack = cb["L"].use_np_ack
<1>2. Right => (Switched => Switched')
  BY <1>0, SettledControlStep DEF Switched, Settled
<1>3. ASSUME Right, LeftAcks, LeftKnows' PROVE Release'
  <2>1. Beyond'  BY <1>1, <1>2, <1>3 DEF Release, Beyond, WireOf
  <2>2. cb'["R"].use_np_seq => Switched' /\ oldEnd' <= sndUna'
    BY <1>1, <1>2, <1>3 DEF Release
  <2>3. ~two'["R"].old /\ \A t \in rcvd' : t[1] < sndNxt'
    BY <1>1, <1>3 DEF Release
  <2> QED  BY <1>3, <2>1, <2>2, <2>3 DEF Release
<1>4. ASSUME Right, LeftAcks, Left PROVE Release'
  <2>1. \A c : TakenOldFrom(c) => TakenOldFrom(c)'  BY <1>1 DEF TakenOldFrom
  <2>2. cb'["L"].valid_ack_cut
          => \E c \in Pos : cb'["L"].ack_cutoff = AckOf("L", c) /\ TakenOldFrom(c)'
    <3> SUFFICES ASSUME cb["L"].valid_ack_cut
                 PROVE  \E c \in Pos : cb'["L"].ack_cutoff = AckOf("L", c) /\ TakenOldFrom(c)'
      BY <1>4
    <3>1. PICK c \in Pos : cb["L"].ack_cutoff = AckOf("L", c) /\ TakenOldFrom(c)
      BY DEF Release, LeftKnows
    <3>2. TakenOldFrom(c)'  BY <3>1, <1>1 DEF TakenOldFrom
    <3> QED  BY <1>4, <3>1, <3>2
  <2>3. LeftKnows'
    BY <1>2, <1>4, <2>1, <2>2 DEF Release, LeftKnows, AckOf, Pos
  <2> QED  BY <1>3, <1>4, <2>3
<1>5. CASE LeftSyn \/ LeftSynAllocFails \/ LeftFollowsWildPointer
  <2>1. /\ cb'["R"] = cb["R"] /\ two'["R"] = two["R"]
        /\ Left /\ LeftAcks
    BY <1>0, <1>5 DEF LeftSyn, LeftSynAllocFails, LeftFollowsWildPointer, Blocks,
                      ControlBlock
  <2> QED  BY <1>4, <2>1
<1>6. CASE RightSynAck \/ \E m \in ctl : RightSyn(m) \/ RightAck(m)
  <2>1. ASSUME RightSynAck PROVE cb'["L"] = cb["L"] /\ Right
    BY <1>0, <2>1 DEF RightSynAck, Blocks, ControlBlock
  <2>2. ASSUME NEW m \in ctl, RightSyn(m) PROVE cb'["L"] = cb["L"] /\ Right
    BY <1>0, <2>2 DEF RightSyn, Blocks, ControlBlock
  <2>3. ASSUME NEW m \in ctl, RightAck(m) PROVE cb'["L"] = cb["L"] /\ Right
    BY <1>0, <2>3 DEF RightAck, Blocks, ControlBlock
  <2>4. cb'["L"] = cb["L"] /\ Right  BY <1>6, <2>1, <2>2, <2>3
  <2> QED  BY <1>4, <2>4
<1>7. CASE LeftAckLock \/ LeftAckFill
  <2>1. cb'["R"] = cb["R"] /\ two' = two /\ Left /\ LeftAcks
    BY <1>0, <1>7 DEF LeftAckLock, LeftEstablish, LeftAckFill, Blocks, ControlBlock
  <2> QED  BY <1>4, <2>1
<1>8. ASSUME NEW m \in ctl, LeftSynAck(m) PROVE Release'
  <2>1. cb'["R"] = cb["R"] /\ two' = two /\ LeftAcks
    BY <1>0, <1>8 DEF LeftSynAck, Blocks, ControlBlock
  <2>2. CASE Left  BY <1>4, <2>1, <2>2
  <2>3. CASE cb'["L"].ack_cutoff = m.cut
    <3>1. m.type = "SYN_ACK" /\ m.cut = AckOf("L", oldEnd)
      BY <1>8 DEF LeftSynAck, CutInv, AnnouncedCutoff, Announcement, WireOf
    <3>2. Switched  BY <3>1, AnnouncedSwitched DEF Announcement
    <3>3. Right /\ Switched'  BY <1>2, <2>1, <3>2
    <3>4. \A c : TakenOldFrom(c) => TakenOldFrom(c)'  BY <1>1 DEF TakenOldFrom
    <3>5. PICK c \in Pos : c = oldEnd  BY <1>0
    <3>6. TakenOldFrom(c)'
      <4>1. oldEnd \in Int  BY <1>0 DEF Pos
      <4> QED  BY <1>1, <3>5, <4>1 DEF TakenOldFrom
    <3>7. cb'["L"].use_np_ack => TakenOldFrom(1)'
      BY <2>1, <3>4 DEF Release, LeftKnows
    <3>8. \E d \in Pos : cb'["L"].ack_cutoff = AckOf("L", d) /\ TakenOldFrom(d)'
      BY <2>3, <3>1, <3>5, <3>6
    <3>9. LeftKnows'  BY <3>3, <3>7, <3>8 DEF LeftKnows, AckOf, Pos
    <3> QED  BY <1>3, <2>1, <3>3, <3>9
  <2> QED  BY <1>0, <1>8, <2>2, <2>3 DEF LeftSynAck, Blocks, ControlBlock
<1>9. ~LeftAckStateTransfer /\ \A a \in Anchors : ~SendStateTransferred(a)
  BY DEF LeftAckStateTransfer, SendStateTransferred
<1>10. \A m \in ctl : ~LeftStateTransferred(m) /\ ~RightStateTransferred(m)
  BY DEF LeftStateTransferred, RightStateTransferred, Settled
<1> QED  BY <1>5, <1>6, <1>7, <1>8, <1>9, <1>10 DEF ControlStep

\* Without state transfer, for data from the server's side, with or without bare FINs and
\* failing allocations: the right anchor leaves the old path only when all that it sent
\* there is acknowledged, although it compares an ack of the wire with a cutoff of its own.
THEOREM ReleasedInTime ==
    ASSUME ~StateTransfer, Sender = "R"
    PROVE  Spec => []ReleasedWhenAcked
<1>1. Init => Settled /\ CutInv  BY CutoffInit
<1>2. Init => StreamInv /\ Within /\ AcksExact
  BY ConstantTypes DEF Init, StreamInv, Numbers, WireExact, StreamIntact, Anchors, Within,
                       AcksExact
<1>3. Init => Release
  BY DEF Init, Release, LeftKnows, Beyond, Anchors
<1>4. TypeOK /\ StreamInv /\ Settled /\ CutInv /\ Within /\ AcksExact /\ Release
        /\ [Next]_vars => Release' /\ Within'
  <2> SUFFICES ASSUME TypeOK, StreamInv, Settled, CutInv, Within, AcksExact, Release,
                      [Next]_vars
               PROVE  Release' /\ Within'
    OBVIOUS
  <2>1. CASE UNCHANGED vars
    BY <2>1 DEF Release, LeftKnows, Beyond, TakenOldFrom, Switched, Within, AckOf, WireOf,
                SeqOf, vars, kernel, packets, ends
  <2>2. CASE ControlStep
    <3>1. UNCHANGED <<packets, ends>>  BY <2>2, ControlKeepsData
    <3>2. Within'  BY <3>1 DEF Within, packets, ends
    <3> QED  BY <2>2, <3>2, ReleaseControlStep DEF StreamInv
  <2>3. CASE DataStep  BY <2>3, ReleaseDataStep, WithinDataStep
  <2> QED  BY <2>1, <2>2, <2>3 DEF Next
<1>5. TypeOK /\ StreamInv /\ Settled /\ CutInv /\ [Next]_vars => Settled' /\ CutInv'
  BY SettledStep, CutoffStep DEF StreamInv
<1>6. TypeOK /\ Release => ReleasedWhenAcked
  BY DEF TypeOK, Pos, Release, ReleasedWhenAcked
<1> QED  BY <1>1, <1>2, <1>3, <1>4, <1>5, <1>6, StreamStep, AcksInvariant, TypeCorrect, PTL
         DEF Spec
=============================================================================
