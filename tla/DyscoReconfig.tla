---------------------------- MODULE DyscoReconfig ----------------------------
(***************************************************************************)
(* Reconfiguration of one Dysco session: the left and the right anchor     *)
(* replace the path through a middlebox M (the old path) by a direct one   *)
(* (the new path), with the DYSCO_SYN / DYSCO_SYN_ACK / DYSCO_ACK          *)
(* handshake, while TCP goes on sending data in one direction.             *)
(*                                                                         *)
(* A byte of the stream is a position: 0 is the SYN, 1..N the data, N+1    *)
(* the FIN.  The code never sees a position.  It sees numbers of DyscoSeq, *)
(* which differ at the two anchors because M terminated the TCP session    *)
(* (or changed the numbers): the code's fields and the packets hold those. *)
(*                                                                         *)
(* Numbers on the wire of the new path are those of the left anchor; the   *)
(* right anchor translates.                                                *)
(***************************************************************************)
EXTENDS DyscoSeq, FiniteSets

CONSTANTS
    LSeq, LAck,     \* initial seq and ack of the left anchor's session
    RSeq, RAck,     \* initial seq and ack of the right anchor's session
    N,              \* bytes the application sends
    MaxSeg,         \* bytes in a segment, at most
    Sender,         \* the anchor on the side of the application that sends
    SenderBare,     \* its TCP also emits segments with no payload (ACK, FIN)
    StateTransfer,  \* the message's semantic is STATE_TRANSFER
    AllocMayFail,   \* kzalloc may return NULL at the left anchor
    LeftIsEndpoint  \* the left anchor is the client's host, not a middlebox

Anchors == {"L", "R"}

ASSUME ReconfigAssumption ==
    /\ LSeq \in Num /\ LAck \in Num /\ RSeq \in Num /\ RAck \in Num
    /\ N \in Nat \ {0} /\ N + 2 < H
    /\ MaxSeg \in Nat \ {0}
    /\ Sender \in Anchors
    /\ SenderBare \in BOOLEAN /\ StateTransfer \in BOOLEAN
    /\ AllocMayFail \in BOOLEAN /\ LeftIsEndpoint \in BOOLEAN

Receiver == IF Sender = "L" THEN "R" ELSE "L"
ISeq == [a \in Anchors |-> IF a = "L" THEN LSeq ELSE RSeq]
IAck == [a \in Anchors |-> IF a = "L" THEN LAck ELSE RAck]

\* Positions, and the numbers an anchor's host uses for them in its own
\* sending direction and in the other one.
EndPos == IF SenderBare THEN N + 2 ELSE N + 1
Pos == 0 .. N + 2
SeqOf(a, p) == Wrap(ISeq[a] + p)
AckOf(a, p) == Wrap(IAck[a] + p)

\* Where the payload of a segment that reaches up to e ends: a FIN takes a
\* number but is no payload.
DataEnd(e) == IF e > N + 1 THEN N + 1 ELSE e

States == {"ONE_PATH", "SYN_SENT", "SYN_RECEIVED", "ESTABLISHED"}

VARIABLES
    \* the anchors (kernel)
    cb,         \* cb[a]: the dysco_cb_out of a's session, i.e., the old path's
    nb,         \* nb[a]: the new path's control blocks at a
    two,        \* two[a]: two_paths of a's input blocks, of the two paths
    rcb,        \* rcb[a]: reconfiguration control block, in its table or not
    filling,    \* a DYSCO_ACK is between the lock and the read of seq_cutoff
    \* the daemons and the network
    ctl,        \* control messages sent: any may arrive, at any time, again
    answered,   \* the left daemon has seen a DYSCO_SYN_ACK
    oldData,    \* segments sent on the old path and not lost
    newData,    \* packets of the sender on the new path, not lost
    newAcks,    \* ack numbers on the wire of the new path, not lost
    \* the TCP ends and M
    sndNxt, sndUna,
    rcvd,       \* pairs <<position it was taken for, byte it is>>
    mRcv,       \* M has received all positions below
    mUna,       \* the receiver's acks on the old path, as M has seen them
    oldEnd      \* history: highest end of payload sent on the old path

kernel == <<cb, nb, two, rcb, filling>>
control == <<ctl, answered>>
packets == <<oldData, newData, newAcks>>
ends == <<sndNxt, sndUna, rcvd, mRcv, mUna, oldEnd>>
vars == <<kernel, control, packets, ends>>

\* A NULL pointer, one that was set, or kmalloc's garbage, used or not.
Rcb == {"none", "set", "wild", "crashed"}

Control == [type : {"SYN"}, iseq : Num, iack : Num]
           \cup [type : {"SYN_ACK", "ACK"}, cut : Num]
           \cup [type : {"STATE_TRANSFERRED"}, to : Anchors]

Packet == [s : Pos, e : Pos, seq : Num, ack : Num]

ControlBlock == [state : States, other : BOOLEAN, state_t : BOOLEAN,
                 seq_cutoff : Num, ack_cutoff : Num, valid_ack_cut : BOOLEAN,
                 use_np_seq : BOOLEAN, use_np_ack : BOOLEAN, ack_ctr : 0 .. 2]

TypeOK ==
    /\ cb \in [Anchors -> ControlBlock]
    /\ nb \in [Anchors -> [up : BOOLEAN, iseq : Num, iack : Num]]
    /\ two \in [Anchors -> [old : BOOLEAN, new : BOOLEAN]]
    /\ rcb \in [Anchors -> Rcb]
    /\ filling \in BOOLEAN
    /\ ctl \subseteq Control
    /\ answered \in BOOLEAN
    /\ oldData \subseteq Pos \X Pos
    /\ newData \subseteq Packet
    /\ newAcks \subseteq Num
    /\ sndNxt \in Pos /\ sndUna \in Pos
    /\ rcvd \subseteq Pos \X Pos
    /\ mRcv \in Pos /\ mUna \in Pos /\ oldEnd \in Pos

(***************************************************************************)
(* The session is set up, nothing sent yet.  seq_cutoff is the number of   *)
(* the SYN, except at the left anchor when it is a middlebox: the SYN it   *)
(* forwarded did not set it.                                               *)
(***************************************************************************)
Init ==
    /\ cb = [a \in Anchors |->
               [state |-> "ONE_PATH", other |-> FALSE, state_t |-> FALSE,
                seq_cutoff |-> IF a = "L" /\ ~LeftIsEndpoint THEN 0
                                                             ELSE ISeq[a],
                ack_cutoff |-> 0, valid_ack_cut |-> FALSE,
                use_np_seq |-> FALSE, use_np_ack |-> FALSE, ack_ctr |-> 0]]
    /\ nb = [a \in Anchors |-> [up |-> FALSE, iseq |-> 0, iack |-> 0]]
    /\ two = [a \in Anchors |-> [old |-> FALSE, new |-> FALSE]]
    /\ rcb = [a \in Anchors |-> "none"]
    /\ filling = FALSE
    /\ ctl = {} /\ answered = FALSE
    /\ oldData = {} /\ newData = {} /\ newAcks = {}
    /\ sndNxt = 1 /\ sndUna = 1 /\ rcvd = {}
    /\ mRcv = 1 /\ mUna = 1 /\ oldEnd = 0

-----------------------------------------------------------------------------
(***************************************************************************)
(* The control plane: dysco_control_output and dysco_control_input.        *)
(***************************************************************************)

\* Here and in the other modules an operator whose name has Bug in it is no
\* part of the model: it is the definition after it with a mistake one could
\* make in the code, kept to check that a property notices it.  This one takes
\* the delta of the other direction.
NewAckBugSeqDelta(a, x) == Rewrite(x, ISeq[a], nb[a].iseq)

\* The new path's blocks at a rewrite between the numbers of a's host and
\* those of the wire (no change at the left anchor).
NewSeq(a, x) == Rewrite(x, ISeq[a], nb[a].iseq)
NewAck(a, x) == Rewrite(x, IAck[a], nb[a].iack)
HostSeq(a, x) == Rewrite(x, nb[a].iack, IAck[a])
HostAck(a, x) == Rewrite(x, nb[a].iseq, ISeq[a])

\* A DYSCO_SYN sent again starts over.
LeftSynBugStartsOver ==
    /\ ctl' = ctl \cup {[type |-> "SYN", iseq |-> LSeq, iack |-> LAck]}
    /\ rcb' = [rcb EXCEPT !["L"] = "set"]
    /\ nb' = [nb EXCEPT !["L"] = [up |-> TRUE, iseq |-> LSeq, iack |-> LAck]]
    /\ two' = [two EXCEPT !["L"] = [old |-> TRUE, new |-> TRUE]]
    /\ cb' = [cb EXCEPT !["L"].state = "SYN_SENT", !["L"].other = TRUE,
                        !["L"].state_t = StateTransfer]
    /\ UNCHANGED <<filling, answered, packets, ends>>

\* The left daemon sends, or sends again, DYSCO_SYN.  The reconfiguration
\* block is in its table from the first time on, also when the kernel then
\* failed to allocate the new path's block and dropped the message.
LeftSyn ==
    /\ ctl' = ctl \cup {[type |-> "SYN", iseq |-> LSeq, iack |-> LAck]}
    /\ \/ /\ rcb["L"] = "none"
          /\ rcb' = [rcb EXCEPT !["L"] = "set"]
          /\ nb' = [nb EXCEPT !["L"] = [up |-> TRUE, iseq |-> LSeq, iack |-> LAck]]
          /\ two' = [two EXCEPT !["L"] = [old |-> TRUE, new |-> TRUE]]
          /\ cb' = [cb EXCEPT !["L"].state = "SYN_SENT", !["L"].other = TRUE,
                              !["L"].state_t = StateTransfer]
       \/ /\ rcb["L"] # "none"
          /\ UNCHANGED <<rcb, nb, two, cb>>
    /\ UNCHANGED <<filling, answered, packets, ends>>

LeftSynAllocFails ==
    /\ AllocMayFail
    /\ rcb["L"] = "none"
    /\ rcb' = [rcb EXCEPT !["L"] = "wild"]
    /\ UNCHANGED <<cb, nb, two, filling, control, packets, ends>>

\* The right anchor receives DYSCO_SYN; it ignores one sent again.  (When an
\* allocation fails here the block leaves the table: nothing has changed.)
RightSyn(m) ==
    /\ m.type = "SYN"
    /\ rcb["R"] = "none"
    /\ rcb' = [rcb EXCEPT !["R"] = "set"]
    /\ nb' = [nb EXCEPT !["R"] = [up |-> TRUE, iseq |-> m.iack, iack |-> m.iseq]]
    /\ two' = [two EXCEPT !["R"].new = TRUE]
    /\ cb' = [cb EXCEPT !["R"].state_t = StateTransfer]
    /\ UNCHANGED <<filling, control, packets, ends>>

\* dysco_replace_cb_rightA, each time the right daemon sends DYSCO_SYN_ACK.
RightSynAck ==
    /\ rcb["R"] = "set"
    /\ cb' = [cb EXCEPT !["R"].state = "SYN_RECEIVED", !["R"].other = TRUE]
    /\ ctl' = ctl \cup {[type |-> "SYN_ACK",
                         cut |-> NewSeq("R", cb["R"].seq_cutoff)]}
    /\ UNCHANGED <<nb, two, rcb, filling, answered, packets, ends>>

LeftSynAck(m) ==
    /\ m.type = "SYN_ACK"
    /\ answered' = TRUE
    /\ cb' = IF cb["L"].state = "ESTABLISHED" THEN cb
             ELSE [cb EXCEPT !["L"].ack_cutoff = m.cut,
                             !["L"].valid_ack_cut = TRUE]
    /\ UNCHANGED <<nb, two, rcb, filling, ctl, packets, ends>>

\* The state is left as it is.
LeftEstablishBugNoSwitch == cb' = cb

\* dysco_replace_cb_leftA switches the state under the lock and reads
\* seq_cutoff, for the message, after releasing it.
LeftEstablish ==
    cb' = [cb EXCEPT !["L"].state = IF @ = "SYN_SENT" THEN "ESTABLISHED" ELSE @]

LeftAckLock ==
    /\ answered /\ ~StateTransfer /\ ~filling
    /\ rcb["L"] = "set"
    /\ LeftEstablish
    /\ filling' = TRUE
    /\ UNCHANGED <<nb, two, rcb, control, packets, ends>>

LeftAckFill ==
    /\ filling
    /\ filling' = FALSE
    /\ ctl' = ctl \cup {[type |-> "ACK", cut |-> cb["L"].seq_cutoff]}
    /\ UNCHANGED <<cb, nb, two, rcb, answered, packets, ends>>

\* With state transfer the message goes out as the daemon wrote it.
LeftAckStateTransfer ==
    /\ answered /\ StateTransfer
    /\ ctl' = ctl \cup {[type |-> "ACK", cut |-> 0]}
    /\ UNCHANGED <<kernel, answered, packets, ends>>

\* Without the old block the message's handler follows kmalloc's garbage: a
\* DYSCO_ACK to send, a DYSCO_STATE_TRANSFERRED received.
LeftFollowsWildPointer ==
    /\ rcb["L"] = "wild"
    /\ \/ answered /\ ~StateTransfer
       \/ [type |-> "STATE_TRANSFERRED", to |-> "L"] \in ctl
    /\ rcb' = [rcb EXCEPT !["L"] = "crashed"]
    /\ UNCHANGED <<cb, nb, two, filling, control, packets, ends>>

\* The cutoff is kept as it is on the wire.
RightAckBugWireNumber(m) ==
    /\ m.type = "ACK"
    /\ rcb["R"] = "set"
    /\ cb["R"].other
    /\ cb["R"].state # "ESTABLISHED"
    /\ ~cb["R"].state_t
    /\ cb' = [cb EXCEPT !["R"].ack_cutoff = m.cut,
                        !["R"].valid_ack_cut = TRUE,
                        !["R"].state = "ESTABLISHED"]
    /\ UNCHANGED <<nb, two, rcb, filling, control, packets, ends>>

\* The right anchor receives DYSCO_ACK.
RightAck(m) ==
    /\ m.type = "ACK"
    /\ rcb["R"] = "set"
    /\ cb["R"].other
    /\ cb["R"].state # "ESTABLISHED"
    /\ ~cb["R"].state_t
    /\ cb' = [cb EXCEPT !["R"].ack_cutoff = HostSeq("R", m.cut),
                        !["R"].valid_ack_cut = TRUE,
                        !["R"].state = "ESTABLISHED"]
    /\ UNCHANGED <<nb, two, rcb, filling, control, packets, ends>>

\* The middlebox that takes over tells both anchors that it has the state.
SendStateTransferred(a) ==
    /\ StateTransfer /\ answered
    /\ ctl' = ctl \cup {[type |-> "STATE_TRANSFERRED", to |-> a]}
    /\ UNCHANGED <<kernel, answered, packets, ends>>

LeftStateTransferred(m) ==
    /\ m.type = "STATE_TRANSFERRED" /\ m.to = "L"
    /\ rcb["L"] = "set"
    /\ LeftEstablish
    /\ UNCHANGED <<nb, two, rcb, filling, control, packets, ends>>

RightStateTransferred(m) ==
    /\ m.type = "STATE_TRANSFERRED" /\ m.to = "R"
    /\ rcb["R"] = "set"
    /\ cb' = [cb EXCEPT !["R"].state = "ESTABLISHED"]
    /\ UNCHANGED <<nb, two, rcb, filling, control, packets, ends>>

-----------------------------------------------------------------------------
(***************************************************************************)
(* The data path out of an anchor: dysco_out_translate.  c is the old      *)
(* path's control block.                                                   *)
(***************************************************************************)

\* dysco_pick_path_seq, for a segment whose payload ends before the number
\* end: does it take the new path?
PickPathSeq(c, end) ==
    IF c.state_t THEN c.state = "ESTABLISHED"
                 ELSE c.use_np_seq \/ ~Before(end, c.seq_cutoff)

SeqTakesNewPath(c, end) ==
    /\ c.other
    /\ c.state \in {"ESTABLISHED", "SYN_RECEIVED"}
    /\ PickPathSeq(c, end)

\* seq_cutoff follows the highest payload sent, until the switch.
RecordSeq(c, end) ==
    IF (~c.other \/ c.state = "SYN_SENT") /\ After(end, c.seq_cutoff)
    THEN [c EXCEPT !.seq_cutoff = end] ELSE c

\* ack_ctr is not incremented.
CountAckBugForgets(c) == [c EXCEPT !.use_np_ack = c.ack_ctr >= 1]

\* ack_ctr counts the acks lowered to the cutoff: the second is the last.
CountAck(c) == [c EXCEPT !.ack_ctr = IF @ < 2 THEN @ + 1 ELSE 2,
                         !.use_np_ack = c.ack_ctr >= 1]

\* The ack is not compared with the cutoff.
PickPathAckBugNoCompare(c, ack, fin) ==
    LET old == [cb |-> c, new |-> FALSE, ack |-> ack]
        new == [old EXCEPT !.new = TRUE]
        low == [cb |-> CountAck(c), new |-> FALSE, ack |-> c.ack_cutoff]
    IN  IF c.state_t THEN IF c.state = "ESTABLISHED" THEN new ELSE old
        ELSE IF ~c.valid_ack_cut THEN old
        ELSE IF c.use_np_ack \/ fin THEN new ELSE low

\* dysco_pick_path_ack: an ack at or beyond the cutoff takes the new path
\* only after two like it, lowered to the cutoff, have taken the old one; a
\* FIN does not wait.
PickPathAck(c, ack, fin) ==
    LET old == [cb |-> c, new |-> FALSE, ack |-> ack]
        new == [old EXCEPT !.new = TRUE]
        low == [cb |-> CountAck(c), new |-> FALSE, ack |-> c.ack_cutoff]
    IN  IF c.state_t THEN IF c.state = "ESTABLISHED" THEN new ELSE old
        ELSE IF ~c.valid_ack_cut THEN old
        ELSE IF c.use_np_ack THEN new
        ELSE IF After(c.ack_cutoff, ack) THEN old
        ELSE IF fin THEN new ELSE low

AckPath(c, ack, fin) ==
    IF c.other /\ c.state # "ONE_PATH" THEN PickPathAck(c, ack, fin)
    ELSE [cb |-> c, new |-> FALSE, ack |-> ack]

MaxOf(x, y) == IF x > y THEN x ELSE y

\* The number of the segment's end, by which its path was picked.
NewPacketBugEnd(s, e, ack) ==
    [s |-> s, e |-> e, seq |-> NewSeq(Sender, SeqOf(Sender, e)),
     ack |-> NewAck(Sender, ack)]

\* The packet of the positions s..e-1 on the wire of the new path.
NewPacket(s, e, ack) == [s |-> s, e |-> e, seq |-> NewSeq(Sender, SeqOf(Sender, s)),
                         ack |-> NewAck(Sender, ack)]

\* The TCP of the sender emits a segment with payload, new or again; the
\* other direction has carried only a SYN, so it acknowledges position 1.
SendData(s, e, lost) ==
    LET c   == cb[Sender]
        end == SeqOf(Sender, DataEnd(e))
        new == SeqTakesNewPath(c, end)
    IN  /\ sndUna <= s /\ s <= sndNxt /\ s < DataEnd(e)
        /\ e <= EndPos /\ e - s <= MaxSeg
        /\ e <= sndNxt \/ s = sndNxt
        /\ sndNxt' = MaxOf(sndNxt, e)
        /\ cb' = [cb EXCEPT ![Sender] = IF new THEN c ELSE RecordSeq(c, end)]
        /\ oldEnd' = IF new THEN oldEnd ELSE MaxOf(oldEnd, DataEnd(e))
        /\ oldData' = IF new \/ lost THEN oldData ELSE oldData \cup {<<s, e>>}
        /\ newData' = IF ~new \/ lost THEN newData
                      ELSE newData \cup {NewPacket(s, e, AckOf(Sender, 1))}
        /\ UNCHANGED <<nb, two, rcb, filling, control, newAcks,
                       sndUna, rcvd, mRcv, mUna>>

\* A segment without payload: a FIN (e = s + 1), or just an ack, whose own
\* sequence number nobody looks at (e = s = 0).
SendBare(s, e, lost) ==
    LET r == AckPath(cb[Sender], AckOf(Sender, 1), e > s)
    IN  /\ SenderBare
        /\ \/ s = 0 /\ e = 0
           \/ s = N + 1 /\ e = N + 2 /\ sndNxt >= s /\ sndUna <= s
        /\ sndNxt' = MaxOf(sndNxt, e)
        /\ cb' = [cb EXCEPT ![Sender] = r.cb]
        /\ oldData' = IF r.new \/ lost \/ e = s THEN oldData
                      ELSE oldData \cup {<<s, e>>}
        /\ newData' = IF ~r.new \/ lost THEN newData
                      ELSE newData \cup {NewPacket(s, e, r.ack)}
        /\ UNCHANGED <<nb, two, rcb, filling, control, newAcks,
                       sndUna, rcvd, mRcv, mUna, oldEnd>>

\* nxt is the lowest position the receiver's TCP has not taken.
IsRcvNxt(nxt) ==
    LET taken == {t[1] : t \in rcvd}
    IN  1 .. nxt - 1 \subseteq taken /\ nxt \notin taken

\* The TCP of the receiver emits an ack without payload, with or without its
\* own FIN.  On the old path M sees it unless it is lost.
ReceiverAck(nxt, fin, lost) ==
    LET r == AckPath(cb[Receiver], AckOf(Receiver, nxt), fin)
        p == Offset(IAck[Receiver], r.ack)
    IN  /\ IsRcvNxt(nxt)
        /\ cb' = [cb EXCEPT ![Receiver] = r.cb]
        /\ newAcks' = IF ~r.new \/ lost THEN newAcks
                      ELSE newAcks \cup {NewAck(Receiver, r.ack)}
        /\ mUna' = IF r.new \/ lost \/ p > N + 2 THEN mUna ELSE MaxOf(mUna, p)
        /\ UNCHANGED <<nb, two, rcb, filling, control, oldData, newData,
                       sndNxt, sndUna, rcvd, mRcv, oldEnd>>

-----------------------------------------------------------------------------
(***************************************************************************)
(* The data path into an anchor: dysco_input.                              *)
(***************************************************************************)

\* dysco_in_two_paths_ack, for a segment without payload and the ack number
\* it has on the wire: when it covers the cutoff, all goes on the new path.
TwoPathsAck(a, path, ack) ==
    LET c      == cb[a]
        closed == c.state_t /\ c.state = "ESTABLISHED"
        covers == /\ ~closed /\ (c.state_t => path = "new")
                  /\ ~After(c.seq_cutoff, ack)
    IN  /\ two' = [two EXCEPT ![a][path] = @ /\ ~closed /\ ~covers]
        /\ cb' = [cb EXCEPT ![a].use_np_seq = @ \/ (two[a][path] /\ covers)]

\* The cutoff is not learnt from the data, at the right or at the left anchor.
TwoPathsDataBugLeftOnly(a, seq) ==
    LET c == cb[a]
        x == HostSeq(a, seq)
    IN  cb' = IF /\ two[a].new
                 /\ c.state = "SYN_SENT"
                 /\ c.valid_ack_cut => Before(x, c.ack_cutoff)
              THEN [cb EXCEPT ![a].ack_cutoff = x, ![a].valid_ack_cut = TRUE]
              ELSE cb

\* dysco_in_two_paths_data_seg, for payload on the new path: until the
\* control message comes the cutoff is the lowest number seen.
TwoPathsData(a, seq) ==
    LET c == cb[a]
        x == HostSeq(a, seq)
    IN  cb' = IF /\ two[a].new
                 /\ c.state \in {"SYN_SENT", "SYN_RECEIVED"}
                 /\ c.valid_ack_cut => Before(x, c.ack_cutoff)
              THEN [cb EXCEPT ![a].ack_cutoff = x, ![a].valid_ack_cut = TRUE]
              ELSE cb

\* What the receiver's TCP takes from a packet of the new path: each byte for
\* the position its number stands for, if that is in the window.
Taken(p) ==
    {t \in {<<Offset(IAck[Receiver],
                     Wrap(HostSeq(Receiver, p.seq) + (b - p.s))), b>> :
               b \in p.s .. p.e - 1} : t[1] \in 1 .. N + 1}

NewArrive(p) ==
    /\ nb[Receiver].up
    /\ IF p.s < DataEnd(p.e)
       THEN TwoPathsData(Receiver, p.seq) /\ UNCHANGED two
       ELSE TwoPathsAck(Receiver, "new", p.ack)
    /\ rcvd' = rcvd \cup Taken(p)
    /\ UNCHANGED <<nb, rcb, filling, control, packets,
                   sndNxt, sndUna, mRcv, mUna, oldEnd>>

\* An ack of the receiver reaches the sender on the new path.
NewAckArrive(x) ==
    LET p == Offset(ISeq[Sender], HostAck(Sender, x))
    IN  /\ nb[Sender].up
        /\ TwoPathsAck(Sender, "new", x)
        /\ sndUna' = IF p <= sndNxt THEN MaxOf(sndUna, p) ELSE sndUna
        /\ UNCHANGED <<nb, rcb, filling, control, packets,
                       sndNxt, rcvd, mRcv, mUna, oldEnd>>

\* M receives a segment of the old path, in order.
OldArrive(s, e) ==
    /\ s <= mRcv /\ mRcv < e
    /\ mRcv' = e
    /\ UNCHANGED <<kernel, control, packets, sndNxt, sndUna, rcvd, mUna, oldEnd>>

\* M forwards, or sends again, a byte or the FIN it has received.
OldDeliver(p) ==
    /\ p < mRcv
    /\ IF p = N + 1 THEN TwoPathsAck(Receiver, "old", SeqOf(Receiver, 1))
                    ELSE UNCHANGED <<cb, two>>
    /\ rcvd' = rcvd \cup {<<p, p>>}
    /\ UNCHANGED <<nb, rcb, filling, control, packets,
                   sndNxt, sndUna, mRcv, mUna, oldEnd>>

\* M acknowledges to the sender what it has received, or less.
OldAckArrive(p) ==
    /\ p <= mRcv
    /\ TwoPathsAck(Sender, "old", SeqOf(Sender, p))
    /\ sndUna' = MaxOf(sndUna, p)
    /\ UNCHANGED <<nb, rcb, filling, control, packets,
                   sndNxt, rcvd, mRcv, mUna, oldEnd>>

-----------------------------------------------------------------------------
ControlStep ==
    \/ LeftSyn \/ LeftSynAllocFails
    \/ RightSynAck
    \/ LeftAckLock \/ LeftAckFill \/ LeftAckStateTransfer
    \/ LeftFollowsWildPointer
    \/ \E a \in Anchors : SendStateTransferred(a)
    \/ \E m \in ctl : \/ RightSyn(m) \/ LeftSynAck(m) \/ RightAck(m)
                      \/ LeftStateTransferred(m) \/ RightStateTransferred(m)

DataStep ==
    \/ \E s, e \in Pos, lost \in BOOLEAN : SendData(s, e, lost) \/ SendBare(s, e, lost)
    \/ \E nxt \in 1 .. N + 2, fin, lost \in BOOLEAN : ReceiverAck(nxt, fin, lost)
    \/ \E p \in newData : NewArrive(p)
    \/ \E x \in newAcks : NewAckArrive(x)
    \/ \E seg \in oldData : OldArrive(seg[1], seg[2])
    \/ \E p \in 1 .. N + 1 : OldDeliver(p)
    \/ \E p \in 1 .. N + 2 : OldAckArrive(p)

\* After the left anchor's kernel has followed a wild pointer nothing is known.
Next == rcb["L"] # "crashed" /\ (ControlStep \/ DataStep)

Spec == Init /\ [][Next]_vars

-----------------------------------------------------------------------------
(***************************************************************************)
(* What a reconfiguration must keep.                                       *)
(***************************************************************************)

\* Every byte the receiver's TCP takes is the byte of that position,
\* whichever path it came on and whatever the two anchors' initial numbers
\* are: the translation at the right anchor is right for data, wraps included.
StreamIntact == \A t \in rcvd : t[1] = t[2]

\* What the sender's TCP believes acknowledged is never lost: M or the
\* receiver has it.  The acks that the two anchors move between the paths,
\* lower and translate are never about bytes nobody has.
AckedIsHeld ==
    \A p \in 1 .. N + 1 : p < sndUna => p < mRcv \/ <<p, p>> \in rcvd

\* No ack on the old path is for bytes that were only sent on the new one:
\* acks change paths at the same cutoff as data.
AcksSplitAtCutoff ==
    mUna > 1 => mUna <= oldEnd \/ \E seg \in oldData : mUna <= seg[2]

\* The number of a position on the wire of the new path, and the message by
\* which the sending side announces its cutoff.
WireOf(p) == IF Sender = "L" THEN SeqOf("L", p) ELSE AckOf("L", p)
Announcement == IF Sender = "L" THEN "ACK" ELSE "SYN_ACK"

\* Without state transfer the sending anchor's seq_cutoff is the end of what it
\* has sent on the old path, whatever is sent while the handshake goes on.
CutoffExact == cb[Sender].seq_cutoff = SeqOf(Sender, oldEnd)

\* Every announcement made of it, the first or a later copy, stays true:
\* nothing is sent on the old path beyond it afterwards.
AnnouncedCutoff ==
    \A m \in ctl : m.type = Announcement => m.cut = WireOf(oldEnd)

\* The receiving anchor, once ESTABLISHED, switches its acks exactly where the
\* sending anchor switched its data.
CutoffAgreement ==
    cb[Receiver].state = "ESTABLISHED" /\ cb[Receiver].valid_ack_cut =>
        cb[Receiver].ack_cutoff = AckOf(Receiver, oldEnd)

\* The sending anchor leaves the old path for good (use_np_seq) only when all
\* that was sent on it is acknowledged.
ReleasedWhenAcked == cb[Sender].use_np_seq => sndUna >= oldEnd

\* Once the new path has carried data, no new data goes on the old path.
NewPathIsForGood ==
    [][newData # {} => oldEnd' = oldEnd]_vars

\* What the sender's TCP has sent and M or the receiver's TCP has.
Stream == INSTANCE ReliableStream WITH
    sent <- sndNxt, acked <- sndUna, got <- rcvd,
    held <- {p \in 1 .. N + 1 : p < mRcv \/ <<p, p>> \in rcvd}

\* The two anchors and what they do to the packets of both paths are a reliable
\* stream to the TCP ends: no byte is taken for another or before it was sent, no
\* ack is for bytes nobody has, nothing that was held or acknowledged is not so
\* later, whichever paths data and acks are moved to, lowered to or translated for.
ImplementsStream == Stream!StreamSpec

(***************************************************************************)
(* Progress.  TCP sends again what is not acknowledged; what is sent       *)
(* infinitely often is not always lost; what is in flight arrives; M is    *)
(* such a TCP too.  Nothing is assumed of the control plane: a handshake   *)
(* may stop anywhere.                                                      *)
(***************************************************************************)
Fairness ==
    /\ SF_vars(\E e \in Pos : SendData(sndUna, e, FALSE))
    /\ SF_vars(\E nxt \in 1 .. N + 2 : ReceiverAck(nxt, FALSE, FALSE))
    /\ WF_vars(\E seg \in oldData : OldArrive(seg[1], seg[2]))
    /\ WF_vars(\E p \in 1 .. N + 1 : OldDeliver(p))
    /\ WF_vars(OldAckArrive(mRcv))
    /\ \A s \in 1 .. N : WF_vars(\E p \in newData : p.s = s /\ NewArrive(p))
    /\ WF_vars(\E x \in newAcks : NewAckArrive(x))

FairSpec == Spec /\ Fairness

\* All the data arrives, and the sender learns it, wherever the handshake
\* stops and however its messages are lost, repeated or reordered.
AllDelivered ==
    <>(sndUna > N /\ \A p \in 1 .. N : <<p, p>> \in rcvd)
=============================================================================
