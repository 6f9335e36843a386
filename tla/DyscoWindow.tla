----------------------------- MODULE DyscoWindow -----------------------------
(***************************************************************************)
(* A proxy about to be spliced out of its session.  Its two TCP sessions   *)
(* are still its own; once a control message has put their sockets into    *)
(* the output blocks, the windows that the proxy announces are cut, so     *)
(* that little is left in it when the paths are switched.                  *)
(***************************************************************************)
EXTENDS DyscoSeq, FiniteSets

CONSTANTS
    First,          \* the number of the first byte that each session receives
    Bytes,          \* how many bytes arrive on each
    MaxWndRec,      \* MAX_WND_REC
    Space,          \* the receive buffers of the proxy's sockets
    Scales,         \* rcv_wscale of both sessions is one of these
    Savers,         \* the CPUs that may see the control message
    MaxAcks,        \* the bound on acks on their way
    None

Side == {"left", "right"}
Peer(c) == IF c = "left" THEN "right" ELSE "left"

ASSUME WindowAssumption ==
    /\ First \in [Side -> Num] /\ Bytes \in [Side -> 0 .. H - 1]
    /\ MaxWndRec \in Nat \ {0} /\ Space \in MaxWndRec .. H - 1
    /\ Scales \subseteq {s \in 0 .. 14 : 2 ^ s \in 1 .. MaxWndRec} /\ MaxAcks \in Nat
    /\ None \notin Side

VARIABLES
    wscale,
    sent,           \* bytes that the sender has sent
    una, edge,      \* what the sender knows: acknowledged, and allowed to send
    rcvd, read,     \* bytes in order at the proxy's socket; those it has read
    my, other,      \* my_tp and other_tp of the output block of the session's acks
    saver,          \* of each CPU: the next assignment of dysco_ctl_save_rcv_window
    out,            \* the ack in dysco_output
    acks,           \* acks on their way to the sender
    free,           \* history: the largest edge announced before the fix
    wrapped         \* history: rcv_nxt had wrapped in some fix, copied_seq had not

stream == <<sent, una, edge, rcvd, read>>
blocks == <<my, other, saver>>
vars == <<wscale, stream, blocks, out, acks, free, wrapped>>

NoAck == [pc |-> "none", pos |-> 0, wnd |-> 0, nxt |-> 0]
Unread(c) == rcvd[c] - read[c]
RcvNxt(c) == (First[c] + rcvd[c]) % W
CopiedSeq(c) == (First[c] + read[c]) % W
Least(a, b) == IF a < b THEN a ELSE b

Init ==
    /\ wscale \in Scales
    /\ sent = [c \in Side |-> 0] /\ una = sent
    /\ edge = [c \in Side |-> Space] /\ free = edge
    /\ rcvd = [c \in Side |-> 0] /\ read = rcvd
    /\ my = [c \in Side |-> None] /\ other = my
    /\ saver = [k \in Savers |-> "idle"]
    /\ out = [c \in Side |-> NoAck]
    /\ acks = [c \in Side |-> {}]
    /\ wrapped = FALSE

-----------------------------------------------------------------------------
(* dysco_ctl_save_rcv_window.  The sockets stay: the lookup holds them.    *)

\* Nothing is done for a message that comes again, or whose sockets are not found.
SaveStart(k) ==
    /\ saver[k] = "idle"
    /\ my["left"] = None
    /\ saver' = [saver EXCEPT ![k] = "left other"]
    /\ UNCHANGED <<my, other>>

\* my_tp before other_tp.
SaveSocketsBugMyFirst(k) ==
    \/ /\ saver[k] = "left other"
       /\ my' = [my EXCEPT !["left"] = "left"]
       /\ saver' = [saver EXCEPT ![k] = "left my"] /\ UNCHANGED other
    \/ /\ saver[k] = "left my"
       /\ other' = [other EXCEPT !["left"] = "right"]
       /\ saver' = [saver EXCEPT ![k] = "right other"] /\ UNCHANGED my
    \/ /\ saver[k] = "right other"
       /\ my' = [my EXCEPT !["right"] = "right"]
       /\ saver' = [saver EXCEPT ![k] = "right my"] /\ UNCHANGED other
    \/ /\ saver[k] = "right my"
       /\ other' = [other EXCEPT !["right"] = "left"]
       /\ saver' = [saver EXCEPT ![k] = "idle"] /\ UNCHANGED my

\* The four assignments; packets are sent in between.
SaveSockets(k) ==
    \/ /\ saver[k] = "left other"
       /\ other' = [other EXCEPT !["left"] = "right"]
       /\ saver' = [saver EXCEPT ![k] = "left my"] /\ UNCHANGED my
    \/ /\ saver[k] = "left my"
       /\ my' = [my EXCEPT !["left"] = "left"]
       /\ saver' = [saver EXCEPT ![k] = "right other"] /\ UNCHANGED other
    \/ /\ saver[k] = "right other"
       /\ other' = [other EXCEPT !["right"] = "left"]
       /\ saver' = [saver EXCEPT ![k] = "right my"] /\ UNCHANGED my
    \/ /\ saver[k] = "right my"
       /\ my' = [my EXCEPT !["right"] = "right"]
       /\ saver' = [saver EXCEPT ![k] = "idle"] /\ UNCHANGED other

SaveRcvWindow(k) ==
    /\ SaveStart(k) \/ SaveSockets(k)
    /\ UNCHANGED <<wscale, stream, out, acks, free, wrapped>>

-----------------------------------------------------------------------------
(* The data path of acks.                                                  *)

\* The proxy's TCP acknowledges: data, a window that has grown, or a probe.  It
\* never takes an edge back.
TcpAck(c) ==
    /\ out[c].pc = "none" /\ una[c] < Bytes[c]
    /\ out' = [out EXCEPT ![c] = [pc |-> "sent", pos |-> rcvd[c], nxt |-> 0,
                                  wnd |-> (Space - Unread(c)) \div 2 ^ wscale]]
    /\ UNCHANGED <<wscale, stream, blocks, acks, free, wrapped>>

\* What the other session has in its buffer does not matter: nxt is my rcv_nxt.
\* When it has wrapped, the bytes are counted from the other socket's copied_seq.
RcvBuf(c, nxt) ==
    IF nxt >= CopiedSeq(my[c]) THEN nxt - CopiedSeq(my[c])
    ELSE Wrap(nxt + (W - CopiedSeq(other[c])))

\* The hack for sessions without scaling is effective.
NewWindowBugHackLast(c, old, buf) ==
    IF wscale = 0 \/ buf > MaxWndRec THEN 0 ELSE Least(MaxWndRec, old)

\* dysco_fix_rcv_window: what it computes from snd_wnd, and the 0 for sessions
\* without scaling, is overwritten by its last condition.
NewWindow(c, old, buf) == IF buf > MaxWndRec THEN 0 ELSE Least(MaxWndRec, old)

\* The window is cut by what the buffer holds.
FixedBugOldKept(c) ==
    LET old == out[c].wnd * 2 ^ wscale
    IN IF RcvBuf(c, out[c].nxt) > MaxWndRec THEN 0 ELSE old \div 2 ^ wscale

Fixed(c) ==
    LET old == out[c].wnd * 2 ^ wscale
    IN NewWindow(c, old, RcvBuf(c, out[c].nxt)) \div 2 ^ wscale

\* dysco_output has found my_tp, and reads its rcv_nxt; the application may read
\* from the socket, and data arrive, before it reads copied_seq.
ReadRcvNxt(c) ==
    /\ out[c].pc = "sent" /\ out[c].wnd # 0 /\ my[c] # None
    /\ out' = [out EXCEPT ![c].pc = "fix", ![c].nxt = RcvNxt(my[c])]
    /\ UNCHANGED <<wscale, stream, blocks, acks, free, wrapped>>

\* The ack leaves, unless it is lost.
Leave(c, wnd) ==
    /\ out' = [out EXCEPT ![c] = NoAck]
    /\ \/ /\ Cardinality(acks[c]) < MaxAcks
          /\ acks' = [acks EXCEPT ![c] = @ \cup {[pos |-> out[c].pos, wnd |-> wnd]}]
       \/ UNCHANGED acks
    /\ UNCHANGED <<wscale, stream, blocks>>

FixRcvWindow(c) ==
    /\ out[c].pc = "fix"
    /\ Leave(c, Fixed(c))
    /\ wrapped' = (wrapped \/ RcvNxt(c) < CopiedSeq(c))
    /\ UNCHANGED free

\* No socket is known yet, or the window is 0 already.
Unfixed(c) ==
    /\ out[c].pc = "sent" /\ (my[c] = None \/ out[c].wnd = 0)
    /\ Leave(c, out[c].wnd)
    /\ free' = [free EXCEPT ![c] = IF @ < out[c].pos + out[c].wnd * 2 ^ wscale
                                   THEN out[c].pos + out[c].wnd * 2 ^ wscale ELSE @]
    /\ UNCHANGED wrapped

-----------------------------------------------------------------------------
(* The two ends and the application.                                       *)

\* A window is taken from an ack of something new, or if it is larger.
TakeAck(c, m) ==
    /\ acks' = [acks EXCEPT ![c] = @ \ {m}]
    /\ LET new == m.pos + m.wnd * 2 ^ wscale IN
       IF m.pos > una[c] \/ (m.pos = una[c] /\ new > edge[c])
       THEN una' = [una EXCEPT ![c] = m.pos] /\ edge' = [edge EXCEPT ![c] = new]
       ELSE UNCHANGED <<una, edge>>
    /\ UNCHANGED <<wscale, sent, rcvd, read, blocks, out, free, wrapped>>

SendByte(c) ==
    /\ sent[c] < edge[c] /\ sent[c] < Bytes[c]
    /\ sent' = [sent EXCEPT ![c] = @ + 1]
    /\ UNCHANGED <<wscale, una, edge, rcvd, read, blocks, out, acks, free, wrapped>>

ByteArrives(c) ==
    /\ rcvd[c] < sent[c] /\ Unread(c) < Space
    /\ rcvd' = [rcvd EXCEPT ![c] = @ + 1]
    /\ UNCHANGED <<wscale, sent, una, edge, read, blocks, out, acks, free, wrapped>>

AppReads(c) ==
    /\ Unread(c) > 0
    /\ read' = [read EXCEPT ![c] = @ + 1]
    /\ UNCHANGED <<wscale, sent, una, edge, rcvd, blocks, out, acks, free, wrapped>>

Next ==
    \/ \E k \in Savers : SaveRcvWindow(k)
    \/ \E c \in Side :
          \/ TcpAck(c) \/ ReadRcvNxt(c) \/ FixRcvWindow(c) \/ Unfixed(c)
          \/ SendByte(c) \/ ByteArrives(c) \/ AppReads(c)
          \/ \E m \in acks[c] : TakeAck(c, m)

Spec == Init /\ [][Next]_vars

\* Some ack gets on its way.
Out(c) == (FixRcvWindow(c) \/ Unfixed(c)) /\ acks' # acks

\* The application goes on reading, and the sender sending what it may; it probes
\* a closed window, and TCP answers; of acks sent again and again some arrive.
FairSpec ==
    /\ Spec
    /\ \A c \in Side :
          /\ WF_vars(TcpAck(c)) /\ WF_vars(ReadRcvNxt(c)) /\ SF_vars(Out(c))
          /\ WF_vars(FixRcvWindow(c) \/ Unfixed(c))
          /\ WF_vars(SendByte(c)) /\ WF_vars(ByteArrives(c)) /\ WF_vars(AppReads(c))
          /\ WF_vars(\E m \in acks[c] : TakeAck(c, m))

-----------------------------------------------------------------------------
(* Properties.                                                             *)

\* What dysco_output finds when a block has my_tp is the pair of sockets, the
\* session's own first, whichever of the four assignments it runs between and
\* however many CPUs save.
SocketsPaired ==
    \A c \in Side : my[c] # None => my[c] = c /\ other[c] = Peer(c)

\* Beyond what was announced before the fix, no more than two windows of
\* MAX_WND_REC are ever left unread in the proxy: one was in the buffer when the
\* other was announced.  Not so if rcv_nxt wraps around meanwhile.
Throttled ==
    \A c \in Side : Unread(c) > 2 * MaxWndRec => rcvd[c] <= free[c] \/ wrapped

\* Cut to 0, the window opens again: all bytes get to the application, although
\* the proxy's TCP never learns which window was announced in its name.
AllRead == \A c \in Side : <>(read[c] = Bytes[c])
=============================================================================
