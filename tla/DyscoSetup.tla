----------------------------- MODULE DyscoSetup -----------------------------
(***************************************************************************)
(* The setup of sessions through a chain of hosts 0..Last: the client's, at *)
(* which the policy applies, the middleboxes, and the server's.  The SYN    *)
(* carries the session's five-tuple and the rest of the chain as payload;   *)
(* each host takes them off, gives the SYN to its stack with a local tag,   *)
(* keeps what has to go on in two pending tables until the middlebox sends  *)
(* the SYN, and links the subsessions on both sides with control blocks.    *)
(* The SYN+ACK returns along the blocks.                                    *)
(***************************************************************************)
EXTENDS Integers, Sequences, FiniteSets

CONSTANTS
    Sessions, NoSession,
    Last,           \* the server's host
    BucketOf,       \* the hash of a session's five-tuple in a table
    H,              \* values of the half of a tag that the parser reads (2^16)
    Loads           \* the sessions of a behaviour, see Load

\* Which sessions start, which of them the first middlebox translates, where
\* the hosts' tags start (dysco_create_hashes leaves dysco_tag as kmalloc
\* returned it), and a bound: how often a packet is sent or arrives again.
Load == [sessions : SUBSET Sessions, translated : SUBSET Sessions, tag : Nat,
         again : Nat]

ASSUME SetupAssumption ==
    /\ NoSession \notin Sessions
    /\ Last \in Nat \ {0} /\ H \in Nat \ {0, 1}
    /\ BucketOf \in [Sessions -> Nat \ {0}]
    /\ Loads \subseteq Load

Hosts == 0 .. Last
Middleboxes == 1 .. Last - 1

VARIABLES
    load,       \* never changes
    tab,        \* tab[h]: the output blocks and the heads of the lists they are in
    ins,        \* ins[h]: dysco_hash_in, from subsession to input block
    dysco_tag,  \* dysco_tag[h]: the next tag
    ports,      \* ports[h]: the next pair of ports (DyscoPorts)
    wire,       \* the packets sent; each may arrive late, again or never
    inside,     \* inside[h]: packets that dysco_input gave to the stack
    work,       \* work[h][s]: what dysco_output does with a packet of s
    again

vars == <<load, tab, ins, dysco_tag, ports, wire, inside, work, again>>

-----------------------------------------------------------------------------
(* Five-tuples, packets and control blocks.                                *)

\* The five-tuple of a session, as translated by some middleboxes.
Super == [s : Sessions, by : SUBSET Middleboxes, rev : BOOLEAN]
\* The five-tuple of a subsession.  The ports of the two ends come from
\* ranges that have nothing in common, so a reversed one is no other's.
Sub == [from : Hosts, to : Hosts, ports : Nat, rev : BOOLEAN]
NoSub == [from |-> 0, to |-> 0, ports |-> 0, rev |-> FALSE]

Reverse(super) == [super EXCEPT !.rev = ~@]
Back(sub) == [sub EXCEPT !.from = sub.to, !.to = sub.from, !.rev = ~@]

\* The hosts of the chain after h.
Rest(h) == [i \in 1 .. Last - h |-> h + i]

\* An initial sequence number.
Iss(super) == <<super.s, IF super.rev THEN "server" ELSE "client">>
NoIss == <<NoSession, "none">>

NewBlock(super, sub, sc) ==
    [super |-> super, sub |-> sub, sc |-> sc, next |-> 0, tag |-> 0,
     iseq |-> NoIss, iack |-> NoIss]

NoPacket == [ack |-> FALSE, super |-> [s |-> NoSession, by |-> {}, rev |-> FALSE],
             tags |-> <<>>]
Idle == [pkt |-> NoPacket, via |-> "idle", node |-> 0]

\* The tag is read two bytes too early, where the option has its padding: what
\* is read is the lower half of the tag, as an upper half.
Parsed(tag) == (tag % H) * H

-----------------------------------------------------------------------------
(* Lists of the hash tables.  A block has one link, next, for all tables.  *)

Tables == {"out", "pen", "tag"}
\* The five-tuples of translated sessions hash to a bucket of their own, the
\* tags of a table to a single one.
Buckets == {0} \cup {BucketOf[s] : s \in Sessions}
Bucket(super) == IF super.by = {} THEN BucketOf[super.s] ELSE 0

\* What a walk from node n meets after k links, 0 at the end.
Walk(t, n) ==
    LET f[k \in 0 .. Len(t.block)] ==
          IF k = 0 THEN n ELSE IF f[k - 1] = 0 THEN 0 ELSE t.block[f[k - 1]].next
    IN f

\* The first of the nodes `hits' in a list, 0 if none.
Find(t, table, b, hits) ==
    LET w == Walk(t, t.head[table][b])
        found == {k \in DOMAIN w : w[k] \in hits}
    IN IF found = {} THEN 0 ELSE w[CHOOSE k \in found : \A l \in found : k <= l]

Insert(t, table, b, n) ==
    [t EXCEPT !.block[n].next = t.head[table][b], !.head[table][b] = n]

Remove(t, table, b, n) ==
    LET w == Walk(t, t.head[table][b])
        before == {m \in {w[k] : k \in DOMAIN w} \ {0} : t.block[m].next = n}
    IN IF t.head[table][b] = n
       THEN [t EXCEPT !.head[table][b] = t.block[n].next]
       ELSE [t EXCEPT !.block = [m \in DOMAIN t.block |->
               IF m \in before THEN [t.block[m] EXCEPT !.next = t.block[n].next]
               ELSE t.block[m]]]

Alloc(t, block) == [t EXCEPT !.block = Append(@, block)]

\* An input block into dysco_hash_in.
InsertInput(inputs, sub, block) ==
    [x \in DOMAIN inputs \cup {sub} |-> IF x = sub THEN block ELSE inputs[x]]

LookupSuper(t, table, super) ==
    Find(t, table, Bucket(super), {n \in DOMAIN t.block : t.block[n].super = super})
LookupTag(t, tags) ==
    IF tags = <<>> THEN 0
    ELSE Find(t, "tag", 0,
              {n \in DOMAIN t.block : t.block[n].tag = Parsed(tags[Len(tags)])})

-----------------------------------------------------------------------------
EmptyTables == [block |-> <<>>, head |-> [x \in Tables |-> [b \in Buckets |-> 0]]]

Init ==
    /\ load \in Loads
    /\ tab = [h \in Hosts |-> EmptyTables]
    /\ ins = [h \in Hosts |-> <<>>]
    /\ dysco_tag = [h \in Hosts |-> load.tag]
    /\ ports = [h \in Hosts |-> 0]
    /\ wire = {}
    /\ inside = [h \in Hosts |-> {}]
    /\ work = [h \in Hosts |-> [s \in Sessions |-> Idle]]
    /\ again = 0

-----------------------------------------------------------------------------
(* What the hosts give to dysco_output.                                    *)

\* The output table is not searched.
LookupBlockBugPendingOnly(h, p) ==
    LET pen == LookupSuper(tab[h], "pen", p.super)
    IN IF pen # 0 THEN [pkt |-> p, via |-> "pen", node |-> pen]
       ELSE [pkt |-> p, via |-> "none", node |-> 0]

\* The output table first, then the pending tables by five-tuple and by tag.
LookupBlock(h, p) ==
    LET t == tab[h]
        out == LookupSuper(t, "out", p.super)
        pen == LookupSuper(t, "pen", p.super)
        tag == LookupTag(t, p.tags)
    IN IF out # 0 THEN [pkt |-> p, via |-> "out", node |-> out]
       ELSE IF pen # 0 THEN [pkt |-> p, via |-> "pen", node |-> pen]
       ELSE IF tag # 0 THEN [pkt |-> p, via |-> "tag", node |-> tag]
       ELSE [pkt |-> p, via |-> "none", node |-> 0]

\* Packets of one session are on one CPU, so a host has one of them at a time
\* between the lookup and what follows from it; other sessions' packets may
\* be handled in between.
DyscoOutput(h, p) ==
    /\ work[h][p.super.s] = Idle
    /\ work' = [work EXCEPT ![h][p.super.s] = LookupBlock(h, p)]

\* The bound of the model: what happens again uses it up.
Repeats(isRepeat) ==
    IF isRepeat THEN again < load.again /\ again' = again + 1 ELSE UNCHANGED again

\* The client's TCP sends its SYN, once or again.
ClientSyn(s) ==
    LET super == [s |-> s, by |-> {}, rev |-> FALSE] IN
    /\ s \in load.sessions
    /\ DyscoOutput(0, [ack |-> FALSE, super |-> super, tags |-> <<>>])
    /\ Repeats(\E m \in wire : m.super = super)
    /\ UNCHANGED <<load, tab, ins, dysco_tag, ports, wire, inside>>

\* What a middlebox makes of a packet: the first one translates the addresses
\* of some sessions there and back.
Forwarded(h, p) ==
    IF h # 1 \/ p.super.s \notin load.translated THEN p
    ELSE [p EXCEPT !.super.by = IF p.super.rev THEN @ \ {h} ELSE @ \cup {h}]

MiddleboxForwards(h) ==
    /\ h \in Middleboxes
    /\ \E p \in inside[h] :
         /\ DyscoOutput(h, Forwarded(h, p))
         /\ inside' = [inside EXCEPT ![h] = @ \ {p}]
    /\ UNCHANGED <<load, tab, ins, dysco_tag, ports, wire, again>>

\* The server's TCP answers a SYN, once or again.
ServerSynAck ==
    /\ \E p \in inside[Last] :
         /\ DyscoOutput(Last, [ack |-> TRUE, super |-> Reverse(p.super), tags |-> <<>>])
         /\ Repeats(\E m \in wire : m.super = Reverse(p.super))
    /\ UNCHANGED <<load, tab, ins, dysco_tag, ports, wire, inside>>

-----------------------------------------------------------------------------
(* dysco_output, after the lookup.                                         *)

\* A SYN with its payload.
SynOnWire(b, tags) ==
    [ack |-> FALSE, sub |-> b.sub, super |-> b.super, sc |-> b.sc, tags |-> tags]
\* A packet that Dysco does not touch.
Plain(p) ==
    [ack |-> p.ack, sub |-> NoSub, super |-> p.super, sc |-> <<>>, tags |-> p.tags]

Done(h, s) == work' = [work EXCEPT ![h][s] = Idle]

NewSub(h, sc) == [from |-> h, to |-> sc[1], ports |-> ports[h] + 1, rev |-> FALSE]

\* The addresses are not reversed.
ReverseInBugSameWay(b) == [super |-> b.super, iseq |-> b.iack, iack |-> b.iseq]

\* dysco_insert_cb_out_reverse: the way back.
ReverseIn(b) == [super |-> Reverse(b.super), iseq |-> b.iack, iack |-> b.iseq]

\* dysco_out_handle_mb: the middlebox sends a SYN that is pending.
HandleMb(h, n, p, b) ==
    LET t1 == Remove(tab[h], "pen", Bucket(b.super), n)
        t2 == Remove(t1, "tag", 0, n)
        tag == IF p.tags = <<>> THEN b.tag ELSE Parsed(p.tags[Len(p.tags)])
        b2 == [b EXCEPT !.sub = NewSub(h, b.sc), !.iseq = Iss(p.super), !.tag = tag,
                        !.next = t2.block[n].next]
        t3 == [t2 EXCEPT !.block[n] = b2]
    IN /\ tab' = [tab EXCEPT ![h] = Insert(t3, "out", Bucket(b2.super), n)]
       /\ ins' = [ins EXCEPT ![h] = InsertInput(@, Back(b2.sub), ReverseIn(b2))]
       /\ ports' = [ports EXCEPT ![h] = @ + 1]
       /\ wire' = wire \cup
            {SynOnWire(b2, IF p.tags = <<>> THEN <<>> ELSE SubSeq(p.tags, 1, Len(p.tags) - 1))}

OutPending(h, s) ==
    LET w == work[h][s] IN
    /\ w.via = "pen"
    /\ HandleMb(h, w.node, w.pkt, tab[h].block[w.node])
    /\ Done(h, s)
    /\ UNCHANGED <<load, dysco_tag, inside, again>>

\* The middlebox has changed the five-tuple: it is updated in the block.
OutPendingTag(h, s) ==
    LET w == work[h][s] IN
    /\ w.via = "tag"
    /\ HandleMb(h, w.node, w.pkt, [tab[h].block[w.node] EXCEPT !.super = w.pkt.super])
    /\ Done(h, s)
    /\ UNCHANGED <<load, dysco_tag, inside, again>>

\* The policy of the client's host is for the SYNs of its clients.
MatchPolicy(h, p) == h = 0 /\ ~p.ack

OutSynPolicy(h, s) ==
    LET w == work[h][s]
        b == NewBlock(w.pkt.super, NewSub(h, Rest(h)), Rest(h))
        n == Len(tab[h].block) + 1
    IN /\ w.via = "none" /\ MatchPolicy(h, w.pkt)
       /\ tab' = [tab EXCEPT ![h] = Insert(Alloc(@, b), "out", Bucket(b.super), n)]
       /\ ins' = [ins EXCEPT ![h] = InsertInput(@, Back(b.sub), ReverseIn(b))]
       /\ ports' = [ports EXCEPT ![h] = @ + 1]
       /\ wire' = wire \cup {SynOnWire(b, w.pkt.tags)}
       /\ Done(h, s)
       /\ UNCHANGED <<load, dysco_tag, inside, again>>

\* Nothing is known of the session.
OutPlain(h, s) ==
    LET w == work[h][s] IN
    /\ w.via = "none" /\ ~MatchPolicy(h, w.pkt)
    /\ wire' = wire \cup {Plain(w.pkt)}
    /\ Done(h, s)
    /\ UNCHANGED <<load, tab, ins, dysco_tag, ports, inside, again>>

\* A SYN whose block is in the output table: it is sent again.
OutSynAgain(h, s) ==
    LET w == work[h][s]
        b == tab[h].block[w.node]
    IN /\ w.via = "out" /\ ~w.pkt.ack
       /\ IF w.pkt.tags = <<>> THEN UNCHANGED tab
          ELSE tab' = [tab EXCEPT ![h].block[w.node].tag = Parsed(w.pkt.tags[Len(w.pkt.tags)])]
       /\ wire' = wire \cup {SynOnWire(b, w.pkt.tags)}
       /\ Done(h, s)
       /\ UNCHANGED <<load, ins, dysco_tag, ports, inside, again>>

\* The SYN+ACK: both blocks of the subsession get the initial numbers.
OutSynAck(h, s) ==
    LET w == work[h][s]
        b == tab[h].block[w.node]
        seq == Iss(w.pkt.super)
        ack == Iss(Reverse(w.pkt.super))
    IN /\ w.via = "out" /\ w.pkt.ack
       /\ IF Back(b.sub) \in DOMAIN ins[h]
          THEN /\ tab' = [tab EXCEPT ![h].block[w.node].iseq = seq,
                                     ![h].block[w.node].iack = ack]
               /\ ins' = [ins EXCEPT ![h][Back(b.sub)].iseq = ack,
                                     ![h][Back(b.sub)].iack = seq]
               /\ wire' = wire \cup {[ack |-> TRUE, sub |-> b.sub, super |-> w.pkt.super,
                                      sc |-> <<>>, tags |-> w.pkt.tags]}
          ELSE /\ wire' = wire \cup {Plain(w.pkt)}
               /\ UNCHANGED <<tab, ins>>
       /\ Done(h, s)
       /\ UNCHANGED <<load, dysco_tag, ports, inside, again>>

-----------------------------------------------------------------------------
(* dysco_input.                                                            *)

\* The SYN is consumed.
SynToStackBugConsumed(h, m, super) ==
    /\ dysco_tag' = [dysco_tag EXCEPT ![h] = @ + 1]
    /\ UNCHANGED inside

\* The SYN goes to the stack without payload, tagged, under the session's
\* five-tuple.
SynToStack(h, m, super) ==
    /\ inside' = [inside EXCEPT ![h] = @ \cup
          {[ack |-> FALSE, super |-> super, tags |-> Append(m.tags, dysco_tag[h])]}]
    /\ dysco_tag' = [dysco_tag EXCEPT ![h] = @ + 1]

\* The whole chain is kept, with this host.
InsertPendingBugWholeChain(t, m) ==
    LET n == Len(t.block) + 1
        t1 == Alloc(t, NewBlock(m.super, NoSub, m.sc))
    IN IF Len(m.sc) > 1
       THEN Insert(Insert(t1, "pen", Bucket(m.super), n), "tag", 0, n)
       ELSE t

\* dysco_insert_pending: what follows this host in the chain.  One block, with
\* one link, goes into both tables; its tag stays 0.
InsertPending(t, m) ==
    LET n == Len(t.block) + 1
        t1 == Alloc(t, NewBlock(m.super, NoSub, Tail(m.sc)))
    IN IF Len(m.sc) > 1
       THEN Insert(Insert(t1, "pen", Bucket(m.super), n), "tag", 0, n)
       ELSE t

\* dysco_rx_initiation_new.
InputSyn(h, m) ==
    LET t == InsertPending(tab[h], m)
        n == Len(t.block) + 1
        out == [NewBlock(Reverse(m.super), Back(m.sub), <<>>) EXCEPT !.iack = Iss(m.super)]
    IN /\ ~m.ack /\ m.sub \notin DOMAIN ins[h]
       /\ tab' = [tab EXCEPT ![h] = Insert(Alloc(t, out), "out", Bucket(out.super), n)]
       /\ ins' = [ins EXCEPT ![h] =
            InsertInput(@, m.sub, [super |-> m.super, iseq |-> NoIss, iack |-> NoIss])]
       /\ SynToStack(h, m, m.super)
       /\ UNCHANGED <<load, ports, wire, work, again>>

\* A SYN that arrives again is only translated.
InputSynAgain(h, m) ==
    /\ ~m.ack /\ m.sub \in DOMAIN ins[h]
    /\ Repeats(TRUE)
    /\ SynToStack(h, m, ins[h][m.sub].super)
    /\ UNCHANGED <<load, tab, ins, ports, wire, work>>

\* It is looked up under the five-tuple of the packet itself.
AnsweredBugSameWay(h, sub) == LookupSuper(tab[h], "out", ins[h][sub].super)

\* The output block of the session that a SYN+ACK answers.
Answered(h, sub) == LookupSuper(tab[h], "out", Reverse(ins[h][sub].super))

\* dysco_set_ack_number_out.
InputSynAck(h, m) ==
    LET seq == <<m.super.s, "server">>
        ack == <<m.super.s, "client">>
        n == Answered(h, m.sub)
    IN /\ m.ack /\ m.sub \in DOMAIN ins[h]
       /\ ins' = [ins EXCEPT ![h][m.sub].iseq = seq, ![h][m.sub].iack = ack]
       /\ IF n = 0 THEN UNCHANGED tab
          ELSE tab' = [tab EXCEPT ![h].block[n].iack = seq, ![h].block[n].iseq = ack]
       /\ inside' = [inside EXCEPT ![h] = @ \cup
            {[ack |-> TRUE, super |-> ins[h][m.sub].super, tags |-> m.tags]}]
       /\ Repeats(ins[h][m.sub].iseq # NoIss)
       /\ UNCHANGED <<load, dysco_tag, ports, wire, work>>

DyscoInput(h) ==
    \E m \in wire :
        /\ m.sub # NoSub /\ m.sub.to = h
        /\ InputSyn(h, m) \/ InputSynAgain(h, m) \/ InputSynAck(h, m)

\* The rest of dysco_output.
DyscoOutputRest(h, s) ==
    \/ OutPending(h, s) \/ OutPendingTag(h, s) \/ OutSynPolicy(h, s)
    \/ OutPlain(h, s) \/ OutSynAgain(h, s) \/ OutSynAck(h, s)

Next ==
    \/ \E s \in Sessions : ClientSyn(s)
    \/ \E h \in Hosts : MiddleboxForwards(h)
    \/ ServerSynAck
    \/ \E h \in Hosts : DyscoInput(h)
    \/ \E h \in Hosts, s \in Sessions : DyscoOutputRest(h, s)

Spec == Init /\ [][Next]_vars

\* The network delivers what is sent again, the CPUs go on, the stacks forward
\* and answer.  What repeats is bounded, so going on is enough.
FairSpec == Spec /\ WF_vars(Next)

-----------------------------------------------------------------------------
(* Properties.                                                             *)

NodesOf(h) == 0 .. Len(tab[h].block)
Numbers == {NoIss} \cup Sessions \X {"client", "server"}
Chains == {Rest(h) : h \in Hosts}
Packets == [ack : BOOLEAN, super : Super, tags : Seq(Nat)]

TypeOK ==
    /\ load \in Loads
    /\ \A h \in Hosts :
         /\ tab[h].head \in [Tables -> [Buckets -> NodesOf(h)]]
         /\ \A n \in DOMAIN tab[h].block :
              tab[h].block[n] \in
                [super : Super, sub : Sub, sc : Chains, next : NodesOf(h),
                 tag : {k * H : k \in 0 .. H - 1}, iseq : Numbers, iack : Numbers]
         /\ DOMAIN ins[h] \subseteq Sub
         /\ \A x \in DOMAIN ins[h] :
              ins[h][x] \in [super : Super, iseq : Numbers, iack : Numbers]
    /\ dysco_tag \in [Hosts -> Nat] /\ ports \in [Hosts -> Nat]
    /\ wire \subseteq [ack : BOOLEAN, sub : Sub, super : Super, sc : Chains, tags : Seq(Nat)]
    /\ inside \in [Hosts -> SUBSET Packets]
    /\ \A h \in Hosts, s \in Sessions :
         work[h][s] # Idle =>
            /\ work[h][s].pkt \in Packets /\ work[h][s].pkt.super.s = s
            /\ work[h][s].via \in {"out", "pen", "tag", "none"}
            /\ work[h][s].node \in NodesOf(h)
    /\ again \in 0 .. load.again

\* A SYN goes to the next host of its chain, with what is left of the chain
\* from there on, whatever other sessions' blocks are in the lists of the
\* pending tables; and no session of which the middleboxes leave the five-tuple
\* alone leaves its chain.
ChainKept ==
    \A m \in wire :
        /\ m.super.s \notin load.translated => m.sub # NoSub
        /\ m.sub # NoSub /\ ~m.ack =>
              m.sc = Rest(m.sub.from) /\ m.sub.to = m.sub.from + 1

\* The two ends of a subsession agree: what an input block makes of a packet
\* is the five-tuple that the other end's output block, found in its table,
\* made the packet from, on the way there and, once the SYN has arrived, on
\* the way back.
HopsAgree ==
    \A h \in Hosts : \A x \in DOMAIN ins[h] :
        LET n == LookupSuper(tab[x.from], "out", ins[h][x].super) IN
        ~x.rev \/ Back(x) \in DOMAIN ins[x.from] =>
            n # 0 /\ tab[x.from].block[n].sub = x

\* A SYN sent again goes into the subsession of the first one.
OneSubsession ==
    \A m, n \in wire :
        /\ ~m.ack /\ ~n.ack /\ m.sub # NoSub /\ n.sub # NoSub
        /\ m.super = n.super /\ m.sub.from = n.sub.from
        => m.sub = n.sub

\* When the client has its SYN+ACK, every block of the session, at both ends
\* of every hop and in both directions, has the initial numbers of the two
\* TCP ends: from these a reconfiguration computes its deltas.
NumbersKnown ==
    \A p \in inside[0], m \in wire :
        m.super.s = p.super.s /\ m.sub # NoSub /\ ~m.ack =>
            LET client == Iss(m.super)
                server == Iss(Reverse(m.super))
                In(h, x) == {ins[h][x]}
                Out(h, x) == {tab[h].block[n] :
                    n \in {k \in DOMAIN tab[h].block : tab[h].block[k].sub = x}}
            IN /\ \A r \in Out(m.sub.from, m.sub) \cup In(m.sub.to, m.sub) :
                    r.iseq = client /\ r.iack = server
               /\ \A r \in Out(m.sub.to, Back(m.sub)) \cup In(m.sub.from, Back(m.sub)) :
                    r.iseq = server /\ r.iack = client

\* A SYN that arrives at the first middlebox for the first time can be found
\* again: by its five-tuple, or as the parser happens to read its tag as 0.
Findable(s) ==
    s \in load.sessions /\ (s \notin load.translated \/ load.tag % H = 0)
Answer(s) == \E p \in inside[0] : p.super.s = s

\* Every client gets its SYN+ACK, whatever is sent again and however the
\* packets of other sessions pass its own.
Connected == \A s \in Sessions : Findable(s) ~> Answer(s)
=============================================================================
