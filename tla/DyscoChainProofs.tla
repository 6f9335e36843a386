--------------------------- MODULE DyscoChainProofs ---------------------------
(***************************************************************************)
(* A session keeps its chain, for every length of the chain, any number of *)
(* sessions and whatever is sent again.  The blocks of a host are nodes of *)
(* linked lists: a table is right (TablesRight) if the nodes that belong   *)
(* to a list come along its links in some order.  A pending block has one  *)
(* link for two lists; they stay right because the two lists are the same, *)
(* or one of them has a single node.  What a lookup finds follows by       *)
(* induction along the list.  The rest of the invariant follows a SYN to   *)
(* the server and its answer back: what the blocks, the input blocks and   *)
(* the packets between and inside the hosts say of each other.             *)
(***************************************************************************)
EXTENDS DyscoSetup, FiniteSetTheorems, SequenceTheorems, TLAPS

-----------------------------------------------------------------------------
(* The invariant.                                                          *)

\* The two five-tuples of a session that no middlebox has translated.
Client(s) == [s |-> s, by |-> {}, rev |-> FALSE]
Server(s) == [s |-> s, by |-> {}, rev |-> TRUE]

\* The buckets of the sessions: one for all of them, or one for each.
Together == \A s, t \in load.sessions : BucketOf[s] = BucketOf[t]
Apart == \A s, t \in load.sessions : BucketOf[s] = BucketOf[t] => s = t
\* What the theorems are about: the sessions keep their five-tuples, and those of them
\* that share a bucket have no other one beside theirs.
Untranslated == load.translated = {} /\ (Apart \/ Together)

\* A control block, an input block and the tables of a host.
Block == [super : Super, sub : Sub, sc : Chains, next : Nat, tag : Int,
          iseq : Numbers, iack : Numbers]
Input == [super : Super, iseq : Numbers, iack : Numbers]
TableType == [block : Seq(Block), head : [Tables -> [Buckets -> Nat]]]

\* The blocks that wait for their subsession, and those of a bucket of dysco_hash_out.
Pend(t) == {n \in DOMAIN t.block : t.block[n].sub = NoSub}
OutIn(t, b) == {n \in DOMAIN t.block :
                   t.block[n].sub # NoSub /\ BucketOf[t.block[n].super.s] = b}

\* The nodes S, each of them once, in the order q from the head along the links.
At(q, k, i) == IF i \in 1 .. k THEN q[i] ELSE 0
InOrder(t, head, S, k, q) ==
    /\ q \in [1 .. k -> S]
    /\ \A n \in S : \E i \in 1 .. k : q[i] = n
    /\ \A i, j \in 1 .. k : q[i] = q[j] => i = j
    /\ head = At(q, k, 1)
    /\ \A i \in 1 .. k : t.block[q[i]].next = At(q, k, i + 1)
Linked(t, head, S) == \E k \in Nat : \E q \in [1 .. k -> S] : InOrder(t, head, S, k, q)

\* The pending table by five-tuple: its lists run into the list of the tags, whose link
\* they share.
PenRight(t) ==
    IF Apart
    THEN \A n \in Pend(t) : t.head["pen"][BucketOf[t.block[n].super.s]] = n
    ELSE \A s \in load.sessions : t.head["pen"][BucketOf[s]] = t.head["tag"][0]

\* The tables of a host: a block for each direction, in the lists it belongs to.
TablesRight(t) ==
    /\ t \in TableType
    /\ \A n \in DOMAIN t.block :
          t.block[n].super.s \in load.sessions /\ t.block[n].super.by = {}
    /\ \A m, n \in DOMAIN t.block : t.block[m].super = t.block[n].super => m = n
    /\ \A n \in Pend(t) : ~t.block[n].super.rev
    /\ \A s \in load.sessions :
          Linked(t, t.head["out"][BucketOf[s]], OutIn(t, BucketOf[s]))
    /\ Linked(t, t.head["tag"][0], Pend(t))
    /\ PenRight(t)

\* Blocks keep their number and their names.
Kept(t, u) ==
    \A m \in DOMAIN t.block :
        /\ m \in DOMAIN u.block
        /\ u.block[m].super = t.block[m].super /\ u.block[m].sub = t.block[m].sub

\* A block without its links; what the blocks of a host say.
Info(b) == [super |-> b.super, sub |-> b.sub, sc |-> b.sc, iseq |-> b.iseq, iack |-> b.iack]
Infos(t) == {Info(t.block[n]) : n \in DOMAIN t.block}
Known(h) == Infos(tab[h])

\* A host has a block of a session's direction; one with this subsession.
Has(h, super) == \E r \in Known(h) : r.super = super
HasOut(h, super, sub) == \E r \in Known(h) : r.super = super /\ r.sub = sub

\* The types of a lookup's result and of a packet on the wire.
Work == [pkt : Packets \cup {NoPacket}, via : {"idle", "out", "pen", "tag", "none"},
         node : Nat]
WirePacket == [ack : BOOLEAN, sub : Sub, super : Super, sc : Chains, tags : Seq(Nat)]

\* The sessions of a behaviour.
LoadRight == load \in Loads /\ Untranslated

\* The types of the variables.
Types ==
    /\ LoadRight
    /\ DOMAIN tab = Hosts
    /\ DOMAIN ins = Hosts
    /\ \A h \in Hosts : DOMAIN ins[h] \subseteq Sub /\ ins[h] \in [DOMAIN ins[h] -> Input]
    /\ dysco_tag \in [Hosts -> Nat] /\ ports \in [Hosts -> Nat]
    /\ wire \subseteq WirePacket
    /\ inside \in [Hosts -> SUBSET Packets]
    /\ work \in [Hosts -> [Sessions -> Work]]

\* The subsession of the hop from h to h + 1.
IsHop(x, h) == x \in Sub /\ x.from = h /\ x.to = h + 1 /\ ~x.rev

\* A block of the direction to the server: pending, or with the subsession of the next
\* hop and its input block.
Onward(h, r) ==
    /\ h < Last /\ r.super = Client(r.super.s) /\ r.sc = Rest(h)
    /\ h > 0 => Has(h, Server(r.super.s))
    /\ \/ r.sub = NoSub /\ h > 0
       \/ /\ IsHop(r.sub, h) /\ r.sub.ports <= ports[h]
          /\ Back(r.sub) \in DOMAIN ins[h]
          /\ ins[h][Back(r.sub)].super = Server(r.super.s)
\* A block of the direction to the client: the host before has the subsession as well.
Homeward(h, r) ==
    /\ h > 0 /\ r.super = Server(r.super.s)
    /\ IsHop(Back(r.sub), h - 1) /\ r.sub \in Sub
    /\ Back(r.sub) \in DOMAIN ins[h]
    /\ ins[h][Back(r.sub)].super = Client(r.super.s)
    /\ HasOut(h - 1, Client(r.super.s), Back(r.sub))
    /\ h < Last => Has(h, Client(r.super.s))
\* Every block is one of these.
BlocksRight == \A h \in Hosts : \A r \in Known(h) : Onward(h, r) \/ Homeward(h, r)

\* An input block belongs to the block of the other direction.
InputsRight ==
    \A h \in Hosts : \A x \in DOMAIN ins[h] :
        Back(x) # NoSub /\ HasOut(h, Reverse(ins[h][x].super), Back(x))

\* The initial numbers are the two ends'.
Right(r) == r.iseq = Iss(r.super) /\ r.iack = Iss(Reverse(r.super))
\* The blocks of both ends of a hop have the initial numbers; those of all hops from h on.
HopNumbered(h, s) ==
    \E r \in Known(h), r2 \in Known(h + 1) :
        /\ r.super = Client(s) /\ r.sub # NoSub /\ r2.super = Server(s)
        /\ Right(r) /\ Right(r2)
        /\ Right(ins[h][Back(r.sub)]) /\ Right(ins[h + 1][Back(r2.sub)])
Beyond(h, s) == \A j \in h .. Last - 1 : HopNumbered(j, s)
\* The host that answers has noted the numbers of its own block and input block.
AnswerNoted(h, s) ==
    \E r \in Known(h) :
        r.super = Server(s) /\ Right(r) /\ Right(ins[h][Back(r.sub)])

\* A packet on the wire: the SYN carries the rest of the chain in a subsession that its
\* sender has, the SYN+ACK comes after the numbers of the hops behind it.
SynRight(m) ==
    LET h == m.sub.from IN
    /\ m.super = Client(m.super.s) /\ h \in 0 .. Last - 1
    /\ IsHop(m.sub, h) /\ m.sc = Rest(h)
    /\ HasOut(h, m.super, m.sub)
SynAckRight(m) ==
    LET h == m.sub.from IN
    /\ m.super = Server(m.super.s) /\ h \in 1 .. Last
    /\ HasOut(h, m.super, m.sub)
    /\ AnswerNoted(h, m.super.s) /\ Beyond(h, m.super.s)
WireAt(m) ==
    m.super.s \in load.sessions /\ IF m.ack THEN SynAckRight(m) ELSE SynRight(m)
WireRight == \A m \in wire : WireAt(m)

\* A packet inside a host: the block that it will be looked up by is there.
InsideAt(h, p) ==
    LET s == p.super.s IN
    /\ s \in load.sessions
    /\ IF p.ack
       THEN p.super = Server(s) /\ h < Last /\ Has(h, Client(s)) /\ Beyond(h, s)
       ELSE p.super = Client(s) /\ h > 0 /\ Has(h, Server(s))
InsideRight == \A h \in Hosts : \A p \in inside[h] : InsideAt(h, p)

\* A packet that dysco_output has looked up: the block that was found is still the right
\* one, in the table it was found in, whatever the packets of other sessions have done.
WorkAt(h, s, w) ==
    /\ s \in load.sessions /\ w.pkt \in Packets /\ w.pkt.super.s = s
    /\ w.pkt.super = IF w.pkt.ack THEN Server(s) ELSE Client(s)
    /\ w.via # "tag"
    /\ w.via = "none" => h = 0 /\ ~w.pkt.ack /\ ~Has(h, Client(s))
    /\ w.via = "pen" =>
          /\ w.node \in Pend(tab[h]) /\ ~w.pkt.ack
          /\ tab[h].block[w.node].super = Client(s)
    /\ w.via = "out" =>
          /\ w.node \in DOMAIN tab[h].block /\ tab[h].block[w.node].sub # NoSub
          /\ tab[h].block[w.node].super = w.pkt.super
          /\ w.pkt.ack => h > 0 /\ Beyond(h, s)
WorkRight == \A h \in Hosts, s \in Sessions : work[h][s] # Idle => WorkAt(h, s, work[h][s])

\* The inductive invariant.
SetupInv ==
    /\ Types /\ (\A h \in Hosts : TablesRight(tab[h]))
    /\ BlocksRight /\ InputsRight /\ WireRight /\ InsideRight /\ WorkRight

-----------------------------------------------------------------------------
(* Walks along the links.                                                  *)

\* Induction over an interval, for sets: a closed set that leaves a number out
\* would have an injection into itself that misses 0.
LEMMA FromZero ==
    ASSUME NEW n \in Nat, NEW P \in SUBSET (0 .. n), 0 \in P,
           \A i \in P : i < n => i + 1 \in P
    PROVE  P = 0 .. n
<1> SUFFICES ASSUME NEW b \in 0 .. n, b \notin P PROVE FALSE
  OBVIOUS
<1> DEFINE D == {i \in P : i < b}
           f == [i \in D |-> i + 1]
<1>1. IsFiniteSet(D) /\ IsFiniteSet(D \ {0})
  <2>1. IsFiniteSet(0 .. n)  BY FS_Interval
  <2> QED  BY <2>1, FS_Subset
<1>2. f \in Injection(D, D \ {0})
  <2>1. ASSUME NEW i \in D PROVE i + 1 \in D \ {0}
    <3>1. i \in P /\ i < b /\ i \in Nat /\ b \in Nat /\ i < n
      OBVIOUS
    <3>2. i + 1 \in P /\ i + 1 # b
      BY <3>1
    <3> QED  BY <3>1, <3>2
  <2>2. f \in [D -> D \ {0}]
    BY <2>1
  <2>3. \A i, j \in D : f[i] = f[j] => i = j
    OBVIOUS
  <2> QED  BY <2>2, <2>3 DEF Injection, IsInjective
<1>3. Cardinality(D) <= Cardinality(D \ {0})
  BY <1>1, <1>2, FS_Injection
<1>4. 0 \in D
  OBVIOUS
<1>5. Cardinality(D) \in Nat
  BY <1>1, FS_CardinalityType
<1> HIDE DEF D
<1> QED  BY <1>1, <1>3, <1>4, <1>5, FS_RemoveElement

\* The next of a walk, 0 after the end.
Step(t, n) == IF n = 0 THEN 0 ELSE t.block[n].next

\* A function that follows the links from n is the walk.
LEMMA WalkIs ==
    ASSUME NEW t, NEW n, Len(t.block) \in Nat, NEW g,
           g = [k \in 0 .. Len(t.block) |-> IF k = 0 THEN n ELSE Step(t, g[k - 1])]
    PROVE  Walk(t, n) = g
<1> DEFINE f == Walk(t, n)
           P == {k \in 0 .. Len(t.block) : f[k] = g[k]}
<1>1. f = [k \in 0 .. Len(t.block) |-> IF k = 0 THEN n ELSE Step(t, f[k - 1])]
  <2>1. f = CHOOSE h : h = [k \in 0 .. Len(t.block) |->
              IF k = 0 THEN n ELSE IF h[k - 1] = 0 THEN 0 ELSE t.block[h[k - 1]].next]
    BY DEF Walk
  <2>2. g = [k \in 0 .. Len(t.block) |->
              IF k = 0 THEN n ELSE IF g[k - 1] = 0 THEN 0 ELSE t.block[g[k - 1]].next]
    BY ZenonT(60) DEF Step
  <2> HIDE DEF f
  <2>3. f = [k \in 0 .. Len(t.block) |->
              IF k = 0 THEN n ELSE IF f[k - 1] = 0 THEN 0 ELSE t.block[f[k - 1]].next]
    BY <2>1, <2>2
  <2> QED  BY Zenon, <2>3 DEF Step
<1> HIDE DEF f
<1>2. 0 \in P
  BY <1>1
<1>3. ASSUME NEW i \in P, i < Len(t.block) PROVE i + 1 \in P
  <2>1. i + 1 \in 0 .. Len(t.block) /\ i + 1 # 0 /\ (i + 1) - 1 = i
    BY <1>3
  <2>2. f[i + 1] = Step(t, f[i])
    BY <1>1, <2>1
  <2>3. g[i + 1] = Step(t, g[i])
    BY <2>1
  <2> QED  BY <2>1, <2>2, <2>3
<1>4. P = 0 .. Len(t.block)
  BY <1>2, <1>3, FromZero
<1>5. f = g
  BY <1>1, <1>4
<1> QED  BY <1>5 DEF f

\* The walk along the nodes of a list.
Way(t, q, k) == [i \in 0 .. Len(t.block) |-> At(q, k, i + 1)]

\* Nodes in order are met one after the other, and there are no more of them than
\* a walk has places.
LEMMA WalkMeets ==
    ASSUME NEW t, t.block \in Seq(Block), NEW n, NEW S, S \subseteq DOMAIN t.block,
           NEW k \in Nat, NEW q, InOrder(t, n, S, k, q)
    PROVE  /\ k <= Len(t.block)
           /\ Walk(t, n) = Way(t, q, k)
<1> DEFINE len == Len(t.block)
           g == [i \in 0 .. len |-> At(q, k, i + 1)]
<1>0. len \in Nat /\ DOMAIN t.block = 1 .. len
  OBVIOUS
<1>1. k <= len
  <2>1. q \in Injection(1 .. k, 1 .. len)
    BY <1>0 DEF InOrder, Injection, IsInjective
  <2>2. \A a \in Nat : IsFiniteSet(1 .. a) /\ Cardinality(1 .. a) = a
    BY FS_Interval
  <2>3. Cardinality(1 .. k) <= Cardinality(1 .. len)
    <3> HIDE DEF len
    <3> QED  BY <1>0, <2>1, <2>2, FS_Injection
  <2> QED  BY <1>0, <2>2, <2>3
<1>2. ASSUME NEW i \in 0 .. len, i # 0 PROVE g[i] = Step(t, g[i - 1])
  <2>1. g[i - 1] = At(q, k, i) /\ g[i] = At(q, k, i + 1)
    BY <1>0, <1>2
  <2>2. CASE i \in 1 .. k
    <3>1. q[i] \in 1 .. len
      BY <2>2, <1>0 DEF InOrder
    <3>2. t.block[q[i]].next = At(q, k, i + 1) /\ At(q, k, i) = q[i] /\ q[i] # 0
      BY <2>2, <3>1, <1>0 DEF InOrder, At
    <3> HIDE DEF g, len
    <3> QED  BY <2>1, <3>2 DEF Step
  <2>3. CASE i \notin 1 .. k
    BY <2>1, <2>3, <1>0, <1>2 DEF At, Step
  <2> QED  BY <2>2, <2>3
<1>3. g[0] = n
  BY <1>0 DEF InOrder
<1>4. g = [i \in 0 .. len |-> IF i = 0 THEN n ELSE Step(t, g[i - 1])]
  <2> HIDE DEF len
  <2>1. \A i \in 0 .. len : g[i] = IF i = 0 THEN n ELSE Step(t, g[i - 1])
    BY <1>2, <1>3
  <2> HIDE DEF g
  <2>2. g = [i \in 0 .. len |-> g[i]]
    BY DEF g
  <2> QED  BY <2>1, <2>2
<1> HIDE DEF g
<1>5. Walk(t, n) = g
  BY <1>0, <1>4, WalkIs
<1> QED  BY <1>1, <1>5 DEF g, Way

\* What a lookup may meet: hits are the nodes that it would take.
OnList(t, head, S) == S \subseteq DOMAIN t.block /\ Linked(t, head, S)
NoneOf(S, hits) == 0 \notin hits /\ \A m \in S : m \notin hits
OnlyOne(S, hits, n) ==
    0 \notin hits /\ n \in S /\ n \in hits /\ \A m \in S : m \in hits => m = n

\* What is searched for is found if it is in the list, and nothing else.
LEMMA FindOne ==
    ASSUME NEW t, t.block \in Seq(Block), NEW table, NEW b,
           NEW S, OnList(t, t.head[table][b], S),
           NEW hits, NEW n, OnlyOne(S, hits, n)
    PROVE  Find(t, table, b, hits) = n
<1> USE DEF OnList, OnlyOne
<1>a. PICK k \in Nat : \E q \in [1 .. k -> S] : InOrder(t, t.head[table][b], S, k, q)
  BY DEF Linked
<1>1. PICK q \in [1 .. k -> S] : InOrder(t, t.head[table][b], S, k, q)
  BY <1>a
<1>0. k <= Len(t.block) /\ Walk(t, t.head[table][b]) = Way(t, q, k)
  BY <1>1, WalkMeets
<1> DEFINE w == Walk(t, t.head[table][b])
           found == {i \in DOMAIN w : w[i] \in hits}
<1>2. /\ k <= Len(t.block) /\ DOMAIN w = 0 .. Len(t.block)
      /\ \A i \in 0 .. Len(t.block) : w[i] = At(q, k, i + 1)
  BY <1>0 DEF Way
<1>3. PICK j \in 1 .. k : q[j] = n
  BY <1>1 DEF InOrder
<1>5. j - 1 \in DOMAIN w /\ w[j - 1] = n
  <2> HIDE DEF w
  <2>1. j - 1 \in 0 .. Len(t.block) /\ (j - 1) + 1 = j
    BY <1>2
  <2> QED  BY <1>2, <1>3, <2>1 DEF At
<1>4. found = {j - 1}
  <2> HIDE DEF w
  <2>1. \A i \in 0 .. Len(t.block) : w[i] \in hits => i = j - 1
    BY <1>1, <1>2, <1>3 DEF InOrder, At
  <2>3. n \in hits
    OBVIOUS
  <2> QED  BY <1>2, <2>1, <1>5, <2>3
<1>6. (CHOOSE i \in found : \A l \in found : i <= l) = j - 1
  <2> HIDE DEF found
  <2> QED  BY <1>4
<1> HIDE DEF found, w
<1>7. Find(t, table, b, hits) =
        IF found = {} THEN 0 ELSE w[CHOOSE i \in found : \A l \in found : i <= l]
  BY DEF Find, found, w
<1>8. found # {}
  BY <1>4
<1> QED  BY <1>5, <1>6, <1>7, <1>8

\* What is not in the list is not found.
LEMMA FindNone ==
    ASSUME NEW t, t.block \in Seq(Block), NEW table, NEW b,
           NEW S, OnList(t, t.head[table][b], S),
           NEW hits, NoneOf(S, hits)
    PROVE  Find(t, table, b, hits) = 0
<1> USE DEF OnList, NoneOf
<1>a. PICK k \in Nat : \E q \in [1 .. k -> S] : InOrder(t, t.head[table][b], S, k, q)
  BY DEF Linked
<1>1. PICK q \in [1 .. k -> S] : InOrder(t, t.head[table][b], S, k, q)
  BY <1>a
<1>0. k <= Len(t.block) /\ Walk(t, t.head[table][b]) = Way(t, q, k)
  BY <1>1, WalkMeets
<1> DEFINE w == Walk(t, t.head[table][b])
           found == {i \in DOMAIN w : w[i] \in hits}
<1>2. /\ DOMAIN w = 0 .. Len(t.block)
      /\ \A i \in 0 .. Len(t.block) : w[i] = At(q, k, i + 1)
  BY <1>0 DEF Way
<1>3. found = {}
  <2> HIDE DEF w
  <2>1. \A i \in 0 .. Len(t.block) : w[i] \notin hits
    BY <1>1, <1>2 DEF InOrder, At
  <2> QED  BY <1>2, <2>1
<1> HIDE DEF found, w
<1>7. Find(t, table, b, hits) =
        IF found = {} THEN 0 ELSE w[CHOOSE i \in found : \A l \in found : i <= l]
  BY DEF Find, found, w
<1> QED  BY <1>3, <1>7

\* Nothing is found if nothing is searched for.
LEMMA FindNothing ==
    ASSUME NEW t, NEW table, NEW b
    PROVE  Find(t, table, b, {}) = 0
BY DEF Find

\* A walk from the middle of a list meets the rest of it.
LEMMA LinkedFrom ==
    ASSUME NEW t, NEW head, NEW S, Linked(t, head, S), NEW n \in S
    PROVE  \E R \in SUBSET S : n \in R /\ Linked(t, n, R)
<1>a. PICK k \in Nat : \E q \in [1 .. k -> S] : InOrder(t, head, S, k, q)
  BY DEF Linked
<1>1. PICK q \in [1 .. k -> S] : InOrder(t, head, S, k, q)
  BY <1>a
<1>2. PICK j \in 1 .. k : q[j] = n
  BY <1>1 DEF InOrder
<1> DEFINE k2 == k - j + 1
           R == {q[i] : i \in j .. k}
           q2 == [i \in 1 .. k2 |-> q[i + j - 1]]
<1>3. k2 \in Nat /\ n \in R /\ R \in SUBSET S
  BY <1>2
<1>4. q2 \in [1 .. k2 -> R]
  <2>1. \A i \in 1 .. k2 : i + j - 1 \in j .. k
    BY <1>2
  <2> QED  BY <2>1
<1>5. \A m \in R : \E i \in 1 .. k2 : q2[i] = m
  <2> SUFFICES ASSUME NEW i \in j .. k PROVE \E l \in 1 .. k2 : q2[l] = q[i]
    OBVIOUS
  <2>1. i - j + 1 \in 1 .. k2 /\ (i - j + 1) + j - 1 = i
    BY <1>2
  <2>2. q2[i - j + 1] = q[i]
    BY <2>1
  <2> QED  BY <2>1, <2>2
<1>6. \A i, l \in 1 .. k2 : q2[i] = q2[l] => i = l
  <2> SUFFICES ASSUME NEW i \in 1 .. k2, NEW l \in 1 .. k2, q2[i] = q2[l] PROVE i = l
    OBVIOUS
  <2>1. i + j - 1 \in 1 .. k /\ l + j - 1 \in 1 .. k /\ q[i + j - 1] = q[l + j - 1]
    BY <1>2
  <2>2. i + j - 1 = l + j - 1
    BY <1>1, <2>1 DEF InOrder
  <2> QED  BY <2>2, <1>2
<1>7. n = At(q2, k2, 1)
  BY <1>2, <1>3 DEF At
<1>8. \A i \in 1 .. k2 : t.block[q2[i]].next = At(q2, k2, i + 1)
  <2> SUFFICES ASSUME NEW i \in 1 .. k2 PROVE t.block[q2[i]].next = At(q2, k2, i + 1)
    OBVIOUS
  <2>1. i + j - 1 \in 1 .. k /\ q2[i] = q[i + j - 1]
    BY <1>2
  <2>2. t.block[q2[i]].next = At(q, k, i + j)
    BY <1>1, <1>2, <2>1 DEF InOrder
  <2>3. At(q2, k2, i + 1) = At(q, k, i + j)
    <3>1. CASE i + 1 \in 1 .. k2
      <4>1. i + j \in 1 .. k /\ (i + 1) + j - 1 = i + j
        BY <3>1, <1>2
      <4> QED  BY <3>1, <4>1 DEF At
    <3>2. CASE i + 1 \notin 1 .. k2
      BY <3>2, <1>2 DEF At
    <3> QED  BY <3>1, <3>2
  <2> QED  BY <2>2, <2>3
<1>9. InOrder(t, n, R, k2, q2)
  <2> HIDE DEF q2, k2, R
  <2> QED  BY <1>4, <1>5, <1>6, <1>7, <1>8 DEF InOrder
<1> HIDE DEF q2, k2, R
<1> QED  BY <1>3, <1>4, <1>9 DEF Linked

-----------------------------------------------------------------------------
(* What the operations make of a list.                                     *)

\* A list of which no link changes.
LEMMA LinkedSame ==
    ASSUME NEW t, NEW u, NEW head, NEW S, Linked(t, head, S),
           \A m \in S : u.block[m].next = t.block[m].next
    PROVE  Linked(u, head, S)
<1>1. PICK k \in Nat : \E q \in [1 .. k -> S] : InOrder(t, head, S, k, q)
  BY DEF Linked
<1>2. PICK q \in [1 .. k -> S] : InOrder(t, head, S, k, q)
  BY <1>1
<1>3. InOrder(u, head, S, k, q)
  <2>1. \A i \in 1 .. k : u.block[q[i]].next = t.block[q[i]].next
    OBVIOUS
  <2> QED  BY <1>2, <2>1 DEF InOrder
<1> QED  BY <1>3 DEF Linked

\* A list ends, and leads nowhere else.
LEMMA LinkedStays ==
    ASSUME NEW t, NEW head, NEW S, Linked(t, head, S)
    PROVE  /\ head \in S \cup {0}
           /\ \A m \in S : t.block[m].next \in S \cup {0}
           /\ \A m \in S : t.block[m].next = 0 \/ t.block[m].next # head
<1>1. PICK k \in Nat : \E q \in [1 .. k -> S] : InOrder(t, head, S, k, q)
  BY DEF Linked
<1>2. PICK q \in [1 .. k -> S] : InOrder(t, head, S, k, q)
  BY <1>1
<1>3. \A i \in Nat : At(q, k, i) \in S \cup {0}
  BY DEF At
<1>4. ASSUME NEW m \in S, t.block[m].next # 0
      PROVE  t.block[m].next \in S /\ t.block[m].next # head
  <2>1. PICK i \in 1 .. k : q[i] = m
    BY <1>2 DEF InOrder
  <2>2. t.block[m].next = At(q, k, i + 1)
    BY <1>2, <2>1 DEF InOrder
  <2>3. i + 1 \in 1 .. k /\ t.block[m].next = q[i + 1]
    BY <1>4, <2>2 DEF At
  <2>4. 1 \in 1 .. k /\ head = q[1]
    BY <1>2, <2>1 DEF InOrder, At
  <2>5. q[i + 1] # q[1]
    BY <1>2, <2>3, <2>4 DEF InOrder
  <2> QED  BY <2>3, <2>4, <2>5
<1> QED  BY <1>2, <1>3, <1>4 DEF InOrder

\* Put in front.
LEMMA LinkedFirst ==
    ASSUME NEW t, NEW u, NEW head, NEW S, Linked(t, head, S), NEW n, n \notin S,
           u.block[n].next = head,
           \A m \in S : u.block[m].next = t.block[m].next
    PROVE  Linked(u, n, S \cup {n})
<1>1. PICK k \in Nat : \E q \in [1 .. k -> S] : InOrder(t, head, S, k, q)
  BY DEF Linked
<1>2. PICK q \in [1 .. k -> S] : InOrder(t, head, S, k, q)
  BY <1>1
<1> DEFINE k2 == k + 1
           q2 == [i \in 1 .. k2 |-> IF i = 1 THEN n ELSE q[i - 1]]
<1>3. k2 \in Nat /\ \A i \in 1 .. k2 : i = 1 \/ i - 1 \in 1 .. k
  OBVIOUS
<1>4. q2 \in [1 .. k2 -> S \cup {n}]
  BY <1>3
<1>5. \A m \in S \cup {n} : \E i \in 1 .. k2 : q2[i] = m
  <2>1. 1 \in 1 .. k2 /\ q2[1] = n
    OBVIOUS
  <2>2. ASSUME NEW m \in S PROVE \E i \in 1 .. k2 : q2[i] = m
    <3>1. PICK i \in 1 .. k : q[i] = m
      BY <1>2 DEF InOrder
    <3>2. i + 1 \in 1 .. k2 /\ q2[i + 1] = m
      BY <3>1
    <3> QED  BY <3>2
  <2> QED  BY <2>1, <2>2
<1>6. \A i, j \in 1 .. k2 : q2[i] = q2[j] => i = j
  <2> SUFFICES ASSUME NEW i \in 1 .. k2, NEW j \in 1 .. k2, q2[i] = q2[j] PROVE i = j
    OBVIOUS
  <2>1. CASE i = 1 \/ j = 1
    BY <2>1, <1>3
  <2>2. CASE i # 1 /\ j # 1
    <3>1. i - 1 \in 1 .. k /\ j - 1 \in 1 .. k /\ q[i - 1] = q[j - 1]
      BY <2>2, <1>3
    <3>2. i - 1 = j - 1
      BY <1>2, <3>1 DEF InOrder
    <3> QED  BY <3>2
  <2> QED  BY <2>1, <2>2
<1>7. n = At(q2, k2, 1)
  BY DEF At
<1>8. \A i \in 1 .. k2 : u.block[q2[i]].next = At(q2, k2, i + 1)
  <2> SUFFICES ASSUME NEW i \in 1 .. k2 PROVE u.block[q2[i]].next = At(q2, k2, i + 1)
    OBVIOUS
  <2>1. At(q2, k2, i + 1) = At(q, k, i)
    BY DEF At
  <2>2. CASE i = 1
    BY <1>2, <2>1, <2>2 DEF InOrder
  <2>3. CASE i # 1
    <3>1. i - 1 \in 1 .. k /\ q2[i] = q[i - 1] /\ (i - 1) + 1 = i
      BY <2>3
    <3>2. t.block[q[i - 1]].next = At(q, k, i)
      BY <1>2, <3>1 DEF InOrder
    <3>3. u.block[q[i - 1]].next = t.block[q[i - 1]].next
      BY <3>1
    <3> QED  BY <2>1, <3>1, <3>2, <3>3
  <2> QED  BY <2>2, <2>3
<1>9. InOrder(u, n, S \cup {n}, k2, q2)
  <2> HIDE DEF q2, k2
  <2> QED  BY <1>4, <1>5, <1>6, <1>7, <1>8 DEF InOrder
<1> HIDE DEF q2, k2
<1> QED  BY <1>3, <1>4, <1>9 DEF Linked

\* The link to a node replaced by the node's own.
Past(t, n, x) == IF x = n THEN t.block[n].next ELSE x

\* Taken out.
LEMMA LinkedWithout ==
    ASSUME NEW t, NEW u, NEW head, NEW S, Linked(t, head, S), 0 \notin S, NEW n \in S,
           \A m \in S \ {n} : u.block[m].next = Past(t, n, t.block[m].next)
    PROVE  Linked(u, Past(t, n, head), S \ {n})
<1>1. PICK k \in Nat : \E q \in [1 .. k -> S] : InOrder(t, head, S, k, q)
  BY DEF Linked
<1>2. PICK q \in [1 .. k -> S] : InOrder(t, head, S, k, q)
  BY <1>1
<1>3. PICK j \in 1 .. k : q[j] = n
  BY <1>2 DEF InOrder
<1>inj. \A i, l \in 1 .. k : q[i] = q[l] => i = l
  BY <1>2 DEF InOrder
<1>next. \A i \in 1 .. k : t.block[q[i]].next = At(q, k, i + 1)
  BY <1>2 DEF InOrder
<1> DEFINE k2 == k - 1
           Old(i) == IF i < j THEN i ELSE i + 1
           q2 == [i \in 1 .. k2 |-> q[Old(i)]]
<1>4. k2 \in Nat
  BY <1>3
<1>5. \A i \in 1 .. k2 : Old(i) \in 1 .. k /\ Old(i) # j
  OBVIOUS
<1>6. q2 \in [1 .. k2 -> S \ {n}]
  BY <1>3, <1>5, <1>inj
<1>7. \A m \in S \ {n} : \E i \in 1 .. k2 : q2[i] = m
  <2> SUFFICES ASSUME NEW m \in S, m # n PROVE \E i \in 1 .. k2 : q2[i] = m
    OBVIOUS
  <2>1. PICK i \in 1 .. k : q[i] = m
    BY <1>2 DEF InOrder
  <2>2. i # j
    BY <1>3, <2>1
  <2>3. CASE i < j
    <3>1. i \in 1 .. k2 /\ Old(i) = i
      BY <2>3
    <3> QED  BY <2>1, <3>1
  <2>4. CASE i > j
    <3>1. i - 1 \in 1 .. k2 /\ Old(i - 1) = i
      BY <2>4
    <3> QED  BY <2>1, <3>1
  <2> QED  BY <2>2, <2>3, <2>4
<1>8. \A i, l \in 1 .. k2 : q2[i] = q2[l] => i = l
  <2> SUFFICES ASSUME NEW i \in 1 .. k2, NEW l \in 1 .. k2, q2[i] = q2[l] PROVE i = l
    OBVIOUS
  <2>1. Old(i) = Old(l)
    BY <1>5, <1>inj
  <2> QED  BY <2>1
\* What comes at a place is what came there before, without n.
<1>9. ASSUME NEW i \in 0 .. k2
      PROVE  At(q2, k2, i + 1) = Past(t, n, At(q, k, IF i < j THEN i + 1 ELSE i + 2))
  <2>1. CASE i + 1 < j
    <3>1. i + 1 \in 1 .. k2 /\ Old(i + 1) = i + 1 /\ i + 1 \in 1 .. k /\ i < j
      BY <2>1
    <3>2. q[i + 1] # n
      BY <1>3, <1>inj, <2>1, <3>1
    <3>3. At(q2, k2, i + 1) = q[i + 1]
      BY <3>1 DEF At
    <3>4. At(q, k, IF i < j THEN i + 1 ELSE i + 2) = q[i + 1]
      BY <3>1 DEF At
    <3> QED  BY <3>2, <3>3, <3>4 DEF Past
  <2>2. CASE i + 1 = j
    <3>1. At(q, k, IF i < j THEN i + 1 ELSE i + 2) = n
      BY <1>3, <2>2 DEF At
    <3>2. Past(t, n, n) = At(q, k, j + 1)
      BY <1>3, <1>next DEF Past
    <3>3. At(q2, k2, i + 1) = At(q, k, j + 1)
      <4>1. CASE j < k
        <5>1. j \in 1 .. k2 /\ Old(j) = j + 1 /\ j + 1 \in 1 .. k
          BY <4>1
        <5> QED  BY <2>2, <5>1 DEF At
      <4>2. CASE j = k
        BY <2>2, <4>2 DEF At
      <4> QED  BY <4>1, <4>2
    <3> QED  BY <3>1, <3>2, <3>3
  <2>3. CASE i + 1 > j
    <3>1. i + 2 > j + 1 /\ (IF i < j THEN i + 1 ELSE i + 2) = i + 2
      BY <2>3
    <3>2. CASE i + 2 <= k
      <4>1. i + 1 \in 1 .. k2 /\ Old(i + 1) = i + 2 /\ i + 2 \in 1 .. k /\ i + 2 # j
        BY <2>3, <3>2
      <4>2. q[i + 2] # n
        BY <1>3, <1>inj, <4>1
      <4>3. At(q2, k2, i + 1) = q[i + 2] /\ At(q, k, i + 2) = q[i + 2]
        BY <4>1 DEF At
      <4> QED  BY <3>1, <4>2, <4>3 DEF Past
    <3>3. CASE i + 2 > k
      <4>1. At(q2, k2, i + 1) = 0 /\ At(q, k, i + 2) = 0
        BY <3>3 DEF At
      <4> QED  BY <3>1, <4>1 DEF Past
    <3> QED  BY <3>2, <3>3
  <2> QED  BY <2>1, <2>2, <2>3
<1>10. Past(t, n, head) = At(q2, k2, 1)
  <2>1. head = At(q, k, 1)
    BY <1>2 DEF InOrder
  <2>2. At(q2, k2, 0 + 1) = Past(t, n, At(q, k, 0 + 1))
    BY <1>9, <1>3
  <2> QED  BY <2>1, <2>2
<1>11. \A i \in 1 .. k2 : u.block[q2[i]].next = At(q2, k2, i + 1)
  <2> SUFFICES ASSUME NEW i \in 1 .. k2 PROVE u.block[q2[i]].next = At(q2, k2, i + 1)
    OBVIOUS
  <2>1. q2[i] = q[Old(i)] /\ q2[i] \in S \ {n}
    BY <1>6
  <2>2. t.block[q2[i]].next = At(q, k, Old(i) + 1)
    BY <1>5, <1>next, <2>1
  <2>3. Old(i) + 1 = IF i < j THEN i + 1 ELSE i + 2
    OBVIOUS
  <2>4. u.block[q2[i]].next = Past(t, n, t.block[q2[i]].next)
    BY <2>1
  <2>5. i \in 0 .. k2
    OBVIOUS
  <2> HIDE DEF q2, k2, Old
  <2> QED  BY <1>9, <2>2, <2>3, <2>4, <2>5
<1>12. InOrder(u, Past(t, n, head), S \ {n}, k2, q2)
  <2> HIDE DEF q2, k2
  <2> QED  BY <1>6, <1>7, <1>8, <1>10, <1>11 DEF InOrder
<1> HIDE DEF q2, k2
<1> QED  BY <1>4, <1>6, <1>12 DEF Linked

\* Remove, from a list that may have the node or not.
Without(t, S, n) ==
    [m \in DOMAIN t.block |->
        IF m \in S /\ t.block[m].next = n THEN [t.block[m] EXCEPT !.next = t.block[n].next]
        ELSE t.block[m]]

\* What rhashtable_remove_fast leaves of the blocks and the heads.
LEMMA RemoveIs ==
    ASSUME NEW t \in TableType, NEW table \in Tables, NEW b \in Buckets,
           NEW S, S \subseteq DOMAIN t.block, Linked(t, t.head[table][b], S),
           NEW n \in DOMAIN t.block
    PROVE  /\ Remove(t, table, b, n).block = Without(t, S, n)
           /\ Remove(t, table, b, n).head =
                 [t.head EXCEPT ![table][b] = Past(t, n, t.head[table][b])]
<1> DEFINE head == t.head[table][b]
           w == Walk(t, head)
           before == {m \in {w[i] : i \in DOMAIN w} \ {0} : t.block[m].next = n}
<1>0. /\ t.block \in Seq(Block) /\ t.head \in [Tables -> [Buckets -> Nat]]
      /\ DOMAIN t.block = 1 .. Len(t.block) /\ Len(t.block) \in Nat /\ n # 0
  BY DEF TableType
<1>1. Remove(t, table, b, n) =
        IF head = n THEN [t EXCEPT !.head[table][b] = t.block[n].next]
        ELSE [t EXCEPT !.block = [m \in DOMAIN t.block |->
                IF m \in before THEN [t.block[m] EXCEPT !.next = t.block[n].next]
                ELSE t.block[m]]]
  BY DEF Remove
<1>2. before = {m \in S : t.block[m].next = n}
  <2>1. PICK k \in Nat : \E q \in [1 .. k -> S] : InOrder(t, head, S, k, q)
    BY DEF Linked
  <2>2. PICK q \in [1 .. k -> S] : InOrder(t, head, S, k, q)
    BY <2>1
  <2>3. k <= Len(t.block) /\ w = Way(t, q, k)
    BY <1>0, <2>2, WalkMeets
  <2> HIDE DEF w
  <2>4. 0 \notin S
    BY <1>0
  <2>5. ASSUME NEW i \in DOMAIN w, w[i] # 0 PROVE w[i] \in S
    BY <2>3, <2>5 DEF Way, At
  <2>6. ASSUME NEW m \in S PROVE \E i \in DOMAIN w : w[i] = m
    <3>1. PICK j \in 1 .. k : q[j] = m
      BY <2>2 DEF InOrder
    <3>2. j - 1 \in 0 .. Len(t.block) /\ (j - 1) + 1 = j
      BY <1>0, <2>3
    <3>3. j - 1 \in DOMAIN w /\ w[j - 1] = m
      BY <2>3, <3>1, <3>2 DEF Way, At
    <3> QED  BY <3>3
  <2> QED  BY <2>4, <2>5, <2>6
<1> HIDE DEF before
<1>3. CASE head = n
  <2>1. {m \in S : t.block[m].next = n} = {}
    BY <1>0, <1>3, LinkedStays
  <2>2. Without(t, S, n) = [m \in DOMAIN t.block |-> t.block[m]]
    BY <2>1 DEF Without
  <2>3. Without(t, S, n) = t.block
    BY <1>0, <2>2
  <2> QED  BY <1>0, <1>1, <1>3, <2>3 DEF TableType, Past
<1>4. CASE head # n
  <2>1. Remove(t, table, b, n).block = Without(t, S, n)
    BY <1>1, <1>2, <1>4 DEF TableType, Without
  <2>2. Remove(t, table, b, n).head = t.head
    BY <1>1, <1>4 DEF TableType
  <2>3. Past(t, n, head) = head
    BY <1>4 DEF Past
  <2> QED  BY <1>0, <2>1, <2>2, <2>3
<1> QED  BY <1>3, <1>4

-----------------------------------------------------------------------------
(* Lookups.                                                                *)

\* The sessions of a behaviour and their buckets.
LEMMA LoadTypes ==
    ASSUME LoadRight
    PROVE  /\ load.sessions \subseteq Sessions
           /\ \A s \in load.sessions : BucketOf[s] \in Buckets /\ BucketOf[s] \in Nat
           /\ 0 \in Buckets
BY SetupAssumption DEF LoadRight, Load, Buckets

\* The nodes of the lists are blocks.
LEMMA Listing ==
    ASSUME NEW t
    PROVE  Pend(t) \subseteq DOMAIN t.block /\ \A b : OutIn(t, b) \subseteq DOMAIN t.block
BY DEF Pend, OutIn

\* The parts of a table.
LEMMA TableTypes ==
    ASSUME NEW t \in TableType
    PROVE  /\ t.block \in Seq(Block) /\ Len(t.block) \in Nat
           /\ DOMAIN t.block = 1 .. Len(t.block)
           /\ t.head \in [Tables -> [Buckets -> Nat]]
           /\ t = [block |-> t.block, head |-> t.head]
BY DEF TableType

\* A block with a subsession is found in the output table.
LEMMA OutFound ==
    ASSUME LoadRight, NEW t, TablesRight(t), NEW n \in DOMAIN t.block,
           t.block[n].sub # NoSub
    PROVE  LookupSuper(t, "out", t.block[n].super) = n
<1> DEFINE super == t.block[n].super
           b == BucketOf[super.s]
           hits == {m \in DOMAIN t.block : t.block[m].super = super}
<1>1. t \in TableType /\ super.s \in load.sessions /\ super.by = {}
  BY DEF TablesRight
<1>2. hits = {n} /\ 0 \notin hits
  BY <1>1, TableTypes DEF TablesRight
<1>3. OnlyOne(OutIn(t, b), hits, n)
  BY <1>2 DEF OutIn, OnlyOne
<1>4. OnList(t, t.head["out"][b], OutIn(t, b))
  BY <1>1, Listing DEF TablesRight, OnList
<1>5. LookupSuper(t, "out", super) = Find(t, "out", b, hits)
  BY <1>1 DEF LookupSuper, Bucket
<1> HIDE DEF hits, b, super
<1>6. Find(t, "out", b, hits) = n
  BY <1>1, <1>3, <1>4, TableTypes, FindOne
<1> QED  BY <1>5, <1>6 DEF super

\* A session without one is not.
LEMMA OutNotFound ==
    ASSUME LoadRight, NEW t, TablesRight(t), NEW super, super.s \in load.sessions,
           super.by = {},
           \A n \in DOMAIN t.block : t.block[n].super = super => t.block[n].sub = NoSub
    PROVE  LookupSuper(t, "out", super) = 0
<1> DEFINE b == BucketOf[super.s]
           hits == {m \in DOMAIN t.block : t.block[m].super = super}
<1>1. t \in TableType
  BY DEF TablesRight
<1>2. 0 \notin hits
  BY <1>1, TableTypes
<1>3. NoneOf(OutIn(t, b), hits)
  BY <1>2 DEF OutIn, NoneOf
<1>4. OnList(t, t.head["out"][b], OutIn(t, b))
  BY Listing DEF TablesRight, OnList
<1>5. LookupSuper(t, "out", super) = Find(t, "out", b, hits)
  BY DEF LookupSuper, Bucket
<1> HIDE DEF hits, b
<1>6. Find(t, "out", b, hits) = 0
  BY <1>1, <1>3, <1>4, TableTypes, FindNone
<1> QED  BY <1>5, <1>6

\* A name that no block has is found in no table.
LEMMA NothingFound ==
    ASSUME NEW t, NEW table, NEW super,
           \A n \in DOMAIN t.block : t.block[n].super # super
    PROVE  LookupSuper(t, table, super) = 0
<1>1. {m \in DOMAIN t.block : t.block[m].super = super} = {}
  OBVIOUS
<1> QED  BY <1>1, FindNothing DEF LookupSuper

\* All that leads from the head of the table's list is pending.
LEMMA PenList ==
    ASSUME LoadRight, NEW t, TablesRight(t), NEW n \in Pend(t)
    PROVE  \E S \in SUBSET Pend(t) :
              n \in S /\ Linked(t, t.head["pen"][BucketOf[t.block[n].super.s]], S)
<1>1. Linked(t, t.head["tag"][0], Pend(t)) /\ PenRight(t)
  BY DEF TablesRight
<1>2. CASE Apart
  <2>1. t.head["pen"][BucketOf[t.block[n].super.s]] = n
    BY <1>1, <1>2 DEF PenRight
  <2> QED  BY <1>1, <2>1, LinkedFrom
<1>3. CASE ~Apart
  <2>1. t.block[n].super.s \in load.sessions
    BY DEF TablesRight, Pend
  <2>2. t.head["pen"][BucketOf[t.block[n].super.s]] = t.head["tag"][0]
    BY <1>1, <1>3, <2>1 DEF PenRight
  <2> QED  BY <1>1, <2>2
<1> QED  BY <1>2, <1>3

\* A pending block is found in the pending table.
LEMMA PenFound ==
    ASSUME LoadRight, NEW t, TablesRight(t), NEW n \in Pend(t)
    PROVE  LookupSuper(t, "pen", t.block[n].super) = n
<1> DEFINE super == t.block[n].super
           b == BucketOf[super.s]
           hits == {m \in DOMAIN t.block : t.block[m].super = super}
<1>0. n \in DOMAIN t.block
  BY DEF Pend
<1>1. t \in TableType /\ super.s \in load.sessions /\ super.by = {}
  BY <1>0 DEF TablesRight
<1>2. hits = {n} /\ 0 \notin hits
  BY <1>0, <1>1, TableTypes DEF TablesRight
<1>3. PICK S \in SUBSET Pend(t) : n \in S /\ Linked(t, t.head["pen"][b], S)
  BY PenList
<1>5. LookupSuper(t, "pen", super) = Find(t, "pen", b, hits)
  BY <1>1 DEF LookupSuper, Bucket
<1> HIDE DEF hits, b, super
<1>4. OnlyOne(S, hits, n) /\ OnList(t, t.head["pen"][b], S)
  BY <1>2, <1>3, Listing DEF OnlyOne, OnList
<1>7. t.block \in Seq(Block)
  BY <1>1, TableTypes
<1>6. Find(t, "pen", b, hits) = n
  BY <1>4, <1>7, FindOne
<1> QED  BY <1>5, <1>6 DEF super

-----------------------------------------------------------------------------
(* What the agents do to their tables.                                     *)

\* Numbers and tags are not what the lists depend on.
LEMMA FieldsChange ==
    ASSUME LoadRight, NEW t, TablesRight(t), NEW u, u \in TableType, u.head = t.head,
           DOMAIN u.block = DOMAIN t.block,
           \A m \in DOMAIN t.block :
              /\ u.block[m].super = t.block[m].super /\ u.block[m].sub = t.block[m].sub
              /\ u.block[m].next = t.block[m].next
    PROVE  TablesRight(u) /\ Kept(t, u)
<1>1. Pend(u) = Pend(t) /\ \A b : OutIn(u, b) = OutIn(t, b)
  BY DEF Pend, OutIn
<1>2. ASSUME NEW s \in load.sessions
      PROVE  Linked(u, u.head["out"][BucketOf[s]], OutIn(u, BucketOf[s]))
  <2>1. Linked(t, t.head["out"][BucketOf[s]], OutIn(t, BucketOf[s]))
    BY DEF TablesRight
  <2> QED  BY <1>1, <2>1, Listing, LinkedSame
<1>3. Linked(u, u.head["tag"][0], Pend(u))
  <2>1. Linked(t, t.head["tag"][0], Pend(t))
    BY DEF TablesRight
  <2> QED  BY <1>1, <2>1, Listing, LinkedSame
<1>4. PenRight(u)
  BY <1>1, Listing DEF TablesRight, PenRight
<1>5. /\ \A n \in DOMAIN u.block :
            u.block[n].super.s \in load.sessions /\ u.block[n].super.by = {}
      /\ \A m, n \in DOMAIN u.block : u.block[m].super = u.block[n].super => m = n
      /\ \A n \in Pend(u) : ~u.block[n].super.rev
  BY <1>1, Listing DEF TablesRight
<1> QED  BY <1>2, <1>3, <1>4, <1>5 DEF TablesRight, Kept

\* A block of a session and direction that the host has none of.
Fresh(t, b) ==
    /\ b \in Block /\ b.super.s \in load.sessions /\ b.super.by = {}
    /\ \A n \in DOMAIN t.block : t.block[n].super # b.super

\* A new block is behind the others, in no list yet.
LEMMA AllocTable ==
    ASSUME NEW t \in TableType, NEW b \in Block, NEW u, u = Alloc(t, b)
    PROVE  /\ u \in TableType /\ u.head = t.head
           /\ Len(t.block) + 1 \in Nat /\ Len(t.block) + 1 \notin DOMAIN t.block
           /\ DOMAIN u.block = DOMAIN t.block \cup {Len(t.block) + 1}
           /\ \A m \in DOMAIN t.block : u.block[m] = t.block[m]
           /\ u.block[Len(t.block) + 1] = b
<1>1. /\ t.block \in Seq(Block) /\ Len(t.block) \in Nat
      /\ DOMAIN t.block = 1 .. Len(t.block)
  BY TableTypes
<1> DEFINE s == Append(t.block, b)
<1>2. /\ s \in Seq(Block) /\ Len(s) = Len(t.block) + 1
      /\ \A m \in 1 .. Len(t.block) : s[m] = t.block[m]
      /\ s[Len(t.block) + 1] = b
  BY <1>1
<1>3. DOMAIN s = 1 .. Len(t.block) + 1
  BY <1>1, <1>2
<1>4. u.block = s /\ u.head = t.head /\ u \in TableType
  <2>1. u = [t EXCEPT !.block = s]
    BY DEF Alloc
  <2> HIDE DEF s
  <2> QED  BY <1>2, <2>1 DEF TableType
<1> HIDE DEF s
<1> QED  BY <1>1, <1>2, <1>3, <1>4

\* n at the head of a list.
Inserted(t, u, table, b, n) ==
    /\ u \in TableType /\ DOMAIN u.block = DOMAIN t.block
    /\ \A x \in Tables, c \in Buckets :
          u.head[x][c] = IF x = table /\ c = b THEN n ELSE t.head[x][c]
    /\ \A m \in DOMAIN t.block \ {n} : u.block[m] = t.block[m]
    /\ u.block[n].next = t.head[table][b]
    /\ u.block[n].super = t.block[n].super /\ u.block[n].sub = t.block[n].sub
    /\ Info(u.block[n]) = Info(t.block[n])

\* A block is put in front of a list.
LEMMA InsertTable ==
    ASSUME NEW t, t \in TableType, NEW table, table \in Tables, NEW b, b \in Buckets,
           NEW n, n \in DOMAIN t.block, NEW u, u = Insert(t, table, b, n)
    PROVE  Inserted(t, u, table, b, n)
<1>1. /\ t.block \in Seq(Block) /\ DOMAIN t.block = 1 .. Len(t.block)
      /\ t.head \in [Tables -> [Buckets -> Nat]] /\ n \in Nat
  BY TableTypes
<1> DEFINE x == t.head[table][b]
           c == [t.block[n] EXCEPT !.next = x]
<1>2. x \in Nat /\ t.block[n] \in Block
  BY <1>1
<1>3. /\ c \in Block /\ c.next = x /\ c.super = t.block[n].super
      /\ c.sub = t.block[n].sub /\ Info(c) = Info(t.block[n])
  <2> HIDE DEF x
  <2> QED  BY <1>2 DEF Block, Info
<1> HIDE DEF c
<1>4. /\ [t.block EXCEPT ![n] = c] \in Seq(Block)
      /\ [t.head EXCEPT ![table][b] = n] \in [Tables -> [Buckets -> Nat]]
  BY <1>1, <1>3
<1>5. u.block = [t.block EXCEPT ![n] = c] /\ u.head = [t.head EXCEPT ![table][b] = n]
      /\ u \in TableType
  BY <1>1, <1>4 DEF Insert, TableType, c, x
<1>6. DOMAIN u.block = DOMAIN t.block /\ u.block[n] = c
      /\ \A m \in DOMAIN t.block \ {n} : u.block[m] = t.block[m]
  BY <1>5
<1>7. \A y \in Tables, d \in Buckets :
         u.head[y][d] = IF y = table /\ d = b THEN n ELSE t.head[y][d]
  BY <1>1, <1>5
<1> QED  BY <1>3, <1>5, <1>6, <1>7 DEF x, Inserted

\* A new block n, and the rest as it was.
Added(t, u, b, n) ==
    /\ n \in Nat /\ n \notin DOMAIN t.block /\ DOMAIN u.block = DOMAIN t.block \cup {n}
    /\ \A m \in DOMAIN t.block : u.block[m] = t.block[m]
    /\ u.block[n].super = b.super /\ u.block[n].sub = b.sub /\ Info(u.block[n]) = Info(b)

\* A new block adds what it is called and says, and nothing else.
LEMMA AddedInfos ==
    ASSUME NEW t, NEW u, NEW b, NEW n, Added(t, u, b, n)
    PROVE  Infos(u) = Infos(t) \cup {Info(b)} /\ Kept(t, u)
BY DEF Added, Infos, Kept

\* The part of TablesRight that the lists are not about.
Names(t) ==
    /\ \A m \in DOMAIN t.block :
          t.block[m].super.s \in load.sessions /\ t.block[m].super.by = {}
    /\ \A l, m \in DOMAIN t.block : t.block[l].super = t.block[m].super => l = m
    /\ \A m \in Pend(t) : ~t.block[m].super.rev

\* A new name keeps the names apart.
LEMMA AddedNames ==
    ASSUME NEW t, TablesRight(t), NEW u, NEW b, NEW n, Fresh(t, b), Added(t, u, b, n),
           b.sub = NoSub => ~b.super.rev
    PROVE  Names(u)
<1>1. Pend(u) \subseteq Pend(t) \cup {n}
  BY DEF Added, Pend
<1>2. \A m \in Pend(u) : m = n => b.sub = NoSub
  BY DEF Added, Pend
<1>3. \A m \in DOMAIN u.block :
         u.block[m].super.s \in load.sessions /\ u.block[m].super.by = {}
  BY DEF Added, TablesRight, Fresh
<1>4. \A l, m \in DOMAIN u.block : u.block[l].super = u.block[m].super => l = m
  BY DEF Added, TablesRight, Fresh
<1>5. \A m \in Pend(u) : ~u.block[m].super.rev
  BY <1>1, <1>2, Listing DEF Added, TablesRight
<1> QED  BY <1>3, <1>4, <1>5 DEF Names

\* A new pending block is in the pending tables only.
LEMMA AddedPending ==
    ASSUME NEW t, NEW u, NEW b, NEW n, Added(t, u, b, n), b.sub = NoSub
    PROVE  Pend(u) = Pend(t) \cup {n} /\ \A c : OutIn(u, c) = OutIn(t, c)
BY DEF Added, Pend, OutIn

\* A new block with a subsession is in the output table only.
LEMMA AddedOut ==
    ASSUME NEW t, NEW u, NEW b, NEW n, Added(t, u, b, n), b.sub # NoSub
    PROVE  /\ Pend(u) = Pend(t)
           /\ \A c : c # BucketOf[b.super.s] => OutIn(u, c) = OutIn(t, c)
           /\ OutIn(u, BucketOf[b.super.s]) = OutIn(t, BucketOf[b.super.s]) \cup {n}
BY DEF Added, Pend, OutIn

\* The parts of TablesRight.
LEMMA AllRight ==
    ASSUME NEW t, t \in TableType, Names(t), PenRight(t),
           Linked(t, t.head["tag"][0], Pend(t)),
           \A s \in load.sessions :
              Linked(t, t.head["out"][BucketOf[s]], OutIn(t, BucketOf[s]))
    PROVE  TablesRight(t)
BY DEF TablesRight, Names

\* A block into the output table.
LEMMA AllocOut ==
    ASSUME LoadRight, NEW t, TablesRight(t), NEW b, Fresh(t, b), b.sub # NoSub,
           NEW u, u = Insert(Alloc(t, b), "out", Bucket(b.super), Len(t.block) + 1)
    PROVE  TablesRight(u) /\ Kept(t, u) /\ Infos(u) = Infos(t) \cup {Info(b)}
<1> DEFINE n == Len(t.block) + 1
           B == BucketOf[b.super.s]
           v == Alloc(t, b)
<1>1. /\ t \in TableType /\ b \in Block /\ Bucket(b.super) = B /\ B \in Buckets
      /\ 0 \in Buckets /\ "out" \in Tables
  BY LoadTypes DEF TablesRight, Fresh, Bucket, Tables
<1>2. /\ v \in TableType /\ v.head = t.head /\ n \in Nat /\ n \notin DOMAIN t.block
      /\ DOMAIN v.block = DOMAIN t.block \cup {n}
      /\ \A m \in DOMAIN t.block : v.block[m] = t.block[m]
      /\ v.block[n] = b
  BY <1>1, AllocTable
<1>3. u = Insert(v, "out", B, n)
  BY <1>1
<1> HIDE DEF v, n, B
<1>4. n \in DOMAIN v.block /\ Inserted(v, u, "out", B, n)
  <2>1. n \in DOMAIN v.block
    BY <1>2
  <2> QED  BY <1>1, <1>2, <1>3, <2>1, InsertTable
<1>5. Added(t, u, b, n)
  BY <1>2, <1>4 DEF Inserted, Added
<1>6. /\ u \in TableType /\ u.block[n].next = t.head["out"][B]
      /\ u.head["out"][B] = n /\ u.head["tag"][0] = t.head["tag"][0]
      /\ \A c \in Buckets : u.head["pen"][c] = t.head["pen"][c]
      /\ \A c \in Buckets \ {B} : u.head["out"][c] = t.head["out"][c]
  BY <1>1, <1>2, <1>4 DEF Tables, Inserted
<1>9. Names(u)
  BY <1>5, AddedNames
<1>7. /\ Pend(u) = Pend(t) /\ \A c : c # B => OutIn(u, c) = OutIn(t, c)
      /\ OutIn(u, B) = OutIn(t, B) \cup {n}
  BY <1>5, AddedOut DEF B
<1>8. \A m \in DOMAIN t.block : u.block[m] = t.block[m]
  BY <1>5 DEF Added
<1>10. ASSUME NEW s \in load.sessions
       PROVE  Linked(u, u.head["out"][BucketOf[s]], OutIn(u, BucketOf[s]))
  <2>1. Linked(t, t.head["out"][BucketOf[s]], OutIn(t, BucketOf[s]))
    BY DEF TablesRight
  <2>2. \A m \in OutIn(t, BucketOf[s]) : u.block[m].next = t.block[m].next
    BY <1>8, Listing
  <2>3. CASE BucketOf[s] = B
    <3>1. u.block[n].next = t.head["out"][BucketOf[s]]
      BY <1>6, <2>3
    <3>2. n \notin OutIn(t, BucketOf[s])
      BY <1>2, Listing
    <3>3. Linked(u, n, OutIn(t, BucketOf[s]) \cup {n})
      BY <2>1, <2>2, <3>1, <3>2, LinkedFirst
    <3> QED  BY <1>6, <1>7, <2>3, <3>3
  <2>4. CASE BucketOf[s] # B
    <3>1. u.head["out"][BucketOf[s]] = t.head["out"][BucketOf[s]]
      BY <1>6, <2>4, LoadTypes
    <3>2. OutIn(u, BucketOf[s]) = OutIn(t, BucketOf[s])
      BY <1>7, <2>4
    <3>3. Linked(u, t.head["out"][BucketOf[s]], OutIn(t, BucketOf[s]))
      BY <2>1, <2>2, LinkedSame
    <3> QED  BY <3>1, <3>2, <3>3
  <2> QED  BY <2>3, <2>4
<1>11. Linked(u, u.head["tag"][0], Pend(u))
  <2>1. Linked(t, t.head["tag"][0], Pend(t))
    BY DEF TablesRight
  <2>2. \A m \in Pend(t) : u.block[m].next = t.block[m].next
    BY <1>8, Listing
  <2> QED  BY <1>6, <1>7, <2>1, <2>2, LinkedSame
<1>12. PenRight(u)
  <2>1. PenRight(t) /\ Pend(t) \subseteq DOMAIN t.block
    BY Listing DEF TablesRight
  <2>2. \A m \in Pend(t) :
           u.block[m] = t.block[m] /\ BucketOf[t.block[m].super.s] \in Buckets
    BY <1>8, <2>1, LoadTypes DEF TablesRight
  <2>3. \A s \in load.sessions : BucketOf[s] \in Buckets
    BY ZenonT(30), LoadTypes
  <2>4. CASE Apart
    <3>1. ASSUME NEW m \in Pend(u) PROVE u.head["pen"][BucketOf[u.block[m].super.s]] = m
      <4>1. m \in Pend(t) /\ u.block[m] = t.block[m]
        BY <1>7, <2>2
      <4>2. t.head["pen"][BucketOf[t.block[m].super.s]] = m
        BY <2>1, <2>4, <4>1 DEF PenRight
      <4> QED  BY <1>6, <2>2, <4>1, <4>2
    <3> QED  BY ZenonT(60), <2>4, <3>1 DEF PenRight
  <2>5. CASE ~Apart
    <3>1. \A s \in load.sessions : t.head["pen"][BucketOf[s]] = t.head["tag"][0]
      BY <2>1, <2>5 DEF PenRight
    <3> QED  BY <1>6, <2>3, <2>5, <3>1 DEF PenRight
  <2> QED  BY <2>4, <2>5
<1>13. Kept(t, u) /\ Infos(u) = Infos(t) \cup {Info(b)}
  BY <1>5, AddedInfos
<1> QED  BY <1>6, <1>9, <1>10, <1>11, <1>12, <1>13, AllRight

\* A block into the two pending tables.
LEMMA AllocPending ==
    ASSUME LoadRight, NEW t, TablesRight(t), NEW b, Fresh(t, b), b.sub = NoSub,
           ~b.super.rev, NEW u,
           u = Insert(Insert(Alloc(t, b), "pen", Bucket(b.super), Len(t.block) + 1),
                      "tag", 0, Len(t.block) + 1)
    PROVE  TablesRight(u) /\ Kept(t, u) /\ Infos(u) = Infos(t) \cup {Info(b)}
<1> DEFINE n == Len(t.block) + 1
           B == BucketOf[b.super.s]
           v == Alloc(t, b)
           v2 == Insert(v, "pen", B, n)
<1>1. /\ t \in TableType /\ b \in Block /\ Bucket(b.super) = B /\ B \in Buckets
      /\ 0 \in Buckets /\ "pen" \in Tables /\ "tag" \in Tables
  BY LoadTypes DEF TablesRight, Fresh, Bucket, Tables
<1>2. /\ v \in TableType /\ v.head = t.head /\ n \in Nat /\ n \notin DOMAIN t.block
      /\ DOMAIN v.block = DOMAIN t.block \cup {n}
      /\ \A m \in DOMAIN t.block : v.block[m] = t.block[m]
      /\ v.block[n] = b
  BY <1>1, AllocTable
<1>3. u = Insert(v2, "tag", 0, n)
  BY <1>1
<1> HIDE DEF v, n, B
<1> HIDE DEF v2
<1>a. Inserted(v, v2, "pen", B, n)
  <2>1. n \in DOMAIN v.block /\ v2 = Insert(v, "pen", B, n)
    BY <1>2 DEF v2
  <2> QED  BY <1>1, <1>2, <2>1, InsertTable
<1>b. v2 \in TableType /\ n \in DOMAIN v2.block
  BY <1>2, <1>a DEF Inserted
<1>c. Inserted(v2, u, "tag", 0, n)
  BY <1>1, <1>3, <1>b, InsertTable
<1>4. Added(t, u, b, n)
  BY <1>2, <1>a, <1>c DEF Inserted, Added
<1>6. /\ u \in TableType /\ u.block[n].next = t.head["tag"][0]
      /\ u.head["tag"][0] = n /\ u.head["pen"][B] = n
      /\ \A c \in Buckets : u.head["out"][c] = t.head["out"][c]
      /\ \A c \in Buckets \ {B} : u.head["pen"][c] = t.head["pen"][c]
  BY <1>1, <1>2, <1>a, <1>c DEF Tables, Inserted
<1>9. Names(u)
  BY <1>4, AddedNames
<1>7. Pend(u) = Pend(t) \cup {n} /\ \A c : OutIn(u, c) = OutIn(t, c)
  BY <1>4, AddedPending
<1>8. /\ \A m \in DOMAIN t.block : u.block[m] = t.block[m]
      /\ u.block[n].super = b.super
  BY <1>4 DEF Added
<1>10. ASSUME NEW s \in load.sessions
       PROVE  Linked(u, u.head["out"][BucketOf[s]], OutIn(u, BucketOf[s]))
  <2>1. Linked(t, t.head["out"][BucketOf[s]], OutIn(t, BucketOf[s]))
    BY DEF TablesRight
  <2>2. \A m \in OutIn(t, BucketOf[s]) : u.block[m].next = t.block[m].next
    BY <1>8, Listing
  <2>3. Linked(u, t.head["out"][BucketOf[s]], OutIn(t, BucketOf[s]))
    BY <2>1, <2>2, LinkedSame
  <2>4. BucketOf[s] \in Buckets
    BY LoadTypes
  <2> QED  BY <1>6, <1>7, <2>3, <2>4
<1>11. Linked(u, u.head["tag"][0], Pend(u))
  <2>1. Linked(t, t.head["tag"][0], Pend(t))
    BY DEF TablesRight
  <2>2. \A m \in Pend(t) : u.block[m].next = t.block[m].next
    BY <1>8, Listing
  <2>3. n \notin Pend(t)
    BY <1>2, Listing
  <2>5. u.block[n].next = t.head["tag"][0]
    BY <1>6
  <2>4. Linked(u, n, Pend(t) \cup {n})
    BY ZenonT(60), <2>1, <2>2, <2>3, <2>5, LinkedFirst
  <2> QED  BY <1>6, <1>7, <2>4
<1>12. PenRight(u)
  <2>1. PenRight(t)
    BY ZenonT(30) DEF TablesRight
  <2>2. CASE Apart
    <3>1. ASSUME NEW m \in Pend(t) PROVE u.head["pen"][BucketOf[u.block[m].super.s]] = m
      <4>1. m \in DOMAIN t.block /\ u.block[m] = t.block[m]
        BY <1>8, Listing
      <4>2. t.block[m].super.s \in load.sessions /\ b.super.s \in load.sessions
        BY <4>1 DEF TablesRight, Fresh
      <4>3. t.block[m].super.s # b.super.s
        <5>1. t.block[m] \in Block
          BY <1>1, <4>1, TableTypes
        <5>2. t.block[m].super \in Super /\ b.super \in Super
          BY <1>1, <5>1 DEF Block
        <5>3. t.block[m].super.by = {} /\ ~t.block[m].super.rev
          BY <4>1 DEF TablesRight
        <5>4. b.super.by = {} /\ t.block[m].super # b.super
          BY <4>1 DEF Fresh
        <5>5. t.block[m].super = [s |-> t.block[m].super.s, by |-> {}, rev |-> FALSE]
          BY <5>2, <5>3 DEF Super
        <5>6. b.super = [s |-> b.super.s, by |-> {}, rev |-> FALSE]
          BY <5>2, <5>4 DEF Super
        <5> QED  BY <5>4, <5>5, <5>6
      <4>4. BucketOf[t.block[m].super.s] # B /\ BucketOf[t.block[m].super.s] \in Buckets
        BY <2>2, <4>2, <4>3, LoadTypes DEF Apart, B
      <4>5. t.head["pen"][BucketOf[t.block[m].super.s]] = m
        BY ZenonT(30), <2>1, <2>2 DEF PenRight
      <4> QED  BY <1>6, <4>1, <4>4, <4>5
    <3>2. u.head["pen"][BucketOf[u.block[n].super.s]] = n
      <4>1. u.block[n].super = b.super
        BY <1>8
      <4>2. u.head["pen"][B] = n
        BY <1>6
      <4> QED  BY Zenon, <4>1, <4>2 DEF B
    <3> QED  BY ZenonT(60), <1>7, <2>2, <3>1, <3>2 DEF PenRight
  <2>3. CASE ~Apart
    <3>1. \A s \in load.sessions : BucketOf[s] = B
      BY <2>3 DEF LoadRight, Untranslated, Together, Fresh, B
    <3> QED  BY <1>6, <2>3, <3>1 DEF PenRight
  <2> QED  BY <2>2, <2>3
<1>13. Kept(t, u) /\ Infos(u) = Infos(t) \cup {Info(b)}
  BY <1>4, AddedInfos
<1> QED  BY <1>6, <1>9, <1>10, <1>11, <1>12, <1>13, AllRight

\* A block of a table, and its number.
LEMMA TableBlock ==
    ASSUME NEW t, t \in TableType, NEW n, n \in DOMAIN t.block
    PROVE  /\ t.block[n] \in Block /\ t.block[n].super \in Super /\ t.block[n].sub \in Sub
           /\ t.block[n].next \in Nat /\ n \in Nat /\ n # 0
<1>1. /\ t.block \in Seq(Block) /\ Len(t.block) \in Nat
      /\ DOMAIN t.block = 1 .. Len(t.block)
  BY TableTypes
<1>2. t.block[n] \in Block /\ n \in Nat /\ n # 0
  BY <1>1
<1> QED  BY <1>2 DEF Block

\* n out of a list of the nodes S.
Removed(t, u, table, b, S, n) ==
    /\ u \in TableType /\ u.block = Without(t, S, n)
    /\ \A x \in Tables, c \in Buckets :
          u.head[x][c] = IF x = table /\ c = b THEN Past(t, n, t.head[x][c]) ELSE t.head[x][c]

\* Blocks stay blocks when one of them is unlinked.
LEMMA WithoutType ==
    ASSUME NEW t, t \in TableType, NEW S, NEW n, n \in DOMAIN t.block
    PROVE  Without(t, S, n) \in Seq(Block)
<1>1. /\ t.block \in Seq(Block) /\ Len(t.block) \in Nat
      /\ DOMAIN t.block = 1 .. Len(t.block)
  BY TableTypes
<1>2. t.block[n].next \in Nat
  BY TableBlock
<1> DEFINE w(m) == IF m \in S /\ t.block[m].next = n
                   THEN [t.block[m] EXCEPT !.next = t.block[n].next] ELSE t.block[m]
<1>3. \A m \in 1 .. Len(t.block) : w(m) \in Block
  <2>1. \A m \in 1 .. Len(t.block) : t.block[m] \in Block
    BY <1>1
  <2>2. ASSUME NEW x \in Nat, NEW c \in Block PROVE [c EXCEPT !.next = x] \in Block
    BY DEF Block
  <2> QED  BY <1>2, <2>1, <2>2
<1>4. Without(t, S, n) = [m \in 1 .. Len(t.block) |-> w(m)]
  BY <1>1 DEF Without
<1> HIDE DEF w
<1>5. [m \in 1 .. Len(t.block) |-> w(m)] \in [1 .. Len(t.block) -> Block]
  BY <1>3
<1> QED  BY <1>1, <1>4, <1>5

\* rhashtable_remove_fast takes a block out of a list, whichever it is in.
LEMMA RemoveTable ==
    ASSUME NEW t, t \in TableType, NEW table, table \in Tables, NEW b, b \in Buckets,
           NEW S, OnList(t, t.head[table][b], S),
           NEW n, n \in DOMAIN t.block, NEW u, u = Remove(t, table, b, n)
    PROVE  Removed(t, u, table, b, S, n)
<1>1. /\ t.block \in Seq(Block) /\ t.head \in [Tables -> [Buckets -> Nat]]
      /\ t.block[n].next \in Nat
  BY TableTypes, TableBlock
<1>2. /\ u.block = Without(t, S, n)
      /\ u.head = [t.head EXCEPT ![table][b] = Past(t, n, t.head[table][b])]
  <2>1. S \subseteq DOMAIN t.block /\ Linked(t, t.head[table][b], S)
    BY DEF OnList
  <2>2. /\ Remove(t, table, b, n).block = Without(t, S, n)
        /\ Remove(t, table, b, n).head =
              [t.head EXCEPT ![table][b] = Past(t, n, t.head[table][b])]
    BY ONLY t \in TableType, table \in Tables, b \in Buckets, n \in DOMAIN t.block, <2>1,
            RemoveIs
  <2> QED  BY <2>2
<1>3. Without(t, S, n) \in Seq(Block)
  BY WithoutType
<1>4. [t.head EXCEPT ![table][b] = Past(t, n, t.head[table][b])]
         \in [Tables -> [Buckets -> Nat]]
  BY <1>1 DEF Past
<1>5. u = [block |-> u.block, head |-> u.head]
  BY DEF Remove, TableType
<1>6. u \in TableType
  BY <1>2, <1>3, <1>4, <1>5 DEF TableType
<1>7. \A x \in Tables, c \in Buckets :
         u.head[x][c] = IF x = table /\ c = b THEN Past(t, n, t.head[x][c]) ELSE t.head[x][c]
  BY <1>1, <1>2
<1> QED  BY <1>2, <1>6, <1>7 DEF Removed

\* A pending block leaves its two lists.
Taken(t, u, n) ==
    /\ u \in TableType /\ u.block = Without(t, Pend(t), n)
    /\ \A c \in Buckets : u.head["out"][c] = t.head["out"][c]
    /\ u.head["tag"][0] = Past(t, n, t.head["tag"][0])
    /\ \A c \in Buckets :
          u.head["pen"][c] = IF c = BucketOf[t.block[n].super.s]
                             THEN Past(t, n, t.head["pen"][c]) ELSE t.head["pen"][c]

\* Out of a list of which it is the first, or not a node at all, nothing goes.
LEMMA WithoutNone ==
    ASSUME NEW t, t \in TableType, NEW S, NEW n,
           \A m \in S : t.block[m].next # n
    PROVE  Without(t, S, n) = t.block
<1>1. Without(t, S, n) = [m \in DOMAIN t.block |-> t.block[m]]
  BY DEF Without
<1> QED  BY <1>1, TableTypes

\* No link of a list leads to its first node.
LEMMA FirstOfList ==
    ASSUME NEW t, NEW S, NEW n, n # 0, Linked(t, n, S)
    PROVE  \A m \in S : t.block[m].next # n
BY LinkedStays

\* A pending block is taken out of both pending tables, though it has one link: the
\* second removal changes what the first one has left, if anything.
LEMMA TakenOut ==
    ASSUME LoadRight, NEW t, TablesRight(t), NEW n, n \in Pend(t), NEW v, NEW u,
           v = Remove(t, "pen", Bucket(t.block[n].super), n),
           u = Remove(v, "tag", 0, n)
    PROVE  Taken(t, u, n)
<1> DEFINE B == BucketOf[t.block[n].super.s]
           P == Pend(t)
<1>1. /\ t \in TableType /\ n \in DOMAIN t.block /\ Linked(t, t.head["tag"][0], P)
      /\ PenRight(t) /\ P \subseteq DOMAIN t.block /\ 0 \notin P
  <2>1. t \in TableType /\ Linked(t, t.head["tag"][0], P) /\ PenRight(t)
    BY DEF TablesRight
  <2>2. P \subseteq DOMAIN t.block
    BY Listing
  <2> QED  BY <2>1, <2>2, TableBlock
<1>2. /\ t.block[n].super.s \in load.sessions /\ Bucket(t.block[n].super) = B
      /\ B \in Buckets /\ 0 \in Buckets
  BY <1>1, LoadTypes DEF TablesRight, Bucket
<1>3. "pen" \in Tables /\ "tag" \in Tables /\ "out" \in Tables
  BY DEF Tables
<1>4. v = Remove(t, "pen", B, n)
  BY ZenonT(30), <1>2
<1> HIDE DEF B
<1>5. CASE Apart
  <2>1. t.head["pen"][B] = n
    BY <1>1, <1>5 DEF PenRight, B
  <2>2. PICK R \in SUBSET P : n \in R /\ Linked(t, n, R)
    BY <1>1, LinkedFrom
  <2>3. OnList(t, t.head["pen"][B], R)
    BY <1>1, <2>1, <2>2 DEF OnList
  <2>4. Removed(t, v, "pen", B, R, n)
    BY <1>1, <1>2, <1>3, <1>4, <2>3, RemoveTable
  <2>5. Without(t, R, n) = t.block
    <3>1. n # 0
      BY <1>1
    <3>2. \A m \in R : t.block[m].next # n
      BY <2>2, <3>1, FirstOfList
    <3> QED  BY <1>1, <3>2, WithoutNone
  <2>6. v.block = t.block /\ v \in TableType /\ v.head["tag"][0] = t.head["tag"][0]
    BY <1>2, <1>3, <2>4, <2>5 DEF Removed
  <2>7. Linked(v, v.head["tag"][0], P)
    BY <1>1, <2>6, LinkedSame
  <2>8. OnList(v, v.head["tag"][0], P)
    BY <1>1, <2>6, <2>7 DEF OnList
  <2>9. n \in DOMAIN v.block
    BY <1>1, <2>6
  <2>10. Removed(v, u, "tag", 0, P, n)
    <3> HIDE DEF P, B
    <3> QED  BY <1>2, <1>3, <2>6, <2>8, <2>9, RemoveTable
  <2>11. Without(v, P, n) = Without(t, P, n) /\ \A x : Past(v, n, x) = Past(t, n, x)
    BY <2>6 DEF Without, Past
  <2>12. u \in TableType /\ u.block = Without(t, P, n)
    BY <2>10, <2>11 DEF Removed
  <2>13. /\ \A c \in Buckets : u.head["out"][c] = t.head["out"][c]
         /\ u.head["tag"][0] = Past(t, n, t.head["tag"][0])
    BY <1>2, <1>3, <2>4, <2>10, <2>11 DEF Removed
  <2>14. \A c \in Buckets : u.head["pen"][c] =
            IF c = B THEN Past(t, n, t.head["pen"][c]) ELSE t.head["pen"][c]
    <3>1. \A c \in Buckets : u.head["pen"][c] = v.head["pen"][c]
      BY <1>3, <2>10 DEF Removed
    <3>2. \A c \in Buckets : v.head["pen"][c] =
             IF c = B THEN Past(t, n, t.head["pen"][c]) ELSE t.head["pen"][c]
      BY <1>2, <1>3, <2>4 DEF Removed
    <3> QED  BY Zenon, <3>1, <3>2
  <2> QED  BY <2>12, <2>13, <2>14 DEF Taken, B
<1>6. CASE ~Apart
  <2>1. t.head["pen"][B] = t.head["tag"][0]
    BY <1>1, <1>2, <1>6 DEF PenRight, B
  <2>2. OnList(t, t.head["pen"][B], P)
    BY <1>1, <2>1 DEF OnList
  <2>3. Removed(t, v, "pen", B, P, n)
    BY <1>1, <1>2, <1>3, <1>4, <2>2, RemoveTable
  <2>4. /\ v \in TableType /\ v.block = Without(t, P, n)
        /\ v.head["tag"][0] = t.head["tag"][0] /\ DOMAIN v.block = DOMAIN t.block
    BY <1>2, <1>3, <2>3 DEF Removed, Without
  <2>5. \A m \in P \ {n} : v.block[m].next = Past(t, n, t.block[m].next)
    <3>1. ASSUME NEW m \in P \ {n}
          PROVE  v.block[m].next = Past(t, n, t.block[m].next)
      <4>1. m \in DOMAIN t.block /\ t.block[m] \in Block
        BY <1>1, TableBlock
      <4>2. v.block[m] = IF t.block[m].next = n
                         THEN [t.block[m] EXCEPT !.next = t.block[n].next] ELSE t.block[m]
        BY <2>4, <4>1 DEF Without
      <4> QED  BY <4>1, <4>2 DEF Past, Block
    <3> QED  BY <3>1
  <2>6. v.block[n].next = t.block[n].next
    <3>1. v.block[n] = IF n \in P /\ t.block[n].next = n
                       THEN [t.block[n] EXCEPT !.next = t.block[n].next] ELSE t.block[n]
      BY <1>1, <2>4 DEF Without
    <3>2. t.block[n] \in Block
      BY <1>1, TableBlock
    <3> QED  BY <3>1, <3>2 DEF Block
  <2>7. \E S \in SUBSET P : Linked(v, t.head["tag"][0], S) /\ \A m \in S : v.block[m].next # n
    <3>1. CASE t.head["tag"][0] = n
      <4>1. \A m \in P : t.block[m].next # n
        <5>1. n # 0 /\ Linked(t, n, P)
          BY <1>1, <3>1
        <5> QED  BY <5>1, FirstOfList
      <4>2. v.block = t.block
        BY <1>1, <2>4, <4>1, WithoutNone
      <4>3. Linked(v, t.head["tag"][0], P)
        BY <1>1, <4>2, LinkedSame
      <4> QED  BY <4>1, <4>2, <4>3
    <3>2. CASE t.head["tag"][0] # n
      <4>1. Past(t, n, t.head["tag"][0]) = t.head["tag"][0]
        BY <3>2 DEF Past
      <4>2. Linked(v, t.head["tag"][0], P \ {n})
        <5>1. Linked(v, Past(t, n, t.head["tag"][0]), P \ {n})
          BY <1>1, <2>5, LinkedWithout
        <5> QED  BY <4>1, <5>1
      <4>3. \A m \in P \ {n} : v.block[m].next \in (P \ {n}) \cup {0}
        BY <4>2, LinkedStays
      <4> QED  BY <1>1, <4>2, <4>3
    <3> QED  BY <3>1, <3>2
  <2>8. PICK S \in SUBSET P :
           Linked(v, t.head["tag"][0], S) /\ \A m \in S : v.block[m].next # n
    BY <2>7
  <2>9. OnList(v, v.head["tag"][0], S) /\ n \in DOMAIN v.block
    BY <1>1, <2>4, <2>8 DEF OnList
  <2>10. Removed(v, u, "tag", 0, S, n)
    BY <1>2, <1>3, <2>4, <2>9, RemoveTable
  <2>11. Without(v, S, n) = v.block
    BY <2>4, <2>8, WithoutNone
  <2>12. \A x : Past(v, n, x) = Past(t, n, x)
    BY <2>6 DEF Past
  <2>13. u \in TableType /\ u.block = Without(t, P, n)
    BY <2>4, <2>10, <2>11 DEF Removed
  <2>14. /\ \A c \in Buckets : u.head["out"][c] = t.head["out"][c]
         /\ u.head["tag"][0] = Past(t, n, t.head["tag"][0])
    BY <1>2, <1>3, <2>3, <2>10, <2>12 DEF Removed
  <2>15. \A c \in Buckets : u.head["pen"][c] =
            IF c = B THEN Past(t, n, t.head["pen"][c]) ELSE t.head["pen"][c]
    BY <1>2, <1>3, <2>3, <2>10 DEF Removed
  <2> QED  BY <2>13, <2>14, <2>15 DEF Taken, B
<1> QED  BY <1>5, <1>6

\* Block n gets the names and numbers of b, the others keep theirs.
Renamed(t, u, b, n) ==
    /\ DOMAIN u.block = DOMAIN t.block
    /\ \A m \in DOMAIN t.block \ {n} :
          /\ u.block[m].super = t.block[m].super /\ u.block[m].sub = t.block[m].sub
          /\ Info(u.block[m]) = Info(t.block[m])
    /\ u.block[n].super = b.super /\ u.block[n].sub = b.sub /\ Info(u.block[n]) = Info(b)

\* A block that changes changes what the table says of it only.
LEMMA RenamedInfos ==
    ASSUME NEW t, NEW u, NEW b, NEW n, n \in DOMAIN t.block, Renamed(t, u, b, n),
           \A l, m \in DOMAIN t.block : t.block[l].super = t.block[m].super => l = m
    PROVE  Infos(u) = (Infos(t) \ {Info(t.block[n])}) \cup {Info(b)}
<1>1. \A m \in DOMAIN t.block \ {n} : Info(t.block[m]) # Info(t.block[n])
  BY DEF Info
<1>2. ASSUME NEW r \in Infos(u) PROVE r \in (Infos(t) \ {Info(t.block[n])}) \cup {Info(b)}
  BY <1>1 DEF Infos, Renamed
<1>3. ASSUME NEW r \in Infos(t), r # Info(t.block[n]) PROVE r \in Infos(u)
  BY <1>3 DEF Infos, Renamed
<1>4. Info(b) \in Infos(u)
  BY DEF Infos, Renamed
<1> QED  BY <1>2, <1>3, <1>4

\* A sequence with another element.
LEMMA SeqExcept ==
    ASSUME NEW S, NEW q, q \in Seq(S), NEW n, NEW x, x \in S
    PROVE  [q EXCEPT ![n] = x] \in Seq(S)
<1>1. Len(q) \in Nat /\ q \in [1 .. Len(q) -> S]
  OBVIOUS
<1> DEFINE k == Len(q)
<1>2. [q EXCEPT ![n] = x] \in [1 .. k -> S]
  <2> HIDE DEF k
  <2> QED  BY <1>1 DEF k
<1>3. k \in Nat
  BY <1>1
<1> HIDE DEF k
<1> QED  BY <1>2, <1>3

\* A subsession for a pending block keeps the names apart.
LEMMA RenamedNames ==
    ASSUME NEW t, TablesRight(t), NEW u, NEW b, NEW n, n \in Pend(t), Renamed(t, u, b, n),
           b.super = t.block[n].super, b.sub # NoSub
    PROVE  Names(u)
<1>0. n \in DOMAIN t.block /\ t.block[n].sub = NoSub
  BY DEF Pend
<1>1. Pend(u) = Pend(t) \ {n}
  BY <1>0 DEF Pend, Renamed
<1>4. \A m \in DOMAIN u.block : u.block[m].super = t.block[m].super
  BY DEF Renamed
<1>5. Names(u)
  BY <1>0, <1>1, <1>4, Listing DEF Renamed, TablesRight, Names
<1> QED  BY <1>5

\* A session has one pending block of a host.
LEMMA OneSession ==
    ASSUME NEW t, TablesRight(t), NEW m, m \in Pend(t), NEW n, n \in Pend(t),
           t.block[m].super.s = t.block[n].super.s
    PROVE  m = n
<1>1. /\ t.block[m].super \in Super /\ t.block[n].super \in Super
      /\ m \in DOMAIN t.block /\ n \in DOMAIN t.block
  BY Listing, TableBlock DEF TablesRight
<1>2. /\ t.block[m].super.by = {} /\ ~t.block[m].super.rev
      /\ t.block[n].super.by = {} /\ ~t.block[n].super.rev
  BY <1>1 DEF TablesRight
<1>3. /\ t.block[m].super = [s |-> t.block[m].super.s, by |-> {}, rev |-> FALSE]
      /\ t.block[n].super = [s |-> t.block[n].super.s, by |-> {}, rev |-> FALSE]
  BY <1>1, <1>2 DEF Super
<1> QED  BY <1>1, <1>3 DEF TablesRight

\* What becomes of a table when a pending block gets its subsession.
Moved(t, b, n) ==
    LET t1 == Remove(t, "pen", Bucket(t.block[n].super), n)
        t2 == Remove(t1, "tag", 0, n)
        t3 == [t2 EXCEPT !.block[n] = b]
    IN Insert(t3, "out", Bucket(t.block[n].super), n)

\* dysco_out_handle_mb moves a block from the pending tables to the output table.
LEMMA MovedOut ==
    ASSUME LoadRight, NEW t, TablesRight(t), NEW n, n \in Pend(t),
           NEW b, b \in Block, b.super = t.block[n].super, b.sub # NoSub,
           NEW u, u = Moved(t, b, n)
    PROVE  /\ TablesRight(u) /\ Renamed(t, u, b, n)
           /\ Infos(u) = (Infos(t) \ {Info(t.block[n])}) \cup {Info(b)}
<1> DEFINE B == BucketOf[b.super.s]
           P == Pend(t)
           t1 == Remove(t, "pen", Bucket(t.block[n].super), n)
           t2 == Remove(t1, "tag", 0, n)
           t3 == [t2 EXCEPT !.block[n] = b]
<1>1. /\ t \in TableType /\ n \in DOMAIN t.block /\ Linked(t, t.head["tag"][0], P)
      /\ PenRight(t) /\ P \subseteq DOMAIN t.block /\ 0 \notin P
  <2>1. t \in TableType /\ Linked(t, t.head["tag"][0], P) /\ PenRight(t)
    BY DEF TablesRight
  <2>2. P \subseteq DOMAIN t.block
    BY Listing
  <2> QED  BY <2>1, <2>2, TableBlock
<1>2. /\ t.block[n].super.s \in load.sessions /\ Bucket(t.block[n].super) = B
      /\ B \in Buckets /\ 0 \in Buckets /\ "out" \in Tables
  BY ZenonT(60), <1>1, LoadTypes DEF TablesRight, Bucket, Tables
<1>3. u = Insert(t3, "out", B, n)
  BY <1>2 DEF Moved
<1>4. Taken(t, t2, n)
  BY TakenOut
<1> HIDE DEF t1, t2
<1>5. /\ t3 \in TableType /\ DOMAIN t3.block = DOMAIN t.block /\ t3.head = t2.head
      /\ t3.block[n] = b
      /\ \A m \in DOMAIN t.block \ {n} : t3.block[m] = t2.block[m]
  <2>1. t2 \in TableType /\ DOMAIN t2.block = DOMAIN t.block
    BY <1>4 DEF Taken, Without
  <2>2. [t2.block EXCEPT ![n] = b] \in Seq(Block)
    <3>1. t2.block \in Seq(Block)
      BY <2>1, TableTypes
    <3> HIDE DEF t3
    <3> QED  BY <3>1, SeqExcept
  <2>3. t3.block = [t2.block EXCEPT ![n] = b] /\ t3.head = t2.head
    BY <2>1 DEF TableType
  <2>4. t3 \in TableType
    BY <2>1, <2>2, <2>3 DEF TableType
  <2>5. t2.block \in Seq(Block) /\ n \in DOMAIN t2.block
    BY <1>1, <2>1, TableTypes
  <2> HIDE DEF t3
  <2> QED  BY <2>1, <2>3, <2>4, <2>5
<1> HIDE DEF t3
<1>6. Inserted(t3, u, "out", B, n)
  BY <1>1, <1>2, <1>3, <1>5, InsertTable
<1> HIDE DEF B
<1>7. ASSUME NEW m \in DOMAIN t.block \ {n}
      PROVE  /\ u.block[m].super = t.block[m].super /\ u.block[m].sub = t.block[m].sub
             /\ Info(u.block[m]) = Info(t.block[m])
             /\ m \in P => u.block[m].next = Past(t, n, t.block[m].next)
             /\ m \notin P => u.block[m].next = t.block[m].next
  <2>1. t.block[m] \in Block
    BY <1>1, TableBlock
  <2>2. u.block[m] = t3.block[m]
    BY <1>5, <1>6 DEF Inserted
  <2>3. t3.block[m] = IF m \in P /\ t.block[m].next = n
                      THEN [t.block[m] EXCEPT !.next = t.block[n].next] ELSE t.block[m]
    BY ZenonT(60), <1>4, <1>5 DEF Taken, Without
  <2> QED  BY <2>1, <2>2, <2>3 DEF Past, Block, Info
<1>8. Renamed(t, u, b, n) /\ u.block[n].next = t3.head["out"][B] /\ u \in TableType
  <2>1. /\ u.block[n].super = b.super /\ u.block[n].sub = b.sub /\ Info(u.block[n]) = Info(b)
        /\ u.block[n].next = t3.head["out"][B] /\ u \in TableType
        /\ DOMAIN u.block = DOMAIN t.block
    BY <1>5, <1>6 DEF Inserted
  <2> QED  BY <1>7, <2>1 DEF Renamed
<1>9. /\ u.block[n].next = t.head["out"][B] /\ u.head["out"][B] = n
      /\ \A c \in Buckets \ {B} : u.head["out"][c] = t.head["out"][c]
      /\ u.head["tag"][0] = Past(t, n, t.head["tag"][0])
      /\ \A c \in Buckets : u.head["pen"][c] =
            IF c = B THEN Past(t, n, t.head["pen"][c]) ELSE t.head["pen"][c]
  <2>1. /\ \A c \in Buckets : t3.head["out"][c] = t.head["out"][c]
        /\ t3.head["tag"][0] = Past(t, n, t.head["tag"][0])
        /\ \A c \in Buckets : t3.head["pen"][c] =
              IF c = B THEN Past(t, n, t.head["pen"][c]) ELSE t.head["pen"][c]
    BY <1>4, <1>5 DEF Taken, B
  <2>2. "tag" \in Tables /\ "pen" \in Tables
    BY DEF Tables
  <2> QED  BY <1>2, <1>6, <1>8, <2>1, <2>2 DEF Inserted
<1>10. /\ Names(u) /\ Pend(u) = P \ {n} /\ \A c : c # B => OutIn(u, c) = OutIn(t, c)
       /\ OutIn(u, B) = OutIn(t, B) \cup {n}
  <2>1. Names(u)
    BY <1>8, RenamedNames
  <2>2. n \in DOMAIN t.block /\ t.block[n].sub = NoSub
    BY DEF Pend
  <2>3. Pend(u) = P \ {n}
    <3>1. ASSUME NEW m, m # n PROVE m \in Pend(u) <=> m \in P
      BY <1>8, <3>1 DEF Pend, Renamed
    <3>2. n \notin Pend(u)
      BY <1>8 DEF Pend, Renamed
    <3> HIDE DEF P
    <3> QED  BY <3>1, <3>2
  <2>4. ASSUME NEW m, m # n, NEW c PROVE m \in OutIn(u, c) <=> m \in OutIn(t, c)
    BY <1>8, <2>4 DEF OutIn, Renamed
  <2>5. \A c : n \notin OutIn(t, c) /\ (n \in OutIn(u, c) <=> c = B)
    BY <1>8, <2>2 DEF OutIn, Renamed, B
  <2>6. ASSUME NEW c, c # B PROVE OutIn(u, c) = OutIn(t, c)
    BY <2>4, <2>5, <2>6
  <2>7. OutIn(u, B) = OutIn(t, B) \cup {n}
    <3> HIDE DEF B
    <3> QED  BY <2>4, <2>5
  <2> QED  BY <2>1, <2>3, <2>6, <2>7
<1>11. \A c : OutIn(t, c) \subseteq DOMAIN t.block \ P
  BY DEF OutIn, Pend
<1>12. ASSUME NEW s \in load.sessions
       PROVE  Linked(u, u.head["out"][BucketOf[s]], OutIn(u, BucketOf[s]))
  <2>1. Linked(t, t.head["out"][BucketOf[s]], OutIn(t, BucketOf[s]))
    BY DEF TablesRight
  <2>2. /\ n \notin OutIn(t, BucketOf[s])
        /\ \A m \in OutIn(t, BucketOf[s]) : u.block[m].next = t.block[m].next
    BY <1>7, <1>11
  <2>3. CASE BucketOf[s] = B
    <3>1. u.block[n].next = t.head["out"][BucketOf[s]]
      BY <1>9, <2>3
    <3>2. Linked(u, n, OutIn(t, BucketOf[s]) \cup {n})
      BY <2>1, <2>2, <3>1, LinkedFirst
    <3> QED  BY <1>9, <1>10, <2>3, <3>2
  <2>4. CASE BucketOf[s] # B
    <3>1. u.head["out"][BucketOf[s]] = t.head["out"][BucketOf[s]]
      BY <1>9, <2>4, LoadTypes
    <3>2. OutIn(u, BucketOf[s]) = OutIn(t, BucketOf[s])
      BY <1>10, <2>4
    <3>3. Linked(u, t.head["out"][BucketOf[s]], OutIn(t, BucketOf[s]))
      BY <2>1, <2>2, LinkedSame
    <3> QED  BY <3>1, <3>2, <3>3
  <2> QED  BY <2>3, <2>4
<1>13. Linked(u, u.head["tag"][0], Pend(u))
  <2>1. \A m \in P \ {n} : u.block[m].next = Past(t, n, t.block[m].next)
    BY <1>1, <1>7
  <2>2. Linked(u, Past(t, n, t.head["tag"][0]), P \ {n})
    BY <1>1, <2>1, LinkedWithout
  <2> QED  BY <1>9, <1>10, <2>2
<1>14. PenRight(u)
  <2>1. CASE Apart
    <3>1. ASSUME NEW m \in Pend(u) PROVE u.head["pen"][BucketOf[u.block[m].super.s]] = m
      <4>1. m \in P /\ m # n /\ m \in DOMAIN t.block /\ u.block[m].super = t.block[m].super
        BY <1>1, <1>7, <1>10
      <4>2. t.block[m].super.s \in load.sessions /\ t.block[n].super.s \in load.sessions
        BY <1>1, <4>1 DEF TablesRight
      <4>3. t.block[m].super.s # t.block[n].super.s
        BY <4>1, OneSession
      <4>4. BucketOf[t.block[m].super.s] # B /\ BucketOf[t.block[m].super.s] \in Buckets
        BY <2>1, <4>2, <4>3, LoadTypes DEF Apart, B
      <4>5. t.head["pen"][BucketOf[t.block[m].super.s]] = m
        BY <1>1, <2>1, <4>1 DEF PenRight
      <4> QED  BY <1>9, <4>1, <4>4, <4>5
    <3> QED  BY <2>1, <3>1 DEF PenRight
  <2>2. CASE ~Apart
    <3>1. \A s \in load.sessions : BucketOf[s] = B
      BY <1>2, <2>2 DEF LoadRight, Untranslated, Together, B
    <3>2. \A s \in load.sessions : t.head["pen"][BucketOf[s]] = t.head["tag"][0]
      BY <1>1, <2>2 DEF PenRight
    <3>3. t.head["pen"][B] = t.head["tag"][0]
      BY <1>2, <3>2 DEF B
    <3>4. u.head["pen"][B] = u.head["tag"][0]
      BY <1>2, <1>9, <3>3
    <3> QED  BY <2>2, <3>1, <3>4 DEF PenRight
  <2> QED  BY <2>1, <2>2
<1>15. Infos(u) = (Infos(t) \ {Info(t.block[n])}) \cup {Info(b)}
  <2>1. \A l, m \in DOMAIN t.block : t.block[l].super = t.block[m].super => l = m
    BY DEF TablesRight
  <2> QED  BY <1>1, <1>8, <2>1, RenamedInfos
<1> QED  BY <1>8, <1>10, <1>12, <1>13, <1>14, <1>15, AllRight

-----------------------------------------------------------------------------
(* The names of sessions and subsessions.                                  *)

\* The two five-tuples of a session.
LEMMA Forms ==
    ASSUME NEW s
    PROVE  /\ Client(s).s = s /\ Server(s).s = s /\ Client(s) # Server(s)
           /\ Client(s).by = {} /\ Server(s).by = {}
           /\ Client(s).rev = FALSE /\ Server(s).rev = TRUE
<1>1. /\ Client(s).s = s /\ Server(s).s = s /\ Client(s) # Server(s)
      /\ Client(s).by = {} /\ Server(s).by = {}
  BY DEF Client, Server
<1>2. Client(s).rev = FALSE /\ Server(s).rev = TRUE
  BY DEF Client, Server
<1> QED  BY <1>1, <1>2

\* A five-tuple, reversed.
LEMMA ReverseForm ==
    ASSUME NEW x, x \in Super
    PROVE  Reverse(x) = [s |-> x.s, by |-> x.by, rev |-> ~x.rev]
BY DEF Reverse, Super

\* Each of them is the other's reverse, with an initial number of its own.
LEMMA SuperForm ==
    ASSUME NEW s, s \in Sessions
    PROVE  /\ Client(s) \in Super /\ Server(s) \in Super
           /\ Reverse(Client(s)) = Server(s) /\ Reverse(Server(s)) = Client(s)
           /\ Iss(Client(s)) = <<s, "client">> /\ Iss(Server(s)) = <<s, "server">>
           /\ <<s, "client">> \in Numbers /\ <<s, "server">> \in Numbers
<1>1. Client(s) \in Super /\ Server(s) \in Super
  BY DEF Client, Server, Super
<1>2. Reverse(Client(s)) = Server(s)
  BY <1>1, ReverseForm DEF Client, Server
<1>3. Reverse(Server(s)) = Client(s)
  <2>1. Reverse(Server(s)) = [s |-> Server(s).s, by |-> Server(s).by, rev |-> ~Server(s).rev]
    BY <1>1, ReverseForm
  <2>2. Server(s).s = s /\ Server(s).by = {} /\ (~Server(s).rev) = FALSE
    BY Forms
  <2> QED  BY <2>1, <2>2 DEF Client
<1>4. Iss(Client(s)) = <<s, "client">> /\ Iss(Server(s)) = <<s, "server">>
  BY Forms DEF Iss
<1>5. <<s, "client">> \in Numbers /\ <<s, "server">> \in Numbers
  BY DEF Numbers
<1> QED  BY <1>1, <1>2, <1>3, <1>4, <1>5

\* A subsession, reversed.
LEMMA BackForm ==
    ASSUME NEW x, x \in Sub
    PROVE  /\ Back(x) \in Sub /\ Back(Back(x)) = x
           /\ Back(x).from = x.to /\ Back(x).to = x.from /\ Back(x).rev = ~x.rev
           /\ Back(x).ports = x.ports
BY DEF Back, Sub

\* A subsession of a hop is not its reverse, and neither is none.
LEMMA HopForm ==
    ASSUME NEW x, NEW h, h \in Hosts, IsHop(x, h)
    PROVE  /\ x \in Sub /\ x.from = h /\ x.to = h + 1 /\ ~x.rev /\ h < Last /\ h + 1 \in Hosts
           /\ Back(x).from = h + 1 /\ Back(x).to = h /\ Back(x).rev /\ Back(x) \in Sub
           /\ Back(Back(x)) = x /\ x # NoSub /\ Back(x) # NoSub
<1>1. x \in Sub /\ x.from = h /\ x.to = h + 1 /\ ~x.rev /\ h \in Nat /\ h + 1 \in Hosts
  BY SetupAssumption DEF IsHop, Sub, Hosts
<1>2. x # NoSub
  BY <1>1 DEF NoSub
<1>3. Back(x).rev /\ Back(x).from = h + 1 /\ Back(x).to = h
  BY <1>1, BackForm
<1>4. Back(x) # NoSub
  BY <1>3 DEF NoSub
<1>5. h < Last
  BY <1>1, SetupAssumption DEF Hosts
<1> QED  BY <1>1, <1>2, <1>3, <1>4, <1>5, BackForm

\* Every direction of a session has one block of a host.
LEMMA OneRecord ==
    ASSUME NEW h, TablesRight(tab[h])
    PROVE  \A r, q \in Known(h) : r.super = q.super => r = q
<1> SUFFICES ASSUME NEW r \in Known(h), NEW q \in Known(h), r.super = q.super
             PROVE  r = q
  OBVIOUS
<1>1. PICK m \in DOMAIN tab[h].block : r = Info(tab[h].block[m])
  BY DEF Known, Infos
<1>2. PICK n \in DOMAIN tab[h].block : q = Info(tab[h].block[n])
  BY DEF Known, Infos
<1>3. tab[h].block[m].super = tab[h].block[n].super
  BY <1>1, <1>2 DEF Info
<1> QED  BY <1>1, <1>2, <1>3 DEF TablesRight

\* What a block says has the type of the block.
LEMMA InfoType ==
    ASSUME NEW b, b \in Block
    PROVE  /\ Info(b).super = b.super /\ Info(b).super \in Super /\ Info(b).sub \in Sub
           /\ Info(b).sc \in Chains /\ Info(b).iseq \in Numbers /\ Info(b).iack \in Numbers
BY DEF Info, Block

\* What is known of a host has the type of the blocks.
LEMMA RecordType ==
    ASSUME NEW h, TablesRight(tab[h]), NEW r, r \in Known(h)
    PROVE  /\ r.super \in Super /\ r.sub \in Sub /\ r.super.s \in load.sessions
           /\ r.sc \in Chains /\ r.iseq \in Numbers /\ r.iack \in Numbers
<1>1. PICK m \in DOMAIN tab[h].block : r = Info(tab[h].block[m])
  BY DEF Known, Infos
<1>3. tab[h] \in TableType /\ tab[h].block[m].super.s \in load.sessions
  BY DEF TablesRight
<1>2. tab[h].block[m] \in Block /\ tab[h].block[m].super.s \in load.sessions
  BY <1>3, TableBlock
<1> QED  BY <1>1, <1>2, InfoType

\* What a block says is known of its host.
LEMMA NodeKnown ==
    ASSUME NEW h, NEW n, n \in DOMAIN tab[h].block
    PROVE  /\ Info(tab[h].block[n]) \in Known(h)
           /\ Info(tab[h].block[n]).super = tab[h].block[n].super
           /\ Info(tab[h].block[n]).sub = tab[h].block[n].sub
           /\ Info(tab[h].block[n]).sc = tab[h].block[n].sc
BY DEF Known, Infos, Info

\* A record is of the side that its name says.
LEMMA Sides ==
    ASSUME BlocksRight, NEW h, h \in Hosts, NEW r, r \in Known(h)
    PROVE  /\ \A s : r.super = Client(s) => Onward(h, r)
           /\ \A s : r.super = Server(s) => Homeward(h, r)
           /\ r.sub # NoSub /\ Onward(h, r) => IsHop(r.sub, h)
           /\ Homeward(h, r) => IsHop(Back(r.sub), h - 1) /\ r.sub # NoSub /\ r.sub.rev
<1>1. Onward(h, r) \/ Homeward(h, r)
  BY DEF BlocksRight
<1>2. \A s : r.super = Client(s) => Onward(h, r)
  BY <1>1 DEF Homeward, Client, Server
<1>3. \A s : r.super = Server(s) => Homeward(h, r)
  BY <1>1 DEF Onward, Client, Server
<1>4. r.sub # NoSub /\ Onward(h, r) => IsHop(r.sub, h)
  BY DEF Onward
<1>5. ASSUME Homeward(h, r)
      PROVE  IsHop(Back(r.sub), h - 1) /\ r.sub # NoSub /\ r.sub.rev
  <2>1. IsHop(Back(r.sub), h - 1) /\ r.sub \in Sub
    BY <1>5 DEF Homeward
  <2>2. r.sub.rev
    BY <2>1, BackForm DEF IsHop
  <2> QED  BY <2>1, <2>2 DEF NoSub
<1> QED  BY <1>2, <1>3, <1>4, <1>5

\* A subsession has one block of a host.
LEMMA OneSub ==
    ASSUME Types, BlocksRight, NEW h, h \in Hosts, TablesRight(tab[h])
    PROVE  \A r, q \in Known(h) : r.sub = q.sub /\ r.sub # NoSub => r = q
<1> SUFFICES ASSUME NEW r \in Known(h), NEW q \in Known(h), r.sub = q.sub, r.sub # NoSub
             PROVE  r = q
  OBVIOUS
<1>1. Onward(h, r) \/ Homeward(h, r)
  BY DEF BlocksRight
<1>2. Onward(h, q) \/ Homeward(h, q)
  BY DEF BlocksRight
<1>3. CASE Onward(h, r)
  <2>1. IsHop(r.sub, h)
    BY <1>3, Sides
  <2>2. ~r.sub.rev
    BY <2>1 DEF IsHop
  <2>3. Onward(h, q)
    BY <1>2, <2>2, Sides
  <2>4. ins[h][Back(r.sub)].super = Server(r.super.s) /\ r.super = Client(r.super.s)
    BY <1>3 DEF Onward
  <2>5. ins[h][Back(r.sub)].super = Server(q.super.s) /\ q.super = Client(q.super.s)
    BY <2>3 DEF Onward
  <2>6. r.super.s = q.super.s
    BY <2>4, <2>5 DEF Server
  <2> QED  BY <2>4, <2>5, <2>6, OneRecord
<1>4. CASE Homeward(h, r)
  <2>1. r.sub.rev
    BY <1>4, Sides
  <2>2. ~Onward(h, q)
    <3>1. SUFFICES ASSUME Onward(h, q) PROVE FALSE
      OBVIOUS
    <3>2. IsHop(q.sub, h)
      BY <3>1, Sides
    <3> QED  BY <2>1, <3>2 DEF IsHop
  <2>3. Homeward(h, q)
    BY <1>2, <2>2
  <2>4. ins[h][Back(r.sub)].super = Client(r.super.s) /\ r.super = Server(r.super.s)
    BY <1>4 DEF Homeward
  <2>5. ins[h][Back(r.sub)].super = Client(q.super.s) /\ q.super = Server(q.super.s)
    BY <2>3 DEF Homeward
  <2>6. r.super.s = q.super.s
    BY <2>4, <2>5 DEF Client
  <2> QED  BY <2>4, <2>5, <2>6, OneRecord
<1> QED  BY <1>1, <1>3, <1>4

-----------------------------------------------------------------------------
(* What the invariant says of the packets and the blocks.                  *)

\* A subsession that is known is found under its session.
LEMMA Lookup ==
    ASSUME LoadRight, NEW h, TablesRight(tab[h]), NEW super, NEW sub,
           HasOut(h, super, sub), sub # NoSub, NEW n, n = LookupSuper(tab[h], "out", super)
    PROVE  /\ n \in DOMAIN tab[h].block /\ n # 0
           /\ tab[h].block[n].super = super /\ tab[h].block[n].sub = sub
<1>1. PICK r \in Known(h) : r.super = super /\ r.sub = sub
  BY DEF HasOut
<1>2. PICK m \in DOMAIN tab[h].block : r = Info(tab[h].block[m])
  BY DEF Known, Infos
<1>3. tab[h].block[m].super = super /\ tab[h].block[m].sub = sub
  BY <1>1, <1>2 DEF Info
<1>4. LookupSuper(tab[h], "out", tab[h].block[m].super) = m
  BY <1>3, OutFound
<1>5. tab[h] \in TableType
  BY DEF TablesRight
<1> QED  BY <1>3, <1>4, <1>5, TableBlock

\* A packet on the wire is in the subsession of a hop.
LEMMA SynHop ==
    ASSUME SetupInv, NEW m, m \in wire
    PROVE  /\ m.super.s \in load.sessions /\ m \in WirePacket /\ m.sub # NoSub
           /\ ~m.ack => /\ SynRight(m) /\ m.sub.from \in Hosts /\ m.sub.from + 1 \in Hosts
                        /\ IsHop(m.sub, m.sub.from)
           /\ m.ack => SynAckRight(m) /\ m.sub.from \in Hosts /\ m.sub.from - 1 \in Hosts
<1>1. /\ m.super.s \in load.sessions /\ m \in WirePacket
      /\ IF m.ack THEN SynAckRight(m) ELSE SynRight(m)
  BY DEF SetupInv, Types, WireRight, WireAt
<1>2. ASSUME ~m.ack
      PROVE  /\ SynRight(m) /\ m.sub.from \in Hosts /\ m.sub.from + 1 \in Hosts
             /\ IsHop(m.sub, m.sub.from) /\ m.sub # NoSub
  <2>1. SynRight(m)
    BY <1>1, <1>2
  <2>2. m.sub.from \in 0 .. Last - 1 /\ IsHop(m.sub, m.sub.from)
    BY <2>1 DEF SynRight
  <2>3. m.sub.from \in Hosts /\ m.sub.from + 1 \in Hosts
    BY <2>2, SetupAssumption DEF Hosts
  <2> QED  BY <2>1, <2>2, <2>3, HopForm
<1>3. ASSUME m.ack
      PROVE  /\ SynAckRight(m) /\ m.sub.from \in Hosts /\ m.sub.from - 1 \in Hosts
             /\ m.sub # NoSub
  <2>1. SynAckRight(m)
    BY <1>1, <1>3
  <2>2. /\ m.sub.from \in 1 .. Last /\ HasOut(m.sub.from, m.super, m.sub)
        /\ m.super = Server(m.super.s)
    BY <2>1 DEF SynAckRight
  <2>3. m.sub.from \in Hosts /\ m.sub.from - 1 \in Hosts
    BY <2>2, SetupAssumption DEF Hosts
  <2>4. PICK r \in Known(m.sub.from) : r.super = m.super /\ r.sub = m.sub
    BY <2>2 DEF HasOut
  <2>5. Homeward(m.sub.from, r)
    BY <2>2, <2>3, <2>4, Sides DEF SetupInv
  <2>6. r.sub # NoSub
    BY <2>3, <2>5, Sides DEF SetupInv
  <2> QED  BY <2>1, <2>3, <2>4, <2>6
<1> QED  BY <1>1, <1>2, <1>3

\* The invariant implies that chains are kept.
LEMMA InvChain ==
    ASSUME SetupInv
    PROVE  ChainKept
<1> SUFFICES ASSUME NEW m \in wire
             PROVE  /\ m.sub # NoSub
                    /\ ~m.ack => m.sc = Rest(m.sub.from) /\ m.sub.to = m.sub.from + 1
  BY DEF ChainKept
<1>1. m.sub # NoSub /\ (~m.ack => SynRight(m))
  BY SynHop
<1> QED  BY <1>1 DEF SynRight, IsHop

\* The invariant implies that a SYN has one subsession of a host.
LEMMA InvOneSub ==
    ASSUME SetupInv
    PROVE  OneSubsession
<1> SUFFICES ASSUME NEW m \in wire, NEW n \in wire, ~m.ack, ~n.ack,
                    m.super = n.super, m.sub.from = n.sub.from
             PROVE  m.sub = n.sub
  BY DEF OneSubsession
<1>1. SynRight(m) /\ SynRight(n) /\ m.sub.from \in Hosts
  BY SynHop
<1>2. PICK r \in Known(m.sub.from) : r.super = m.super /\ r.sub = m.sub
  BY <1>1 DEF SynRight, HasOut
<1>3. PICK q \in Known(m.sub.from) : q.super = n.super /\ q.sub = n.sub
  BY <1>1 DEF SynRight, HasOut
<1>4. TablesRight(tab[m.sub.from])
  BY <1>1 DEF SetupInv
<1> QED  BY <1>2, <1>3, <1>4, OneRecord

\* The two blocks of a subsession at its host.
LEMMA InputRecord ==
    ASSUME SetupInv, NEW h, h \in Hosts, NEW x, x \in DOMAIN ins[h]
    PROVE  /\ x \in Sub /\ Back(x) # NoSub /\ ins[h][x].super \in Super
           /\ \E r \in Known(h) : r.super = Reverse(ins[h][x].super) /\ r.sub = Back(x)
           /\ \A r \in Known(h) : r.sub = Back(x) =>
                 \/ Onward(h, r) /\ ins[h][x].super = Server(r.super.s)
                 \/ Homeward(h, r) /\ ins[h][x].super = Client(r.super.s)
<1>1. DOMAIN ins[h] \subseteq Sub /\ ins[h] \in [DOMAIN ins[h] -> Input]
  BY DEF SetupInv, Types
<1>2. x \in Sub /\ ins[h][x] \in Input
  BY <1>1
<1>3. Back(x) # NoSub /\ HasOut(h, Reverse(ins[h][x].super), Back(x))
  BY DEF SetupInv, InputsRight
<1>4. ASSUME NEW r \in Known(h), r.sub = Back(x)
      PROVE  \/ Onward(h, r) /\ ins[h][x].super = Server(r.super.s)
             \/ Homeward(h, r) /\ ins[h][x].super = Client(r.super.s)
  <2>1. Back(r.sub) = x
    BY <1>2, <1>4, BackForm
  <2>2. Onward(h, r) \/ Homeward(h, r)
    BY DEF SetupInv, BlocksRight
  <2>3. CASE Onward(h, r)
    <3>1. ins[h][Back(r.sub)].super = Server(r.super.s)
      BY <1>3, <1>4, <2>3 DEF Onward
    <3> QED  BY <2>1, <2>3, <3>1
  <2>4. CASE Homeward(h, r)
    <3>1. ins[h][Back(r.sub)].super = Client(r.super.s)
      BY <2>4 DEF Homeward
    <3> QED  BY <2>1, <2>4, <3>1
  <2> QED  BY <2>2, <2>3, <2>4
<1> QED  BY <1>2, <1>3, <1>4 DEF HasOut, Input

\* The invariant implies that the two ends of a hop agree.
LEMMA InvHops ==
    ASSUME SetupInv
    PROVE  HopsAgree
<1> SUFFICES ASSUME NEW h \in Hosts, NEW x \in DOMAIN ins[h],
                    ~x.rev \/ Back(x) \in DOMAIN ins[x.from]
             PROVE  LET n == LookupSuper(tab[x.from], "out", ins[h][x].super)
                    IN  n # 0 /\ tab[x.from].block[n].sub = x
  BY DEF HopsAgree
<1>1. x \in Sub /\ Back(Back(x)) = x
  BY InputRecord, BackForm
<1>2. PICK r \in Known(h) : r.super = Reverse(ins[h][x].super) /\ r.sub = Back(x)
  BY InputRecord
<1>3. \/ Onward(h, r) /\ ins[h][x].super = Server(r.super.s)
      \/ Homeward(h, r) /\ ins[h][x].super = Client(r.super.s)
  BY <1>2, InputRecord
<1>4. x.from \in Hosts /\ HasOut(x.from, ins[h][x].super, x) /\ x # NoSub
  <2>1. CASE Homeward(h, r) /\ ins[h][x].super = Client(r.super.s)
    <3>1. /\ HasOut(h - 1, Client(r.super.s), Back(r.sub)) /\ IsHop(Back(r.sub), h - 1)
          /\ h > 0
      BY <2>1 DEF Homeward
    <3>2. h - 1 \in Hosts
      BY <3>1, SetupAssumption DEF Hosts
    <3>3. x.from = h - 1 /\ x # NoSub
      BY <1>1, <1>2, <3>1, <3>2, HopForm
    <3> QED  BY <1>1, <1>2, <2>1, <3>1, <3>2, <3>3
  <2>2. CASE Onward(h, r) /\ ins[h][x].super = Server(r.super.s)
    <3>1. r.sub # NoSub
      BY <1>2, InputRecord
    <3>2. IsHop(Back(x), h)
      BY <1>2, <2>2, <3>1 DEF Onward
    <3>3. x.rev /\ x.from = h + 1 /\ h + 1 \in Hosts /\ x # NoSub
      BY <1>1, <3>2, HopForm
    <3>4. Back(x) \in DOMAIN ins[h + 1]
      BY <3>3
    <3>5. PICK q \in Known(h + 1) :
             q.super = Reverse(ins[h + 1][Back(x)].super) /\ q.sub = Back(Back(x))
      BY <3>3, <3>4, InputRecord
    <3>6. q.sub = x /\ q.sub.rev
      BY <1>1, <3>3, <3>5
    <3>7. Homeward(h + 1, q)
      <4>1. Onward(h + 1, q) \/ Homeward(h + 1, q)
        BY <3>3 DEF SetupInv, BlocksRight
      <4>2. ASSUME Onward(h + 1, q) PROVE FALSE
        <5>1. IsHop(q.sub, h + 1)
          <6>1. BlocksRight /\ q.sub # NoSub
            BY <3>3, <3>6 DEF SetupInv
          <6> QED  BY <3>3, <4>2, <6>1, Sides
        <5>2. ~q.sub.rev
          BY <5>1 DEF IsHop
        <5> QED  BY <3>6, <5>2
      <4> QED  BY <4>1, <4>2
    <3>8. HasOut(h, Client(q.super.s), Back(x)) /\ q.super = Server(q.super.s)
      <4> DEFINE g == h + 1
      <4>3. Homeward(g, q)
        BY <3>7
      <4>2. g - 1 = h
        BY DEF Hosts
      <4> HIDE DEF g
      <4>1. HasOut(g - 1, Client(q.super.s), Back(q.sub)) /\ q.super = Server(q.super.s)
        BY <4>3 DEF Homeward
      <4> QED  BY <3>6, <4>1, <4>2
    <3>9. PICK p \in Known(h) : p.super = Client(q.super.s) /\ p.sub = Back(x)
      BY <3>8 DEF HasOut
    <3>10. p = r
      <4>1. p.sub = r.sub
        BY <1>2, <3>9
      <4>2. Types /\ BlocksRight /\ TablesRight(tab[h])
        BY DEF SetupInv
      <4> QED  BY <3>1, <4>1, <4>2, OneSub
    <3>11. q.super.s = r.super.s
      <4>1. r.super = Client(q.super.s)
        BY <3>9, <3>10
      <4> QED  BY <4>1 DEF Client
    <3> QED  BY <2>2, <3>3, <3>5, <3>6, <3>8, <3>11 DEF HasOut
  <2> QED  BY <1>3, <2>1, <2>2
<1>5. LoadRight /\ TablesRight(tab[x.from])
  BY <1>4 DEF SetupInv, Types
<1> QED  BY <1>4, <1>5, Lookup

\* The numbers of a block that has the right ones.
LEMMA RightIs ==
    ASSUME NEW s, s \in Sessions, NEW r, Right(r)
    PROVE  /\ r.super = Client(s) => r.iseq = <<s, "client">> /\ r.iack = <<s, "server">>
           /\ r.super = Server(s) => r.iseq = <<s, "server">> /\ r.iack = <<s, "client">>
BY SuperForm DEF Right

\* The invariant implies that the blocks of an answered session have its numbers.
LEMMA InvNumbers ==
    ASSUME SetupInv
    PROVE  NumbersKnown
<1> SUFFICES ASSUME NEW p \in inside[0], NEW m \in wire, m.super.s = p.super.s, ~m.ack
             PROVE  LET client == Iss(m.super)
                        server == Iss(Reverse(m.super))
                        In(h, x) == {ins[h][x]}
                        Out(h, x) == {tab[h].block[n] :
                            n \in {k \in DOMAIN tab[h].block : tab[h].block[k].sub = x}}
                    IN /\ \A r \in Out(m.sub.from, m.sub) \cup In(m.sub.to, m.sub) :
                            r.iseq = client /\ r.iack = server
                       /\ \A r \in Out(m.sub.to, Back(m.sub)) \cup In(m.sub.from, Back(m.sub)) :
                            r.iseq = server /\ r.iack = client
  BY DEF NumbersKnown
<1> DEFINE s == m.super.s
           h == m.sub.from
           g == m.sub.to
           x == m.sub
           y == Back(m.sub)
           c == <<s, "client">>
           e == <<s, "server">>
<1>1. /\ SynRight(m) /\ h \in Hosts /\ h + 1 \in Hosts /\ IsHop(x, h) /\ s \in load.sessions
      /\ x # NoSub
  BY SynHop
<1>2. /\ m.super = Client(s) /\ h \in 0 .. Last - 1 /\ HasOut(h, Client(s), x) /\ g = h + 1
  BY <1>1 DEF SynRight, IsHop
<1>3. s \in Sessions /\ Iss(m.super) = c /\ Iss(Reverse(m.super)) = e
  <2>1. LoadRight
    BY DEF SetupInv, Types
  <2>2. s \in Sessions
    BY <1>1, <2>1, LoadTypes
  <2> HIDE DEF s
  <2> QED  BY <1>2, <2>2, SuperForm
<1>4. HopNumbered(h, s)
  <2>1. 0 \in Hosts
    BY SetupAssumption DEF Hosts
  <2>2. Beyond(0, s)
    <3>1. IF p.ack THEN Beyond(0, p.super.s) ELSE 0 > 0
      BY <2>1 DEF SetupInv, InsideRight, InsideAt
    <3> QED  BY <3>1
  <2> QED  BY <1>2, <2>2 DEF Beyond
<1> HIDE DEF h, g, s, x
<1>5. PICK r \in Known(h), q \in Known(h + 1) :
         /\ r.super = Client(s) /\ r.sub # NoSub /\ q.super = Server(s)
         /\ Right(r) /\ Right(q)
         /\ Right(ins[h][Back(r.sub)]) /\ Right(ins[h + 1][Back(q.sub)])
  BY <1>4 DEF HopNumbered
<1>6. /\ TablesRight(tab[h]) /\ TablesRight(tab[h + 1]) /\ Types /\ BlocksRight
      /\ h + 1 - 1 = h
  BY <1>1 DEF SetupInv, Hosts
<1>7. r.sub = x
  <2>1. PICK r1 \in Known(h) : r1.super = Client(s) /\ r1.sub = x
    BY <1>2 DEF HasOut
  <2>2. r1.super = r.super
    BY <1>5, <2>1
  <2> QED  BY <1>6, <2>1, <2>2, OneRecord
<1>8. Back(q.sub) = x /\ ins[g][x].super = Client(s) /\ q.sub = y /\ q.super.s = s
  <2>1. Homeward(h + 1, q)
    BY <1>1, <1>5, <1>6, Sides
  <2>2. q.super.s = s
    BY <1>5 DEF Server
  <2>3. Homeward(g, q) /\ g - 1 = h
    BY <1>2, <1>6, <2>1
  <2>4. HasOut(g - 1, Client(s), Back(q.sub)) /\ ins[g][Back(q.sub)].super = Client(s)
        /\ q.sub \in Sub
    BY <2>2, <2>3 DEF Homeward
  <2>5. PICK r1 \in Known(h) : r1.super = Client(s) /\ r1.sub = Back(q.sub)
    BY <2>3, <2>4 DEF HasOut
  <2>6. r1.super = r.super
    BY <1>5, <2>5
  <2>7. r1.sub = x
    BY <1>6, <1>7, <2>5, <2>6, OneRecord
  <2>8. Back(q.sub) = x
    BY <2>5, <2>7
  <2>9. q.sub = Back(x)
    BY <2>4, <2>8, BackForm
  <2> QED  BY <2>2, <2>4, <2>8, <2>9 DEF x
<1>9. ins[h][y].super = Server(s)
  <2>1. Onward(h, r)
    BY <1>1, <1>5, <1>6, Sides
  <2>2. r.super.s = s
    BY <1>5 DEF Client
  <2> QED  BY <1>5, <1>7, <2>1, <2>2 DEF Onward, x
<1>10. ins[h][y].iseq = e /\ ins[h][y].iack = c
  BY <1>3, <1>5, <1>7, <1>9, RightIs DEF x
<1>11. ins[g][x].iseq = c /\ ins[g][x].iack = e
  BY <1>2, <1>3, <1>5, <1>8, RightIs
<1>12. ASSUME NEW k \in DOMAIN tab[h].block, tab[h].block[k].sub = x
       PROVE  tab[h].block[k].iseq = c /\ tab[h].block[k].iack = e
  <2>1. Info(tab[h].block[k]) \in Known(h) /\ Info(tab[h].block[k]).sub = x
    BY <1>12, NodeKnown
  <2>2. Info(tab[h].block[k]) = r
    <3>1. Info(tab[h].block[k]).sub = r.sub
      BY <1>7, <2>1
    <3> QED  BY <1>1, <1>5, <1>6, <2>1, <3>1, OneSub
  <2>3. r.iseq = c /\ r.iack = e
    BY <1>3, <1>5, RightIs
  <2> QED  BY <2>2, <2>3 DEF Info
<1>13. ASSUME NEW k \in DOMAIN tab[g].block, tab[g].block[k].sub = y
       PROVE  tab[g].block[k].iseq = e /\ tab[g].block[k].iack = c
  <2>1. Info(tab[g].block[k]) \in Known(g) /\ Info(tab[g].block[k]).sub = y
    BY <1>13, NodeKnown
  <2>2. Info(tab[g].block[k]) = q
    <3>1. Info(tab[g].block[k]).sub = q.sub
      BY <1>8, <2>1
    <3>2. q.sub # NoSub
      BY <1>1, <1>8, HopForm DEF x
    <3>3. q \in Known(g) /\ TablesRight(tab[g]) /\ g \in Hosts
      BY <1>1, <1>2, <1>5, <1>6
    <3> QED  BY <1>6, <2>1, <3>1, <3>2, <3>3, OneSub
  <2>3. q.iseq = e /\ q.iack = c
    BY <1>3, <1>5, RightIs
  <2> QED  BY <2>2, <2>3 DEF Info
<1> QED  BY <1>3, <1>10, <1>11, <1>12, <1>13 DEF h, g, x

-----------------------------------------------------------------------------
(* The beginning.                                                          *)

\* A list without nodes.
LEMMA EmptyList ==
    ASSUME NEW t
    PROVE  Linked(t, 0, {})
<1> DEFINE q == [i \in 1 .. 0 |-> 0]
<1>1. InOrder(t, 0, {}, 0, q)
  BY DEF InOrder, At
<1>2. q \in [1 .. 0 -> {}]
  OBVIOUS
<1> QED  BY <1>1, <1>2 DEF Linked

\* The tables that dysco_create_hashes leaves.
LEMMA EmptyRight ==
    ASSUME LoadRight
    PROVE  TablesRight(EmptyTables)
<1> DEFINE t == EmptyTables
<1>1. t \in TableType /\ t.block = <<>> /\ DOMAIN t.block = {}
  BY DEF EmptyTables, TableType
<1>2. /\ \A s \in load.sessions : t.head["out"][BucketOf[s]] = 0
      /\ \A s \in load.sessions : t.head["pen"][BucketOf[s]] = 0
      /\ t.head["tag"][0] = 0
  BY LoadTypes DEF EmptyTables, Tables
<1>3. Pend(t) = {} /\ \A b : OutIn(t, b) = {}
  BY <1>1 DEF Pend, OutIn
<1> HIDE DEF t
<1>4. Names(t)
  BY <1>1, <1>3 DEF Names
<1>5. PenRight(t)
  BY <1>2, <1>3 DEF PenRight
<1>6. Linked(t, t.head["tag"][0], Pend(t))
  BY <1>2, <1>3, EmptyList
<1>7. \A s \in load.sessions : Linked(t, t.head["out"][BucketOf[s]], OutIn(t, BucketOf[s]))
  BY <1>2, <1>3, EmptyList
<1> QED  BY <1>1, <1>4, <1>5, <1>6, <1>7, AllRight DEF t

\* The invariant holds at the start.
LEMMA SetupInit ==
    ASSUME Init, Untranslated
    PROVE  SetupInv
<1>1. LoadRight
  BY DEF Init, LoadRight
<1>2. \A h \in Hosts : tab[h] = EmptyTables /\ DOMAIN ins[h] = {} /\ inside[h] = {}
  BY DEF Init
<1>3. \A h \in Hosts : TablesRight(tab[h])
  BY <1>1, <1>2, EmptyRight
<1>4. \A h \in Hosts : Known(h) = {}
  <2>1. EmptyTables.block = <<>>
    BY DEF EmptyTables
  <2> QED  BY <1>2, <2>1 DEF Known, Infos
<1>5. \A h \in Hosts : ins[h] \in [DOMAIN ins[h] -> Input]
  BY DEF Init
<1>6. work \in [Hosts -> [Sessions -> Work]]
  <2>1. Idle \in Work
    BY DEF Idle, Work
  <2> QED  BY <2>1 DEF Init
<1>7. dysco_tag \in [Hosts -> Nat]
  BY <1>1, SetupAssumption DEF Init, LoadRight, Load
<1>8. Types
  BY <1>1, <1>2, <1>5, <1>6, <1>7 DEF Types, Init
<1>9. BlocksRight /\ InputsRight /\ WireRight /\ InsideRight
  BY <1>2, <1>4 DEF BlocksRight, InputsRight, WireRight, InsideRight, Init
<1>10. WorkRight
  BY DEF WorkRight, Init
<1> QED  BY <1>3, <1>8, <1>9, <1>10 DEF SetupInv

-----------------------------------------------------------------------------
(* What a step leaves as it was.                                           *)

\* Nothing is forgotten: names and subsessions stay, numbers stay right.
Grows ==
    /\ load' = load
    /\ \A h \in Hosts : \A r \in Known(h) : \E q \in Known(h)' :
          /\ q.super = r.super
          /\ r.sub # NoSub => q.sub = r.sub /\ (Right(r) => Right(q))
    /\ \A h \in Hosts : \A x \in DOMAIN ins[h] :
          /\ x \in DOMAIN ins'[h] /\ ins'[h][x].super = ins[h][x].super
          /\ Right(ins[h][x]) => Right(ins'[h][x])
    /\ \A h \in Hosts : ports'[h] \in Nat /\ ports[h] <= ports'[h]

\* A name stays known.
LEMMA HasStays ==
    ASSUME Grows, NEW h, h \in Hosts, NEW super, Has(h, super)
    PROVE  Has(h, super)'
<1>1. PICK r \in Known(h) : r.super = super
  BY DEF Has
<1>2. PICK q \in Known(h)' : q.super = r.super
  BY DEF Grows
<1> QED  BY <1>1, <1>2 DEF Has

\* A subsession stays known.
LEMMA HasOutStays ==
    ASSUME Grows, NEW h, h \in Hosts, NEW super, NEW sub, sub # NoSub,
           HasOut(h, super, sub)
    PROVE  HasOut(h, super, sub)'
<1>1. PICK r \in Known(h) : r.super = super /\ r.sub = sub
  BY DEF HasOut
<1>2. PICK q \in Known(h)' : q.super = r.super /\ q.sub = r.sub
  BY <1>1 DEF Grows
<1> QED  BY <1>1, <1>2 DEF HasOut

\* The numbers of an answer stay noted.
LEMMA AnswerStays ==
    ASSUME SetupInv, Grows, NEW h, h \in Hosts, NEW s, AnswerNoted(h, s)
    PROVE  AnswerNoted(h, s)'
<1>1. PICK r \in Known(h) :
         r.super = Server(s) /\ Right(r) /\ Right(ins[h][Back(r.sub)])
  BY DEF AnswerNoted
<1>2. Homeward(h, r) /\ r.sub # NoSub
  BY <1>1, Sides DEF SetupInv
<1>3. Back(r.sub) \in DOMAIN ins[h]
  BY <1>2 DEF Homeward
<1>4. PICK q \in Known(h)' : q.super = r.super /\ q.sub = r.sub /\ Right(q)
  BY <1>1, <1>2 DEF Grows
<1>5. Right(ins'[h][Back(q.sub)])
  BY <1>1, <1>3, <1>4 DEF Grows
<1> QED  BY <1>1, <1>4, <1>5 DEF AnswerNoted

\* The numbers of a hop stay noted.
LEMMA HopStays ==
    ASSUME SetupInv, Grows, NEW h, h \in Hosts, h + 1 \in Hosts, NEW s, HopNumbered(h, s)
    PROVE  HopNumbered(h, s)'
<1>1. PICK r \in Known(h), r2 \in Known(h + 1) :
         /\ r.super = Client(s) /\ r.sub # NoSub /\ r2.super = Server(s)
         /\ Right(r) /\ Right(r2)
         /\ Right(ins[h][Back(r.sub)]) /\ Right(ins[h + 1][Back(r2.sub)])
  BY DEF HopNumbered
<1>2. Back(r.sub) \in DOMAIN ins[h]
  <2>1. Onward(h, r)
    BY <1>1, Sides DEF SetupInv
  <2> QED  BY <1>1, <2>1 DEF Onward
<1>3. Back(r2.sub) \in DOMAIN ins[h + 1] /\ r2.sub # NoSub
  <2>1. Homeward(h + 1, r2)
    BY <1>1, Sides DEF SetupInv
  <2>2. r2.sub # NoSub
    BY <2>1, Sides DEF SetupInv
  <2> QED  BY <2>1, <2>2 DEF Homeward
<1>4. PICK q \in Known(h)' : q.super = r.super /\ q.sub = r.sub /\ Right(q)
  BY <1>1 DEF Grows
<1>5. PICK q2 \in Known(h + 1)' : q2.super = r2.super /\ q2.sub = r2.sub /\ Right(q2)
  BY <1>1, <1>3 DEF Grows
<1>6. Right(ins'[h][Back(q.sub)])
  BY <1>1, <1>2, <1>4 DEF Grows
<1>7. Right(ins'[h + 1][Back(q2.sub)])
  BY <1>1, <1>3, <1>5 DEF Grows
<1> QED  BY <1>1, <1>4, <1>5, <1>6, <1>7 DEF HopNumbered

\* The numbers of the hops from a host on stay noted.
LEMMA BeyondStays ==
    ASSUME SetupInv, Grows, NEW h, h \in Hosts, NEW s, Beyond(h, s)
    PROVE  Beyond(h, s)'
<1>1. SUFFICES ASSUME NEW j \in h .. Last - 1 PROVE HopNumbered(j, s)'
  BY DEF Beyond
<1>2. j \in Hosts /\ j + 1 \in Hosts
  BY SetupAssumption DEF Hosts
<1>3. HopNumbered(j, s)
  BY DEF Beyond
<1> QED  BY <1>2, <1>3, HopStays

\* A block away from the client stays right.
LEMMA OnwardStays ==
    ASSUME SetupInv, Grows, NEW h, h \in Hosts, NEW r, Onward(h, r),
           NEW q, q.super = r.super, q.sub = r.sub, q.sc = r.sc
    PROVE  Onward(h, q)'
<1>1. /\ h < Last /\ q.super = Client(q.super.s) /\ q.sc = Rest(h)
      /\ h > 0 => Has(h, Server(q.super.s))
  BY DEF Onward
<1>2. h > 0 => Has(h, Server(q.super.s))'
  BY <1>1, HasStays
<1>3. CASE q.sub = NoSub /\ h > 0
  BY <1>1, <1>2, <1>3 DEF Onward
<1>4. CASE /\ IsHop(q.sub, h) /\ q.sub.ports <= ports[h]
           /\ Back(q.sub) \in DOMAIN ins[h]
           /\ ins[h][Back(q.sub)].super = Server(q.super.s)
  <2>1. /\ Back(q.sub) \in DOMAIN ins'[h]
        /\ ins'[h][Back(q.sub)].super = Server(q.super.s)
    BY <1>4 DEF Grows
  <2>2. q.sub.ports <= ports'[h]
    <3>1. ports[h] \in Nat /\ q.sub.ports \in Nat
      BY <1>4 DEF SetupInv, Types, IsHop, Sub
    <3>2. ports'[h] \in Nat /\ ports[h] <= ports'[h]
      BY DEF Grows
    <3> QED  BY <1>4, <3>1, <3>2
  <2> QED  BY <1>1, <1>2, <1>4, <2>1, <2>2 DEF Onward
<1> QED  BY <1>3, <1>4 DEF Onward

\* A block towards the client stays right.
LEMMA HomewardStays ==
    ASSUME SetupInv, Grows, NEW h, h \in Hosts, NEW r, Homeward(h, r),
           NEW q, q.super = r.super, q.sub = r.sub
    PROVE  Homeward(h, q)'
<1>1. /\ h > 0 /\ q.super = Server(q.super.s)
      /\ IsHop(Back(q.sub), h - 1) /\ q.sub \in Sub
      /\ Back(q.sub) \in DOMAIN ins[h]
      /\ ins[h][Back(q.sub)].super = Client(q.super.s)
      /\ HasOut(h - 1, Client(q.super.s), Back(q.sub))
      /\ h < Last => Has(h, Client(q.super.s))
  BY DEF Homeward
<1>2. h - 1 \in Hosts
  BY <1>1, SetupAssumption DEF Hosts
<1>3. Back(q.sub) # NoSub
  BY <1>1, <1>2, HopForm
<1>4. HasOut(h - 1, Client(q.super.s), Back(q.sub))'
  BY <1>1, <1>2, <1>3, HasOutStays
<1>5. h < Last => Has(h, Client(q.super.s))'
  BY <1>1, HasStays
<1>6. Back(q.sub) \in DOMAIN ins'[h] /\ ins'[h][Back(q.sub)].super = Client(q.super.s)
  BY <1>1 DEF Grows
<1> QED  BY <1>1, <1>4, <1>5, <1>6 DEF Homeward

\* Two blocks with the same names and the same chain.
Same(r, q) == q.super = r.super /\ q.sub = r.sub /\ q.sc = r.sc

\* The blocks are right if the new ones are.
LEMMA BlocksStay ==
    ASSUME SetupInv, Grows,
           \A h \in Hosts : \A q \in Known(h)' :
              (\E r \in Known(h) : Same(r, q)) \/ Onward(h, q)' \/ Homeward(h, q)'
    PROVE  BlocksRight'
<1>1. SUFFICES ASSUME NEW h \in Hosts, NEW q \in Known(h)', NEW r \in Known(h), Same(r, q)
               PROVE  Onward(h, q)' \/ Homeward(h, q)'
  BY DEF BlocksRight
<1>2. Onward(h, r) \/ Homeward(h, r)
  BY DEF SetupInv, BlocksRight
<1>3. q.super = r.super /\ q.sub = r.sub /\ q.sc = r.sc
  BY <1>1 DEF Same
<1>4. CASE Onward(h, r)
  BY <1>3, <1>4, OnwardStays
<1>5. CASE Homeward(h, r)
  BY <1>3, <1>5, HomewardStays
<1> QED  BY <1>2, <1>4, <1>5

\* The input blocks are right if the new ones are.
LEMMA InputsStay ==
    ASSUME SetupInv, Grows,
           \A h \in Hosts : \A x \in DOMAIN ins'[h] :
              \/ x \in DOMAIN ins[h]
              \/ Back(x) # NoSub /\ HasOut(h, Reverse(ins[h][x].super), Back(x))'
    PROVE  InputsRight'
<1>1. SUFFICES ASSUME NEW h \in Hosts, NEW x \in DOMAIN ins[h]
               PROVE  Back(x) # NoSub /\ HasOut(h, Reverse(ins[h][x].super), Back(x))'
  BY DEF InputsRight
<1>2. Back(x) # NoSub /\ HasOut(h, Reverse(ins[h][x].super), Back(x))
  BY DEF SetupInv, InputsRight
<1>3. ins'[h][x].super = ins[h][x].super
  BY DEF Grows
<1> DEFINE super == Reverse(ins[h][x].super)
<1>4. HasOut(h, super, Back(x))
  BY <1>2
<1>5. \E r \in Known(h) : r.super = super /\ r.sub = Back(x)
  BY <1>4 DEF HasOut
<1>6. PICK r \in Known(h) : r.super = super /\ r.sub = Back(x)
  BY <1>5
<1>7. HasOut(h, r.super, r.sub)'
  <2>1. HasOut(h, r.super, r.sub)
    BY DEF HasOut
  <2> QED  BY <1>2, <1>6, <2>1, HasOutStays
<1>8. r.super = Reverse(ins'[h][x].super)
  BY <1>3, <1>6
<1> QED  BY <1>2, <1>6, <1>7, <1>8 DEF HasOut

\* The packets on the wire are right if the new ones are.
LEMMA WireStays ==
    ASSUME SetupInv, Grows, \A m \in wire' : m \in wire \/ WireAt(m)'
    PROVE  WireRight'
<1>1. SUFFICES ASSUME NEW m \in wire PROVE WireAt(m)'
  BY DEF WireRight
<1>2. load' = load
  BY DEF Grows
<1>3. CASE ~m.ack
  <2>1. /\ m.super.s \in load.sessions /\ m.sub # NoSub /\ SynRight(m)
        /\ m.sub.from \in Hosts
    BY <1>3, SynHop
  <2>2. HasOut(m.sub.from, m.super, m.sub)
    BY <2>1 DEF SynRight
  <2>3. HasOut(m.sub.from, m.super, m.sub)'
    BY <2>1, <2>2, HasOutStays
  <2>4. SynRight(m)'
    BY <2>1, <2>3 DEF SynRight
  <2> QED  BY <1>2, <1>3, <2>1, <2>4 DEF WireAt
<1>4. CASE m.ack
  <2>1. /\ m.super.s \in load.sessions /\ m.sub # NoSub /\ SynAckRight(m)
        /\ m.sub.from \in Hosts
    BY <1>4, SynHop
  <2>2. /\ HasOut(m.sub.from, m.super, m.sub) /\ AnswerNoted(m.sub.from, m.super.s)
        /\ Beyond(m.sub.from, m.super.s)
    BY <2>1 DEF SynAckRight
  <2>3. HasOut(m.sub.from, m.super, m.sub)'
    BY <2>1, <2>2, HasOutStays
  <2>4. AnswerNoted(m.sub.from, m.super.s)'
    BY <2>1, <2>2, AnswerStays
  <2>5. Beyond(m.sub.from, m.super.s)'
    BY <2>1, <2>2, BeyondStays
  <2>6. SynAckRight(m)'
    BY <2>1, <2>3, <2>4, <2>5 DEF SynAckRight
  <2> QED  BY <1>2, <1>4, <2>1, <2>6 DEF WireAt
<1> QED  BY <1>3, <1>4

\* The packets inside the hosts are right if the new ones are.
LEMMA InsideStays ==
    ASSUME SetupInv, Grows,
           \A h \in Hosts : \A p \in inside'[h] : p \in inside[h] \/ InsideAt(h, p)'
    PROVE  InsideRight'
<1>1. SUFFICES ASSUME NEW h \in Hosts, NEW p \in inside[h] PROVE InsideAt(h, p)'
  BY DEF InsideRight
<1>2. load' = load /\ InsideAt(h, p)
  BY DEF Grows, SetupInv, InsideRight
<1> DEFINE s == p.super.s
<1>3. ASSUME Has(h, Client(s)) PROVE Has(h, Client(s))'
  BY <1>3, HasStays
<1>4. ASSUME Has(h, Server(s)) PROVE Has(h, Server(s))'
  BY <1>4, HasStays
<1>5. ASSUME Beyond(h, s) PROVE Beyond(h, s)'
  BY <1>5, BeyondStays
<1> QED  BY <1>2, <1>3, <1>4, <1>5 DEF InsideAt

\* The block that a lookup found is still the one of its direction and subsession.
NodeKept(h, w) ==
    w.via \in {"pen", "out"} =>
        /\ w.node \in DOMAIN tab'[h].block
        /\ tab'[h].block[w.node].super = tab[h].block[w.node].super
        /\ tab'[h].block[w.node].sub = tab[h].block[w.node].sub

\* A packet that dysco_output has looked up stays right if its block does.
LEMMA WorkStays ==
    ASSUME SetupInv, Grows, NEW h, h \in Hosts, NEW s, NEW w, WorkAt(h, s, w),
           NodeKept(h, w), w.via = "none" => ~Has(h, Client(s))'
    PROVE  WorkAt(h, s, w)'
<1>1. load' = load
  BY DEF Grows
<1>2. /\ s \in load.sessions /\ w.pkt \in Packets /\ w.pkt.super.s = s
      /\ w.pkt.super = IF w.pkt.ack THEN Server(s) ELSE Client(s)
      /\ w.via # "tag"
      /\ w.via = "none" => h = 0 /\ ~w.pkt.ack
  BY DEF WorkAt
<1>3. ASSUME w.via = "pen"
      PROVE  /\ w.node \in Pend(tab'[h]) /\ ~w.pkt.ack
             /\ tab'[h].block[w.node].super = Client(s)
  BY <1>3 DEF WorkAt, NodeKept, Pend
<1>4. ASSUME w.via = "out"
      PROVE  /\ w.node \in DOMAIN tab'[h].block /\ tab'[h].block[w.node].sub # NoSub
             /\ tab'[h].block[w.node].super = w.pkt.super
             /\ w.pkt.ack => h > 0 /\ Beyond(h, s)'
  <2>1. w.pkt.ack => h > 0 /\ Beyond(h, s)'
    BY <1>4, BeyondStays DEF WorkAt
  <2> QED  BY <1>4, <2>1 DEF WorkAt, NodeKept
<1> QED  BY <1>1, <1>2, <1>3, <1>4 DEF WorkAt

-----------------------------------------------------------------------------
(* The steps.                                                              *)

\* The parts of the invariant and the range of the hosts.
LEMMA Parts ==
    ASSUME SetupInv
    PROVE  /\ LoadRight /\ Types /\ BlocksRight /\ \A h \in Hosts : TablesRight(tab[h])
           /\ load.sessions \subseteq Sessions /\ 0 \in Hosts /\ Last \in Hosts
           /\ Last \in Nat /\ Last > 0
           /\ \A h \in Hosts : h \in Nat /\ h <= Last
BY LoadTypes, SetupAssumption DEF SetupInv, Types, Hosts

\* The lookup finds the block of the packet's direction, if there is one.
LEMMA LookedUp ==
    ASSUME SetupInv, NEW h, h \in Hosts, NEW p, p \in Packets, NEW s, s = p.super.s,
           s \in load.sessions, p.super = IF p.ack THEN Server(s) ELSE Client(s),
           p.ack => h > 0 /\ Beyond(h, s),
           Has(h, p.super) \/ (h = 0 /\ ~p.ack /\ p.tags = <<>>)
    PROVE  WorkAt(h, s, LookupBlock(h, p)) /\ LookupBlock(h, p) \in Work
<1> DEFINE t == tab[h]
           out == LookupSuper(t, "out", p.super)
           pen == LookupSuper(t, "pen", p.super)
           tag == LookupTag(t, p.tags)
<1>1. LoadRight /\ TablesRight(t) /\ t \in TableType
  BY Parts DEF TablesRight
<1>2. p.super.by = {} /\ p.super.s = s /\ (p.ack => p.super.rev)
  BY DEF Client, Server
<1> DEFINE w == LookupBlock(h, p)
           Is(v, n) == w.pkt = p /\ w.via = v /\ w.node = n
<1>a. /\ out # 0 => Is("out", out)
      /\ out = 0 /\ pen # 0 => Is("pen", pen)
      /\ out = 0 /\ pen = 0 /\ tag = 0 => Is("none", 0)
  BY DEF LookupBlock
<1>b. /\ \A n \in Nat : out = n /\ n # 0 => w \in Work
      /\ \A n \in Nat : out = 0 /\ pen = n /\ n # 0 => w \in Work
      /\ out = 0 /\ pen = 0 /\ tag = 0 => w \in Work
  BY DEF LookupBlock, Work
<1> SUFFICES WorkAt(h, s, w) /\ w \in Work
  OBVIOUS
<1> HIDE DEF out, pen, tag, w
<1>3. ASSUME NEW n \in DOMAIN t.block, t.block[n].super = p.super, t.block[n].sub # NoSub
      PROVE  WorkAt(h, s, w) /\ w \in Work
  <2>1. out = n
    <3>1. LookupSuper(t, "out", t.block[n].super) = n
      BY <1>1, <1>3, OutFound
    <3> QED  BY <1>3, <3>1 DEF out
  <2>2. n \in Nat /\ n # 0
    BY <1>1, TableBlock
  <2>3. w.pkt = p /\ w.via = "out" /\ w.node = n
    BY <1>a, <2>1, <2>2
  <2>4. w \in Work
    BY <1>b, <2>1, <2>2
  <2> QED  BY <1>3, <2>3, <2>4 DEF WorkAt
<1>4. ASSUME NEW n \in DOMAIN t.block, t.block[n].super = p.super, t.block[n].sub = NoSub
      PROVE  WorkAt(h, s, w) /\ w \in Work
  <2>1. n \in Pend(t)
    BY <1>4 DEF Pend
  <2>2. \A m \in DOMAIN t.block : t.block[m].super = p.super => t.block[m].sub = NoSub
    <3>1. \A m \in DOMAIN t.block : t.block[m].super = t.block[n].super => m = n
      BY <1>1 DEF TablesRight
    <3> QED  BY <1>4, <3>1
  <2>3. out = 0
    BY <1>1, <1>2, <2>2, OutNotFound DEF out
  <2>4. pen = n
    <3>1. LookupSuper(t, "pen", t.block[n].super) = n
      BY <1>1, <2>1, PenFound
    <3> QED  BY <1>4, <3>1 DEF pen
  <2>5. n \in Nat /\ n # 0
    BY <1>1, TableBlock
  <2>6. w.pkt = p /\ w.via = "pen" /\ w.node = n
    BY <1>a, <2>3, <2>4, <2>5
  <2>7. ~t.block[n].super.rev
    BY <1>1, <2>1 DEF TablesRight
  <2>8. ~p.ack
    BY <1>2, <1>4, <2>7
  <2>9. t.block[n].super = Client(s)
    BY <1>4, <2>8
  <2>10. w \in Work
    BY <1>b, <2>3, <2>4, <2>5
  <2> QED  BY <2>1, <2>6, <2>8, <2>9, <2>10 DEF WorkAt
<1>5. CASE Has(h, p.super)
  <2>1. PICK r \in Known(h) : r.super = p.super
    BY <1>5 DEF Has
  <2>2. PICK n \in DOMAIN t.block : r = Info(t.block[n])
    BY DEF Known, Infos
  <2>3. t.block[n].super = p.super
    BY <2>1, <2>2 DEF Info
  <2> QED  BY <1>3, <1>4, <2>3
<1>6. CASE ~Has(h, p.super)
  <2>1. h = 0 /\ ~p.ack /\ p.tags = <<>>
    BY <1>6
  <2>2. \A n \in DOMAIN t.block : t.block[n].super # p.super
    BY <1>6, NodeKnown DEF Has
  <2>3. out = 0 /\ pen = 0
    BY <2>2, NothingFound DEF out, pen
  <2>4. tag = 0
    BY <2>1 DEF tag, LookupTag
  <2>5. w.pkt = p /\ w.via = "none"
    BY <1>a, <2>3, <2>4
  <2>6. ~Has(h, Client(s))
    BY <1>6, <2>1
  <2>7. w \in Work
    BY <1>b, <2>3, <2>4
  <2> QED  BY <2>1, <2>5, <2>6, <2>7 DEF WorkAt
<1> QED  BY <1>5, <1>6

\* All blocks keep their names and numbers.
LEMMA SameNames ==
    ASSUME SetupInv, load' = load, \A h \in Hosts : Known(h)' = Known(h),
           ins' = ins, ports' = ports
    PROVE  Grows /\ BlocksRight' /\ InputsRight'
<1>3. Grows
  <2>1. \A h \in Hosts : ports'[h] \in Nat /\ ports[h] <= ports'[h]
    BY DEF SetupInv, Types
  <2> QED  BY <2>1 DEF Grows
<1>5. BlocksRight'
  <2>1. \A h \in Hosts : \A q \in Known(h)' : \E r \in Known(h) : Same(r, q)
    BY DEF Same
  <2> QED  BY <1>3, <2>1, BlocksStay
<1>6. InputsRight'
  BY <1>3, InputsStay
<1> QED  BY <1>3, <1>5, <1>6

\* Tables and inputs as they were.
LEMMA Still ==
    ASSUME SetupInv, load' = load, tab' = tab, ins' = ins, ports' = ports
    PROVE  /\ Grows /\ (\A h \in Hosts : TablesRight(tab[h])')
           /\ BlocksRight' /\ InputsRight'
           /\ \A h, w : WorkAt(h, w.pkt.super.s, w) => NodeKept(h, w)
           /\ \A h, s : Has(h, Client(s))' => Has(h, Client(s))
<1>0. \A h : Known(h)' = Known(h)
  BY DEF Known
<1>1. \A h, s : Has(h, Client(s))' => Has(h, Client(s))
  BY <1>0 DEF Has
<1>2. \A h, w : WorkAt(h, w.pkt.super.s, w) => NodeKept(h, w)
  BY DEF NodeKept, WorkAt, Pend
<1>3. Grows /\ BlocksRight' /\ InputsRight'
  BY ZenonT(30), <1>0, SameNames
<1>4. \A h \in Hosts : TablesRight(tab[h])'
  BY ZenonT(30) DEF SetupInv, TablesRight, PenRight, Apart
<1> QED  BY <1>1, <1>2, <1>3, <1>4

\* The type of a packet.
LEMMA PacketType ==
    ASSUME NEW ack, ack \in BOOLEAN, NEW super, super \in Super,
           NEW tags, tags \in Seq(Nat)
    PROVE  [ack |-> ack, super |-> super, tags |-> tags] \in Packets
BY DEF Packets

\* The packets that were looked up, one by one.
LEMMA WorkSteps ==
    ASSUME \A h \in Hosts, s \in Sessions :
              \A w : w = work'[h][s] /\ w # Idle => WorkAt(h, s, w)'
    PROVE  WorkRight'
<1> SUFFICES ASSUME NEW h \in Hosts, NEW s \in Sessions, work'[h][s] # Idle
             PROVE  WorkAt(h, s, work[h][s])'
  BY DEF WorkRight
<1>1. PICK w : w = work'[h][s]
  OBVIOUS
<1>2. WorkAt(h, s, w)'
  BY <1>1
<1> QED  BY <1>1, <1>2 DEF WorkAt

\* A packet is looked up; the packets before it stay where they are.
LEMMA LookStep ==
    ASSUME SetupInv, NEW h, h \in Hosts, NEW p, p \in Packets, NEW s, s = p.super.s,
           s \in load.sessions, p.super = IF p.ack THEN Server(s) ELSE Client(s),
           p.ack => h > 0 /\ Beyond(h, s),
           Has(h, p.super) \/ (h = 0 /\ ~p.ack /\ p.tags = <<>>),
           DyscoOutput(h, p), UNCHANGED <<load, tab, ins, dysco_tag, ports, wire>>,
           inside' \in [Hosts -> SUBSET Packets],
           \A g \in Hosts : inside'[g] \subseteq inside[g]
    PROVE  SetupInv'
<1>1. /\ Grows /\ (\A g \in Hosts : TablesRight(tab[g])') /\ BlocksRight' /\ InputsRight'
      /\ \A g, w : WorkAt(g, w.pkt.super.s, w) => NodeKept(g, w)
      /\ \A g, r : Has(g, Client(r))' => Has(g, Client(r))
  BY Still
<1>2. WorkAt(h, s, LookupBlock(h, p)) /\ LookupBlock(h, p) \in Work
  BY LookedUp
<1>3. s \in Sessions /\ LoadRight /\ work \in [Hosts -> [Sessions -> Work]]
  BY Parts DEF Types
<1>4. work' = [work EXCEPT ![h][s] = LookupBlock(h, p)]
  BY DEF DyscoOutput
<1>5. work' \in [Hosts -> [Sessions -> Work]]
  BY <1>2, <1>3, <1>4
<1>6. Types'
  BY <1>3, <1>5 DEF SetupInv, Types, LoadRight, Untranslated, Apart, Together
<1>7. WireRight' /\ InsideRight'
  BY <1>1, WireStays, InsideStays
<1>8. WorkRight'
  <2>1. SUFFICES ASSUME NEW g \in Hosts, NEW r \in Sessions, NEW w, w = work'[g][r],
                        w # Idle
                 PROVE  WorkAt(g, r, w)'
    BY WorkSteps
  <2>2. WorkAt(g, r, w)
    <3>1. CASE g = h /\ r = s
      BY <1>2, <1>3, <1>4, <2>1, <3>1
    <3>2. CASE ~(g = h /\ r = s)
      <4>1. w = work[g][r]
        BY <1>3, <1>4, <2>1, <3>2
      <4> QED  BY <2>1, <4>1 DEF SetupInv, WorkRight
    <3> QED  BY <3>1, <3>2
  <2>3. NodeKept(g, w) /\ (w.via = "none" => ~Has(g, Client(r))')
    BY <1>1, <2>2 DEF WorkAt
  <2> QED  BY <1>1, <2>2, <2>3, WorkStays
<1> QED  BY <1>1, <1>6, <1>7, <1>8 DEF SetupInv

\* The client's SYN.
LEMMA ClientSynStep ==
    ASSUME SetupInv, NEW s, s \in Sessions, ClientSyn(s)
    PROVE  SetupInv'
<1> DEFINE p == [ack |-> FALSE, super |-> Client(s), tags |-> <<>>]
<1>1. /\ s \in load.sessions /\ DyscoOutput(0, p)
      /\ UNCHANGED <<load, tab, ins, dysco_tag, ports, wire, inside>>
  BY DEF ClientSyn, Client
<1>2. p \in Packets /\ p.super = Client(s) /\ p.super.s = s /\ ~p.ack /\ p.tags = <<>>
  <2>1. p \in Packets
    <3>2. <<>> \in Seq(Nat) /\ FALSE \in BOOLEAN
      OBVIOUS
    <3>1. Client(s) \in Super
      BY SuperForm
    <3> QED  BY <3>1, <3>2, PacketType
  <2>2. p.super.s = s
    BY Forms
  <2> QED  BY <2>1, <2>2
<1>3. inside' \in [Hosts -> SUBSET Packets] /\ \A g \in Hosts : inside'[g] \subseteq inside[g]
  BY <1>1 DEF SetupInv, Types
<1> HIDE DEF p
<1> QED  BY <1>1, <1>2, <1>3, Parts, LookStep

\* A middlebox sends a packet on.
LEMMA ForwardStep ==
    ASSUME SetupInv, NEW h, h \in Hosts, MiddleboxForwards(h)
    PROVE  SetupInv'
<1>1. PICK p \in inside[h] :
         DyscoOutput(h, Forwarded(h, p)) /\ inside' = [inside EXCEPT ![h] = @ \ {p}]
  BY DEF MiddleboxForwards
<1>2. /\ h \in 1 .. Last - 1 /\ h > 0 /\ h < Last
      /\ UNCHANGED <<load, tab, ins, dysco_tag, ports, wire>>
  BY SetupAssumption DEF MiddleboxForwards, Middleboxes
<1>3. InsideAt(h, p) /\ p \in Packets /\ inside \in [Hosts -> SUBSET Packets]
  BY DEF SetupInv, InsideRight, Types
<1> DEFINE s == p.super.s
<1>4. Forwarded(h, p) = p
  BY Parts DEF Forwarded, LoadRight, Untranslated
<1>5. /\ s \in load.sessions /\ p.super = IF p.ack THEN Server(s) ELSE Client(s)
      /\ p.ack => Beyond(h, s) /\ Has(h, Client(s))
      /\ ~p.ack => Has(h, Server(s))
  BY <1>3 DEF InsideAt
<1>6. Has(h, p.super)
  <2>1. CASE p.ack
    <3>1. PICK r \in Known(h) : r.super = Client(s)
      BY <1>5, <2>1 DEF Has
    <3>2. Onward(h, r)
      BY <3>1, Parts, Sides
    <3>3. r.super.s = s
      BY <3>1 DEF Client
    <3>4. Has(h, Server(s))
      BY <1>2, <3>2, <3>3 DEF Onward
    <3> QED  BY <1>5, <2>1, <3>4
  <2>2. CASE ~p.ack
    <3>1. PICK r \in Known(h) : r.super = Server(s)
      BY <1>5, <2>2 DEF Has
    <3>2. Homeward(h, r)
      BY <3>1, Parts, Sides
    <3>3. r.super.s = s
      BY <3>1 DEF Server
    <3>4. Has(h, Client(s))
      BY <1>2, <3>2, <3>3 DEF Homeward
    <3> QED  BY <1>5, <2>2, <3>4
  <2> QED  BY <2>1, <2>2
<1>7. inside' \in [Hosts -> SUBSET Packets] /\ \A g \in Hosts : inside'[g] \subseteq inside[g]
  BY <1>1, <1>3
<1> QED  BY <1>1, <1>2, <1>3, <1>4, <1>5, <1>6, <1>7, LookStep

\* The server's SYN+ACK.
LEMMA AnswerStep ==
    ASSUME SetupInv, ServerSynAck
    PROVE  SetupInv'
<1>1. PICK p \in inside[Last] :
         DyscoOutput(Last, [ack |-> TRUE, super |-> Reverse(p.super), tags |-> <<>>])
  BY DEF ServerSynAck
<1>2. UNCHANGED <<load, tab, ins, dysco_tag, ports, wire, inside>>
  BY DEF ServerSynAck
<1> DEFINE s == p.super.s
           q == [ack |-> TRUE, super |-> Server(s), tags |-> <<>>]
<1>3. InsideAt(Last, p)
  BY Parts DEF SetupInv, InsideRight
<1>4. s \in load.sessions /\ p.super = Client(s) /\ Has(Last, Server(s)) /\ s \in Sessions
  BY <1>3, Parts DEF InsideAt
<1>5. DyscoOutput(Last, q)
  <2>1. Reverse(p.super) = Server(s)
    BY <1>4, SuperForm
  <2> QED  BY <1>1, <2>1
<1>6. q \in Packets /\ q.super = Server(s) /\ q.super.s = s /\ q.ack
  <2> HIDE DEF s
  <2>1. q \in Packets
    <3>2. <<>> \in Seq(Nat) /\ TRUE \in BOOLEAN
      OBVIOUS
    <3>1. Server(s) \in Super
      BY <1>4, SuperForm
    <3> QED  BY <3>1, <3>2, PacketType
  <2>2. q.super.s = s
    BY Forms
  <2> QED  BY <2>1, <2>2
<1>7. Beyond(Last, s)
  BY Parts DEF Beyond
<1>8. inside' \in [Hosts -> SUBSET Packets] /\ \A g \in Hosts : inside'[g] \subseteq inside[g]
  BY <1>2 DEF SetupInv, Types
<1> HIDE DEF q, s
<1> QED  BY <1>2, <1>4, <1>5, <1>6, <1>7, <1>8, Parts, LookStep

\* What was looked up stays right in a step that looks nothing up.
LEMMA WorkKept ==
    ASSUME SetupInv, Grows,
           \A g \in Hosts, r \in Sessions :
              \A w : w = work'[g][r] /\ w # Idle =>
                 /\ w = work[g][r]
                 /\ WorkAt(g, r, w) => NodeKept(g, w) /\ (w.via = "none" => ~Has(g, Client(r))')
    PROVE  WorkRight'
<1> SUFFICES ASSUME NEW g \in Hosts, NEW r \in Sessions, NEW w, w = work'[g][r], w # Idle
             PROVE  WorkAt(g, r, w)'
  BY WorkSteps
<1>1. w = work[g][r]
  OBVIOUS
<1>2. WorkAt(g, r, w)
  BY <1>1 DEF SetupInv, WorkRight
<1>3. NodeKept(g, w) /\ (w.via = "none" => ~Has(g, Client(r))')
  BY <1>2
<1> QED  BY <1>2, <1>3, WorkStays

\* The sessions of a behaviour do not change.
LEMMA LoadStays ==
    ASSUME LoadRight, load' = load
    PROVE  LoadRight'
BY DEF LoadRight, Untranslated, Apart, Together

\* What the stack gets of a SYN.
LEMMA StackGets ==
    ASSUME SetupInv, NEW h, h \in Hosts, NEW m, m \in wire, NEW s, s \in Sessions,
           NEW super, super = Client(s), SynToStack(h, m, super)
    PROVE  /\ inside' \in [Hosts -> SUBSET Packets] /\ dysco_tag' \in [Hosts -> Nat]
           /\ \A g \in Hosts : \A p \in inside'[g] :
                 p \in inside[g] \/ (g = h /\ p.super = Client(s) /\ ~p.ack)
<1> DEFINE tags == Append(m.tags, dysco_tag[h])
           p == [ack |-> FALSE, super |-> super, tags |-> tags]
<1>1. m.tags \in Seq(Nat) /\ dysco_tag \in [Hosts -> Nat]
      /\ inside \in [Hosts -> SUBSET Packets]
  BY DEF SetupInv, Types, WirePacket
<1>2. tags \in Seq(Nat)
  BY <1>1
<1>3. inside' = [inside EXCEPT ![h] = @ \cup {p}] /\ dysco_tag' = [dysco_tag EXCEPT ![h] = @ + 1]
  BY DEF SynToStack
<1> HIDE DEF tags
<1>4. p \in Packets
  <2>1. super \in Super
    BY SuperForm
  <2>2. FALSE \in BOOLEAN
    OBVIOUS
  <2> QED  BY <1>2, <2>1, <2>2, PacketType
<1>5. p.super = Client(s) /\ ~p.ack
  OBVIOUS
<1> HIDE DEF p
<1>6. inside' \in [Hosts -> SUBSET Packets] /\ dysco_tag' \in [Hosts -> Nat]
  BY <1>1, <1>3, <1>4
<1>7. \A g \in Hosts : \A q \in inside'[g] : q \in inside[g] \/ (g = h /\ q = p)
  BY <1>1, <1>3
<1> QED  BY <1>5, <1>6, <1>7

\* A SYN arrives again.
LEMMA SynAgainStep ==
    ASSUME SetupInv, NEW h, h \in Hosts, NEW m, m \in wire, m.sub # NoSub, m.sub.to = h,
           InputSynAgain(h, m)
    PROVE  SetupInv'
<1> DEFINE x == m.sub
<1>1. /\ x \in DOMAIN ins[h] /\ ~m.ack /\ SynToStack(h, m, ins[h][x].super)
      /\ UNCHANGED <<load, tab, ins, ports, wire, work>>
  BY DEF InputSynAgain
<1>2. IsHop(x, x.from) /\ x.from \in Hosts /\ Back(x).rev /\ Back(x) # NoSub
  <2>1. IsHop(x, x.from) /\ x.from \in Hosts
    BY <1>1, SynHop
  <2> QED  BY <2>1, HopForm
<1>3. PICK r \in Known(h) : r.sub = Back(x)
  BY <1>1, InputRecord
<1>4. Homeward(h, r) /\ ins[h][x].super = Client(r.super.s)
  <2>1. ASSUME Onward(h, r) PROVE FALSE
    <3>1. IsHop(r.sub, h)
      BY <1>2, <1>3, <2>1, Parts, Sides
    <3>2. ~r.sub.rev
      BY <3>1 DEF IsHop
    <3> QED  BY <1>2, <1>3, <3>2
  <2> QED  BY <1>1, <1>3, <2>1, InputRecord
<1> DEFINE s == r.super.s
<1>5. s \in load.sessions /\ s \in Sessions /\ h > 0 /\ Has(h, Server(s))
  <2>1. r.super.s \in load.sessions
    BY Parts, RecordType
  <2>2. h > 0 /\ r.super = Server(s)
    BY <1>4 DEF Homeward
  <2> QED  BY <2>1, <2>2, Parts DEF Has
<1> HIDE DEF s, x
<1>6. /\ inside' \in [Hosts -> SUBSET Packets] /\ dysco_tag' \in [Hosts -> Nat]
      /\ \A g \in Hosts : \A p \in inside'[g] :
            p \in inside[g] \/ (g = h /\ p.super = Client(s) /\ ~p.ack)
  BY <1>1, <1>4, <1>5, StackGets DEF s
<1>7. /\ Grows /\ (\A g \in Hosts : TablesRight(tab[g])') /\ BlocksRight' /\ InputsRight'
      /\ \A g, w : WorkAt(g, w.pkt.super.s, w) => NodeKept(g, w)
      /\ \A g, r1 : Has(g, Client(r1))' => Has(g, Client(r1))
  BY <1>1, Still
<1>8. Types'
  BY <1>1, <1>6, Parts, LoadStays DEF Types
<1>9. WireRight'
  BY <1>1, <1>7, WireStays
<1>10. InsideRight'
  <2>1. Has(h, Server(s))' /\ load' = load
    BY <1>1, <1>5, <1>7, HasStays
  <2>2. ASSUME NEW p, p.super = Client(s), ~p.ack PROVE InsideAt(h, p)'
    <3>1. p.super.s = s
      BY <2>2, Forms
    <3> QED  BY <1>5, <2>1, <2>2, <3>1 DEF InsideAt
  <2> QED  BY <1>6, <1>7, <2>2, InsideStays
<1>11. WorkRight'
  <2>1. \A g, r1, w : WorkAt(g, r1, w) =>
           NodeKept(g, w) /\ (w.via = "none" => ~Has(g, Client(r1))')
    BY <1>7 DEF WorkAt
  <2> QED  BY <1>1, <1>7, <2>1, WorkKept
<1> QED  BY <1>7, <1>8, <1>9, <1>10, <1>11 DEF SetupInv

\* A block with other numbers or another tag, and what it was called.
LEMMA BlockChanges ==
    ASSUME LoadRight, NEW t, TablesRight(t), NEW n, n \in DOMAIN t.block,
           NEW b, b \in Block, b.super = t.block[n].super, b.sub = t.block[n].sub,
           b.next = t.block[n].next, NEW u, u = [t EXCEPT !.block[n] = b]
    PROVE  TablesRight(u) /\ Renamed(t, u, b, n)
<1>1. /\ t \in TableType /\ t.block \in Seq(Block) /\ DOMAIN t.block = 1 .. Len(t.block)
  BY TableTypes DEF TablesRight
<1>2. [t.block EXCEPT ![n] = b] \in Seq(Block)
  BY <1>1, SeqExcept
<1>3. u.block = [t.block EXCEPT ![n] = b] /\ u.head = t.head /\ u \in TableType
  BY <1>1, <1>2 DEF TableType
<1>4. DOMAIN u.block = DOMAIN t.block /\ u.block[n] = b
      /\ \A m \in DOMAIN t.block \ {n} : u.block[m] = t.block[m]
  BY <1>3
<1>5. \A m \in DOMAIN t.block :
         /\ u.block[m].super = t.block[m].super /\ u.block[m].sub = t.block[m].sub
         /\ u.block[m].next = t.block[m].next
  BY <1>4
<1>6. TablesRight(u)
  BY ZenonT(60), <1>3, <1>4, <1>5, FieldsChange
<1>7. Renamed(t, u, b, n)
  BY <1>4 DEF Renamed
<1> QED  BY <1>6, <1>7

\* The tables of a host, after a step.
LEMMA TablesKept ==
    ASSUME NEW h, load' = load, TablesRight(tab'[h])
    PROVE  TablesRight(tab[h])'
BY DEF TablesRight, PenRight, Apart

\* A step changes the table of a host only.
TabChanges(h, u) == tab'[h] = u /\ \A g \in Hosts \ {h} : tab'[g] = tab[g]

\* One host's table changes, the names in it stay where they are.
LEMMA RenamedNodes ==
    ASSUME SetupInv, NEW h, h \in Hosts, NEW n, NEW b, NEW u, TabChanges(h, u),
           Renamed(tab[h], u, b, n),
           n \in DOMAIN tab[h].block, b.super = tab[h].block[n].super,
           NEW g, g \in Hosts, NEW s, NEW w, WorkAt(g, s, w),
           b.sub = tab[h].block[n].sub \/ ~(g = h /\ w.node = n)
    PROVE  NodeKept(g, w)
<1>1. tab'[h] = u /\ (g # h => tab'[g] = tab[g])
  BY DEF TabChanges
<1>2. w.via \in {"pen", "out"} => w.node \in DOMAIN tab[g].block
  BY DEF WorkAt, Pend
<1>3. CASE g # h
  BY <1>1, <1>2, <1>3 DEF NodeKept
<1>4. CASE g = h
  <2>1. /\ DOMAIN u.block = DOMAIN tab[h].block
        /\ \A m \in DOMAIN tab[h].block \ {n} :
             u.block[m].super = tab[h].block[m].super /\ u.block[m].sub = tab[h].block[m].sub
        /\ u.block[n].super = b.super /\ u.block[n].sub = b.sub
    BY DEF Renamed
  <2>2. CASE w.node = n
    BY <1>1, <1>2, <1>4, <2>1, <2>2 DEF NodeKept
  <2>3. CASE w.node # n
    BY <1>1, <1>2, <1>4, <2>1, <2>3 DEF NodeKept
  <2> QED  BY <2>2, <2>3
<1> QED  BY <1>3, <1>4

\* A packet is dealt with; the others stay where they are.
LEMMA DoneKeeps ==
    ASSUME SetupInv, NEW h, h \in Hosts, NEW s, s \in Sessions, Done(h, s)
    PROVE  /\ work' \in [Hosts -> [Sessions -> Work]]
           /\ \A g \in Hosts, r \in Sessions :
                 \A w : w = work'[g][r] /\ w # Idle => w = work[g][r] /\ ~(g = h /\ r = s)
<1>1. work \in [Hosts -> [Sessions -> Work]]
  BY DEF SetupInv, Types
<1>2. Idle \in Work
  BY DEF Idle, Work
<1>3. work' = [work EXCEPT ![h][s] = Idle]
  BY DEF Done
<1>4. work' \in [Hosts -> [Sessions -> Work]]
  BY <1>1, <1>2, <1>3
<1>5. ASSUME NEW g \in Hosts, NEW r \in Sessions, work'[g][r] # Idle
      PROVE  work'[g][r] = work[g][r] /\ ~(g = h /\ r = s)
  BY <1>1, <1>3, <1>5
<1> QED  BY <1>4, <1>5

\* The SYN that dysco_add_sc makes of a block.
LEMMA SynSent ==
    ASSUME SetupInv, load' = load, NEW h, h \in Hosts, NEW s, s \in load.sessions,
           NEW b, b.super = Client(s), b.sc = Rest(h), IsHop(b.sub, h),
           NEW tags, tags \in Seq(Nat), HasOut(h, Client(s), b.sub)'
    PROVE  SynOnWire(b, tags) \in WirePacket /\ WireAt(SynOnWire(b, tags))'
<1> DEFINE m == SynOnWire(b, tags)
<1>1. /\ m.ack = FALSE /\ m.sub = b.sub /\ m.super = b.super /\ m.sc = b.sc
      /\ m = [ack |-> FALSE, sub |-> b.sub, super |-> b.super, sc |-> b.sc, tags |-> tags]
  BY DEF SynOnWire
<1>2. /\ b.sub \in Sub /\ b.sub.from = h /\ h < Last /\ s \in Sessions
      /\ h \in Nat /\ Last \in Nat
  BY HopForm, Parts
<1>3. b.super \in Super /\ b.super.s = s
  BY <1>2, SuperForm, Forms
<1>4. b.sc \in Chains
  BY DEF Chains
<1>5. m \in WirePacket
  BY <1>1, <1>2, <1>3, <1>4 DEF WirePacket
<1> HIDE DEF m
<1>6. SynRight(m)'
  <2>1. h \in 0 .. Last - 1
    BY <1>2
  <2> QED  BY <1>1, <1>2, <1>3, <2>1 DEF SynRight
<1>7. WireAt(m)'
  BY Zenon, <1>1, <1>3, <1>6 DEF WireAt
<1> QED  BY <1>5, <1>7 DEF m

\* What is at hand when a packet is dealt with.
LEMMA AtHand ==
    ASSUME SetupInv, NEW h, h \in Hosts, NEW s, s \in Sessions, NEW w, w = work[h][s],
           w.via # "idle"
    PROVE  /\ WorkAt(h, s, w) /\ w.pkt.tags \in Seq(Nat) /\ w.pkt.super \in Super
           /\ s \in load.sessions
<1>1. w # Idle
  BY DEF Idle
<1>2. WorkAt(h, s, w)
  BY <1>1 DEF SetupInv, WorkRight
<1> QED  BY <1>2 DEF WorkAt, Packets

\* A block under the client's five-tuple.
LEMMA FromClient ==
    ASSUME SetupInv, NEW h, h \in Hosts, NEW s, NEW n, n \in DOMAIN tab[h].block,
           tab[h].block[n].super = Client(s)
    PROVE  /\ Onward(h, Info(tab[h].block[n])) /\ Info(tab[h].block[n]) \in Known(h)
           /\ tab[h].block[n].sc = Rest(h) /\ h < Last
           /\ tab[h].block[n].sub # NoSub => IsHop(tab[h].block[n].sub, h)
<1> DEFINE r == Info(tab[h].block[n])
<1>1. r \in Known(h) /\ r.super = Client(s)
  BY NodeKnown
<1>2. r.sub = tab[h].block[n].sub /\ r.sc = tab[h].block[n].sc
  BY NodeKnown
<1> HIDE DEF r
<1>3. Onward(h, r)
  BY <1>1, Parts, Sides
<1>4. r.sc = Rest(h) /\ h < Last
  BY <1>3 DEF Onward
<1>5. r.sub # NoSub => IsHop(r.sub, h)
  BY <1>1, <1>3, Parts, Sides
<1> QED  BY <1>1, <1>2, <1>3, <1>4, <1>5 DEF r

\* A SYN is sent again, perhaps under another tag.
LEMMA OutSynAgainStep ==
    ASSUME SetupInv, NEW h, h \in Hosts, NEW s, s \in Sessions, OutSynAgain(h, s)
    PROVE  SetupInv'
<1>1. PICK w : w = work[h][s]
  OBVIOUS
<1> DEFINE n == w.node
<1>a. PICK b : b = tab[h].block[n]
  OBVIOUS
<1> DEFINE tag == Parsed(w.pkt.tags[Len(w.pkt.tags)])
           b2 == [b EXCEPT !.tag = tag]
<1>2. /\ w.via = "out" /\ ~w.pkt.ack /\ Done(h, s)
      /\ IF w.pkt.tags = <<>> THEN UNCHANGED tab
         ELSE tab' = [tab EXCEPT ![h].block[n].tag = tag]
      /\ wire' = wire \cup {SynOnWire(b, w.pkt.tags)}
      /\ UNCHANGED <<load, ins, dysco_tag, ports, inside, again>>
  BY <1>1, <1>a DEF OutSynAgain
<1>3. WorkAt(h, s, w) /\ w.pkt.tags \in Seq(Nat) /\ s \in load.sessions
  BY <1>1, <1>2, AtHand
<1>4. n \in DOMAIN tab[h].block /\ b.sub # NoSub /\ b.super = Client(s)
  BY <1>a, <1>2, <1>3 DEF WorkAt
<1>5. b.sc = Rest(h) /\ IsHop(b.sub, h)
  BY <1>a, <1>4, FromClient
<1>6. /\ TablesRight(tab[h]) /\ tab[h] \in TableType /\ b \in Block /\ LoadRight
      /\ DOMAIN tab = Hosts
  BY <1>a, <1>4, Parts, TableBlock DEF TablesRight, Types
<1>7. ASSUME w.pkt.tags # <<>>
      PROVE  /\ TablesRight(tab'[h]) /\ tab' = [tab EXCEPT ![h] = tab'[h]]
             /\ Renamed(tab[h], tab'[h], b2, n) /\ b2.super = b.super /\ b2.sub = b.sub
             /\ Info(b2) = Info(b)
  <2>1. tag \in Int
    <3>1. w.pkt.tags[Len(w.pkt.tags)] \in Nat
      BY <1>3, <1>7
    <3> QED  BY <3>1, SetupAssumption DEF Parsed
  <2>2. tab' = [tab EXCEPT ![h].block[n].tag = tag]
    BY <1>2, <1>7
  <2> HIDE DEF tag
  <2>3. tab' = [tab EXCEPT ![h] = [tab[h] EXCEPT !.block[n] = b2]]
    BY <1>a, <1>4, <1>6, <2>2 DEF TableType
  <2>4. b2 \in Block /\ b2.super = b.super /\ b2.sub = b.sub /\ b2.next = b.next
        /\ Info(b2) = Info(b)
    BY <1>6, <2>1 DEF Block, Info
  <2> HIDE DEF b2
  <2>5. PICK u : u = [tab[h] EXCEPT !.block[n] = b2]
    OBVIOUS
  <2>6. tab'[h] = u /\ tab' = [tab EXCEPT ![h] = u]
    BY <1>6, <2>3, <2>5
  <2>7. TablesRight(u) /\ Renamed(tab[h], u, b2, n)
    BY <1>a, <1>4, <1>6, <2>4, <2>5, BlockChanges
  <2> QED  BY <2>4, <2>6, <2>7
<1> HIDE DEF b2, tag
<1>8. /\ \A g \in Hosts : TablesRight(tab[g])' /\ Known(g)' = Known(g)
      /\ \A g \in Hosts : \A r, v : WorkAt(g, r, v) => NodeKept(g, v)
      /\ DOMAIN tab' = Hosts
  <2>1. CASE w.pkt.tags = <<>>
    <3>1. tab' = tab
      BY <1>2, <2>1
    <3> QED  BY <1>2, <3>1, Still, Parts DEF Known, NodeKept, WorkAt, Pend, Types
  <2>2. CASE w.pkt.tags # <<>>
    <3>1. PICK u : u = tab'[h]
      OBVIOUS
    <3>2. TablesRight(u) /\ tab' = [tab EXCEPT ![h] = u] /\ Renamed(tab[h], u, b2, n)
          /\ b2.super = b.super /\ b2.sub = b.sub /\ Info(b2) = Info(b)
      BY <1>7, <2>2, <3>1
    <3>3. \A g \in Hosts : g # h => tab'[g] = tab[g]
      BY <3>2
    <3>4. Infos(u) = Infos(tab[h])
      <4>1. \A k, l \in DOMAIN tab[h].block :
               tab[h].block[k].super = tab[h].block[l].super => k = l
        BY <1>6 DEF TablesRight
      <4>2. Infos(u) = (Infos(tab[h]) \ {Info(tab[h].block[n])}) \cup {Info(b2)}
        BY <1>4, <3>2, <4>1, RenamedInfos
      <4>3. Info(b) \in Infos(tab[h])
        BY <1>a, <1>4 DEF Infos
      <4> QED  BY <1>a, <3>2, <4>2, <4>3
    <3>5. ASSUME NEW g \in Hosts PROVE TablesRight(tab[g])' /\ Known(g)' = Known(g)
      <4>1. TablesRight(tab'[g])
        BY <3>1, <3>2, <3>3, Parts
      <4>2. Infos(tab'[g]) = Infos(tab[g])
        BY <3>1, <3>3, <3>4
      <4> QED  BY <1>2, <4>1, <4>2, TablesKept DEF Known
    <3>6. ASSUME NEW g \in Hosts, NEW r, NEW v, WorkAt(g, r, v) PROVE NodeKept(g, v)
      <4>1. b2.super = tab[h].block[n].super /\ b2.sub = tab[h].block[n].sub
        BY <1>a, <3>2
      <4>2. TabChanges(h, u)
        BY <3>1, <3>3 DEF TabChanges
      <4>3. n \in DOMAIN tab[h].block /\ Renamed(tab[h], u, b2, n)
        BY <1>4, <3>2
      <4> HIDE DEF n
      <4> QED  BY <3>6, <4>1, <4>2, <4>3, RenamedNodes
    <3> QED  BY <1>6, <3>2, <3>5, <3>6
  <2> QED  BY <2>1, <2>2
<1>9. Grows /\ BlocksRight' /\ InputsRight'
  BY <1>2, <1>8, SameNames
<1>10. HasOut(h, Client(s), b.sub)'
  <2>1. HasOut(h, Client(s), b.sub)
    BY <1>a, <1>4, NodeKnown DEF HasOut
  <2> QED  BY <1>8, <2>1 DEF HasOut
<1>11. SynOnWire(b, w.pkt.tags) \in WirePacket /\ WireAt(SynOnWire(b, w.pkt.tags))'
  BY <1>2, <1>3, <1>4, <1>5, <1>10, SynSent
<1>12. Types'
  <2>1. work' \in [Hosts -> [Sessions -> Work]]
    BY <1>2, DoneKeeps
  <2> QED  BY <1>2, <1>6, <1>8, <1>11, <2>1, Parts, LoadStays DEF Types
<1>13. WireRight' /\ InsideRight'
  BY <1>2, <1>9, <1>11, WireStays, InsideStays
<1>14. WorkRight'
  <2>1. \A g, r : g \in Hosts => (Has(g, Client(r))' => Has(g, Client(r)))
    BY <1>8 DEF Has
  <2>2. \A g \in Hosts : \A r, v : WorkAt(g, r, v) =>
           NodeKept(g, v) /\ (v.via = "none" => ~Has(g, Client(r))')
    BY <1>8, <2>1 DEF WorkAt
  <2> QED  BY <1>2, <1>9, <2>2, DoneKeeps, WorkKept
<1> QED  BY <1>8, <1>9, <1>12, <1>13, <1>14 DEF SetupInv

\* A step changes one input block only.
InsChanges(h, x, i) ==
    /\ ins'[h] = [ins[h] EXCEPT ![x] = i]
    /\ \A g \in Hosts \ {h} : ins'[g] = ins[g]

\* A block has the right numbers if what it says has.
LEMMA InfoRight ==
    ASSUME NEW b
    PROVE  Right(Info(b)) <=> Right(b)
BY DEF Right, Info

\* A block and an input block get the initial numbers.
NumbersStep(h, n, b, u, i, x) ==
    /\ n \in DOMAIN tab[h].block /\ b \in Block /\ Right(b)
    /\ b.super = tab[h].block[n].super /\ b.sub = tab[h].block[n].sub
    /\ b.sc = tab[h].block[n].sc /\ b.next = tab[h].block[n].next
    /\ u = [tab[h] EXCEPT !.block[n] = b]
    /\ TabChanges(h, u) /\ tab' = [tab EXCEPT ![h] = u]
    /\ x \in DOMAIN ins[h] /\ i.super = ins[h][x].super /\ Right(i) /\ i \in Input
    /\ InsChanges(h, x, i) /\ DOMAIN ins' = DOMAIN ins

\* Such a step keeps everything but these numbers.
LEMMA Numbered ==
    ASSUME SetupInv, load' = load, ports' = ports, NEW h, h \in Hosts,
           NEW n, NEW b, NEW u, NEW i, NEW x, NumbersStep(h, n, b, u, i, x)
    PROVE  /\ Grows /\ (\A g \in Hosts : TablesRight(tab[g])') /\ BlocksRight' /\ InputsRight'
           /\ Info(b) \in Known(h)' /\ ins'[h][x] = i
           /\ \A g \in Hosts : \A r : Has(g, Client(r))' => Has(g, Client(r))
           /\ \A g \in Hosts : \A r, v : WorkAt(g, r, v) => NodeKept(g, v)
<1>0. /\ n \in DOMAIN tab[h].block /\ b \in Block /\ Right(b)
      /\ b.super = tab[h].block[n].super /\ b.sub = tab[h].block[n].sub
      /\ b.sc = tab[h].block[n].sc /\ b.next = tab[h].block[n].next
      /\ u = [tab[h] EXCEPT !.block[n] = b] /\ TabChanges(h, u)
      /\ x \in DOMAIN ins[h] /\ i.super = ins[h][x].super /\ Right(i)
      /\ InsChanges(h, x, i)
  BY DEF NumbersStep
<1> USE <1>0
<1>1. TablesRight(tab[h]) /\ LoadRight
  BY Parts
<1>2. TablesRight(u) /\ Renamed(tab[h], u, b, n)
  BY <1>1, BlockChanges
<1>3. tab'[h] = u /\ \A g \in Hosts \ {h} : tab'[g] = tab[g]
  BY DEF TabChanges
<1> DEFINE old == Info(tab[h].block[n])
<1>4. Infos(u) = (Infos(tab[h]) \ {old}) \cup {Info(b)}
  <2>1. \A k, l \in DOMAIN tab[h].block :
           tab[h].block[k].super = tab[h].block[l].super => k = l
    BY <1>1 DEF TablesRight
  <2> QED  BY <1>2, <2>1, RenamedInfos
<1>5. /\ old \in Known(h) /\ old.super = b.super /\ old.sub = b.sub /\ old.sc = b.sc
      /\ Info(b).super = b.super /\ Info(b).sub = b.sub /\ Info(b).sc = b.sc
      /\ Right(Info(b))
  BY NodeKnown, InfoRight DEF Info
<1> HIDE DEF old
<1>6. /\ Known(h)' = (Known(h) \ {old}) \cup {Info(b)}
      /\ \A g \in Hosts \ {h} : Known(g)' = Known(g)
  BY <1>3, <1>4 DEF Known
<1>7. ins'[h] = [ins[h] EXCEPT ![x] = i] /\ \A g \in Hosts \ {h} : ins'[g] = ins[g]
  BY DEF InsChanges
<1>8. /\ ins'[h][x] = i /\ \A g \in Hosts : DOMAIN ins'[g] = DOMAIN ins[g]
      /\ \A g \in Hosts : \A y \in DOMAIN ins[g] :
            /\ ins'[g][y].super = ins[g][y].super
            /\ Right(ins[g][y]) => Right(ins'[g][y])
  <2>1. ins'[h][x] = i /\ DOMAIN ins'[h] = DOMAIN ins[h]
    BY <1>7
  <2>2. \A y \in DOMAIN ins[h] : y # x => ins'[h][y] = ins[h][y]
    BY <1>7
  <2> QED  BY <1>7, <2>1, <2>2
<1>9. Grows
  <2>1. ASSUME NEW g \in Hosts, NEW r \in Known(g)
        PROVE  \E q \in Known(g)' :
                  /\ q.super = r.super
                  /\ r.sub # NoSub => q.sub = r.sub /\ (Right(r) => Right(q))
    <3>1. CASE g = h /\ r = old
      BY <1>5, <1>6, <3>1
    <3>2. CASE ~(g = h /\ r = old)
      BY <1>6, <3>2
    <3> QED  BY <3>1, <3>2
  <2>2. \A g \in Hosts : ports'[g] \in Nat /\ ports[g] <= ports'[g]
    BY DEF SetupInv, Types
  <2> QED  BY <1>8, <2>1, <2>2 DEF Grows
<1>10. BlocksRight'
  <2>1. ASSUME NEW g \in Hosts, NEW q \in Known(g)' PROVE \E r \in Known(g) : Same(r, q)
    BY <1>5, <1>6 DEF Same
  <2> QED  BY <1>9, <2>1, BlocksStay
<1>11. InputsRight'
  BY <1>8, <1>9, InputsStay
<1>12. ASSUME NEW g \in Hosts PROVE TablesRight(tab[g])'
  <2>1. TablesRight(tab'[g])
    BY <1>2, <1>3, Parts
  <2> QED  BY <2>1, TablesKept
<1>13. ASSUME NEW g \in Hosts, NEW r, Has(g, Client(r))' PROVE Has(g, Client(r))
  BY <1>5, <1>6, <1>13 DEF Has
<1>14. ASSUME NEW g \in Hosts, NEW r, NEW v, WorkAt(g, r, v) PROVE NodeKept(g, v)
  <2>1. b.super = tab[h].block[n].super /\ b.sub = tab[h].block[n].sub
    OBVIOUS
  <2>2. n \in DOMAIN tab[h].block /\ Renamed(tab[h], u, b, n)
    BY <1>2
  <2>3. TabChanges(h, u)
    BY Zenon
  <2> QED  BY ONLY SetupInv, h \in Hosts, g \in Hosts, <1>14, <2>1, <2>2, <2>3, RenamedNodes
<1> QED  BY <1>6, <1>8, <1>9, <1>10, <1>11, <1>12, <1>13, <1>14

\* The SYN+ACK of a host: the numbers of a block and of its input block.
LEMMA OutSynAckNumbers ==
    ASSUME SetupInv, NEW h, h \in Hosts, NEW s, s \in Sessions, OutSynAck(h, s),
           NEW w, w = work[h][s]
    PROVE  \E b, u, i, x :
              /\ NumbersStep(h, w.node, b, u, i, x)
              /\ x = Back(b.sub) /\ b.super = Server(s) /\ b.sub # NoSub
              /\ wire' = wire \cup {[ack |-> TRUE, sub |-> b.sub, super |-> Server(s),
                                     sc |-> <<>>, tags |-> w.pkt.tags]}
<1> DEFINE n == w.node
<1>1. PICK a : a = tab[h].block[n]
  OBVIOUS
<1>2. w.via = "out" /\ w.pkt.ack
  BY DEF OutSynAck
<1>3. WorkAt(h, s, w) /\ s \in load.sessions
  BY <1>2, AtHand
<1>4. /\ n \in DOMAIN tab[h].block /\ a.sub # NoSub /\ a.super = Server(s)
      /\ w.pkt.super = Server(s)
  BY <1>1, <1>2, <1>3 DEF WorkAt
<1>5. PICK x : x = Back(a.sub)
  OBVIOUS
<1>6. x \in DOMAIN ins[h] /\ ins[h][x].super = Client(s)
  <2>1. /\ Info(a) \in Known(h) /\ Info(a).super = Server(s) /\ Info(a).sub = a.sub
    BY <1>1, <1>4, NodeKnown
  <2>2. Homeward(h, Info(a))
    BY <2>1, Parts, Sides
  <2>3. Info(a).super.s = s
    BY <2>1, Forms
  <2> QED  BY <1>5, <2>1, <2>2, <2>3 DEF Homeward
<1>7. PICK seq, ack : seq = Iss(w.pkt.super) /\ ack = Iss(Reverse(w.pkt.super))
  OBVIOUS
<1>8. /\ seq = Iss(Server(s)) /\ ack = Iss(Client(s)) /\ seq \in Numbers /\ ack \in Numbers
      /\ Reverse(Server(s)) = Client(s) /\ Reverse(Client(s)) = Server(s)
  BY <1>4, <1>7, SuperForm
<1>9. /\ tab' = [tab EXCEPT ![h].block[n].iseq = seq, ![h].block[n].iack = ack]
      /\ ins' = [ins EXCEPT ![h][x].iseq = ack, ![h][x].iack = seq]
      /\ wire' = wire \cup {[ack |-> TRUE, sub |-> a.sub, super |-> w.pkt.super,
                             sc |-> <<>>, tags |-> w.pkt.tags]}
  BY <1>1, <1>5, <1>6, <1>7 DEF OutSynAck
<1>10. /\ tab[h] \in TableType /\ a \in Block /\ DOMAIN tab = Hosts /\ DOMAIN ins = Hosts
       /\ ins[h][x] \in Input
  BY <1>1, <1>4, <1>6, Parts, TableBlock DEF TablesRight, Types
<1>11. PICK b : b = [a EXCEPT !.iseq = seq, !.iack = ack]
  OBVIOUS
<1>12. PICK i : i = [ins[h][x] EXCEPT !.iseq = ack, !.iack = seq]
  OBVIOUS
<1>13. /\ b \in Block /\ b.super = a.super /\ b.sub = a.sub /\ b.sc = a.sc /\ b.next = a.next
       /\ b.iseq = seq /\ b.iack = ack
  BY <1>8, <1>10, <1>11 DEF Block
<1>14. i \in Input /\ i.super = ins[h][x].super /\ i.iseq = ack /\ i.iack = seq
  BY <1>8, <1>10, <1>12 DEF Input
<1>15. Right(b) /\ Right(i)
  BY ZenonT(30), <1>4, <1>6, <1>8, <1>13, <1>14 DEF Right
<1>16. tab' = [tab EXCEPT ![h] = [tab[h] EXCEPT !.block[n] = b]]
  BY ZenonT(60), <1>1, <1>4, <1>9, <1>10, <1>11 DEF TableType
<1>17. ins' = [ins EXCEPT ![h] = [ins[h] EXCEPT ![x] = i]]
  BY <1>6, <1>9, <1>10, <1>12
<1> HIDE DEF n
<1>18. PICK u : u = [tab[h] EXCEPT !.block[n] = b]
  OBVIOUS
<1>19. TabChanges(h, u) /\ InsChanges(h, x, i) /\ DOMAIN ins' = DOMAIN ins
  BY <1>10, <1>16, <1>17, <1>18 DEF TabChanges, InsChanges
<1>20. NumbersStep(h, n, b, u, i, x)
  BY <1>1, <1>4, <1>6, <1>13, <1>14, <1>15, <1>16, <1>18, <1>19 DEF NumbersStep
<1> WITNESS b, u, i, x
<1> QED  BY <1>4, <1>5, <1>9, <1>13, <1>20 DEF n

\* A host sends the SYN+ACK.
LEMMA OutSynAckStep ==
    ASSUME SetupInv, NEW h, h \in Hosts, NEW s, s \in Sessions, OutSynAck(h, s)
    PROVE  SetupInv'
<1>1. PICK w : w = work[h][s]
  OBVIOUS
<1>2. PICK b, u, i, x :
         /\ NumbersStep(h, w.node, b, u, i, x)
         /\ x = Back(b.sub) /\ b.super = Server(s) /\ b.sub # NoSub
         /\ wire' = wire \cup {[ack |-> TRUE, sub |-> b.sub, super |-> Server(s),
                                sc |-> <<>>, tags |-> w.pkt.tags]}
  BY <1>1, OutSynAckNumbers
<1>3. /\ b \in Block /\ Right(b) /\ tab' = [tab EXCEPT ![h] = u] /\ DOMAIN ins' = DOMAIN ins
      /\ InsChanges(h, x, i) /\ i \in Input /\ x \in DOMAIN ins[h] /\ Right(i)
      /\ x = Back(b.sub) /\ b.super = Server(s) /\ b.sub # NoSub
  BY ZenonT(60), <1>2 DEF NumbersStep
<1>4. /\ w.via = "out" /\ w.pkt.ack /\ Done(h, s)
      /\ UNCHANGED <<load, dysco_tag, ports, inside, again>>
  BY <1>1 DEF OutSynAck
<1>5. WorkAt(h, s, w) /\ w.pkt.tags \in Seq(Nat) /\ s \in load.sessions
  BY <1>1, <1>4, AtHand
<1>6. h > 0 /\ Beyond(h, s)
  BY <1>4, <1>5 DEF WorkAt
<1>7. DOMAIN tab = Hosts /\ DOMAIN ins = Hosts
  BY Parts DEF Types
<1>9. /\ Grows /\ (\A g \in Hosts : TablesRight(tab[g])') /\ BlocksRight' /\ InputsRight'
      /\ Info(b) \in Known(h)' /\ ins'[h][x] = i
      /\ \A g \in Hosts : \A r : Has(g, Client(r))' => Has(g, Client(r))
      /\ \A g \in Hosts : \A r, v : WorkAt(g, r, v) => NodeKept(g, v)
  BY <1>2, <1>4, Numbered
<1>10. PICK m : m = [ack |-> TRUE, sub |-> b.sub, super |-> Server(s), sc |-> <<>>,
                     tags |-> w.pkt.tags]
  OBVIOUS
<1>11. m.ack /\ m.sub = b.sub /\ m.super = Server(s) /\ m.super.s = s /\ wire' = wire \cup {m}
  <2>1. m.ack /\ m.sub = b.sub /\ m.super = Server(s)
    BY <1>10
  <2> QED  BY <1>2, <1>10, <2>1, Forms
<1>12. Info(b).super = Server(s) /\ Info(b).sub = b.sub /\ b.sub \in Sub
  <2>1. Info(b).super = b.super /\ Info(b).sub = b.sub
    BY DEF Info
  <2>2. Info(b).sub \in Sub
    BY <1>3, InfoType
  <2> QED  BY <1>3, <2>1, <2>2
<1>13. m \in WirePacket
  <2>1. <<>> \in Chains
    <3>1. Rest(Last) = <<>>
      BY SetupAssumption DEF Rest
    <3> QED  BY <3>1, Parts DEF Chains
  <2>2. Server(s) \in Super
    BY SuperForm
  <2> QED  BY <1>5, <1>10, <1>12, <2>1, <2>2 DEF WirePacket
<1>14. m.sub.from = h
  <2>1. Homeward(h, Info(b))'
    <3>1. BlocksRight'
      BY <1>9
    <3>2. Onward(h, Info(b))' \/ Homeward(h, Info(b))'
      BY <1>9, <3>1 DEF BlocksRight
    <3>3. Info(b).super # Client(Info(b).super.s)
      BY <1>12 DEF Client, Server
    <3> QED  BY <3>2, <3>3 DEF Onward
  <2>2. IsHop(Back(b.sub), h - 1) /\ h - 1 \in Hosts /\ h \in Nat
    BY <1>6, <1>12, <2>1, SetupAssumption DEF Homeward, Hosts
  <2>3. Back(Back(b.sub)).from = h - 1 + 1
    BY <2>2, HopForm, BackForm
  <2> QED  BY <1>11, <1>12, <2>2, <2>3, BackForm
<1>15. WireAt(m)'
  <2>1. HasOut(h, m.super, m.sub)'
    BY <1>9, <1>11, <1>12 DEF HasOut
  <2>2. AnswerNoted(h, m.super.s)'
    <3>1. Right(Info(b))
      BY <1>3, InfoRight
    <3>2. ins'[h][Back(Info(b).sub)] = i
      BY <1>3, <1>9, <1>12
    <3> QED  BY <1>3, <1>9, <1>11, <1>12, <3>1, <3>2 DEF AnswerNoted
  <2>3. Beyond(h, m.super.s)'
    BY <1>6, <1>9, <1>11, BeyondStays
  <2>4. h \in 1 .. Last
    BY <1>6, Parts
  <2>5. SynAckRight(m)'
    BY <1>11, <1>14, <2>1, <2>2, <2>3, <2>4 DEF SynAckRight
  <2> QED  BY <1>4, <1>5, <1>11, <2>5 DEF WireAt
<1>16. Types'
  <2>1. work' \in [Hosts -> [Sessions -> Work]]
    BY <1>4, DoneKeeps
  <2>2. DOMAIN tab' = Hosts /\ DOMAIN ins' = Hosts
    BY <1>3, <1>7
  <2>3. ASSUME NEW g \in Hosts
        PROVE  DOMAIN ins'[g] \subseteq Sub /\ ins'[g] \in [DOMAIN ins'[g] -> Input]
    <3>1. DOMAIN ins[g] \subseteq Sub /\ ins[g] \in [DOMAIN ins[g] -> Input]
      BY Parts DEF Types
    <3>2. CASE g = h
      BY <1>3, <3>1, <3>2 DEF InsChanges
    <3>3. CASE g # h
      BY <1>3, <3>1, <3>3 DEF InsChanges
    <3> QED  BY <3>2, <3>3
  <2> QED  BY <1>4, <1>11, <1>13, <2>1, <2>2, <2>3, Parts, LoadStays DEF Types
<1>17. WireRight' /\ InsideRight'
  BY <1>4, <1>9, <1>11, <1>15, WireStays, InsideStays
<1>18. WorkRight'
  <2>1. \A g \in Hosts : \A r, v : WorkAt(g, r, v) =>
           NodeKept(g, v) /\ (v.via = "none" => ~Has(g, Client(r))')
    BY <1>9 DEF WorkAt
  <2> QED  BY <1>4, <1>9, <2>1, DoneKeeps, WorkKept
<1> QED  BY <1>9, <1>16, <1>17, <1>18 DEF SetupInv

\* Where a SYN+ACK arrives.
LEMMA AckArrives ==
    ASSUME SetupInv, NEW m, m \in wire, m.ack, NEW h, m.sub.to = h, NEW s, s = m.super.s
    PROVE  /\ h \in Hosts /\ h + 1 \in Hosts /\ s \in load.sessions /\ s \in Sessions
           /\ HasOut(h, Client(s), Back(m.sub)) /\ Back(m.sub) # NoSub
           /\ Back(Back(m.sub)) = m.sub
           /\ m.sub \in DOMAIN ins[h] /\ ins[h][m.sub].super = Server(s)
           /\ AnswerNoted(h + 1, s) /\ Beyond(h + 1, s)
<1>1. PICK g : g = m.sub.from
  OBVIOUS
<1>2. SynAckRight(m) /\ g \in Hosts /\ g - 1 \in Hosts /\ s \in load.sessions /\ s \in Sessions
  BY <1>1, SynHop, Parts
<1>3. /\ m.super = Server(s) /\ HasOut(g, m.super, m.sub)
      /\ AnswerNoted(g, s) /\ Beyond(g, s)
  BY <1>1, <1>2 DEF SynAckRight
<1>4. PICK q \in Known(g) : q.super = Server(s) /\ q.sub = m.sub
  BY <1>3 DEF HasOut
<1>5. Homeward(g, q) /\ q.super.s = s
  BY ZenonT(60), <1>2, <1>4, Parts, Sides, Forms
<1>6. /\ HasOut(g - 1, Client(s), Back(m.sub)) /\ IsHop(Back(m.sub), g - 1) /\ m.sub \in Sub
  BY <1>4, <1>5 DEF Homeward
<1>7. /\ Back(m.sub).from = g - 1 /\ Back(m.sub) # NoSub /\ Back(Back(m.sub)) = m.sub
      /\ Back(m.sub).from = m.sub.to
  BY <1>2, <1>6, HopForm, BackForm
<1>8. h = g - 1 /\ h + 1 = g
  BY <1>2, <1>7 DEF Hosts
<1>9. PICK r \in Known(h) : r.super = Client(s) /\ r.sub = Back(m.sub)
  BY <1>6, <1>8 DEF HasOut
<1>10. Onward(h, r) /\ r.super.s = s
  <2>1. h \in Hosts /\ ~Client(s).rev /\ Client(s).s = s
    BY <1>2, <1>8, Forms
  <2>2. Onward(h, r)
    BY <1>9, <2>1, Parts, Sides
  <2> QED  BY <1>9, <2>1, <2>2
<1>11. m.sub \in DOMAIN ins[h] /\ ins[h][m.sub].super = Server(s)
  BY <1>7, <1>9, <1>10 DEF Onward
<1> QED  BY <1>2, <1>3, <1>6, <1>7, <1>8, <1>11

\* The SYN+ACK arrives: the numbers of the input block and of the output block.
LEMMA InputSynAckNumbers ==
    ASSUME SetupInv, NEW h, NEW m, m \in wire, m.sub.to = h, InputSynAck(h, m),
           NEW s, s = m.super.s
    PROVE  \E n, b, u, i :
              /\ NumbersStep(h, n, b, u, i, m.sub) /\ m.sub = Back(b.sub)
              /\ b.super = Client(s) /\ b.sub # NoSub /\ i.super = Server(s)
<1>1. PICK x : x = m.sub
  OBVIOUS
<1>2. m.ack
  BY DEF InputSynAck
<1>3. /\ h \in Hosts /\ s \in load.sessions /\ s \in Sessions
      /\ HasOut(h, Client(s), Back(x)) /\ Back(x) # NoSub /\ Back(Back(x)) = x
      /\ x \in DOMAIN ins[h] /\ ins[h][x].super = Server(s)
  BY <1>1, <1>2, AckArrives
<1>4. PICK n : n = Answered(h, x)
  OBVIOUS
<1>5. n = LookupSuper(tab[h], "out", Client(s))
  BY <1>3, <1>4, SuperForm DEF Answered
<1>6. LoadRight /\ TablesRight(tab[h])
  BY <1>3, Parts
<1>7. /\ n \in DOMAIN tab[h].block /\ n # 0
      /\ tab[h].block[n].super = Client(s) /\ tab[h].block[n].sub = Back(x)
  BY <1>3, <1>5, <1>6, Lookup
<1>8. PICK seq, ack : seq = <<s, "server">> /\ ack = <<s, "client">>
  OBVIOUS
<1>9. /\ seq = Iss(Server(s)) /\ ack = Iss(Client(s)) /\ seq \in Numbers /\ ack \in Numbers
      /\ Reverse(Server(s)) = Client(s) /\ Reverse(Client(s)) = Server(s)
  BY <1>3, <1>8, SuperForm
<1>10. /\ tab' = [tab EXCEPT ![h].block[n].iack = seq, ![h].block[n].iseq = ack]
       /\ ins' = [ins EXCEPT ![h][x].iseq = seq, ![h][x].iack = ack]
  BY <1>1, <1>4, <1>7, <1>8 DEF InputSynAck
<1>11. PICK a : a = tab[h].block[n]
  OBVIOUS
<1>12. /\ tab[h] \in TableType /\ a \in Block /\ DOMAIN tab = Hosts /\ DOMAIN ins = Hosts
       /\ ins[h][x] \in Input
  BY <1>3, <1>6, <1>7, <1>11, Parts, TableBlock DEF TablesRight, Types
<1>13. PICK b : b = [a EXCEPT !.iack = seq, !.iseq = ack]
  OBVIOUS
<1>14. PICK i : i = [ins[h][x] EXCEPT !.iseq = seq, !.iack = ack]
  OBVIOUS
<1>15. /\ b \in Block /\ b.super = a.super /\ b.sub = a.sub /\ b.sc = a.sc /\ b.next = a.next
       /\ b.iseq = ack /\ b.iack = seq
  BY <1>9, <1>12, <1>13 DEF Block
<1>16. i \in Input /\ i.super = ins[h][x].super /\ i.iseq = seq /\ i.iack = ack
  BY <1>9, <1>12, <1>14 DEF Input
<1>17. Right(b) /\ Right(i)
  BY <1>3, <1>7, <1>9, <1>11, <1>15, <1>16 DEF Right
<1>18. tab' = [tab EXCEPT ![h] = [tab[h] EXCEPT !.block[n] = b]]
  <2>1. n \in DOMAIN tab[h].block /\ h \in DOMAIN tab
    BY <1>3, <1>7, <1>12
  <2>2. tab' = [tab EXCEPT ![h].block[n].iack = seq, ![h].block[n].iseq = ack]
    BY <1>10
  <2> QED  BY ONLY <1>11, <1>12, <1>13, <2>1, <2>2 DEF TableType
<1>19. ins' = [ins EXCEPT ![h] = [ins[h] EXCEPT ![x] = i]]
  BY <1>3, <1>10, <1>12, <1>14
<1>20. PICK u : u = [tab[h] EXCEPT !.block[n] = b]
  OBVIOUS
<1>21. TabChanges(h, u) /\ InsChanges(h, x, i) /\ DOMAIN ins' = DOMAIN ins
  BY <1>3, <1>12, <1>18, <1>19, <1>20 DEF TabChanges, InsChanges
<1>22. NumbersStep(h, n, b, u, i, x)
  BY <1>3, <1>7, <1>11, <1>15, <1>16, <1>17, <1>18, <1>20, <1>21 DEF NumbersStep
<1> WITNESS n, b, u, i
<1> QED  BY <1>1, <1>3, <1>7, <1>11, <1>15, <1>16, <1>22

\* The SYN+ACK arrives at a host.
LEMMA InputSynAckStep ==
    ASSUME SetupInv, NEW h, NEW m, m \in wire, m.sub.to = h, InputSynAck(h, m)
    PROVE  SetupInv'
<1>1. PICK s : s = m.super.s
  OBVIOUS
<1>2. PICK x : x = m.sub
  OBVIOUS
<1>3. m.ack /\ UNCHANGED <<load, dysco_tag, ports, wire, work>>
  BY DEF InputSynAck
<1>4. /\ h \in Hosts /\ h + 1 \in Hosts /\ s \in load.sessions /\ s \in Sessions
      /\ Back(Back(x)) = x /\ ins[h][x].super = Server(s)
      /\ AnswerNoted(h + 1, s) /\ Beyond(h + 1, s)
  BY <1>1, <1>2, <1>3, AckArrives
<1>5. PICK n, b, u, i :
         /\ NumbersStep(h, n, b, u, i, x) /\ x = Back(b.sub)
         /\ b.super = Client(s) /\ b.sub # NoSub /\ i.super = Server(s)
  BY <1>1, <1>2, InputSynAckNumbers
<1>6. /\ b \in Block /\ Right(b) /\ tab' = [tab EXCEPT ![h] = u] /\ DOMAIN ins' = DOMAIN ins
      /\ InsChanges(h, x, i) /\ i \in Input /\ x \in DOMAIN ins[h] /\ Right(i)
  BY <1>5 DEF NumbersStep
<1>7. /\ Grows /\ (\A g \in Hosts : TablesRight(tab[g])') /\ BlocksRight' /\ InputsRight'
      /\ Info(b) \in Known(h)' /\ ins'[h][x] = i
      /\ \A g \in Hosts : \A r : Has(g, Client(r))' => Has(g, Client(r))
      /\ \A g \in Hosts : \A r, v : WorkAt(g, r, v) => NodeKept(g, v)
  BY <1>3, <1>4, <1>5, Numbered
<1>8. HopNumbered(h, s)'
  <2>1. PICK q : /\ q \in Known(h + 1)' /\ q.super = Server(s) /\ Right(q)
                 /\ Right(ins'[h + 1][Back(q.sub)])
    <3>1. AnswerNoted(h + 1, s)'
      BY <1>4, <1>7, AnswerStays
    <3> QED  BY <3>1 DEF AnswerNoted
  <2>2. PICK r : r = Info(b)
    OBVIOUS
  <2>3. r \in Known(h)' /\ r.super = Client(s) /\ r.sub # NoSub /\ Right(r) /\ r.sub = b.sub
    <3>1. r.super = b.super /\ r.sub = b.sub
      BY <2>2 DEF Info
    <3>2. Right(r)
      BY <1>6, <2>2, InfoRight
    <3> QED  BY <1>5, <1>7, <2>2, <3>1, <3>2
  <2>4. Right(ins'[h][Back(r.sub)])
    BY <1>5, <1>6, <1>7, <2>3
  <2> QED  BY <2>1, <2>3, <2>4 DEF HopNumbered
<1>9. Beyond(h, s)'
  <2>1. Beyond(h + 1, s)'
    BY <1>4, <1>7, BeyondStays
  <2>2. ASSUME NEW j \in h .. Last - 1 PROVE HopNumbered(j, s)'
    <3>1. h \in Nat /\ Last \in Nat
      BY <1>4, Parts
    <3>2. CASE j = h
      BY <1>8, <3>2
    <3>3. CASE j # h
      <4>1. j \in h + 1 .. Last - 1
        BY <3>1, <3>3
      <4> QED  BY <2>1, <4>1 DEF Beyond
    <3> QED  BY <3>2, <3>3
  <2> QED  BY <2>2 DEF Beyond
<1>10. PICK p : p = [ack |-> TRUE, super |-> Server(s), tags |-> m.tags]
  OBVIOUS
<1>11. inside' = [inside EXCEPT ![h] = @ \cup {p}]
  BY <1>2, <1>4, <1>10 DEF InputSynAck
<1>12. p.ack /\ p.super = Server(s) /\ p.super.s = s
  <2>1. p.ack /\ p.super = Server(s)
    BY <1>10
  <2> QED  BY <2>1, Forms
<1>13. p \in Packets
  <2>1. m.tags \in Seq(Nat)
    BY Parts DEF Types, WirePacket
  <2>2. Server(s) \in Super /\ TRUE \in BOOLEAN
    BY <1>4, SuperForm
  <2> QED  BY <1>10, <2>1, <2>2, PacketType
<1>14. InsideAt(h, p)'
  <2>1. Has(h, Client(s))'
    <3>1. Info(b).super = Client(s)
      BY <1>5 DEF Info
    <3> QED  BY <1>7, <3>1 DEF Has
  <2>2. h < Last
    BY <1>4, Parts
  <2> QED  BY <1>3, <1>4, <1>9, <1>12, <2>1, <2>2 DEF InsideAt
<1>15. inside' \in [Hosts -> SUBSET Packets]
       /\ \A g \in Hosts : \A q \in inside'[g] : q \in inside[g] \/ (g = h /\ q = p)
  <2>1. inside \in [Hosts -> SUBSET Packets]
    BY Parts DEF Types
  <2> QED  BY <1>4, <1>11, <1>13, <2>1
<1>16. Types'
  <2>1. DOMAIN tab' = Hosts /\ DOMAIN ins' = Hosts
    BY <1>6, Parts DEF Types
  <2>2. ASSUME NEW g \in Hosts
        PROVE  DOMAIN ins'[g] \subseteq Sub /\ ins'[g] \in [DOMAIN ins'[g] -> Input]
    <3>1. DOMAIN ins[g] \subseteq Sub /\ ins[g] \in [DOMAIN ins[g] -> Input]
      BY Parts DEF Types
    <3>2. CASE g = h
      BY <1>6, <3>1, <3>2 DEF InsChanges
    <3>3. CASE g # h
      BY <1>6, <3>1, <3>3 DEF InsChanges
    <3> QED  BY <3>2, <3>3
  <2> QED  BY <1>3, <1>15, <2>1, <2>2, Parts, LoadStays DEF Types
<1>17. WireRight'
  BY <1>3, <1>7, WireStays
<1>18. InsideRight'
  BY <1>7, <1>14, <1>15, InsideStays
<1>19. WorkRight'
  <2>1. \A g \in Hosts : \A r, v : WorkAt(g, r, v) =>
           NodeKept(g, v) /\ (v.via = "none" => ~Has(g, Client(r))')
    BY <1>7 DEF WorkAt
  <2> QED  BY <1>3, <1>7, <2>1, WorkKept
<1> QED  BY <1>7, <1>16, <1>17, <1>18, <1>19 DEF SetupInv

-----------------------------------------------------------------------------
(* A SYN goes into a new subsession.                                       *)

\* A new input block.
InsAdds(h, x, i) ==
    /\ x \in Sub /\ x \notin DOMAIN ins[h] /\ i \in Input
    /\ ins' = [ins EXCEPT ![h] = InsertInput(ins[h], x, i)]

\* It changes no other input block.
LEMMA InputAdded ==
    ASSUME Types, NEW h, h \in Hosts, NEW x, NEW i, InsAdds(h, x, i)
    PROVE  /\ DOMAIN ins' = Hosts
           /\ \A g \in Hosts : DOMAIN ins'[g] \subseteq Sub /\ ins'[g] \in [DOMAIN ins'[g] -> Input]
           /\ x \in DOMAIN ins'[h] /\ ins'[h][x] = i
           /\ \A g \in Hosts : \A y \in DOMAIN ins[g] :
                 y \in DOMAIN ins'[g] /\ ins'[g][y] = ins[g][y]
           /\ \A g \in Hosts : \A y \in DOMAIN ins'[g] :
                 y \in DOMAIN ins[g] \/ (g = h /\ y = x)
<1>1. DOMAIN ins = Hosts /\ x \in Sub /\ x \notin DOMAIN ins[h] /\ i \in Input
  BY DEF Types, InsAdds
<1>2. \A g \in Hosts : DOMAIN ins[g] \subseteq Sub /\ ins[g] \in [DOMAIN ins[g] -> Input]
  BY DEF Types
<1>3. PICK f : f = InsertInput(ins[h], x, i)
  OBVIOUS
<1>4. f = [y \in DOMAIN ins[h] \cup {x} |-> IF y = x THEN i ELSE ins[h][y]]
  BY <1>3 DEF InsertInput
<1>5. DOMAIN ins' = Hosts /\ ins'[h] = f /\ \A g \in Hosts \ {h} : ins'[g] = ins[g]
  BY <1>1, <1>3 DEF InsAdds
<1>6. /\ DOMAIN f = DOMAIN ins[h] \cup {x} /\ f[x] = i
      /\ \A y \in DOMAIN ins[h] : f[y] = ins[h][y]
  BY <1>1, <1>4
<1>7. DOMAIN f \subseteq Sub /\ f \in [DOMAIN f -> Input]
  <2>1. \A y \in DOMAIN f : f[y] \in Input
    BY <1>1, <1>2, <1>6
  <2> QED  BY <1>1, <1>2, <1>4, <1>6, <2>1
<1>8. ASSUME NEW g \in Hosts
      PROVE  /\ DOMAIN ins'[g] \subseteq Sub /\ ins'[g] \in [DOMAIN ins'[g] -> Input]
             /\ \A y \in DOMAIN ins[g] : y \in DOMAIN ins'[g] /\ ins'[g][y] = ins[g][y]
             /\ \A y \in DOMAIN ins'[g] : y \in DOMAIN ins[g] \/ (g = h /\ y = x)
  <2>1. CASE g = h
    BY <1>5, <1>6, <1>7, <2>1
  <2>2. CASE g # h
    BY <1>2, <1>5, <2>2
  <2> QED  BY <2>1, <2>2
<1> QED  BY <1>5, <1>6, <1>8

\* Its ports are not those of an earlier one.
LEMMA NewSubsession ==
    ASSUME SetupInv, NEW h, h \in Hosts, h < Last, NEW x, x = NewSub(h, Rest(h))
    PROVE  IsHop(x, h) /\ x.ports = ports[h] + 1 /\ Back(x) \notin DOMAIN ins[h]
<1>1. h \in Nat /\ Last \in Nat /\ h + 1 \in Hosts /\ ports[h] \in Nat
  <2>1. h \in Nat /\ Last \in Nat /\ ports[h] \in Nat
    BY Parts DEF Types
  <2>2. h + 1 \in Hosts
    BY <2>1 DEF Hosts
  <2> QED  BY <2>1, <2>2
<1>2. Rest(h)[1] = h + 1
  BY <1>1 DEF Rest
<1>3. x = [from |-> h, to |-> h + 1, ports |-> ports[h] + 1, rev |-> FALSE]
  BY <1>2 DEF NewSub
<1>4. IsHop(x, h) /\ x.ports = ports[h] + 1
  BY <1>1, <1>3 DEF IsHop, Sub
<1>5. ASSUME Back(x) \in DOMAIN ins[h] PROVE FALSE
  <2>1. PICK r \in Known(h) : r.sub = Back(Back(x))
    BY <1>5, InputRecord
  <2>2. r.sub = x /\ ~x.rev /\ x # NoSub
    BY <1>4, <2>1, HopForm
  <2>3. Onward(h, r)
    <3>1. Onward(h, r) \/ Homeward(h, r)
      BY DEF SetupInv, BlocksRight
    <3>2. ~Homeward(h, r)
      BY <2>2, Parts, Sides
    <3> QED  BY <3>1, <3>2
  <2>4. r.sub.ports <= ports[h]
    BY <2>2, <2>3 DEF Onward
  <2> QED  BY <1>1, <1>4, <2>2, <2>4
<1> QED  BY <1>4, <1>5

\* The input block of the way back.
LEMMA ReverseInput ==
    ASSUME NEW b, b \in Block, NEW s, s \in Sessions, b.super = Client(s)
    PROVE  ReverseIn(b) \in Input /\ ReverseIn(b).super = Server(s)
<1>1. Reverse(b.super) = Server(s) /\ Server(s) \in Super
  BY SuperForm
<1>2. b.iseq \in Numbers /\ b.iack \in Numbers
  BY DEF Block
<1> QED  BY <1>1, <1>2 DEF ReverseIn, Input

\* What both ways to send a SYN have in common: the block b of session s, new or
\* in the place of the pending one, and its input block.
SynLeaves(h, s, b, u) ==
    /\ s \in load.sessions /\ h < Last /\ (h > 0 => Has(h, Server(s)))
    /\ b \in Block /\ b.super = Client(s) /\ b.sc = Rest(h) /\ b.sub = NewSub(h, Rest(h))
    /\ tab' = [tab EXCEPT ![h] = u] /\ TablesRight(u)
    /\ ins' = [ins EXCEPT ![h] = InsertInput(ins[h], Back(b.sub), ReverseIn(b))]
    /\ ports' = [ports EXCEPT ![h] = @ + 1] /\ load' = load
    /\ Info(b) \in Infos(u)
    /\ \A r \in Infos(u) : r \in Infos(tab[h]) \/ r = Info(b)
    /\ \A r \in Infos(tab[h]) : r \in Infos(u) \/ (r.super = Client(s) /\ r.sub = NoSub)

\* Such a step keeps everything but the new or the pending block.
LEMMA SynLeft ==
    ASSUME SetupInv, NEW h, h \in Hosts, NEW s, NEW b, NEW u, SynLeaves(h, s, b, u)
    PROVE  /\ Grows /\ (\A g \in Hosts : TablesRight(tab[g])') /\ BlocksRight' /\ InputsRight'
           /\ DOMAIN tab' = Hosts /\ DOMAIN ins' = Hosts /\ ports' \in [Hosts -> Nat]
           /\ \A g \in Hosts : DOMAIN ins'[g] \subseteq Sub /\ ins'[g] \in [DOMAIN ins'[g] -> Input]
           /\ IsHop(b.sub, h) /\ HasOut(h, Client(s), b.sub)' /\ TabChanges(h, u)
           /\ \A g \in Hosts : \A r : Has(g, Client(r))' => Has(g, Client(r)) \/ (g = h /\ r = s)
<1>1. /\ s \in load.sessions /\ h < Last /\ (h > 0 => Has(h, Server(s)))
      /\ b \in Block /\ b.super = Client(s) /\ b.sc = Rest(h) /\ b.sub = NewSub(h, Rest(h))
      /\ tab' = [tab EXCEPT ![h] = u] /\ TablesRight(u) /\ load' = load
      /\ ports' = [ports EXCEPT ![h] = @ + 1]
  BY DEF SynLeaves
<1>2. Types /\ DOMAIN tab = Hosts /\ ports \in [Hosts -> Nat] /\ s \in Sessions
  BY <1>1, Parts DEF Types
<1>3. IsHop(b.sub, h) /\ b.sub.ports = ports[h] + 1 /\ Back(b.sub) \notin DOMAIN ins[h]
  BY <1>1, NewSubsession
<1>4. b.sub # NoSub /\ Back(b.sub) \in Sub /\ Back(Back(b.sub)) = b.sub
  BY <1>3, HopForm
<1>5. PICK i : i = ReverseIn(b)
  OBVIOUS
<1>6. i \in Input /\ i.super = Server(s)
  BY <1>1, <1>2, <1>5, ReverseInput
<1>7. PICK x : x = Back(b.sub)
  OBVIOUS
<1>8. InsAdds(h, x, i)
  BY <1>3, <1>4, <1>5, <1>6, <1>7 DEF InsAdds, SynLeaves
<1>9. /\ DOMAIN ins' = Hosts
      /\ \A g \in Hosts : DOMAIN ins'[g] \subseteq Sub /\ ins'[g] \in [DOMAIN ins'[g] -> Input]
      /\ x \in DOMAIN ins'[h] /\ ins'[h][x] = i
      /\ \A g \in Hosts : \A y \in DOMAIN ins[g] :
            y \in DOMAIN ins'[g] /\ ins'[g][y] = ins[g][y]
      /\ \A g \in Hosts : \A y \in DOMAIN ins'[g] :
            y \in DOMAIN ins[g] \/ (g = h /\ y = x)
  BY <1>2, <1>8, InputAdded
<1>10. TabChanges(h, u) /\ tab'[h] = u /\ DOMAIN tab' = Hosts
       /\ \A g \in Hosts \ {h} : tab'[g] = tab[g]
  BY <1>1, <1>2 DEF TabChanges
<1>11. PICK new : new = Info(b)
  OBVIOUS
<1>12. /\ new.super = Client(s) /\ new.sub = b.sub /\ new.sc = Rest(h)
  BY <1>1, <1>11 DEF Info
<1>13. /\ new \in Known(h)'
       /\ \A r \in Known(h)' : r \in Known(h) \/ r = new
       /\ \A r \in Known(h) : r \in Known(h)' \/ (r.super = Client(s) /\ r.sub = NoSub)
       /\ \A g \in Hosts \ {h} : Known(g)' = Known(g)
  <2>1. Known(h)' = Infos(u)
    BY <1>10 DEF Known
  <2>2. /\ new \in Infos(u) /\ \A r \in Infos(u) : r \in Infos(tab[h]) \/ r = new
        /\ \A r \in Infos(tab[h]) : r \in Infos(u) \/ (r.super = Client(s) /\ r.sub = NoSub)
    BY <1>11 DEF SynLeaves
  <2> QED  BY <1>10, <2>1, <2>2 DEF Known
<1>14. ports' \in [Hosts -> Nat] /\ ports'[h] = ports[h] + 1
       /\ \A g \in Hosts : ports'[g] \in Nat /\ ports[g] <= ports'[g]
  BY <1>1, <1>2
<1>15. Grows
  <2>1. ASSUME NEW g \in Hosts, NEW r \in Known(g)
        PROVE  \E q \in Known(g)' :
                  /\ q.super = r.super
                  /\ r.sub # NoSub => q.sub = r.sub /\ (Right(r) => Right(q))
    BY <1>12, <1>13
  <2> QED  BY <1>1, <1>9, <1>14, <2>1 DEF Grows
<1>16. Onward(h, new)'
  <2>1. new.super.s = s /\ new.super = Client(new.super.s)
    BY <1>12, Forms
  <2>2. h > 0 => Has(h, Server(s))'
    BY <1>1, <1>15, HasStays
  <2>3. /\ IsHop(new.sub, h) /\ new.sub.ports <= ports'[h]
        /\ Back(new.sub) \in DOMAIN ins'[h]
        /\ ins'[h][Back(new.sub)].super = Server(s)
    BY <1>2, <1>3, <1>6, <1>7, <1>9, <1>12, <1>14
  <2> QED  BY <1>1, <1>12, <2>1, <2>2, <2>3 DEF Onward
<1>17. BlocksRight'
  <2>1. ASSUME NEW g \in Hosts, NEW q \in Known(g)'
        PROVE  (\E r \in Known(g) : Same(r, q)) \/ Onward(g, q)' \/ Homeward(g, q)'
    <3>1. CASE q \in Known(g)
      BY <3>1 DEF Same
    <3>2. CASE q \notin Known(g)
      <4>1. g = h /\ q = new
        BY <1>13, <3>2
      <4> QED  BY <1>16, <4>1
    <3> QED  BY <3>1, <3>2
  <2> QED  BY <1>15, <2>1, BlocksStay
<1>18. HasOut(h, Client(s), b.sub)'
  BY <1>12, <1>13 DEF HasOut
<1>19. InputsRight'
  <2>1. ASSUME NEW g \in Hosts, NEW y \in DOMAIN ins'[g]
        PROVE  \/ y \in DOMAIN ins[g]
               \/ Back(y) # NoSub /\ HasOut(g, Reverse(ins[g][y].super), Back(y))'
    <3>1. CASE y \in DOMAIN ins[g]
      BY <3>1
    <3>2. CASE y \notin DOMAIN ins[g]
      <4>1. g = h /\ y = x /\ Back(y) = b.sub /\ Back(y) # NoSub
        BY <1>4, <1>7, <1>9, <3>2
      <4>2. Reverse(ins'[g][y].super) = Client(s)
        BY <1>2, <1>6, <1>9, <4>1, SuperForm
      <4>3. HasOut(g, Reverse(ins[g][y].super), Back(y))'
        BY <1>18, <4>1, <4>2 DEF HasOut
      <4> QED  BY <4>1, <4>3
    <3> QED  BY <3>1, <3>2
  <2> QED  BY <1>15, <2>1, InputsStay
<1>20. ASSUME NEW g \in Hosts PROVE TablesRight(tab[g])'
  <2>1. TablesRight(tab'[g])
    BY <1>1, <1>10, Parts
  <2> QED  BY <1>1, <2>1, TablesKept
<1>21. ASSUME NEW g \in Hosts, NEW r, Has(g, Client(r))'
       PROVE  Has(g, Client(r)) \/ (g = h /\ r = s)
  <2>1. PICK q \in Known(g)' : q.super = Client(r)
    BY <1>21 DEF Has
  <2>2. CASE q \in Known(g)
    BY <2>1, <2>2 DEF Has
  <2>3. CASE q \notin Known(g)
    <3>1. g = h /\ Client(r) = Client(s)
      BY <1>12, <1>13, <2>1, <2>3
    <3> QED  BY <3>1 DEF Client
  <2> QED  BY <2>2, <2>3
<1> QED  BY <1>3, <1>9, <1>10, <1>14, <1>15, <1>17, <1>18, <1>19, <1>20, <1>21

\* A SYN is sent into a new subsession.
LEMMA SynLeavesStep ==
    ASSUME SetupInv, NEW h, h \in Hosts, NEW s, s \in Sessions, NEW b, NEW u,
           SynLeaves(h, s, b, u), NEW tags, tags \in Seq(Nat),
           wire' = wire \cup {SynOnWire(b, tags)}, Done(h, s),
           dysco_tag' = dysco_tag, inside' = inside,
           \A g \in Hosts : \A r, v : WorkAt(g, r, v) /\ ~(g = h /\ r = s) => NodeKept(g, v)
    PROVE  SetupInv'
<1>1. /\ Grows /\ (\A g \in Hosts : TablesRight(tab[g])') /\ BlocksRight' /\ InputsRight'
      /\ DOMAIN tab' = Hosts /\ DOMAIN ins' = Hosts /\ ports' \in [Hosts -> Nat]
      /\ \A g \in Hosts : DOMAIN ins'[g] \subseteq Sub /\ ins'[g] \in [DOMAIN ins'[g] -> Input]
      /\ IsHop(b.sub, h) /\ HasOut(h, Client(s), b.sub)'
      /\ \A g \in Hosts : \A r : Has(g, Client(r))' => Has(g, Client(r)) \/ (g = h /\ r = s)
  BY SynLeft
<1>2. s \in load.sessions /\ b.super = Client(s) /\ b.sc = Rest(h) /\ load' = load
  BY DEF SynLeaves
<1>3. SynOnWire(b, tags) \in WirePacket /\ WireAt(SynOnWire(b, tags))'
  BY <1>1, <1>2, SynSent
<1>4. Types'
  <2>1. work' \in [Hosts -> [Sessions -> Work]]
    BY DoneKeeps
  <2> QED  BY <1>1, <1>2, <1>3, <2>1, Parts, LoadStays DEF Types
<1>5. WireRight' /\ InsideRight'
  BY <1>1, <1>3, WireStays, InsideStays
<1>6. WorkRight'
  <2>1. SUFFICES ASSUME NEW g \in Hosts, NEW r \in Sessions, NEW v, v = work'[g][r],
                        v # Idle
                 PROVE  /\ v = work[g][r]
                        /\ WorkAt(g, r, v) =>
                              NodeKept(g, v) /\ (v.via = "none" => ~Has(g, Client(r))')
    BY <1>1, WorkKept
  <2>2. v = work[g][r] /\ ~(g = h /\ r = s)
    BY <2>1, DoneKeeps
  <2>3. ASSUME WorkAt(g, r, v), v.via = "none" PROVE ~Has(g, Client(r))'
    <3>1. ~Has(g, Client(r))
      BY <2>3 DEF WorkAt
    <3> QED  BY <1>1, <2>2, <3>1
  <2>4. ASSUME WorkAt(g, r, v) PROVE NodeKept(g, v)
    BY <2>2, <2>4
  <2> QED  BY <2>2, <2>3, <2>4
<1> QED  BY <1>1, <1>4, <1>5, <1>6 DEF SetupInv

\* The pending block of a SYN gets its subsession.
PendingGone(h, s, n, b, u, tags) ==
    /\ SynLeaves(h, s, b, u) /\ Renamed(tab[h], u, b, n)
    /\ n \in DOMAIN tab[h].block /\ tab[h].block[n].super = Client(s)
    /\ tags \in Seq(Nat) /\ wire' = wire \cup {SynOnWire(b, tags)}

\* dysco_out_handle_mb does just that.
LEMMA PendingLeaves ==
    ASSUME SetupInv, NEW h, h \in Hosts, NEW s, s \in Sessions, OutPending(h, s),
           NEW w, w = work[h][s], NEW n, n = w.node
    PROVE  \E b, u, tags : PendingGone(h, s, n, b, u, tags)
<1>1. PICK t : t = tab[h]
  OBVIOUS
<1>2. PICK a : a = t.block[n]
  OBVIOUS
<1>3. PICK p : p = w.pkt
  OBVIOUS
<1>4. w.via = "pen" /\ HandleMb(h, n, p, a) /\ load' = load
  BY <1>1, <1>2, <1>3 DEF OutPending
<1>5. /\ WorkAt(h, s, w) /\ p.tags \in Seq(Nat) /\ s \in load.sessions
  BY <1>3, <1>4, AtHand
<1>6. n \in Pend(t) /\ a.super = Client(s) /\ p.super = Client(s)
  BY <1>1, <1>2, <1>3, <1>4, <1>5 DEF WorkAt
<1>7. n \in DOMAIN t.block /\ a.sub = NoSub
  BY <1>2, <1>6 DEF Pend
<1>8. /\ TablesRight(t) /\ t \in TableType /\ a \in Block /\ LoadRight /\ DOMAIN tab = Hosts
  BY ZenonT(60), <1>1, <1>2, <1>7, Parts, TableBlock DEF TablesRight, Types
<1>9. PICK old : old = Info(a)
  OBVIOUS
<1>10. /\ old \in Known(h) /\ Onward(h, old) /\ old.super = Client(s) /\ old.sub = NoSub
       /\ a.sc = Rest(h) /\ h < Last
  <2>1. old.super = Client(s) /\ old.sub = NoSub
    BY <1>6, <1>7, <1>9 DEF Info
  <2> QED  BY <1>1, <1>2, <1>6, <1>7, <1>9, <2>1, FromClient
<1>11. h > 0 => Has(h, Server(s))
  BY <1>10, Forms DEF Onward
<1>12. PICK t1 : t1 = Remove(t, "pen", Bucket(a.super), n)
  OBVIOUS
<1>13. PICK t2 : t2 = Remove(t1, "tag", 0, n)
  OBVIOUS
<1>14. t2.block[n].next \in Nat
  <2>1. Taken(t, t2, n)
    BY ZenonT(30), <1>2, <1>6, <1>8, <1>12, <1>13, TakenOut
  <2>2. t2 \in TableType /\ n \in DOMAIN t2.block
    BY <1>7, <2>1 DEF Taken, Without
  <2> QED  BY <2>2, TableBlock
<1>15. PICK tag : tag = IF p.tags = <<>> THEN a.tag ELSE Parsed(p.tags[Len(p.tags)])
  OBVIOUS
<1>16. tag \in Int
  <2>1. CASE p.tags = <<>>
    BY <1>8, <1>15, <2>1 DEF Block
  <2>2. CASE p.tags # <<>>
    <3>1. p.tags[Len(p.tags)] \in Nat
      BY <1>5, <2>2
    <3> QED  BY <1>15, <2>2, <3>1, SetupAssumption DEF Parsed
  <2> QED  BY <2>1, <2>2
<1>17. PICK sub : sub = NewSub(h, Rest(h))
  OBVIOUS
<1>18. IsHop(sub, h) /\ sub \in Sub /\ sub # NoSub
  <2>1. IsHop(sub, h)
    BY <1>10, <1>17, NewSubsession
  <2> QED  BY <2>1, HopForm
<1>19. Iss(p.super) \in Numbers
  BY <1>6, SuperForm
<1>20. PICK b : b = [a EXCEPT !.sub = NewSub(h, a.sc), !.iseq = Iss(p.super), !.tag = tag,
                              !.next = t2.block[n].next]
  OBVIOUS
<1>21. /\ b \in Block /\ b.super = Client(s) /\ b.sub = sub /\ b.sc = Rest(h)
  <2>1. b = [a EXCEPT !.sub = sub, !.iseq = Iss(p.super), !.tag = tag,
                      !.next = t2.block[n].next]
    BY <1>10, <1>17, <1>20
  <2> QED  BY <1>6, <1>8, <1>10, <1>14, <1>16, <1>18, <1>19, <2>1 DEF Block
<1>22. PICK u : u = Moved(t, b, n)
  OBVIOUS
<1>23. /\ tab' = [tab EXCEPT ![h] = u]
       /\ ins' = [ins EXCEPT ![h] = InsertInput(ins[h], Back(b.sub), ReverseIn(b))]
       /\ ports' = [ports EXCEPT ![h] = @ + 1]
       /\ wire' = wire \cup
            {SynOnWire(b, IF p.tags = <<>> THEN <<>> ELSE SubSeq(p.tags, 1, Len(p.tags) - 1))}
  <2>1. b.super = a.super
    BY <1>6, <1>21
  <2> QED  BY ZenonT(60), <1>1, <1>2, <1>4, <1>12, <1>13, <1>15, <1>20, <1>22, <2>1
       DEF HandleMb, Moved
<1>24. TablesRight(u) /\ Renamed(t, u, b, n) /\ Infos(u) = (Infos(t) \ {old}) \cup {Info(b)}
  <2>1. b.super = t.block[n].super /\ b.sub # NoSub
    BY <1>2, <1>6, <1>18, <1>21
  <2> QED  BY <1>2, <1>6, <1>8, <1>9, <1>21, <1>22, <2>1, MovedOut
<1>25. SynLeaves(h, s, b, u)
  <2>1. /\ Info(b) \in Infos(u)
        /\ \A r \in Infos(u) : r \in Infos(tab[h]) \/ r = Info(b)
        /\ \A r \in Infos(tab[h]) : r \in Infos(u) \/ (r.super = Client(s) /\ r.sub = NoSub)
    BY <1>1, <1>10, <1>24
  <2> QED  BY <1>4, <1>5, <1>10, <1>11, <1>17, <1>21, <1>23, <1>24, <2>1 DEF SynLeaves
<1>26. PICK tags : tags = IF p.tags = <<>> THEN <<>> ELSE SubSeq(p.tags, 1, Len(p.tags) - 1)
  OBVIOUS
<1>27. tags \in Seq(Nat)
  <2>1. CASE p.tags = <<>>
    BY <1>26, <2>1
  <2>2. CASE p.tags # <<>>
    <3>1. Len(p.tags) \in Nat /\ Len(p.tags) > 0
      BY <1>5, <2>2
    <3>2. SubSeq(p.tags, 1, Len(p.tags) - 1) \in Seq(Nat)
      BY <1>5, <3>1, SubSeqProperties
    <3> QED  BY <1>26, <2>2, <3>2
  <2> QED  BY <2>1, <2>2
<1>28. PendingGone(h, s, n, b, u, tags)
  BY <1>1, <1>2, <1>6, <1>7, <1>23, <1>24, <1>25, <1>26, <1>27 DEF PendingGone
<1> QED  BY <1>28

\* The middlebox sends a SYN that is pending.
LEMMA OutPendingStep ==
    ASSUME SetupInv, NEW h, h \in Hosts, NEW s, s \in Sessions, OutPending(h, s)
    PROVE  SetupInv'
<1>1. PICK w : w = work[h][s]
  OBVIOUS
<1>2. PICK n : n = w.node
  OBVIOUS
<1>a. PICK b, u, tags : PendingGone(h, s, n, b, u, tags)
  BY <1>1, <1>2, PendingLeaves
<1>3. /\ SynLeaves(h, s, b, u) /\ Renamed(tab[h], u, b, n)
      /\ n \in DOMAIN tab[h].block /\ tab[h].block[n].super = Client(s)
      /\ tags \in Seq(Nat) /\ wire' = wire \cup {SynOnWire(b, tags)}
  BY <1>a DEF PendingGone
<1>4. Done(h, s) /\ dysco_tag' = dysco_tag /\ inside' = inside
  BY DEF OutPending
<1>5. ASSUME NEW g \in Hosts, NEW r, NEW v, WorkAt(g, r, v), ~(g = h /\ r = s)
      PROVE  NodeKept(g, v)
  <2>1. TabChanges(h, u)
    BY <1>3, SynLeft
  <2>2. b.super = tab[h].block[n].super
    BY <1>3 DEF SynLeaves
  <2>3. CASE ~(g = h /\ v.node = n)
    <3>1. WorkAt(g, r, v)
      BY <1>5
    <3>2. n \in DOMAIN tab[h].block /\ Renamed(tab[h], u, b, n)
      BY <1>3
    <3> QED  BY ONLY ZenonT(60), SetupInv, h \in Hosts, g \in Hosts, <2>1, <2>2, <2>3, <3>1, <3>2,
                    RenamedNodes
  <2>4. CASE g = h /\ v.node = n
    <3>1. ASSUME v.via \in {"pen", "out"} PROVE FALSE
      <4>1. v.pkt.super.s = r /\ tab[h].block[n].super = v.pkt.super
        BY <1>5, <2>4, <3>1 DEF WorkAt
      <4>2. r = s
        BY ZenonT(60), <1>3, <4>1, Forms
      <4> QED  BY <1>5, <2>4, <4>2
    <3> QED  BY <3>1 DEF NodeKept
  <2> QED  BY <2>3, <2>4
<1> QED  BY <1>3, <1>4, <1>5, SynLeavesStep

\* New blocks leave what was looked up where it is.
LEMMA KeptNodes ==
    ASSUME SetupInv, NEW h, h \in Hosts, NEW u, TabChanges(h, u), Kept(tab[h], u),
           NEW g, g \in Hosts, NEW s, NEW w, WorkAt(g, s, w)
    PROVE  NodeKept(g, w)
<1>1. tab'[h] = u /\ (g # h => tab'[g] = tab[g])
  BY DEF TabChanges
<1>2. w.via \in {"pen", "out"} => w.node \in DOMAIN tab[g].block
  BY DEF WorkAt, Pend
<1>3. CASE g # h
  BY <1>1, <1>2, <1>3 DEF NodeKept
<1>4. CASE g = h
  BY <1>1, <1>2, <1>4 DEF NodeKept, Kept
<1> QED  BY <1>3, <1>4

\* The type of a new block.
LEMMA NewBlockType ==
    ASSUME NEW super, super \in Super, NEW sub, sub \in Sub, NEW sc, sc \in Chains,
           NEW b, b = NewBlock(super, sub, sc)
    PROVE  b \in Block /\ b.super = super /\ b.sub = sub /\ b.sc = sc
<1>1. NoIss \in Numbers
  BY DEF Numbers
<1>2. b = [super |-> super, sub |-> sub, sc |-> sc, next |-> 0, tag |-> 0,
           iseq |-> NoIss, iack |-> NoIss]
  BY DEF NewBlock
<1> QED  BY <1>1, <1>2 DEF Block

\* The policy of the client's host.
LEMMA OutSynPolicyStep ==
    ASSUME SetupInv, NEW h, h \in Hosts, NEW s, s \in Sessions, OutSynPolicy(h, s)
    PROVE  SetupInv'
<1>1. PICK w : w = work[h][s]
  OBVIOUS
<1>2. PICK b : b = NewBlock(w.pkt.super, NewSub(h, Rest(h)), Rest(h))
  OBVIOUS
<1>3. /\ w.via = "none" /\ Done(h, s) /\ dysco_tag' = dysco_tag /\ inside' = inside
      /\ load' = load /\ wire' = wire \cup {SynOnWire(b, w.pkt.tags)}
      /\ ports' = [ports EXCEPT ![h] = @ + 1]
      /\ tab' = [tab EXCEPT ![h] =
                   Insert(Alloc(tab[h], b), "out", Bucket(b.super), Len(tab[h].block) + 1)]
      /\ ins' = [ins EXCEPT ![h] = InsertInput(ins[h], Back(b.sub), ReverseIn(b))]
  BY <1>1, <1>2 DEF OutSynPolicy
<1>4. WorkAt(h, s, w) /\ w.pkt.tags \in Seq(Nat) /\ s \in load.sessions
  BY <1>1, <1>3, AtHand
<1>5. h = 0 /\ w.pkt.super = Client(s) /\ ~Has(h, Client(s))
  BY <1>3, <1>4 DEF WorkAt
<1>6. h < Last
  BY <1>5, Parts
<1>7. PICK sub : sub = NewSub(h, Rest(h))
  OBVIOUS
<1>8. sub \in Sub /\ sub # NoSub
  <2>1. IsHop(sub, h)
    BY <1>6, <1>7, NewSubsession
  <2> QED  BY <2>1, HopForm
<1>9. b \in Block /\ b.super = Client(s) /\ b.sub = sub /\ b.sc = Rest(h)
  <2>1. Client(s) \in Super /\ Rest(h) \in Chains
    BY SuperForm DEF Chains
  <2>2. b = NewBlock(Client(s), sub, Rest(h))
    BY <1>2, <1>5, <1>7
  <2> QED  BY <1>8, <2>1, <2>2, NewBlockType
<1>10. PICK t : t = tab[h]
  OBVIOUS
<1>11. TablesRight(t) /\ LoadRight /\ DOMAIN tab = Hosts
  BY <1>10, Parts DEF Types
<1>12. Fresh(t, b)
  <2>1. \A n \in DOMAIN t.block : t.block[n].super # Client(s)
    BY <1>5, <1>10, NodeKnown DEF Has
  <2>2. b.super.s = s /\ b.super.by = {}
    BY <1>9, Forms
  <2> QED  BY <1>4, <1>9, <2>1, <2>2 DEF Fresh
<1>13. PICK u : u = Insert(Alloc(t, b), "out", Bucket(b.super), Len(t.block) + 1)
  OBVIOUS
<1>14. TablesRight(u) /\ Kept(t, u) /\ Infos(u) = Infos(t) \cup {Info(b)}
  BY <1>8, <1>9, <1>11, <1>12, <1>13, AllocOut
<1>15. SynLeaves(h, s, b, u)
  BY <1>3, <1>4, <1>5, <1>6, <1>7, <1>9, <1>10, <1>13, <1>14 DEF SynLeaves
<1>16. ASSUME NEW g \in Hosts, NEW r, NEW v, WorkAt(g, r, v) PROVE NodeKept(g, v)
  <2>1. TabChanges(h, u)
    BY <1>15, SynLeft
  <2> QED  BY <1>10, <1>14, <1>16, <2>1, KeptNodes
<1> QED  BY <1>3, <1>4, <1>15, <1>16, SynLeavesStep

-----------------------------------------------------------------------------
(* A SYN arrives.                                                          *)

\* The rest of a chain, one host on.
LEMMA RestStep ==
    ASSUME NEW g, g \in Hosts, g < Last
    PROVE  /\ Len(Rest(g)) = Last - g /\ Tail(Rest(g)) = Rest(g + 1)
           /\ Rest(Last) = <<>>
<1>1. g \in Nat /\ Last \in Nat
  BY SetupAssumption DEF Hosts
<1>2. Rest(g) = [i \in 1 .. Last - g |-> g + i] /\ Rest(g) \in Seq(Nat) /\ Len(Rest(g)) = Last - g
  BY <1>1 DEF Rest
<1>3. Tail(Rest(g)) = [i \in 1 .. Last - g - 1 |-> g + i + 1]
  BY <1>1, <1>2
<1>4. Rest(g + 1) = [i \in 1 .. Last - g - 1 |-> g + i + 1]
  BY <1>1 DEF Rest
<1>5. Rest(Last) = <<>>
  BY <1>1 DEF Rest
<1> QED  BY <1>2, <1>3, <1>4, <1>5

\* A host knows nothing of a session whose SYN is new to it.
LEMMA SynIsNew ==
    ASSUME SetupInv, NEW m, m \in wire, ~m.ack, NEW h, m.sub.to = h, m.sub \notin DOMAIN ins[h],
           NEW s, s = m.super.s
    PROVE  /\ h \in Hosts /\ h > 0 /\ h - 1 \in Hosts /\ s \in load.sessions /\ s \in Sessions
           /\ IsHop(m.sub, h - 1) /\ m.super = Client(s) /\ m.sc = Rest(h - 1)
           /\ HasOut(h - 1, Client(s), m.sub)
           /\ ~Has(h, Client(s)) /\ ~Has(h, Server(s))
<1>1. PICK g : g = m.sub.from
  OBVIOUS
<1>2. SynRight(m) /\ g \in Hosts /\ g + 1 \in Hosts /\ s \in load.sessions /\ s \in Sessions
  BY <1>1, SynHop, Parts
<1>3. IsHop(m.sub, g) /\ m.super = Client(s) /\ m.sc = Rest(g) /\ HasOut(g, Client(s), m.sub)
  BY <1>1, <1>2 DEF SynRight
<1>4. h = g + 1 /\ g = h - 1 /\ h > 0 /\ h \in Hosts
  BY <1>2, <1>3 DEF IsHop, Hosts
<1>5. ASSUME Has(h, Server(s)) PROVE FALSE
  <2>1. PICK r \in Known(h) : r.super = Server(s)
    BY <1>5 DEF Has
  <2>a. Homeward(h, r)
    BY <1>4, <2>1, Parts, Sides
  <2>b. r.super.s = s
    BY <2>1 DEF Client, Server
  <2>2. Homeward(h, r) /\ r.super.s = s
    BY <2>a, <2>b
  <2>3. HasOut(h - 1, Client(s), Back(r.sub)) /\ Back(r.sub) \in DOMAIN ins[h]
    BY <2>2 DEF Homeward
  <2>4. PICK q \in Known(g) : q.super = Client(s) /\ q.sub = Back(r.sub)
    BY <1>4, <2>3 DEF HasOut
  <2>5. PICK p \in Known(g) : p.super = Client(s) /\ p.sub = m.sub
    BY <1>3 DEF HasOut
  <2>6. TablesRight(tab[g])
    BY <1>2, Parts
  <2>7. p = q
    BY <2>4, <2>5, <2>6, OneRecord
  <2> QED  BY <2>3, <2>4, <2>5, <2>7
<1>6. ASSUME Has(h, Client(s)) PROVE FALSE
  <2>1. PICK r \in Known(h) : r.super = Client(s)
    BY <1>6 DEF Has
  <2>a. Onward(h, r)
    BY <1>4, <2>1, Parts, Sides
  <2>b. r.super.s = s
    BY <2>1 DEF Client, Server
  <2>2. Onward(h, r) /\ r.super.s = s
    BY <2>a, <2>b
  <2> QED  BY <1>4, <1>5, <2>2 DEF Onward
<1> QED  BY <1>2, <1>3, <1>4, <1>5, <1>6

\* The blocks that a SYN brings.
SynBlocks(h, s, u, x) ==
    /\ TablesRight(u) /\ Kept(tab[h], u)
    /\ \E r \in Infos(u) : r.super = Server(s) /\ r.sub = Back(x)
    /\ h < Last => \E r \in Infos(u) : r.super = Client(s)
    /\ \A r \in Infos(u) :
          \/ r \in Infos(tab[h])
          \/ r.super = Server(s) /\ r.sub = Back(x)
          \/ r.super = Client(s) /\ r.sub = NoSub /\ r.sc = Rest(h) /\ h < Last
    /\ \A r \in Infos(tab[h]) : r \in Infos(u)

\* dysco_insert_pending and dysco_insert_cb_in_reverse bring just these.
LEMMA SynGetsBlocks ==
    ASSUME SetupInv, NEW m, m \in wire, NEW h, m.sub.to = h, InputSyn(h, m),
           NEW s, s = m.super.s
    PROVE  \E u : SynBlocks(h, s, u, m.sub) /\ tab' = [tab EXCEPT ![h] = u]
<1>1. PICK x : x = m.sub
  OBVIOUS
<1>2. ~m.ack /\ x \notin DOMAIN ins[h]
  BY <1>1 DEF InputSyn
<1>3. /\ h \in Hosts /\ h > 0 /\ h - 1 \in Hosts /\ s \in load.sessions /\ s \in Sessions
      /\ IsHop(x, h - 1) /\ m.super = Client(s) /\ m.sc = Rest(h - 1)
      /\ ~Has(h, Client(s)) /\ ~Has(h, Server(s))
  BY <1>1, <1>2, SynIsNew
<1>4. PICK t0 : t0 = tab[h]
  OBVIOUS
<1>5. TablesRight(t0) /\ LoadRight
  BY <1>3, <1>4, Parts
<1>6. \A n \in DOMAIN t0.block :
         t0.block[n].super # Client(s) /\ t0.block[n].super # Server(s)
  BY <1>3, <1>4, NodeKnown DEF Has
<1>7. PICK t : t = InsertPending(t0, m)
  OBVIOUS
<1>8. PICK b : b = [NewBlock(Reverse(m.super), Back(x), <<>>) EXCEPT !.iack = Iss(m.super)]
  OBVIOUS
<1>9. tab' = [tab EXCEPT ![h] = Insert(Alloc(t, b), "out", Bucket(b.super), Len(t.block) + 1)]
  BY <1>1, <1>4, <1>7, <1>8 DEF InputSyn
<1>10. /\ Client(s) \in Super /\ Server(s) \in Super /\ Reverse(m.super) = Server(s)
       /\ Iss(m.super) \in Numbers
       /\ Client(s).s = s /\ Client(s).by = {} /\ Server(s).s = s /\ Server(s).by = {}
       /\ ~Client(s).rev /\ Client(s) # Server(s)
  <2>1. /\ Client(s).s = s /\ Client(s).by = {} /\ Server(s).s = s /\ Server(s).by = {}
        /\ ~Client(s).rev /\ Client(s) # Server(s)
    BY Forms
  <2>2. /\ Client(s) \in Super /\ Server(s) \in Super /\ Reverse(Client(s)) = Server(s)
        /\ Iss(Client(s)) \in Numbers
    BY <1>3, SuperForm
  <2> QED  BY <1>3, <2>1, <2>2
<1>11. Back(x) \in Sub /\ Back(x) # NoSub
  BY <1>3, HopForm
<1>12. h \in Nat /\ Last \in Nat /\ h <= Last
  BY <1>3, Parts
<1>13. /\ TablesRight(t) /\ Kept(t0, t)
       /\ \A n \in DOMAIN t.block : t.block[n].super # Server(s)
       /\ h < Last => \E r \in Infos(t) : r.super = Client(s)
       /\ \A r \in Infos(t) :
             \/ r \in Infos(t0)
             \/ r.super = Client(s) /\ r.sub = NoSub /\ r.sc = Rest(h) /\ h < Last
       /\ \A r \in Infos(t0) : r \in Infos(t)
  <2>1. Len(m.sc) = Last - (h - 1) /\ Tail(m.sc) = Rest(h)
    <3>1. PICK g : g = h - 1
      OBVIOUS
    <3>2. g \in Hosts /\ g < Last /\ g + 1 = h
      BY <1>3, <1>12, <3>1
    <3> QED  BY <1>3, <3>1, <3>2, RestStep
  <2>2. CASE h < Last
    <3>1. PICK a : a = NewBlock(Client(s), NoSub, Rest(h))
      OBVIOUS
    <3>2. a \in Block /\ a.super = Client(s) /\ a.sub = NoSub /\ a.sc = Rest(h)
      <4>1. NoSub \in Sub
        BY Parts DEF NoSub, Sub
      <4>2. Rest(h) \in Chains
        BY <1>3 DEF Chains
      <4> QED  BY <1>10, <3>1, <4>1, <4>2, NewBlockType
    <3>3. t = Insert(Insert(Alloc(t0, a), "pen", Bucket(a.super), Len(t0.block) + 1),
                     "tag", 0, Len(t0.block) + 1)
      <4>1. Len(m.sc) > 1
        BY <1>12, <2>1, <2>2
      <4>2. a = NewBlock(m.super, NoSub, Tail(m.sc)) /\ a.super = m.super
        BY <1>3, <2>1, <3>1, <3>2
      <4> QED  BY <1>7, <4>1, <4>2 DEF InsertPending
    <3>4. Fresh(t0, a)
      BY <1>3, <1>6, <1>10, <3>2 DEF Fresh
    <3>5. TablesRight(t) /\ Kept(t0, t) /\ Infos(t) = Infos(t0) \cup {Info(a)}
      <4>1. a.sub = NoSub /\ ~a.super.rev
        BY <1>10, <3>2
      <4> QED  BY <1>5, <3>3, <3>4, <4>1, AllocPending
    <3>6. Info(a).super = Client(s) /\ Info(a).sub = NoSub /\ Info(a).sc = Rest(h)
      BY <3>2 DEF Info
    <3>7. ASSUME NEW n \in DOMAIN t.block PROVE t.block[n].super # Server(s)
      <4>1. Info(t.block[n]) \in Infos(t) /\ Info(t.block[n]).super = t.block[n].super
        BY DEF Infos, Info
      <4>2. \A r \in Infos(t0) : r.super # Server(s)
        BY <1>6 DEF Infos, Info
      <4> QED  BY <1>10, <3>5, <3>6, <4>1, <4>2
    <3> QED  BY <2>2, <3>5, <3>6, <3>7
  <2>3. CASE ~(h < Last)
    <3>1. t = t0
      BY <1>7, <1>12, <2>1, <2>3 DEF InsertPending
    <3> QED  BY <1>5, <1>6, <2>3, <3>1 DEF Kept
  <2> QED  BY <2>2, <2>3
<1>14. b \in Block /\ b.super = Server(s) /\ b.sub = Back(x)
  <2>1. <<>> \in Chains
    <3>1. Rest(Last) = <<>>
      BY <1>12 DEF Rest
    <3> QED  BY <3>1, Parts DEF Chains
  <2>2. PICK a : a = NewBlock(Server(s), Back(x), <<>>)
    OBVIOUS
  <2>3. a \in Block /\ a.super = Server(s) /\ a.sub = Back(x)
    BY <1>10, <1>11, <2>1, <2>2, NewBlockType
  <2>4. b = [a EXCEPT !.iack = Iss(m.super)]
    BY <1>8, <1>10, <2>2
  <2> QED  BY <1>10, <2>3, <2>4 DEF Block
<1>15. PICK u : u = Insert(Alloc(t, b), "out", Bucket(b.super), Len(t.block) + 1)
  OBVIOUS
<1>16. Fresh(t, b)
  BY <1>3, <1>10, <1>13, <1>14 DEF Fresh
<1>17. TablesRight(u) /\ Kept(t, u) /\ Infos(u) = Infos(t) \cup {Info(b)}
  BY <1>5, <1>11, <1>13, <1>14, <1>15, <1>16, AllocOut
<1>18. Kept(t0, u)
  BY <1>13, <1>17 DEF Kept
<1>19. Info(b).super = Server(s) /\ Info(b).sub = Back(x)
  BY <1>14 DEF Info
<1>20. SynBlocks(h, s, u, x)
  BY <1>4, <1>13, <1>17, <1>18, <1>19 DEF SynBlocks
<1> QED  BY <1>1, <1>9, <1>15, <1>20

\* A SYN arrives for the first time.
LEMMA InputSynStep ==
    ASSUME SetupInv, NEW h, NEW m, m \in wire, m.sub.to = h, InputSyn(h, m)
    PROVE  SetupInv'
<1>1. PICK s : s = m.super.s
  OBVIOUS
<1>2. PICK x : x = m.sub
  OBVIOUS
<1>3. ~m.ack /\ x \notin DOMAIN ins[h] /\ SynToStack(h, m, m.super)
      /\ UNCHANGED <<load, ports, wire, work, again>>
  BY <1>2 DEF InputSyn
<1>4. /\ h \in Hosts /\ h > 0 /\ h - 1 \in Hosts /\ s \in load.sessions /\ s \in Sessions
      /\ IsHop(x, h - 1) /\ m.super = Client(s) /\ HasOut(h - 1, Client(s), x)
  BY <1>1, <1>2, <1>3, SynIsNew
<1>5. PICK u : SynBlocks(h, s, u, x) /\ tab' = [tab EXCEPT ![h] = u]
  BY <1>1, <1>2, SynGetsBlocks
<1>6. /\ TablesRight(u) /\ Kept(tab[h], u)
      /\ \E r \in Infos(u) : r.super = Server(s) /\ r.sub = Back(x)
      /\ h < Last => \E r \in Infos(u) : r.super = Client(s)
      /\ \A r \in Infos(u) :
            \/ r \in Infos(tab[h])
            \/ r.super = Server(s) /\ r.sub = Back(x)
            \/ r.super = Client(s) /\ r.sub = NoSub /\ r.sc = Rest(h) /\ h < Last
      /\ \A r \in Infos(tab[h]) : r \in Infos(u)
  BY <1>5 DEF SynBlocks
<1>7. DOMAIN tab = Hosts /\ Types
  BY Parts DEF Types
<1>8. tab'[h] = u /\ DOMAIN tab' = Hosts /\ (\A g \in Hosts \ {h} : tab'[g] = tab[g])
      /\ TabChanges(h, u)
  BY <1>4, <1>5, <1>7 DEF TabChanges
<1>9. Known(h)' = Infos(u) /\ Known(h) = Infos(tab[h])
      /\ \A g \in Hosts \ {h} : Known(g)' = Known(g)
  BY <1>8 DEF Known
<1>10. PICK i : i = [super |-> m.super, iseq |-> NoIss, iack |-> NoIss]
  OBVIOUS
<1>11. i \in Input /\ i.super = Client(s)
  <2>1. NoIss \in Numbers
    BY DEF Numbers
  <2> QED  BY <1>4, <1>10, <2>1, SuperForm DEF Input
<1>12. x \in Sub /\ Back(x) \in Sub /\ Back(x) # NoSub /\ x # NoSub /\ Back(Back(x)) = x
  BY <1>4, HopForm
<1>13. InsAdds(h, x, i)
  BY <1>2, <1>3, <1>10, <1>11, <1>12 DEF InsAdds, InputSyn
<1>14. /\ DOMAIN ins' = Hosts
       /\ \A g \in Hosts : DOMAIN ins'[g] \subseteq Sub /\ ins'[g] \in [DOMAIN ins'[g] -> Input]
       /\ x \in DOMAIN ins'[h] /\ ins'[h][x] = i
       /\ \A g \in Hosts : \A y \in DOMAIN ins[g] :
             y \in DOMAIN ins'[g] /\ ins'[g][y] = ins[g][y]
       /\ \A g \in Hosts : \A y \in DOMAIN ins'[g] :
             y \in DOMAIN ins[g] \/ (g = h /\ y = x)
  BY <1>4, <1>7, <1>13, InputAdded
<1>15. Grows
  <2>1. \A g \in Hosts : \A r \in Known(g) : r \in Known(g)'
    BY <1>6, <1>9
  <2>2. \A g \in Hosts : ports'[g] \in Nat /\ ports[g] <= ports'[g]
    BY <1>3, <1>7 DEF Types
  <2> QED  BY <1>3, <1>14, <2>1, <2>2 DEF Grows
<1>16. Has(h, Server(s))' /\ (h < Last => Has(h, Client(s))') /\ HasOut(h, Server(s), Back(x))'
  BY <1>6, <1>9 DEF Has, HasOut
<1>17. HasOut(h - 1, Client(s), x)'
  BY <1>4, <1>12, <1>15, HasOutStays
<1>18. BlocksRight'
  <2>1. ASSUME NEW g \in Hosts, NEW q \in Known(g)'
        PROVE  (\E r \in Known(g) : Same(r, q)) \/ Onward(g, q)' \/ Homeward(g, q)'
    <3>1. CASE q \in Known(g)
      BY <3>1 DEF Same
    <3>2. CASE q \notin Known(g)
      <4>1. g = h
        BY <1>9, <3>2
      <4>2. \/ q.super = Server(s) /\ q.sub = Back(x)
            \/ q.super = Client(s) /\ q.sub = NoSub /\ q.sc = Rest(h) /\ h < Last
        BY <1>6, <1>9, <3>2, <4>1
      <4>3. CASE q.super = Server(s) /\ q.sub = Back(x)
        <5>1. q.super.s = s /\ q.super = Server(q.super.s)
          BY <4>3, Forms
        <5>2. Homeward(h, q)'
          BY <1>4, <1>11, <1>12, <1>14, <1>16, <1>17, <4>3, <5>1 DEF Homeward
        <5> QED  BY <4>1, <5>2
      <4>4. CASE q.super = Client(s) /\ q.sub = NoSub /\ q.sc = Rest(h) /\ h < Last
        <5>1. q.super.s = s /\ q.super = Client(q.super.s)
          BY <4>4, Forms
        <5>2. Onward(h, q)'
          BY <1>4, <1>16, <4>4, <5>1 DEF Onward
        <5> QED  BY <4>1, <5>2
      <4> QED  BY <4>2, <4>3, <4>4
    <3> QED  BY <3>1, <3>2
  <2> QED  BY <1>15, <2>1, BlocksStay
<1>19. InputsRight'
  <2>1. ASSUME NEW g \in Hosts, NEW y \in DOMAIN ins'[g]
        PROVE  \/ y \in DOMAIN ins[g]
               \/ Back(y) # NoSub /\ HasOut(g, Reverse(ins[g][y].super), Back(y))'
    <3>1. CASE y \in DOMAIN ins[g]
      BY <3>1
    <3>2. CASE y \notin DOMAIN ins[g]
      <4>1. g = h /\ y = x
        BY <1>14, <3>2
      <4>2. Reverse(ins'[g][y].super) = Server(s)
        BY <1>4, <1>11, <1>14, <4>1, SuperForm
      <4>3. HasOut(g, Reverse(ins[g][y].super), Back(y))'
        BY <1>16, <4>1, <4>2 DEF HasOut
      <4> QED  BY <1>12, <4>1, <4>3
    <3> QED  BY <3>1, <3>2
  <2> QED  BY <1>15, <2>1, InputsStay
<1>20. ASSUME NEW g \in Hosts PROVE TablesRight(tab[g])'
  <2>1. TablesRight(tab'[g])
    BY <1>6, <1>8, Parts
  <2> QED  BY <1>3, <2>1, TablesKept
<1>21. /\ inside' \in [Hosts -> SUBSET Packets] /\ dysco_tag' \in [Hosts -> Nat]
       /\ \A g \in Hosts : \A p \in inside'[g] :
             p \in inside[g] \/ (g = h /\ p.super = Client(s) /\ ~p.ack)
  BY <1>3, <1>4, StackGets
<1>22. Types'
  BY <1>3, <1>7, <1>8, <1>14, <1>21, LoadStays DEF Types
<1>23. WireRight'
  BY <1>3, <1>15, WireStays
<1>24. InsideRight'
  <2>1. ASSUME NEW p, p.super = Client(s), ~p.ack PROVE InsideAt(h, p)'
    <3>1. p.super.s = s
      BY <2>1, Forms
    <3> QED  BY <1>3, <1>4, <1>16, <2>1, <3>1 DEF InsideAt
  <2> QED  BY <1>15, <1>21, <2>1, InsideStays
<1>25. WorkRight'
  <2>1. SUFFICES ASSUME NEW g \in Hosts, NEW r \in Sessions, NEW v, v = work'[g][r],
                        v # Idle
                 PROVE  /\ v = work[g][r]
                        /\ WorkAt(g, r, v) =>
                              NodeKept(g, v) /\ (v.via = "none" => ~Has(g, Client(r))')
    BY <1>15, WorkKept
  <2>2. v = work[g][r]
    BY <1>3, <2>1
  <2>3. ASSUME WorkAt(g, r, v), v.via = "none" PROVE ~Has(g, Client(r))'
    <3>1. ~Has(g, Client(r)) /\ g # h
      BY <1>4, <2>3 DEF WorkAt
    <3> QED  BY <1>9, <3>1 DEF Has
  <2>4. ASSUME WorkAt(g, r, v) PROVE NodeKept(g, v)
    BY <1>4, <1>6, <1>8, <2>4, KeptNodes
  <2> QED  BY <2>2, <2>3, <2>4
<1> QED  BY <1>15, <1>18, <1>19, <1>20, <1>22, <1>23, <1>24, <1>25 DEF SetupInv

-----------------------------------------------------------------------------
(* The invariant is inductive.                                             *)

\* No packet is looked up by its tag or goes out as it is.
LEMMA Unlikely ==
    ASSUME SetupInv, NEW h, h \in Hosts, NEW s, s \in Sessions
    PROVE  ~OutPendingTag(h, s) /\ ~OutPlain(h, s)
<1>1. PICK w : w = work[h][s]
  OBVIOUS
<1>2. ASSUME w.via = "tag" PROVE FALSE
  BY <1>1, <1>2, AtHand DEF WorkAt
<1>3. ASSUME w.via = "none", ~MatchPolicy(h, w.pkt) PROVE FALSE
  BY <1>1, <1>3, AtHand DEF WorkAt, MatchPolicy
<1> QED  BY <1>1, <1>2, <1>3 DEF OutPendingTag, OutPlain

\* A step that changes nothing.
LEMMA SetupStutters ==
    ASSUME SetupInv, UNCHANGED vars
    PROVE  SetupInv'
<1>1. UNCHANGED <<load, tab, ins, dysco_tag, ports, wire, inside, work>>
  BY DEF vars
<1>2. /\ Grows /\ (\A h \in Hosts : TablesRight(tab[h])') /\ BlocksRight' /\ InputsRight'
      /\ \A h, w : WorkAt(h, w.pkt.super.s, w) => NodeKept(h, w)
      /\ \A h, s : Has(h, Client(s))' => Has(h, Client(s))
  BY <1>1, Still
<1>3. Types'
  BY <1>1, Parts, LoadStays DEF Types
<1>4. WireRight' /\ InsideRight'
  BY <1>1, <1>2, WireStays, InsideStays
<1>5. WorkRight'
  <2>1. \A g, r, w : WorkAt(g, r, w) =>
           NodeKept(g, w) /\ (w.via = "none" => ~Has(g, Client(r))')
    BY <1>2 DEF WorkAt
  <2> QED  BY <1>1, <1>2, <2>1, WorkKept
<1> QED  BY <1>2, <1>3, <1>4, <1>5 DEF SetupInv

\* Every step keeps the invariant.
LEMMA SetupNext ==
    ASSUME SetupInv, [Next]_vars
    PROVE  SetupInv'
<1>1. ASSUME NEW s \in Sessions, ClientSyn(s) PROVE SetupInv'
  BY <1>1, ClientSynStep
<1>2. ASSUME NEW h \in Hosts, MiddleboxForwards(h) PROVE SetupInv'
  BY <1>2, ForwardStep
<1>3. CASE ServerSynAck
  BY <1>3, AnswerStep
<1>4. ASSUME NEW h \in Hosts, DyscoInput(h) PROVE SetupInv'
  <2>1. PICK m \in wire :
           /\ m.sub # NoSub /\ m.sub.to = h
           /\ InputSyn(h, m) \/ InputSynAgain(h, m) \/ InputSynAck(h, m)
    BY <1>4 DEF DyscoInput
  <2>2. CASE InputSyn(h, m)
    BY <2>1, <2>2, InputSynStep
  <2>3. CASE InputSynAgain(h, m)
    BY <2>1, <2>3, SynAgainStep
  <2>4. CASE InputSynAck(h, m)
    BY <2>1, <2>4, InputSynAckStep
  <2> QED  BY <2>1, <2>2, <2>3, <2>4
<1>5. ASSUME NEW h \in Hosts, NEW s \in Sessions, DyscoOutputRest(h, s) PROVE SetupInv'
  <2>1. CASE OutPending(h, s)
    BY <2>1, OutPendingStep
  <2>2. CASE OutSynPolicy(h, s)
    BY <2>2, OutSynPolicyStep
  <2>3. CASE OutSynAgain(h, s)
    BY <2>3, OutSynAgainStep
  <2>4. CASE OutSynAck(h, s)
    BY <2>4, OutSynAckStep
  <2> QED  BY <1>5, <2>1, <2>2, <2>3, <2>4, Unlikely DEF DyscoOutputRest
<1>6. CASE UNCHANGED vars
  BY <1>6, SetupStutters
<1> QED  BY <1>1, <1>2, <1>3, <1>4, <1>5, <1>6 DEF Next

\* The invariant always holds.
LEMMA SetupAlways ==
    Spec /\ Untranslated => []SetupInv
<1>1. Init /\ Untranslated => SetupInv
  BY SetupInit
<1>2. SetupInv /\ [Next]_vars => SetupInv'
  BY SetupNext
<1> QED  BY <1>1, <1>2, PTL DEF Spec

\* The SYN of every session keeps to its chain, at every host and whatever is
\* sent again or overtakes it: dysco_insert_pending keeps one block, with one
\* link, in two tables, and still dysco_out_handle_mb takes the right one out.
THEOREM ChainFollowed == Spec /\ Untranslated => []ChainKept
<1>1. SetupInv => ChainKept
  BY InvChain
<1> QED  BY <1>1, SetupAlways, PTL

\* The two hosts of a subsession agree on the session it carries: what
\* dysco_insert_cb_out_reverse and dysco_insert_cb_in_reverse note at each end
\* is found at the other.
THEOREM EndsAgree == Spec /\ Untranslated => []HopsAgree
<1>1. SetupInv => HopsAgree
  BY InvHops
<1> QED  BY <1>1, SetupAlways, PTL

\* A host that dysco_output gives a SYN again sends it into the subsession that
\* it has for it, never into a second one.
THEOREM SameSubsession == Spec /\ Untranslated => []OneSubsession
<1>1. SetupInv => OneSubsession
  BY InvOneSub
<1> QED  BY <1>1, SetupAlways, PTL

\* When the SYN+ACK has reached the client, dysco_out_syn and
\* dysco_set_ack_number_out have noted the initial numbers in every block of
\* the session.
THEOREM NumbersReach == Spec /\ Untranslated => []NumbersKnown
<1>1. SetupInv => NumbersKnown
  BY InvNumbers
<1> QED  BY <1>1, SetupAlways, PTL
=============================================================================
