------------------------- MODULE DyscoDriverProofs -------------------------
(***************************************************************************)
(* Proofs about DyscoDriver, for any number of packets of any sizes and    *)
(* kinds, for every size of the ring and of its reserve, batches of any    *)
(* length and a link that goes and comes as often as it likes.             *)
(***************************************************************************)
EXTENDS DyscoDriver, FiniteSetTheorems, SequenceTheorems, TLAPS

\* How far it is from slot x to slot y.
Dist(x, y) == IF x <= y THEN y - x ELSE y + Count - x
Pred(i) == IF i = 0 THEN Count - 1 ELSE i - 1

LEMMA SlotTypes == Count \in Nat \ {0} /\ Slots = 0 .. Count - 1
BY DriverAssumption DEF Slots

LEMMA Mod ==
    ASSUME NEW x \in Nat, NEW c \in Nat \ {0}, x < 2 * c
    PROVE  x % c = IF x < c THEN x ELSE x - c
OBVIOUS

LEMMA PlusIs ==
    ASSUME NEW i \in Slots, NEW n \in 0 .. Count
    PROVE  /\ Plus(i, n) \in Slots
           /\ Plus(i, n) = IF i + n < Count THEN i + n ELSE i + n - Count
           /\ n < Count => Dist(i, Plus(i, n)) = n
<1>0. i \in Nat /\ n \in Nat /\ i < Count /\ n <= Count /\ Count \in Nat \ {0}  BY SlotTypes
<1>1. PICK x \in Nat : x = i + n  BY <1>0
<1>2. x % Count = IF x < Count THEN x ELSE x - Count
  <2>1. x < 2 * Count  BY <1>0, <1>1
  <2> QED  BY <1>0, <2>1, Mod
<1>3. Plus(i, n) = IF i + n < Count THEN i + n ELSE i + n - Count
  BY <1>0, <1>1, <1>2 DEF Plus
<1> QED  BY <1>0, <1>3, SlotTypes DEF Dist

LEMMA SuccIs ==
    ASSUME NEW i \in Slots
    PROVE  /\ Succ(i) \in Slots /\ Succ(i) = IF i + 1 = Count THEN 0 ELSE i + 1
           /\ Pred(Succ(i)) = i
<1>1. Succ(i) = Plus(i, 1) /\ 1 \in 0 .. Count  BY SlotTypes DEF Succ, Plus
<1>2. /\ Succ(i) \in Slots
      /\ Succ(i) = IF i + 1 < Count THEN i + 1 ELSE i + 1 - Count
  BY <1>1, PlusIs
<1> QED  BY <1>2, SlotTypes DEF Pred

LEMMA DistType ==
    ASSUME NEW i \in Slots, NEW j \in Slots
    PROVE  /\ Dist(i, j) \in Slots /\ Dist(i, j) \in Nat
           /\ Plus(i, Dist(i, j)) = j
           /\ Pred(i) \in Slots
<1>1. Dist(i, j) \in 0 .. Count - 1 /\ Pred(i) \in Slots  BY SlotTypes DEF Dist, Pred
<1>2. Dist(i, j) \in 0 .. Count /\ Count \in Nat  BY <1>1, SlotTypes
<1>3. Plus(i, Dist(i, j)) = IF i + Dist(i, j) < Count THEN i + Dist(i, j)
                            ELSE i + Dist(i, j) - Count
  BY <1>2, PlusIs
<1>4. Plus(i, Dist(i, j)) = j  BY <1>3, SlotTypes DEF Dist
<1> QED  BY <1>1, <1>4, SlotTypes

LEMMA DistMod ==
    ASSUME NEW i \in Slots, NEW j \in Slots
    PROVE  (j + Count - i) % Count = Dist(i, j)
<1>0. i \in Nat /\ j \in Nat /\ i < Count /\ j < Count /\ Count \in Nat \ {0}  BY SlotTypes
<1>1. PICK x \in Nat : x = j + Count - i  BY <1>0
<1>2. x % Count = IF x < Count THEN x ELSE x - Count
  <2>1. x < 2 * Count  BY <1>0, <1>1
  <2> QED  BY <1>0, <2>1, Mod
<1> QED  BY <1>0, <1>1, <1>2 DEF Dist

LEMMA SlotsFromIs ==
    ASSUME NEW i \in Slots, NEW n \in 0 .. Count
    PROVE  SlotsFrom(i, n) = {x \in Slots : Dist(i, x) < n}
<1>1. ASSUME NEW k \in 0 .. n - 1 PROVE Plus(i, k) \in Slots /\ Dist(i, Plus(i, k)) < n
  <2>1. k \in 0 .. Count /\ k < Count /\ k < n  BY SlotTypes
  <2> QED  BY <2>1, PlusIs
<1>2. ASSUME NEW x \in Slots, Dist(i, x) < n PROVE \E k \in 0 .. n - 1 : x = Plus(i, k)
  <2>1. Dist(i, x) \in Nat /\ Plus(i, Dist(i, x)) = x  BY DistType
  <2>2. Dist(i, x) \in 0 .. n - 1  BY <1>2, <2>1, SlotTypes
  <2> QED  BY <2>1, <2>2
<1> QED  BY <1>1, <1>2 DEF SlotsFrom

LEMMA DescUnusedIs ==
    ASSUME next_to_use \in Slots, next_to_clean \in Slots
    PROVE  DescUnused = Count - 1 - Dist(next_to_clean, next_to_use)
BY SlotTypes DEF DescUnused, Dist

-----------------------------------------------------------------------------
(* How often a packet is in a sequence.                                    *)

Places(p, s) == {i \in 1 .. Len(s) : s[i] = p}

LEMMA HowOftenType ==
    ASSUME NEW s \in Seq(Packets), NEW p
    PROVE  /\ IsFiniteSet(Places(p, s)) /\ Len(s) \in Nat
           /\ HowOften(p, s) = Cardinality(Places(p, s)) /\ HowOften(p, s) \in Nat
           /\ HowOften(p, s) = 0 <=> \A i \in 1 .. Len(s) : s[i] # p
<1>0. Len(s) \in Nat  BY LenProperties
<1>1. IsFiniteSet(1 .. Len(s))  BY <1>0, FS_Interval
<1>2. IsFiniteSet(Places(p, s))
  <2>1. Places(p, s) \in SUBSET (1 .. Len(s))  BY DEF Places
  <2> QED  BY <1>1, <2>1, FS_Subset
<1>3. Cardinality(Places(p, s)) \in Nat  BY <1>2, FS_CardinalityType
<1>4. Cardinality(Places(p, s)) = 0 <=> Places(p, s) = {}
  BY <1>2, FS_EmptySet
<1>5. HowOften(p, s) = Cardinality(Places(p, s))  BY DEF HowOften, Places
<1>6. Places(p, s) = {} <=> \A i \in 1 .. Len(s) : s[i] # p  BY DEF Places
<1> QED  BY <1>0, <1>2, <1>3, <1>4, <1>5, <1>6

LEMMA HowOftenEmpty == ASSUME NEW p PROVE HowOften(p, <<>>) = 0
<1>1. {i \in 1 .. Len(<<>>) : <<>>[i] = p} = {}  OBVIOUS
<1> QED  BY <1>1, FS_EmptySet DEF HowOften

LEMMA HowOftenAppend ==
    ASSUME NEW s \in Seq(Packets), NEW x \in Packets, NEW p
    PROVE  /\ Append(s, x) \in Seq(Packets)
           /\ HowOften(p, Append(s, x)) = HowOften(p, s) + (IF x = p THEN 1 ELSE 0)
<1>0. /\ Append(s, x) \in Seq(Packets) /\ Len(s) \in Nat
      /\ Len(Append(s, x)) = Len(s) + 1 /\ Append(s, x)[Len(s) + 1] = x
      /\ \A i \in 1 .. Len(s) : Append(s, x)[i] = s[i]
  BY AppendProperties, LenProperties
<1>1. Places(p, Append(s, x)) = IF x = p THEN Places(p, s) \cup {Len(s) + 1} ELSE Places(p, s)
  BY <1>0 DEF Places
<1>2. IsFiniteSet(Places(p, s)) /\ Len(s) + 1 \notin Places(p, s)
  <2>1. IsFiniteSet(Places(p, s))  BY HowOftenType
  <2>2. Len(s) + 1 \notin Places(p, s)  BY <1>0 DEF Places
  <2> QED  BY <2>1, <2>2
<1>3. Cardinality(Places(p, s) \cup {Len(s) + 1}) = Cardinality(Places(p, s)) + 1
  BY <1>2, FS_AddElement
<1>4. /\ HowOften(p, s) = Cardinality(Places(p, s))
      /\ HowOften(p, Append(s, x)) = Cardinality(Places(p, Append(s, x)))
      /\ Cardinality(Places(p, s)) \in Nat
  <2>1. HowOften(p, s) = Cardinality(Places(p, s)) /\ HowOften(p, s) \in Nat
    BY HowOftenType
  <2>2. HowOften(p, Append(s, x)) = Cardinality(Places(p, Append(s, x)))
    BY <1>0, HowOftenType
  <2> QED  BY <2>1, <2>2
<1> QED  BY <1>0, <1>1, <1>3, <1>4

LEMMA HowOftenConcat ==
    ASSUME NEW s \in Seq(Packets), NEW t \in Seq(Packets), NEW p
    PROVE  /\ s \o t \in Seq(Packets)
           /\ HowOften(p, s \o t) = HowOften(p, s) + HowOften(p, t)
<1>0. /\ Len(s) \in Nat /\ Len(t) \in Nat /\ s \o t \in Seq(Packets)
      /\ Len(s \o t) = Len(s) + Len(t)
      /\ \A i \in 1 .. Len(s) + Len(t) :
              (s \o t)[i] = IF i <= Len(s) THEN s[i] ELSE t[i - Len(s)]
  BY LenProperties, ConcatProperties
<1> DEFINE Later == {i \in Len(s) + 1 .. Len(s) + Len(t) : t[i - Len(s)] = p}
<1>1. Places(p, s \o t) = Places(p, s) \cup Later /\ Places(p, s) \cap Later = {}
  BY <1>0 DEF Places
<1>2. IsFiniteSet(Places(p, s)) /\ IsFiniteSet(Places(p, t))  BY HowOftenType
<1>3. Cardinality(Later) = Cardinality(Places(p, t)) /\ IsFiniteSet(Later)
  <2>1. PICK f : f = [i \in Places(p, t) |-> i + Len(s)]  OBVIOUS
  <2>2. f \in [Places(p, t) -> Later]  BY <1>0, <2>1 DEF Places
  <2>3. \A i, j \in Places(p, t) : f[i] = f[j] => i = j  BY <1>0, <2>1 DEF Places
  <2>4. \A c \in Later : \E i \in Places(p, t) : f[i] = c
    <3> SUFFICES ASSUME NEW c \in Later PROVE \E i \in Places(p, t) : f[i] = c  OBVIOUS
    <3>1. c - Len(s) \in Places(p, t) /\ c \in Int  BY <1>0 DEF Places
    <3> QED  BY <1>0, <2>1, <3>1
  <2> HIDE DEF Later
  <2>5. f \in Injection(Places(p, t), Later)  BY <2>2, <2>3 DEF Injection, IsInjective
  <2>6. f \in Surjection(Places(p, t), Later)  BY <2>2, <2>4 DEF Surjection
  <2>7. ExistsBijection(Places(p, t), Later)
    BY <2>5, <2>6 DEF Bijection, ExistsBijection
  <2> QED  BY <1>2, <2>7, FS_Bijection
<1> HIDE DEF Later
<1>4. Cardinality(Places(p, s \o t)) = Cardinality(Places(p, s)) + Cardinality(Later)
  <2>1. Cardinality(Places(p, s) \cap Later) = 0  BY <1>1, FS_EmptySet
  <2>2. Cardinality(Places(p, s)) \in Nat /\ Cardinality(Later) \in Nat
    BY <1>2, <1>3, FS_CardinalityType
  <2>3. Cardinality(Places(p, s) \cup Later)
          = Cardinality(Places(p, s)) + Cardinality(Later) - Cardinality(Places(p, s) \cap Later)
    BY <1>2, <1>3, FS_Union
  <2> QED  BY <1>1, <2>1, <2>2, <2>3
<1>5. /\ HowOften(p, s) = Cardinality(Places(p, s))
      /\ HowOften(p, t) = Cardinality(Places(p, t))
      /\ HowOften(p, s \o t) = Cardinality(Places(p, s \o t))
  BY <1>0, HowOftenType
<1> QED  BY <1>0, <1>3, <1>4, <1>5

LEMMA HowOftenHead ==
    ASSUME NEW s \in Seq(Packets), s # <<>>, NEW p
    PROVE  /\ Head(s) \in Packets /\ Tail(s) \in Seq(Packets)
           /\ HowOften(p, s) = HowOften(p, Tail(s)) + (IF Head(s) = p THEN 1 ELSE 0)
<1>1. Head(s) \in Packets /\ Tail(s) \in Seq(Packets) /\ Len(Tail(s)) = Len(s) - 1
  BY HeadTailProperties
<1>2. PICK e \in Seq(Packets) : e = <<>> /\ Len(e) = 0  BY EmptySeq
<1>3. PICK h \in Seq(Packets) : h = Append(e, Head(s)) /\ Len(h) = 1 /\ h[1] = Head(s)
  <2>1. /\ Append(e, Head(s)) \in Seq(Packets) /\ Len(Append(e, Head(s))) = Len(e) + 1
        /\ Append(e, Head(s))[Len(e) + 1] = Head(s)
    BY <1>1, AppendProperties
  <2>2. Len(e) + 1 = 1  BY <1>2
  <2>3. Append(e, Head(s))[1] = Head(s) /\ Len(Append(e, Head(s))) = 1  BY <2>1, <2>2
  <2> QED  BY <2>1, <2>3, Zenon
<1>4. /\ Len(s) \in Nat /\ \A i \in 1 .. Len(s) - 1 : Tail(s)[i] = s[i + 1]
      /\ s[1] = Head(s)
  BY <1>1, HeadTailProperties, LenProperties
<1>5. s = h \o Tail(s)
  <2>1. h \o Tail(s) \in Seq(Packets) /\ Len(h \o Tail(s)) = Len(s)
    <3>1. h \o Tail(s) \in Seq(Packets) /\ Len(h \o Tail(s)) = Len(h) + Len(Tail(s))
      BY <1>1, ConcatProperties
    <3> QED  BY <1>1, <1>3, <1>4, <3>1
  <2>2. \A i \in 1 .. Len(s) : (h \o Tail(s))[i] = s[i]
    <3>1. \A i \in 1 .. Len(h) + Len(Tail(s)) :
            (h \o Tail(s))[i] = IF i <= Len(h) THEN h[i] ELSE Tail(s)[i - Len(h)]
      BY <1>1, ConcatProperties
    <3>2. \A i \in 1 .. Len(s) :
            (h \o Tail(s))[i] = IF i <= 1 THEN h[i] ELSE Tail(s)[i - 1]
      <4>1. Len(h) + Len(Tail(s)) = Len(s)  BY <1>1, <1>3, <1>4
      <4> QED  BY <1>3, <3>1, <4>1
    <3> SUFFICES ASSUME NEW i \in 1 .. Len(s) PROVE (h \o Tail(s))[i] = s[i]  OBVIOUS
    <3>3. CASE i = 1  BY <1>3, <1>4, <3>2, <3>3
    <3>4. CASE i # 1
      <4>1. i - 1 \in 1 .. Len(s) - 1 /\ ~(i <= 1) /\ (i - 1) + 1 = i  BY <1>4, <3>4
      <4>2. Tail(s)[i - 1] = s[(i - 1) + 1]  BY <1>4, <4>1
      <4> QED  BY <3>2, <4>1, <4>2
    <3> QED  BY <3>3, <3>4
  <2> QED  BY <2>1, <2>2, SeqEqual
<1>6. HowOften(p, h) = IF Head(s) = p THEN 1 ELSE 0
  <2>3. HowOften(p, Append(e, Head(s))) = HowOften(p, e) + (IF Head(s) = p THEN 1 ELSE 0)
    BY <1>1, HowOftenAppend
  <2>4. HowOften(p, e) = 0  BY <1>2, HowOftenEmpty
  <2> QED  BY <1>3, <2>3, <2>4
<1>7. HowOften(p, Tail(s)) \in Nat  BY <1>1, HowOftenType
<1>8. HowOften(p, h \o Tail(s)) = HowOften(p, h) + HowOften(p, Tail(s))
  BY <1>1, HowOftenConcat
<1>9. HowOften(p, s) = (IF Head(s) = p THEN 1 ELSE 0) + HowOften(p, Tail(s))
  BY <1>5, <1>6, <1>8
<1> QED  BY <1>1, <1>7, <1>9

LEMMA HowOftenSplit ==
    ASSUME NEW s \in Seq(Packets), NEW n \in 1 .. Len(s), NEW p
    PROVE  /\ SubSeq(s, 1, n) \in Seq(Packets) /\ SubSeq(s, 1, n) # <<>>
           /\ SubSeq(s, n + 1, Len(s)) \in Seq(Packets)
           /\ HowOften(p, s) = HowOften(p, SubSeq(s, 1, n))
                               + HowOften(p, SubSeq(s, n + 1, Len(s)))
<1>0. /\ Len(s) \in Nat /\ n \in Nat /\ 1 <= n /\ n <= Len(s)
      /\ \A i \in 1 .. Len(s) : s[i] \in Packets
  BY LenProperties, ElementOfSeq
<1>1. PICK a : a = SubSeq(s, 1, n)  OBVIOUS
<1>2. PICK b : b = SubSeq(s, n + 1, Len(s))  OBVIOUS
<1>3. a \in Seq(Packets) /\ Len(a) = n /\ \A i \in 1 .. n : a[i] = s[i]
  BY <1>0, <1>1, SubSeqProperties
<1>4. /\ b \in Seq(Packets) /\ Len(b) = Len(s) - n
      /\ \A i \in 1 .. Len(s) - n : b[i] = s[n + i]
  BY <1>0, <1>2, SubSeqProperties
<1>5. /\ a \o b \in Seq(Packets) /\ Len(a \o b) = Len(a) + Len(b)
      /\ \A i \in 1 .. Len(a) + Len(b) :
              (a \o b)[i] = IF i <= Len(a) THEN a[i] ELSE b[i - Len(a)]
  BY <1>3, <1>4, ConcatProperties
<1>6. s = a \o b
  <2>1. Len(a \o b) = Len(s)  BY <1>0, <1>3, <1>4, <1>5
  <2>2. \A i \in 1 .. Len(s) : (a \o b)[i] = s[i]  BY <1>0, <1>3, <1>4, <1>5
  <2> QED  BY <1>5, <2>1, <2>2, SeqEqual
<1>7. HowOften(p, a \o b) = HowOften(p, a) + HowOften(p, b)  BY <1>3, <1>4, HowOftenConcat
<1>8. a # <<>>  BY <1>0, <1>3
<1> QED  BY <1>1, <1>2, <1>3, <1>4, <1>6, <1>7, <1>8

-----------------------------------------------------------------------------
(* Distances on the ring.                                                  *)

LEMMA DistAdd ==
    ASSUME NEW b \in Slots, NEW x \in Slots, NEW i \in Slots
    PROVE  Dist(b, i) = IF Dist(b, x) <= Dist(b, i) THEN Dist(b, x) + Dist(x, i)
                        ELSE Dist(b, x) + Dist(x, i) - Count
BY SlotTypes DEF Dist

LEMMA DistPlus ==
    ASSUME NEW b \in Slots, NEW i \in Slots, NEW n \in 0 .. Count - 1
    PROVE  Dist(b, Plus(i, n)) = IF Dist(b, i) + n < Count THEN Dist(b, i) + n
                                 ELSE Dist(b, i) + n - Count
<1>1. n \in 0 .. Count  BY SlotTypes
<1>2. Plus(i, n) = IF i + n < Count THEN i + n ELSE i + n - Count  BY <1>1, PlusIs
<1> QED  BY <1>2, SlotTypes DEF Dist

LEMMA DistSame ==
    ASSUME NEW b \in Slots, NEW i \in Slots, NEW j \in Slots
    PROVE  /\ Dist(b, i) = Dist(b, j) => i = j
           /\ Dist(b, i) = 0 <=> i = b
BY SlotTypes DEF Dist

LEMMA DistPred ==
    ASSUME NEW b \in Slots, NEW i \in Slots
    PROVE  Dist(b, Pred(i)) = IF i = b THEN Count - 1 ELSE Dist(b, i) - 1
BY SlotTypes DEF Dist, Pred

LEMMA DistSucc ==
    ASSUME NEW b \in Slots, NEW i \in Slots
    PROVE  Dist(b, Succ(i)) = IF Dist(b, i) = Count - 1 THEN 0 ELSE Dist(b, i) + 1
<1>1. Succ(i) = IF i + 1 = Count THEN 0 ELSE i + 1  BY SuccIs
<1> QED  BY <1>1, SlotTypes DEF Dist

-----------------------------------------------------------------------------
(* The ring, from where it is clean on: what the device has sent, what it  *)
(* was told of, and what it has yet to be told of.                         *)

Cleaned == IF cleaner.pc = "clean" THEN cleaner.i ELSE next_to_clean
At(i) == Dist(Cleaned, i)
Used(i) == At(i) < At(next_to_use)
Sent(i) == At(i) < At(tdh)

Order ==
    /\ At(tdh) <= At(tdt) /\ At(tdt) <= At(next_to_use)
    /\ Dist(next_to_clean, next_to_use) = Dist(next_to_clean, Cleaned) + At(next_to_use)

\* i is where a packet begins; the device and the driver stop only there.
Begins(i) == i = Cleaned \/ desc[Pred(i)].last
Whole == Begins(tdh) /\ Begins(tdt) /\ Begins(next_to_use)

\* The packet that begins at i ends at e, and what the driver watches is that.
Ends(i, e) ==
    /\ At(i) <= At(e) /\ At(e) < At(next_to_use)
    /\ desc[e].last
    /\ \A k \in Slots : At(i) <= At(k) /\ At(k) < At(e) => ~desc[k].last
Watched == \A i \in Slots : Used(i) /\ Begins(i) => Ends(i, buffer_info[i].next_to_watch)

\* The device marks the end of each packet that it has sent, and nothing else.
DoneIsSent == \A i \in Slots : desc[i].dd <=> desc[i].last /\ Sent(i)

Ring == Order /\ Whole /\ Watched /\ DoneIsSent

Transmitting ==
    /\ tx.pc = "idle" <=> tx.batch = <<>>
    /\ tx.pc \in {"idle", "hook", "map", "queue"} => ~tx.queued
    /\ tx.pc = "tail" => tx.queued
    /\ tx.pc \in {"map", "queue"} => DescUnused >= Size[skb] + 2

Cleaning ==
    /\ cleaner.pc # "idle" => napi
    /\ cleaner.pc = "clean" => cleaner.count = Dist(next_to_clean, cleaner.i)
    /\ down => ~napi

LEMMA CleanedType == ASSUME TypeOK PROVE Cleaned \in Slots
BY DEF TypeOK, Cleaner, Cleaned

LEMMA AtTypes ==
    ASSUME TypeOK, NEW i \in Slots
    PROVE  At(i) \in Nat /\ At(i) < Count
<1>1. Cleaned \in Slots  BY CleanedType
<1>2. Dist(Cleaned, i) \in Slots /\ Dist(Cleaned, i) \in Nat  BY <1>1, DistType
<1> QED  BY <1>2, SlotTypes DEF At

LEMMA RingTypes ==
    ASSUME TypeOK
    PROVE  /\ next_to_use \in Slots /\ next_to_clean \in Slots /\ tdh \in Slots /\ tdt \in Slots
           /\ \A i \in Slots : /\ buffer_info[i].next_to_watch \in Slots
                               /\ desc[i].last \in BOOLEAN /\ desc[i].dd \in BOOLEAN
                               /\ desc[i].skb \in Packets \cup {None}
                               /\ buffer_info[i].skb \in Packets \cup {None}
           /\ cleaner.i \in Slots /\ cleaner.eop \in Slots /\ cleaner.count \in Nat
           /\ tx.batch \in Seq(Packets)
BY DEF TypeOK, Buffer, Desc, Tx, Cleaner

\* What a batch's first packet is.
LEMMA SkbType ==
    ASSUME TypeOK, tx.batch # <<>>
    PROVE  /\ skb \in Packets /\ Size[skb] \in Nat \ {0} /\ Size[skb] + 2 < Count
           /\ Tail(tx.batch) \in Seq(Packets)
BY RingTypes, HeadTailProperties, DriverAssumption DEF skb

\* Whatever leaves the places, the descriptors and what is watched in use alone.
LEMMA RingSame ==
    ASSUME TypeOK, Ring, UNCHANGED <<next_to_use, next_to_clean, desc, tdh, tdt>>,
           Cleaned' = Cleaned,
           \A i \in Slots : Used(i) =>
               buffer_info'[i].next_to_watch = buffer_info[i].next_to_watch
    PROVE  Ring'
<1>1. \A i : At(i)' = At(i)  BY DEF At
<1>2. \A i : Used(i)' = Used(i) /\ Sent(i)' = Sent(i) /\ Begins(i)' = Begins(i)
  BY <1>1 DEF Used, Sent, Begins
<1>3. \A i, e : Ends(i, e)' <=> Ends(i, e)  BY <1>1 DEF Ends
<1>4. Order' /\ Whole' /\ DoneIsSent'
  BY <1>1, <1>2 DEF Ring, Order, Whole, DoneIsSent
<1>5. Watched'  BY <1>2, <1>3 DEF Ring, Watched
<1> QED  BY <1>4, <1>5 DEF Ring

\* The device is told of all packets.
LEMMA RingTold ==
    ASSUME TypeOK, Ring, UNCHANGED <<next_to_use, next_to_clean, desc, tdh, buffer_info, cleaner>>,
           tdt' \in {tdt, next_to_use}
    PROVE  Ring'
<1>0. Cleaned' = Cleaned  BY DEF Cleaned
<1>1. \A i : At(i)' = At(i)  BY <1>0 DEF At
<1>2. \A i : Used(i)' = Used(i) /\ Sent(i)' = Sent(i) /\ Begins(i)' = Begins(i)
  BY <1>0, <1>1 DEF Used, Sent, Begins
<1>3. \A i, e : Ends(i, e)' <=> Ends(i, e)  BY <1>1 DEF Ends
<1>4. Whole' /\ DoneIsSent'
  BY <1>1, <1>2 DEF Ring, Whole, DoneIsSent
<1>5. Watched'  BY <1>2, <1>3 DEF Ring, Watched
<1>6. Order'
  <2>1. At(tdh) \in Nat /\ At(tdt) \in Nat /\ At(next_to_use) \in Nat
    BY RingTypes, AtTypes
  <2> QED  BY <1>0, <1>1, <2>1 DEF Ring, Order
<1> QED  BY <1>4, <1>5, <1>6 DEF Ring

\* The packet that the device sends next is one the driver told it of.
LEMMA EndOfIs ==
    ASSUME TypeOK, Ring, tdh # tdt
    PROVE  /\ EndOf(tdh) = buffer_info[tdh].next_to_watch
           /\ EndOf(tdh) \in Slots /\ Ends(tdh, EndOf(tdh))
           /\ At(EndOf(tdh)) < At(tdt)
<1> USE RingTypes
<1> DEFINE e == buffer_info[tdh].next_to_watch
<1>0. /\ e \in Slots /\ Cleaned \in Slots
      /\ \A i \in Slots : At(i) \in Nat /\ At(i) < Count
  BY AtTypes, CleanedType
<1>1. At(tdh) < At(tdt)
  <2>1. At(tdh) # At(tdt)  BY <1>0, DistSame DEF At
  <2> QED  BY <1>0, <2>1 DEF Ring, Order
<1>2. Ends(tdh, e)
  BY <1>0, <1>1 DEF Ring, Order, Whole, Watched, Used
<1> HIDE DEF e
<1>3. At(e) < At(tdt)
  <2>1. tdt # Cleaned  BY <1>0, <1>1, DistSame DEF At
  <2>2. desc[Pred(tdt)].last /\ Pred(tdt) \in Slots
    BY <1>0, <2>1, DistType DEF Ring, Whole, Begins
  <2>3. At(Pred(tdt)) = At(tdt) - 1  BY <1>0, <2>1, DistPred DEF At
  <2> QED  BY <1>0, <1>1, <1>2, <2>2, <2>3 DEF Ends
<1>4. Dist(tdh, e) \in 0 .. Count - 1 /\ Plus(tdh, Dist(tdh, e)) = e
      /\ At(e) = At(tdh) + Dist(tdh, e)
  <2>1. Dist(tdh, e) \in Slots /\ Plus(tdh, Dist(tdh, e)) = e  BY <1>0, DistType
  <2>2. At(tdh) <= At(e)  BY <1>2 DEF Ends
  <2> QED  BY <1>0, <2>1, <2>2, DistAdd, SlotTypes DEF At
<1>5. ASSUME NEW k \in 0 .. Dist(tdh, e) - 1 PROVE ~desc[Plus(tdh, k)].last
  <2>1. k \in 0 .. Count - 1 /\ k \in 0 .. Count  BY <1>4, SlotTypes
  <2>2. Plus(tdh, k) \in Slots  BY <2>1, PlusIs
  <2>3. At(Plus(tdh, k)) = At(tdh) + k
    <3>1. At(tdh) + k < Count
      <4>1. At(e) < Count /\ At(e) \in Nat /\ At(tdh) \in Nat /\ Dist(tdh, e) \in Nat
        BY <1>0, <1>4, SlotTypes
      <4>2. PICK d \in Nat : d = Dist(tdh, e)  BY <4>1
      <4>3. k \in Int /\ k < d  BY <1>5, <4>2
      <4>4. At(e) = At(tdh) + d  BY <1>4, <4>2
      <4> QED  BY <4>1, <4>3, <4>4, SlotTypes
    <3> QED  BY <1>0, <2>1, <3>1, DistPlus DEF At
  <2> QED  BY <1>0, <1>2, <1>4, <2>1, <2>2, <2>3 DEF Ends
<1>6. ASSUME NEW j \in Slots, NEW n \in 0 .. Count - 1, j = Plus(tdh, n), desc[j].last,
             \A k \in 0 .. n - 1 : ~desc[Plus(tdh, k)].last
      PROVE  j = e
  <2>1. ~(n < Dist(tdh, e))  BY <1>4, <1>5, <1>6
  <2>2. ~(Dist(tdh, e) < n)
    <3>1. desc[e].last  BY <1>2 DEF Ends
    <3>2. Dist(tdh, e) < n => Dist(tdh, e) \in 0 .. n - 1  BY <1>4
    <3> QED  BY <1>4, <1>6, <3>1, <3>2
  <2> QED  BY <1>4, <1>6, <2>1, <2>2
<1>7. EndOf(tdh) = e
  <2> DEFINE P(j) == \E n \in 0 .. Count - 1 :
                        /\ j = Plus(tdh, n) /\ desc[j].last
                        /\ \A k \in 0 .. n - 1 : ~desc[Plus(tdh, k)].last
  <2>1. P(e)
    <3>1. desc[e].last  BY <1>2 DEF Ends
    <3> QED  BY <1>4, <1>5, <3>1
  <2>2. \A j \in Slots : P(j) => j = e  BY <1>6
  <2>3. EndOf(tdh) = CHOOSE j \in Slots : P(j)  BY DEF EndOf
  <2> HIDE DEF P
  <2> QED  BY <1>0, <2>1, <2>2, <2>3
<1> QED  BY <1>0, <1>2, <1>3, <1>7 DEF e

-----------------------------------------------------------------------------
(* The steps that change the ring.                                         *)

\* The descriptors that a packet is mapped to are free.
LEMMA Mapping ==
    ASSUME TypeOK, Ring, Transmitting, tx.pc \in {"map", "queue"},
           NEW n, n = Size[skb], NEW e, e = Plus(next_to_use, n - 1)
    PROVE  /\ n \in Nat \ {0} /\ e \in Slots /\ Succ(e) \in Slots
           /\ At(next_to_use) + n + 2 < Count /\ DescUnused >= n + 2
           /\ \A m \in 0 .. n : \A x \in Slots :
                x \in SlotsFrom(next_to_use, m)
                    <=> At(next_to_use) <= At(x) /\ At(x) < At(next_to_use) + m
           /\ At(e) = At(next_to_use) + n - 1
           /\ At(Succ(e)) = At(next_to_use) + n
           /\ Dist(next_to_clean, Succ(e)) = Dist(next_to_clean, next_to_use) + n
<1>0. n \in Nat /\ n >= 1 /\ n + 2 < Count /\ DescUnused >= n + 2
  <2>1. tx.batch # <<>>  BY DEF Transmitting
  <2>2. n \in Nat \ {0} /\ n + 2 < Count  BY <2>1, SkbType
  <2>3. DescUnused >= n + 2  BY DEF Transmitting
  <2> QED  BY <2>2, <2>3
<1>1. /\ Cleaned \in Slots /\ Count \in Nat \ {0}
      /\ next_to_use \in Slots /\ next_to_clean \in Slots
  BY CleanedType, SlotTypes, RingTypes
<1>2. PICK d \in Nat : d = Dist(next_to_clean, next_to_use)  BY <1>1, DistType
<1>3. PICK c \in Nat : c = Dist(next_to_clean, Cleaned)  BY <1>1, DistType
<1>4. PICK u \in Nat : u = At(next_to_use)  BY <1>1, AtTypes
<1>5. d = c + u /\ Count - 1 - d >= n + 2
  <2>1. d = c + u  BY <1>2, <1>3, <1>4 DEF Ring, Order
  <2>2. DescUnused = Count - 1 - d  BY <1>1, <1>2, DescUnusedIs
  <2> QED  BY <1>0, <2>1, <2>2
<1>6. u + n + 2 < Count /\ d + n + 2 < Count  BY <1>0, <1>1, <1>5
<1>7. ASSUME NEW m \in 0 .. n, NEW x \in Slots
      PROVE  x \in SlotsFrom(next_to_use, m) <=> u <= At(x) /\ At(x) < u + m
  <2>1. m \in 0 .. Count /\ m \in Nat /\ m <= n  BY <1>0, <1>1
  <2>2. x \in SlotsFrom(next_to_use, m) <=> Dist(next_to_use, x) < m
    BY <1>1, <2>1, SlotsFromIs
  <2>3. PICK k \in Nat : k = Dist(next_to_use, x) /\ k < Count
    <3>1. Dist(next_to_use, x) \in Slots  BY <1>1, DistType
    <3> QED  BY <1>1, <3>1, SlotTypes
  <2>4. PICK a \in Nat : a = At(x)  BY AtTypes
  <2>5. a = IF u <= a THEN u + k ELSE u + k - Count
    BY <1>1, <1>4, <2>3, <2>4, DistAdd DEF At
  <2>6. k < m <=> u <= a /\ a < u + m
    BY <1>0, <1>1, <1>6, <2>1, <2>3, <2>5
  <2> QED  BY <2>2, <2>3, <2>4, <2>6
<1>8. n - 1 \in 0 .. Count - 1 /\ n - 1 \in 0 .. Count  BY <1>0, <1>1
<1>9. e \in Slots  BY <1>1, <1>8, PlusIs
<1>10. Succ(e) \in Slots  BY <1>9, SuccIs
<1>11. At(e) = u + n - 1
  <2>1. At(e) = IF u + (n - 1) < Count THEN u + (n - 1) ELSE u + (n - 1) - Count
    BY <1>1, <1>4, <1>8, DistPlus DEF At
  <2>2. u + (n - 1) < Count /\ u + (n - 1) = u + n - 1  BY <1>0, <1>1, <1>6
  <2> QED  BY <2>1, <2>2
<1>12. At(Succ(e)) = u + n
  <2>1. At(Succ(e)) = IF At(e) = Count - 1 THEN 0 ELSE At(e) + 1
    BY <1>1, <1>9, DistSucc DEF At
  <2>2. u + n - 1 # Count - 1 /\ (u + n - 1) + 1 = u + n  BY <1>0, <1>1, <1>6
  <2> QED  BY <1>11, <2>1, <2>2
<1>13. Dist(next_to_clean, Succ(e)) = d + n
  <2>1. Dist(next_to_clean, e) = IF d + (n - 1) < Count THEN d + (n - 1) ELSE d + (n - 1) - Count
    BY <1>1, <1>2, <1>8, DistPlus
  <2>2. Dist(next_to_clean, Succ(e)) = IF Dist(next_to_clean, e) = Count - 1 THEN 0
                                       ELSE Dist(next_to_clean, e) + 1
    BY <1>1, <1>9, DistSucc
  <2>3. d + (n - 1) < Count /\ d + (n - 1) # Count - 1 /\ (d + (n - 1)) + 1 = d + n
    BY <1>0, <1>1, <1>6
  <2> QED  BY <2>1, <2>2, <2>3
<1>14. n \in Nat \ {0}  BY <1>0
<1> QED  BY <1>0, <1>2, <1>4, <1>6, <1>7, <1>9, <1>10, <1>11, <1>12, <1>13, <1>14

\* e1000_tx_queue puts one whole packet at the end of the ring.
LEMMA RingQueued ==
    ASSUME TypeOK, Ring, Transmitting, TxQueue
    PROVE  Ring'
<1>0. /\ next_to_use \in Slots /\ next_to_clean \in Slots /\ tdh \in Slots /\ tdt \in Slots
      /\ \A i \in Slots : buffer_info[i].next_to_watch \in Slots
  BY RingTypes
<1>1. PICK n : n = Size[skb]  OBVIOUS
<1>2. PICK e : e = Plus(next_to_use, n - 1)  OBVIOUS
<1>3. tx.pc = "queue" /\ tx.pc \in {"map", "queue"}  BY DEF TxQueue
<1>4. /\ n \in Nat \ {0} /\ e \in Slots /\ Succ(e) \in Slots
      /\ At(next_to_use) + n + 2 < Count
      /\ At(e) = At(next_to_use) + n - 1
      /\ At(Succ(e)) = At(next_to_use) + n
      /\ Dist(next_to_clean, Succ(e)) = Dist(next_to_clean, next_to_use) + n
  BY <1>1, <1>2, <1>3, Mapping
<1>5. \A x \in Slots : x \in SlotsFrom(next_to_use, n)
        <=> At(next_to_use) <= At(x) /\ At(x) < At(next_to_use) + n
  <2>1. n \in 0 .. n  BY <1>4
  <2> QED  BY <1>1, <1>2, <1>3, <2>1, Mapping
<1>6. /\ Cleaned' = Cleaned /\ Cleaned \in Slots
      /\ \A i \in Slots : At(i)' = At(i) /\ At(i) \in Nat /\ At(i) < Count
  BY CleanedType, AtTypes DEF TxQueue, Cleaned, At
<1>17. PICK u \in Nat : u = At(next_to_use)  BY <1>0, <1>6
<1>18. n \in Nat /\ n >= 1 /\ Count \in Nat  BY <1>4, SlotTypes
<1>7. /\ next_to_use' = Succ(e) /\ UNCHANGED <<next_to_clean, tdh, tdt>>
      /\ buffer_info' = [buffer_info EXCEPT ![next_to_use].next_to_watch = e]
  BY <1>1, <1>2 DEF TxQueue
<1>8. \A i \in Slots : desc'[i] = IF i \in SlotsFrom(next_to_use, n)
                                  THEN [skb |-> skb, last |-> i = e, dd |-> FALSE] ELSE desc[i]
  BY <1>1, <1>2 DEF TxQueue
<1>9. \A i \in Slots : /\ At(i) < At(next_to_use) => desc'[i] = desc[i]
                       /\ At(next_to_use) <= At(i) /\ At(i) < At(next_to_use) + n =>
                            desc'[i].last = (i = e) /\ ~desc'[i].dd
                       /\ At(next_to_use) + n <= At(i) => desc'[i] = desc[i]
  <2> SUFFICES ASSUME NEW i \in Slots
               PROVE  /\ At(i) < u => desc'[i] = desc[i]
                      /\ u <= At(i) /\ At(i) < u + n => desc'[i].last = (i = e) /\ ~desc'[i].dd
                      /\ u + n <= At(i) => desc'[i] = desc[i]
    BY <1>17
  <2>1. PICK a \in Nat : a = At(i)  BY <1>6
  <2>2. i \in SlotsFrom(next_to_use, n) <=> u <= a /\ a < u + n  BY <1>5, <1>17, <2>1
  <2>3. CASE i \in SlotsFrom(next_to_use, n)
    <3>1. desc'[i] = [skb |-> skb, last |-> i = e, dd |-> FALSE]  BY <1>8, <2>3
    <3>2. desc'[i].last = (i = e) /\ ~desc'[i].dd  BY <3>1
    <3> QED  BY <1>18, <2>1, <2>2, <2>3, <3>2
  <2>4. CASE i \notin SlotsFrom(next_to_use, n)
    <3>1. desc'[i] = desc[i]  BY <1>8, <2>4
    <3> QED  BY <1>18, <2>1, <2>2, <2>4, <3>1
  <2> QED  BY <2>3, <2>4
<1>10. /\ At(tdh) <= At(tdt) /\ At(tdt) <= At(next_to_use)
       /\ Dist(next_to_clean, next_to_use) = Dist(next_to_clean, Cleaned) + At(next_to_use)
       /\ Dist(next_to_clean, Cleaned) \in Nat
  BY <1>0, <1>6, DistType DEF Ring, Order
<1>11. Order'
  <2>1. /\ At(tdh)' = At(tdh) /\ At(tdt)' = At(tdt) /\ At(next_to_use)' = u + n
        /\ Dist(next_to_clean, next_to_use)' = Dist(next_to_clean, next_to_use) + n
        /\ Dist(next_to_clean, Cleaned)' = Dist(next_to_clean, Cleaned)
    BY <1>4, <1>6, <1>7, <1>17 DEF At
  <2>2. At(tdt) \in Nat /\ At(tdt) <= u + n  BY <1>0, <1>6, <1>10, <1>17, <1>18
  <2>3. Dist(next_to_clean, next_to_use) + n = Dist(next_to_clean, Cleaned) + (u + n)
    BY <1>10, <1>17, <1>18
  <2> QED  BY <1>10, <2>1, <2>2, <2>3 DEF Order
<1>12. ASSUME NEW i \in Slots, At(i) <= At(next_to_use) PROVE Begins(i)' <=> Begins(i)
  <2>1. CASE i = Cleaned  BY <1>6, <2>1 DEF Begins
  <2>2. CASE i # Cleaned
    <3>1. At(Pred(i)) = At(i) - 1 /\ Pred(i) \in Slots
      BY <1>6, <2>2, DistPred, DistType DEF At
    <3>2. desc'[Pred(i)] = desc[Pred(i)]  
      <4>1. At(i) \in Nat /\ At(next_to_use) \in Nat  BY <1>0, <1>6
      <4>2. At(Pred(i)) < At(next_to_use)  BY <1>12, <3>1, <4>1
      <4> QED  BY <1>9, <3>1, <4>2
    <3> QED  BY <1>6, <3>2 DEF Begins
  <2> QED  BY <2>1, <2>2
<1>13. desc'[e].last
  <2>1. u <= At(e) /\ At(e) < u + n  BY <1>4, <1>17, <1>18
  <2> QED  BY <1>4, <1>9, <1>17, <2>1
<1>14. Whole'
  <2>1. Begins(tdh)' /\ Begins(tdt)'
    <3>1. At(tdh) <= At(next_to_use)  BY <1>0, <1>6, <1>10
    <3>2. \A i \in Slots : At(i) <= At(next_to_use) => (Begins(i)' <=> Begins(i))  BY <1>12
    <3> QED  BY <1>0, <1>7, <1>10, <3>1, <3>2 DEF Ring, Whole, Begins
  <2>2. Begins(next_to_use)'
    <3>1. Pred(Succ(e)) = e  BY <1>4, SuccIs
    <3> QED  BY <1>7, <1>13, <3>1 DEF Begins
  <2> QED  BY <2>1, <2>2 DEF Whole
<1>15. Watched'
  <2> SUFFICES ASSUME NEW i \in Slots, Used(i)', Begins(i)'
               PROVE  Ends(i, buffer_info[i].next_to_watch)'
    BY DEF Watched
  <2>0. At(i) < At(next_to_use) + n  BY <1>4, <1>6, <1>7 DEF Used, At
  <2>1. CASE At(i) < At(next_to_use)
    <3>1. PICK w \in Slots : w = buffer_info[i].next_to_watch  BY <1>0
    <3>2. Ends(i, w)
      <4>1. At(i) \in Nat /\ At(next_to_use) \in Nat  BY <1>0, <1>6
      <4>2. At(i) <= At(next_to_use)  BY <2>1, <4>1
      <4>3. Begins(i)  BY <1>12, <4>2
      <4> QED  BY <2>1, <3>1, <4>3 DEF Ring, Watched, Used
    <3>3. buffer_info'[i].next_to_watch = w
      <4>1. i # next_to_use  BY <1>6, <2>1
      <4> QED  BY <1>7, <3>1, <4>1 DEF TypeOK, Buffer
    <3>4. /\ At(i) <= At(w) /\ At(w) < At(next_to_use) /\ desc[w].last
          /\ \A k \in Slots : At(i) <= At(k) /\ At(k) < At(w) => ~desc[k].last
      BY <3>2 DEF Ends
    <3>5. desc'[w].last /\ \A k \in Slots : At(i) <= At(k) /\ At(k) < At(w) => ~desc'[k].last
      <4>1. desc'[w] = desc[w]  BY <1>9, <3>4
      <4>2. ASSUME NEW k \in Slots, At(i) <= At(k), At(k) < At(w) PROVE ~desc'[k].last
        <5>1. At(k) < At(next_to_use)  BY <1>0, <1>6, <3>4, <4>2
        <5> QED  BY <1>9, <3>4, <4>2, <5>1
      <4> QED  BY <3>4, <4>1, <4>2
    <3>6. At(w) < At(next_to_use) + n  BY <1>6, <1>17, <1>18, <3>4
    <3>7. Ends(i, w)'
      <4>1. At(next_to_use)' = At(next_to_use) + n  BY <1>4, <1>6, <1>7 DEF At
      <4> QED  BY <1>6, <3>4, <3>5, <3>6, <4>1 DEF Ends
    <3> QED  BY <3>3, <3>7 DEF Ends, At, Cleaned
  <2>2. CASE i = next_to_use
    <3>1. buffer_info'[i].next_to_watch = e  BY <1>7, <2>2 DEF TypeOK, Buffer
    <3>2. \A k \in Slots : At(i) <= At(k) /\ At(k) < At(e) => ~desc'[k].last
      <4> SUFFICES ASSUME NEW k \in Slots, At(i) <= At(k), At(k) < At(e)
                   PROVE  ~desc'[k].last
        OBVIOUS
      <4>1. k # e /\ u <= At(k) /\ At(k) < u + n
        BY <1>4, <1>6, <1>17, <1>18, <2>2
      <4> QED  BY <1>9, <1>17, <4>1
    <3>3. At(next_to_use)' = At(next_to_use) + n  BY <1>4, <1>6, <1>7 DEF At
    <3>4. At(i) <= At(e) /\ At(e) < At(next_to_use) + n  BY <1>4, <1>6, <2>2
    <3>5. Ends(i, e)'  BY <1>4, <1>6, <1>13, <3>2, <3>3, <3>4 DEF Ends
    <3> QED  BY <3>1, <3>5 DEF Ends, At, Cleaned
  <2>3. CASE At(next_to_use) <= At(i) /\ i # next_to_use
    <3>1. At(i) # At(next_to_use)  BY <1>0, <1>6, <2>3, DistSame DEF At
    <3>2. i # Cleaned
      <4>1. At(Cleaned) = 0  BY <1>6, DistSame DEF At
      <4> QED  BY <1>17, <2>3, <3>1, <4>1
    <3>3. At(Pred(i)) = At(i) - 1 /\ Pred(i) \in Slots
      BY <1>6, <3>2, DistPred, DistType DEF At
    <3>4. Pred(i) # e /\ ~desc'[Pred(i)].last
      <4>1. PICK a \in Nat : a = At(i)  BY <1>6
      <4>2. a > u /\ a < u + n /\ At(Pred(i)) = a - 1  BY <1>17, <1>18, <2>0, <2>3, <3>1, <3>3, <4>1
      <4>3. u <= At(Pred(i)) /\ At(Pred(i)) < u + n /\ Pred(i) # e
        BY <1>4, <1>17, <1>18, <4>1, <4>2
      <4> QED  BY <1>9, <1>17, <3>3, <4>3
    <3> QED  BY <1>6, <3>2, <3>4 DEF Begins
  <2> QED  BY <1>6, <1>17, <2>1, <2>2, <2>3
<1>16. DoneIsSent'
  <2> SUFFICES ASSUME NEW i \in Slots
               PROVE  desc'[i].dd <=> desc'[i].last /\ At(i) < At(tdh)
    BY <1>6, <1>7 DEF DoneIsSent, Sent, At
  <2>1. desc[i].dd <=> desc[i].last /\ At(i) < At(tdh)  BY DEF Ring, DoneIsSent, Sent
  <2>2. PICK a \in Nat : a = At(i)  BY <1>6
  <2>3. PICK h \in Nat : h = At(tdh) /\ h <= u
    BY <1>0, <1>6, <1>10, <1>17
  <2>4. CASE u <= a /\ a < u + n
    <3>1. ~desc'[i].dd  BY <1>9, <1>17, <2>2, <2>4
    <3>2. ~(a < h)  BY <1>17, <2>2, <2>3, <2>4
    <3> QED  BY <2>2, <2>3, <3>1, <3>2
  <2>5. CASE ~(u <= a /\ a < u + n)
    <3>1. desc'[i] = desc[i]  BY <1>9, <1>17, <1>18, <2>2, <2>5
    <3> QED  BY <2>1, <3>1
  <2> QED  BY <2>4, <2>5
<1> QED  BY <1>11, <1>14, <1>15, <1>16 DEF Ring

\* The device sends one whole packet, and marks its end.
LEMMA RingSends ==
    ASSUME TypeOK, Ring, DeviceSends
    PROVE  Ring'
<1>0. /\ next_to_use \in Slots /\ next_to_clean \in Slots /\ tdh \in Slots /\ tdt \in Slots
      /\ \A i \in Slots : buffer_info[i].next_to_watch \in Slots
  BY RingTypes
<1>1. PICK e : e = EndOf(tdh)  OBVIOUS
<1>2. e \in Slots /\ Ends(tdh, e) /\ At(e) < At(tdt)
  BY <1>1, EndOfIs DEF DeviceSends, CanSend
<1>3. /\ tdh' = Succ(e) /\ UNCHANGED <<next_to_use, next_to_clean, tdt, buffer_info>>
      /\ Cleaned' = Cleaned /\ Cleaned \in Slots
      /\ \A i \in Slots : /\ desc'[i].last <=> desc[i].last
                          /\ desc'[i].dd <=> (i = e \/ desc[i].dd)
  BY <1>1, <1>2, CleanedType DEF DeviceSends, TypeOK, Desc, Cleaned
<1>4. \A i \in Slots : At(i)' = At(i) /\ At(i) \in Nat /\ At(i) < Count
  BY <1>3, AtTypes DEF At
<1>5. At(tdh)' = At(e) + 1 /\ Succ(e) \in Slots /\ Pred(Succ(e)) = e
  <2>1. Dist(Cleaned, Succ(e)) = IF Dist(Cleaned, e) = Count - 1 THEN 0 ELSE Dist(Cleaned, e) + 1
    BY <1>2, <1>3, DistSucc
  <2>2. Succ(e) \in Slots /\ Pred(Succ(e)) = e  BY <1>2, SuccIs
  <2>3. At(e) # Count - 1
    <3>1. At(tdt) \in Nat /\ At(tdt) < Count /\ At(e) \in Nat  BY <1>0, <1>2, <1>4
    <3> QED  BY <1>2, <3>1, SlotTypes
  <2> QED  BY <1>3, <2>1, <2>2, <2>3 DEF At
<1>6. Order'
  <2>1. At(tdh)' <= At(tdt)
    <3>1. At(tdt) \in Nat /\ At(e) \in Nat  BY <1>0, <1>2, <1>4
    <3> QED  BY <1>2, <1>5, <3>1
  <2> QED  BY <1>3, <1>4, <2>1 DEF Ring, Order, At
<1>7. ASSUME NEW i \in Slots PROVE Begins(i)' <=> Begins(i)
  <2>1. Pred(i) \in Slots  BY DistType
  <2> QED  BY <1>3, <2>1 DEF Begins
<1>8. Whole'
  <2>1. Begins(tdh)'  BY <1>2, <1>3, <1>5 DEF Begins, Ends
  <2>2. Begins(tdt)' /\ Begins(next_to_use)'  
    BY <1>0, <1>3, <1>7 DEF Ring, Whole, Begins
  <2> QED  BY <2>1, <2>2 DEF Whole
<1>9. ASSUME NEW i \in Slots, NEW w \in Slots, Ends(i, w) PROVE Ends(i, w)'
  <2>1. At(next_to_use)' = At(next_to_use)  BY <1>3, <1>4 DEF At
  <2> QED  BY <1>3, <1>4, <1>9, <2>1 DEF Ends
<1>10. Watched'
  <2> SUFFICES ASSUME NEW i \in Slots, Used(i)', Begins(i)'
               PROVE  Ends(i, buffer_info[i].next_to_watch)'
    BY DEF Watched
  <2>1. Used(i) /\ Begins(i)  BY <1>3, <1>4, <1>7 DEF Used, At
  <2>2. PICK w \in Slots : w = buffer_info[i].next_to_watch /\ Ends(i, w)
    BY <1>0, <2>1 DEF Ring, Watched
  <2>3. Ends(i, w)'  BY <1>9, <2>2
  <2> QED  BY <1>3, <2>2, <2>3 DEF Ends, At, Cleaned
<1>11. DoneIsSent'
  <2> SUFFICES ASSUME NEW i \in Slots
               PROVE  desc'[i].dd <=> desc'[i].last /\ At(i) <= At(e)
    <3>1. \A i \in Slots : At(i)' < At(tdh)' <=> At(i) <= At(e)  BY <1>2, <1>4, <1>5
    <3> QED  BY <3>1 DEF DoneIsSent, Sent
  <2>1. desc[i].dd <=> desc[i].last /\ At(i) < At(tdh)  BY DEF Ring, DoneIsSent, Sent
  <2>2. /\ At(tdh) <= At(e) /\ desc[e].last
        /\ At(tdh) <= At(i) /\ At(i) < At(e) => ~desc[i].last
    BY <1>2 DEF Ends
  <2>3. At(i) = At(e) => i = e  BY <1>2, <1>3, DistSame DEF At
  <2>4. PICK a \in Nat, b \in Nat, h \in Nat : a = At(i) /\ b = At(e) /\ h = At(tdh)
    BY <1>0, <1>2, <1>4
  <2>5. desc'[i].last <=> desc[i].last  BY <1>3
  <2>6. CASE i = e  BY <1>3, <2>2, <2>4, <2>5, <2>6
  <2>7. CASE i # e
    <3>1. desc'[i].dd <=> desc[i].dd  BY <1>3, <2>7
    <3>2. a # b  BY <2>3, <2>4, <2>7
    <3>3. desc[i].last => (a < h <=> a <= b)  BY <2>2, <2>4, <3>2
    <3> QED  BY <2>1, <2>4, <2>5, <3>1, <3>3
  <2> QED  BY <2>6, <2>7
<1> QED  BY <1>6, <1>8, <1>10, <1>11 DEF Ring

\* What is clean moves on to behind the packet that was freed.
LEMMA CleanMoves ==
    ASSUME TypeOK, Ring, CleanPacket, NEW b, b = Succ(cleaner.eop)
    PROVE  /\ b \in Slots /\ Cleaned = cleaner.i /\ Cleaned' = b
           /\ desc[cleaner.eop].last /\ Pred(b) = cleaner.eop
           /\ At(b) = At(cleaner.eop) + 1 /\ At(b) <= At(tdh)
           /\ Dist(next_to_clean, b) = Dist(next_to_clean, Cleaned) + At(b)
           /\ \A i \in Slots : At(i)' = IF At(b) <= At(i) THEN At(i) - At(b)
                                        ELSE At(i) + Count - At(b)
           /\ cleaner' = [cleaner EXCEPT !.i = b, !.eop = buffer_info[b].next_to_watch,
                                         !.count = @ + At(b)]
           /\ desc' = [s \in Slots |-> IF At(s) < At(b) THEN [desc[s] EXCEPT !.dd = FALSE]
                                       ELSE desc[s]]
           /\ buffer_info' = [s \in Slots |->
                 IF At(s) < At(b)
                 THEN [buffer_info[s] EXCEPT !.skb = None, !.time_stamp = FALSE]
                 ELSE buffer_info[s]]
<1>0. /\ next_to_use \in Slots /\ next_to_clean \in Slots /\ tdh \in Slots /\ tdt \in Slots
      /\ Cleaned \in Slots /\ cleaner.eop \in Slots /\ cleaner.i \in Slots
      /\ Count \in Nat \ {0}
  BY RingTypes, CleanedType, SlotTypes
<1>1. Cleaned = cleaner.i  BY DEF CleanPacket, Cleaned
<1>2. \A i \in Slots : At(i) \in Nat /\ At(i) < Count  BY AtTypes
<1>3. desc[cleaner.eop].last /\ At(cleaner.eop) < At(tdh)
  BY <1>0 DEF CleanPacket, Ring, DoneIsSent, Sent
<1>4. PICK e \in Nat : e = At(cleaner.eop)  BY <1>0, <1>2
<1>5. PICK h \in Nat : h = At(tdh) /\ e < h /\ h < Count  BY <1>0, <1>2, <1>3, <1>4
<1>6. b \in Slots /\ Pred(b) = cleaner.eop  BY <1>0, SuccIs
<1>7. At(b) = e + 1
  <2>1. At(b) = IF At(cleaner.eop) = Count - 1 THEN 0 ELSE At(cleaner.eop) + 1
    BY <1>0, DistSucc DEF At
  <2>2. e # Count - 1  BY <1>0, <1>4, <1>5
  <2> QED  BY <1>4, <2>1, <2>2
<1>8. At(b) <= h  BY <1>4, <1>5, <1>7
<1>9. (cleaner.eop + Count - cleaner.i) % Count = e
  BY <1>0, <1>1, <1>4, DistMod DEF At
<1>10. \A x \in Slots : x \in SlotsFrom(cleaner.i, 1 + e) <=> At(x) < At(b)
  <2> SUFFICES ASSUME NEW x \in Slots
               PROVE  x \in SlotsFrom(cleaner.i, 1 + e) <=> At(x) < At(b)
    OBVIOUS
  <2>1. 1 + e \in 0 .. Count /\ 1 + e = e + 1  BY <1>0, <1>4, <1>5
  <2>2. x \in SlotsFrom(cleaner.i, 1 + e) <=> Dist(cleaner.i, x) < 1 + e
    BY <1>0, <2>1, SlotsFromIs
  <2> QED  BY <1>1, <1>7, <2>1, <2>2 DEF At
<1>11. PICK S : S = SlotsFrom(cleaner.i, 1 + e)  OBVIOUS
<1>12. /\ cleaner' = [cleaner EXCEPT !.i = b, !.eop = buffer_info[b].next_to_watch,
                                     !.count = @ + (1 + e)]
       /\ desc' = [s \in Slots |-> IF s \in S THEN [desc[s] EXCEPT !.dd = FALSE] ELSE desc[s]]
       /\ buffer_info' = [s \in Slots |->
             IF s \in S THEN [buffer_info[s] EXCEPT !.skb = None, !.time_stamp = FALSE]
             ELSE buffer_info[s]]
  BY <1>9, <1>11 DEF CleanPacket
<1>13. S = {x \in Slots : At(x) < At(b)}
  <2>1. 1 + e \in 0 .. Count  BY <1>0, <1>4, <1>5
  <2>2. S \subseteq Slots  BY <1>0, <1>11, <2>1, SlotsFromIs
  <2> QED  BY <1>10, <1>11, <2>2
<1>14. 1 + e = At(b)  BY <1>4, <1>7
<1>15. Cleaned' = b
  <2>1. cleaner'.pc = "clean" /\ cleaner'.i = b
    BY <1>12 DEF CleanPacket, TypeOK, Cleaner
  <2> QED  BY <2>1 DEF Cleaned
<1>16. PICK c \in Nat : c = Dist(next_to_clean, Cleaned)  BY <1>0, DistType
<1>17. PICK u \in Nat : u = At(next_to_use) /\ h <= u  BY <1>0, <1>2, <1>5 DEF Ring, Order
<1>18. c + u < Count
  <2>1. Dist(next_to_clean, next_to_use) = c + u  BY <1>16, <1>17 DEF Ring, Order
  <2>2. Dist(next_to_clean, next_to_use) \in Slots  BY <1>0, DistType
  <2> QED  BY <2>1, <2>2, SlotTypes
<1>19. Dist(next_to_clean, b) = c + (e + 1)
  <2>1. PICK k \in Nat : k = Dist(next_to_clean, b)  BY <1>0, <1>6, DistType
  <2>2. k = IF c <= k THEN c + (e + 1) ELSE c + (e + 1) - Count
    BY <1>0, <1>6, <1>7, <1>16, <2>1, DistAdd DEF At
  <2> QED  BY <1>0, <1>4, <1>5, <1>17, <1>18, <2>1, <2>2
<1>20. \A i \in Slots : At(i)' = IF At(b) <= At(i) THEN At(i) - At(b)
                                 ELSE At(i) + Count - At(b)
  <2> SUFFICES ASSUME NEW i \in Slots
               PROVE  Dist(b, i) = IF At(b) <= At(i) THEN At(i) - At(b)
                                   ELSE At(i) + Count - At(b)
    BY <1>15 DEF At
  <2>1. PICK a \in Nat : a = At(i)  BY <1>2
  <2>2. PICK k \in Nat : k = Dist(b, i)  BY <1>6, DistType
  <2>3. a = IF e + 1 <= a THEN (e + 1) + k ELSE (e + 1) + k - Count
    BY <1>0, <1>6, <1>7, <2>1, <2>2, DistAdd DEF At
  <2>4. k = IF e + 1 <= a THEN a - (e + 1) ELSE a + Count - (e + 1)
    BY <1>0, <1>4, <2>1, <2>2, <2>3
  <2> QED  BY <1>7, <2>1, <2>2, <2>4
<1> QED
  BY <1>1, <1>3, <1>4, <1>5, <1>6, <1>7, <1>8, <1>12, <1>13, <1>14, <1>15, <1>16, <1>19, <1>20

LEMMA CleanFrees ==
    ASSUME TypeOK, Ring, CleanPacket, NEW S,
           S = {x \in Slots : At(x) < At(Succ(cleaner.eop))}
    PROVE  freed' = [p \in Packets |->
                        freed[p] + Cardinality({s \in S : buffer_info[s].skb = p})]
<1>1. PICK b : b = Succ(cleaner.eop)  OBVIOUS
<1>2. b \in Slots /\ Cleaned = cleaner.i /\ At(b) = At(cleaner.eop) + 1 /\ At(b) <= At(tdh)
  BY <1>1, CleanMoves
<1>3. /\ cleaner.eop \in Slots /\ cleaner.i \in Slots /\ Cleaned \in Slots /\ tdh \in Slots
      /\ Count \in Nat \ {0}
  BY RingTypes, CleanedType, SlotTypes
<1>4. PICK e \in Nat : e = At(cleaner.eop) /\ e + 1 < Count
  BY <1>2, <1>3, AtTypes
<1>5. (cleaner.eop + Count - cleaner.i) % Count = e
  BY <1>2, <1>3, <1>4, DistMod DEF At
<1>6. PICK T : T = SlotsFrom(cleaner.i, 1 + e)  OBVIOUS
<1>7. freed' = [p \in Packets |->
                   freed[p] + Cardinality({s \in T : buffer_info[s].skb = p})]
  BY <1>5, <1>6 DEF CleanPacket
<1>8. T = S
  <2>1. 1 + e \in 0 .. Count /\ 1 + e = e + 1  BY <1>3, <1>4
  <2>2. T = {x \in Slots : Dist(cleaner.i, x) < 1 + e}  BY <1>3, <1>6, <2>1, SlotsFromIs
  <2> QED  BY <1>1, <1>2, <1>4, <2>1, <2>2 DEF At
<1> QED  BY <1>7, <1>8

LEMMA RingCleaned ==
    ASSUME TypeOK, Ring, CleanPacket
    PROVE  Ring'
<1>0. /\ next_to_use \in Slots /\ next_to_clean \in Slots /\ tdh \in Slots /\ tdt \in Slots
      /\ Cleaned \in Slots /\ cleaner.eop \in Slots /\ cleaner.i \in Slots
      /\ Count \in Nat \ {0}
      /\ \A i \in Slots : buffer_info[i].next_to_watch \in Slots
  BY RingTypes, CleanedType, SlotTypes
<1>1. PICK b : b = Succ(cleaner.eop)  OBVIOUS
<1>2. /\ b \in Slots /\ Cleaned' = b
      /\ desc[cleaner.eop].last /\ Pred(b) = cleaner.eop
      /\ At(b) = At(cleaner.eop) + 1 /\ At(b) <= At(tdh)
      /\ Dist(next_to_clean, b) = Dist(next_to_clean, Cleaned) + At(b)
  BY <1>1, CleanMoves
<1>3. \A i \in Slots : At(i)' = IF At(b) <= At(i) THEN At(i) - At(b)
                                ELSE At(i) + Count - At(b)
  BY <1>1, CleanMoves
<1>4. \A s \in Slots : /\ desc'[s].last <=> desc[s].last
                       /\ At(b) <= At(s) => desc'[s] = desc[s]
                       /\ At(s) < At(b) => ~desc'[s].dd
                       /\ buffer_info'[s].next_to_watch = buffer_info[s].next_to_watch
  <2>0. \A s \in Slots : At(s) \in Nat /\ At(b) \in Nat  BY <1>2, AtTypes
  <2>1. desc' = [s \in Slots |-> IF At(s) < At(b) THEN [desc[s] EXCEPT !.dd = FALSE]
                                 ELSE desc[s]]
    BY <1>1, CleanMoves
  <2>2. buffer_info' = [s \in Slots |->
                 IF At(s) < At(b)
                 THEN [buffer_info[s] EXCEPT !.skb = None, !.time_stamp = FALSE]
                 ELSE buffer_info[s]]
    BY <1>1, CleanMoves
  <2> SUFFICES ASSUME NEW s \in Slots
               PROVE  /\ desc'[s].last <=> desc[s].last
                      /\ At(b) <= At(s) => desc'[s] = desc[s]
                      /\ At(s) < At(b) => ~desc'[s].dd
                      /\ buffer_info'[s].next_to_watch = buffer_info[s].next_to_watch
    OBVIOUS
  <2>3. /\ desc[s] \in [skb : Packets \cup {None}, last : BOOLEAN, dd : BOOLEAN]
        /\ buffer_info[s] \in [skb : Packets \cup {None}, next_to_watch : Slots,
                               time_stamp : BOOLEAN]
    BY DEF TypeOK, Buffer, Desc
  <2>4. CASE At(s) < At(b)
    <3>1. /\ desc'[s] = [desc[s] EXCEPT !.dd = FALSE]
          /\ buffer_info'[s] = [buffer_info[s] EXCEPT !.skb = None, !.time_stamp = FALSE]
      BY <2>1, <2>2, <2>4
    <3>2. ~(At(b) <= At(s))  BY <2>0, <2>4
    <3> QED  BY <2>3, <3>1, <3>2
  <2>5. CASE ~(At(s) < At(b))  BY <2>1, <2>2, <2>5
  <2> QED  BY <2>4, <2>5
<1>5. UNCHANGED <<next_to_use, next_to_clean, tdh, tdt>>  BY DEF CleanPacket
<1>6. \A i \in Slots : At(i) \in Nat /\ At(i) < Count  BY AtTypes
<1>7. /\ At(b) \in Nat /\ At(b) <= At(tdh) /\ At(tdh) <= At(tdt) /\ At(tdt) <= At(next_to_use)
      /\ At(tdh) \in Nat /\ At(tdt) \in Nat /\ At(next_to_use) \in Nat
  BY <1>0, <1>2, <1>6 DEF Ring, Order
<1>8. /\ At(tdh)' = At(tdh) - At(b) /\ At(tdt)' = At(tdt) - At(b)
      /\ At(next_to_use)' = At(next_to_use) - At(b)
  <2>1. At(b) <= At(tdt) /\ At(b) <= At(next_to_use)  BY <1>7
  <2> QED  BY <1>0, <1>3, <1>5, <1>7, <2>1 DEF At
\* Between two slots from b on, nothing changes.
<1>9. ASSUME NEW i \in Slots, NEW j \in Slots, At(j) >= At(b)
      PROVE  (At(i)' < At(j)' <=> At(b) <= At(i) /\ At(i) < At(j))
  <2>1. PICK x \in Nat, y \in Nat, z \in Nat :
           x = At(i) /\ y = At(j) /\ z = At(b) /\ x < Count /\ y < Count
    BY <1>2, <1>6
  <2>2. At(j)' = y - z  BY <1>3, <1>9, <2>1
  <2>3. CASE z <= x
    <3>1. At(i)' = x - z  BY <1>3, <2>1, <2>3
    <3> QED  BY <2>1, <2>2, <2>3, <3>1
  <2>4. CASE ~(z <= x)
    <3>1. At(i)' = x + Count - z  BY <1>3, <2>1, <2>4
    <3> QED  BY <1>0, <1>9, <2>1, <2>2, <2>4, <3>1
  <2> QED  BY <2>3, <2>4
<1>10. Order'
  <2>1. At(tdh)' <= At(tdt)' /\ At(tdt)' <= At(next_to_use)'  BY <1>7, <1>8
  <2>2. PICK c \in Nat : c = Dist(next_to_clean, Cleaned)  BY <1>0, DistType
  <2>3. Dist(next_to_clean, next_to_use) = c + At(next_to_use)  BY <2>2 DEF Ring, Order
  <2>4. Dist(next_to_clean, b) = c + At(b)  BY <1>2, <2>2
  <2>5. c + At(next_to_use) = (c + At(b)) + (At(next_to_use) - At(b))  BY <1>7, <2>2
  <2>6. Dist(next_to_clean, next_to_use)
           = Dist(next_to_clean, b) + (At(next_to_use) - At(b))
    BY <2>3, <2>4, <2>5
  <2> QED  BY <1>2, <1>5, <1>8, <2>1, <2>6 DEF Order
<1>11. ASSUME NEW i \in Slots, At(b) <= At(i) PROVE Begins(i)' <=> Begins(i)
  <2>1. Pred(i) \in Slots  BY DistType
  <2>2. i # Cleaned
    <3>1. At(Cleaned) = 0  BY <1>0, DistSame DEF At
    <3>2. At(b) > 0  BY <1>0, <1>2, <1>6
    <3> QED  BY <1>7, <1>11, <3>1, <3>2
  <2>3. i = b => desc[Pred(i)].last  BY <1>2
  <2> QED  BY <1>2, <1>4, <2>1, <2>2, <2>3 DEF Begins
<1>12. Whole'
  <2>1. At(b) <= At(tdt) /\ At(b) <= At(next_to_use)  BY <1>7
  <2> QED  BY <1>0, <1>5, <1>7, <1>11, <2>1 DEF Ring, Whole, Begins
<1>13. Watched'
  <2> SUFFICES ASSUME NEW i \in Slots, Used(i)', Begins(i)'
               PROVE  Ends(i, buffer_info[i].next_to_watch)'
    BY DEF Watched
  <2>1. At(b) <= At(next_to_use)  BY <1>7
  <2>2. At(i)' < At(next_to_use)'  BY DEF Used
  <2>3. At(b) <= At(i) /\ At(i) < At(next_to_use)
    <3>1. \A j \in Slots : At(j) >= At(b) =>
            (At(i)' < At(j)' <=> At(b) <= At(i) /\ At(i) < At(j))
      BY <1>9
    <3>2. At(i)' < At(next_to_use) - At(b)  BY <1>8, <2>2
    <3>3. PICK u \in Slots : u = next_to_use  BY <1>0
    <3>4. At(u)' = At(u) - At(b) /\ At(u) >= At(b)  BY <1>3, <1>7, <2>1, <3>3
    <3> QED  BY <3>1, <3>2, <3>3, <3>4
  <2>4. Begins(i)  BY <1>11, <2>3
  <2>5. PICK w \in Slots : w = buffer_info[i].next_to_watch /\ Ends(i, w)
    BY <1>0, <2>3, <2>4 DEF Ring, Watched, Used
  <2>6. /\ At(i) <= At(w) /\ At(w) < At(next_to_use) /\ desc[w].last
        /\ \A k \in Slots : At(i) <= At(k) /\ At(k) < At(w) => ~desc[k].last
    BY <2>5 DEF Ends
  <2>7. At(b) <= At(w)  BY <1>6, <1>7, <2>3, <2>6
  <2>8. At(i)' = At(i) - At(b) /\ At(w)' = At(w) - At(b)  BY <1>3, <2>3, <2>7
  <2>9. At(i)' <= At(w)' /\ At(w)' < At(next_to_use)'
    BY <1>6, <1>7, <1>8, <2>6, <2>8
  <2>10. ASSUME NEW k \in Slots, At(i)' <= At(k)', At(k)' < At(w)' PROVE ~desc'[k].last
    <3>1. At(b) <= At(k) /\ At(k) < At(w)  BY <1>9, <2>7, <2>10
    <3>2. At(k)' = At(k) - At(b)  BY <1>3, <3>1
    <3>3. PICK x \in Nat, y \in Nat, z \in Nat : x = At(i) /\ y = At(k) /\ z = At(b)
      BY <1>6, <1>7
    <3>4. x <= y  BY <2>8, <2>10, <3>2, <3>3
    <3> QED  BY <1>4, <2>6, <3>1, <3>3, <3>4
  <2>11. Ends(i, w)'  BY <1>4, <2>6, <2>9, <2>10 DEF Ends
  <2> QED  BY <1>4, <2>5, <2>11 DEF Ends, At, Cleaned
<1>14. DoneIsSent'
  <2> SUFFICES ASSUME NEW i \in Slots
               PROVE  desc'[i].dd <=> desc'[i].last /\ At(b) <= At(i) /\ At(i) < At(tdh)
    <3>1. ASSUME NEW i \in Slots
          PROVE  At(i)' < At(tdh)' <=> At(b) <= At(i) /\ At(i) < At(tdh)
      <4>1. PICK u \in Slots : u = tdh  BY <1>0
      <4>2. At(u)' = At(tdh)'  BY <1>5, <1>8, <1>3, <1>7, <4>1
      <4>3. At(i)' < At(u)' <=> At(b) <= At(i) /\ At(i) < At(u)  BY <1>7, <1>9, <4>1
      <4> QED  BY <4>1, <4>2, <4>3
    <3> QED  BY <3>1 DEF DoneIsSent, Sent
  <2>1. desc[i].dd <=> desc[i].last /\ At(i) < At(tdh)  BY DEF Ring, DoneIsSent, Sent
  <2>2. CASE At(b) <= At(i)  BY <1>4, <2>1, <2>2
  <2>3. CASE At(i) < At(b)
    <3>1. ~(At(b) <= At(i))  BY <1>6, <1>7, <2>3
    <3> QED  BY <1>4, <2>3, <3>1
  <2> QED  BY <1>6, <1>7, <2>2, <2>3
<1> QED  BY <1>10, <1>12, <1>13, <1>14 DEF Ring

\* What was cleaned is for new packets.
LEMMA RingEnds ==
    ASSUME TypeOK, Ring, CleanEnds
    PROVE  Ring' /\ Cleaned' = Cleaned
<1>1. /\ cleaner.pc = "clean" /\ next_to_clean' = cleaner.i /\ cleaner'.pc = "room"
      /\ UNCHANGED <<next_to_use, buffer_info, desc, tdh, tdt>>
  BY DEF CleanEnds, TypeOK, Cleaner
<1>2. Cleaned' = Cleaned /\ Cleaned = cleaner.i  BY <1>1 DEF Cleaned
<1>3. \A i : At(i)' = At(i)  BY <1>2 DEF At
<1>4. \A i : Used(i)' = Used(i) /\ Sent(i)' = Sent(i) /\ Begins(i)' = Begins(i)
  BY <1>1, <1>2, <1>3 DEF Used, Sent, Begins
<1>5. \A i, e : Ends(i, e)' <=> Ends(i, e)  BY <1>1, <1>3 DEF Ends
<1>6. Whole' /\ DoneIsSent'  BY <1>1, <1>2, <1>3, <1>4 DEF Ring, Whole, DoneIsSent, Begins
<1>7. Watched'  BY <1>1, <1>4, <1>5 DEF Ring, Watched
<1>8. Order'
  <2>1. Dist(cleaner.i, cleaner.i) = 0  BY RingTypes, DistSame
  <2>2. At(next_to_use) = Dist(cleaner.i, next_to_use) /\ At(next_to_use) \in Nat
    BY <1>2, RingTypes, AtTypes DEF At
  <2>3. Dist(next_to_clean, next_to_use)' = Dist(next_to_clean, Cleaned)' + At(next_to_use)'
    BY <1>1, <1>2, <1>3, <2>1, <2>2 DEF At
  <2> QED  BY <1>1, <1>2, <1>3, <2>3 DEF Ring, Order, At
<1> QED  BY <1>2, <1>6, <1>7, <1>8 DEF Ring

\* A ring that is empty.
LEMMA RingEmpty ==
    ASSUME NEW i \in Slots, Cleaned = i, next_to_clean = i, next_to_use = i, tdh = i, tdt = i,
           desc = [s \in Slots |-> NoDesc]
    PROVE  Ring /\ \A s \in Slots : ~Used(s)
<1>1. At(i) = 0  BY DistSame DEF At
<1>2. \A s \in Slots : At(s) \in Nat  BY DistType DEF At
<1>3. Order  BY <1>1 DEF Order, At
<1>4. Whole  BY DEF Whole, Begins
<1>5. \A s \in Slots : ~Used(s) /\ ~Sent(s)  BY <1>1, <1>2 DEF Used, Sent
<1>6. Watched  BY <1>5 DEF Watched
<1>7. DoneIsSent  BY <1>5 DEF DoneIsSent, NoDesc
<1> QED  BY <1>3, <1>4, <1>5, <1>6, <1>7 DEF Ring

-----------------------------------------------------------------------------
(* Every step keeps the ring in order.                                     *)

LEMMA Starts == ASSUME Init PROVE TypeOK /\ Ring /\ Transmitting /\ Cleaning
<1>1. PICK case \in Cases : hook = case[1] /\ kind = case[2]  BY DEF Init
<1>2. hook \in {"driver", "nf"} /\ kind \in [Packets -> Kinds] /\ <<hook, kind>> \in Cases
  <2>1. case \in {"driver", "nf"} \X [Packets -> {"data", "syn", "control"}]
    BY DriverAssumption
  <2> QED  BY <1>1, <2>1 DEF Kinds
<1>3. /\ Start \in Slots /\ 0 \in Slots /\ <<>> \in Seq(Packets)
  BY DriverAssumption, SlotTypes, EmptySeq
<1>4. /\ tx \in Tx
      /\ cleaner \in Cleaner
      /\ queue \in Seq(Packets)
  BY <1>3 DEF Init, NoTx, NoCleaner, Tx, Cleaner
<1>5. /\ buffer_info \in [Slots -> Buffer]
      /\ desc \in [Slots -> Desc]
  BY DEF Init, NoBuffer, NoDesc, Buffer, Desc
<1>6. /\ next_to_use \in Slots /\ next_to_clean \in Slots /\ tdh \in Slots /\ tdt \in Slots
      /\ rewritten \in [Packets -> Nat] /\ freed \in [Packets -> Nat]
  BY <1>3 DEF Init
<1>7. TypeOK
  BY <1>2, <1>4, <1>5, <1>6 DEF TypeOK, Init
<1>8. Ring
  <2>1. Cleaned = Start  BY DEF Init, NoCleaner, Cleaned
  <2> QED  BY <1>3, <2>1, RingEmpty DEF Init
<1>9. Transmitting /\ Cleaning
  BY DEF Init, NoTx, NoCleaner, Transmitting, Cleaning
<1> QED  BY <1>7, <1>8, <1>9

LEMMA NextOfBatchIs ==
    ASSUME TypeOK, tx.batch # <<>>, NextOfBatch
    PROVE  /\ tx' \in [pc : {"hook", "idle"}, batch : Seq(Packets), queued : {FALSE}]
           /\ queue' \in Seq(Packets)
           /\ tx'.pc = "idle" <=> tx'.batch = <<>>
<1>1. Tail(tx.batch) \in Seq(Packets)  BY SkbType
<1>2. CASE Tail(tx.batch) # <<>> /\ ~stopped
  <2>1. /\ tx' = [pc |-> "hook", batch |-> Tail(tx.batch), queued |-> FALSE]
        /\ queue' = queue
    BY <1>2 DEF NextOfBatch
  <2> QED  BY <1>1, <1>2, <2>1 DEF TypeOK
<1>3. CASE ~(Tail(tx.batch) # <<>> /\ ~stopped)
  <2>1. tx' = NoTx /\ queue' = Tail(tx.batch) \o queue  BY <1>3 DEF NextOfBatch
  <2>2. queue' \in Seq(Packets)  BY <1>1, <2>1, ConcatProperties DEF TypeOK
  <2>3. <<>> \in Seq(Packets)  BY EmptySeq
  <2> QED  BY <2>1, <2>2, <2>3 DEF NoTx
<1> QED  BY <1>2, <1>3

LEMMA PassesType ==
    ASSUME TypeOK, NEW p \in Packets, Passes(p) \/ Refused(p)
    PROVE  rewritten' \in [Packets -> Nat] /\ freed' \in [Packets -> Nat]
           /\ lost' \subseteq Packets
<1>1. CASE Passes(p)
  <2>1. freed' = freed /\ lost' = lost /\ rewritten[p] + 1 \in Nat  BY <1>1 DEF Passes, TypeOK
  <2> QED  BY <1>1, <2>1 DEF Passes, TypeOK
<1>2. CASE Refused(p)
  <2>1. PICK n \in Nat : n = (IF kind[p] = "syn" THEN 1 ELSE 0) + (IF hook = "nf" THEN 1 ELSE 0)
    OBVIOUS
  <2>2. rewritten' = rewritten /\ freed' = [freed EXCEPT ![p] = @ + n]
    BY <1>2, <2>1 DEF Refused
  <2>3. freed[p] + n \in Nat  BY <2>1 DEF TypeOK
  <2>4. lost' \subseteq Packets  BY <1>2 DEF Refused, TypeOK
  <2> QED  BY <2>2, <2>3, <2>4 DEF TypeOK
<1> QED  BY <1>1, <1>2

LEMMA BuffersFreed ==
    ASSUME TypeOK, NEW S \in SUBSET Slots,
           freed' = [p \in Packets |->
              freed[p] + Cardinality({s \in S : buffer_info[s].skb = p})]
    PROVE  freed' \in [Packets -> Nat]
<1> SUFFICES ASSUME NEW p \in Packets
             PROVE  freed[p] + Cardinality({s \in S : buffer_info[s].skb = p}) \in Nat
  OBVIOUS
<1>1. IsFiniteSet(Slots)
  <2>1. 0 \in Int /\ Count - 1 \in Int  BY SlotTypes
  <2> QED  BY <2>1, SlotTypes, FS_Interval
<1>2. {s \in S : buffer_info[s].skb = p} \in SUBSET Slots  OBVIOUS
<1>3. IsFiniteSet({s \in S : buffer_info[s].skb = p})  BY <1>1, <1>2, FS_Subset
<1>4. Cardinality({s \in S : buffer_info[s].skb = p}) \in Nat  BY <1>3, FS_CardinalityType
<1>5. freed[p] \in Nat  BY DEF TypeOK
<1> QED  BY <1>4, <1>5

\* A mapping that fails leaves no packet.
LEMMA MapFailsKeeps ==
    ASSUME TypeOK, MapFails
    PROVE  /\ buffer_info' \in [Slots -> Buffer]
           /\ \A i \in Slots : buffer_info'[i].skb = buffer_info[i].skb
<1>1. PICK n \in 0 .. Size[skb], offload \in {0, 1} : buffer_info' = [i \in Slots |->
                 IF i \notin SlotsFrom(next_to_use, n) THEN buffer_info[i]
                 ELSE [buffer_info[i] EXCEPT
                         !.next_to_watch = IF i = Plus(next_to_use, n - 1) THEN @ ELSE i,
                         !.time_stamp = KeepsStamp(i, n, offload)]]
  BY DEF MapFails
<1>2. ASSUME NEW i \in Slots
      PROVE  buffer_info'[i] \in Buffer /\ buffer_info'[i].skb = buffer_info[i].skb
  <2>1. buffer_info[i] \in Buffer  BY DEF TypeOK
  <2>2. CASE i \notin SlotsFrom(next_to_use, n)  BY <1>1, <2>1, <2>2
  <2>3. CASE i \in SlotsFrom(next_to_use, n)
    <3>1. PICK t \in BOOLEAN : t = KeepsStamp(i, n, offload)  BY DEF KeepsStamp
    <3>2. PICK w \in Slots : w = IF i = Plus(next_to_use, n - 1)
                                THEN buffer_info[i].next_to_watch ELSE i
      BY <2>1 DEF Buffer
    <3>3. buffer_info'[i] = [buffer_info[i] EXCEPT !.next_to_watch = w, !.time_stamp = t]
      BY <1>1, <2>3, <3>1, <3>2
    <3> QED  BY <2>1, <3>3 DEF Buffer
  <2> QED  BY <2>2, <2>3
<1> QED  BY <1>1, <1>2

LEMMA TypeXmit ==
    ASSUME TypeOK, Ring, Transmitting, Xmit
    PROVE  TypeOK'
<1> USE DEF TypeOK, stack, ring, lines, work, races, history, driver
<1>1. tx.batch # <<>>
  BY DEF Transmitting, Xmit, XmitHook, MaybeStop, StopQueue, Recheck, Map, MapFails, TxQueue,
         WriteTail
<1>2. skb \in Packets /\ Size[skb] \in Nat \ {0} /\ Size[skb] + 2 < Count
  BY <1>1, SkbType
<1>3. ASSUME XmitHook PROVE TypeOK'
  <2>1. CASE /\ hook = "driver" => Passes(skb)
             /\ hook = "nf" => UNCHANGED <<rewritten, freed, lost>>
             /\ tx' = [tx EXCEPT !.pc = "check"]
             /\ UNCHANGED <<queue, muted>>
    <3>1. /\ rewritten' \in [Packets -> Nat] /\ freed' \in [Packets -> Nat]
          /\ lost' \subseteq Packets
      BY <1>2, <2>1, PassesType
    <3>2. tx' \in Tx  BY <2>1 DEF Tx
    <3> QED  BY <1>3, <2>1, <3>1, <3>2 DEF XmitHook
  <2>2. CASE hook = "driver" /\ Refused(skb) /\ NextOfBatch /\ Mutes
    <3>1. /\ rewritten' \in [Packets -> Nat] /\ freed' \in [Packets -> Nat]
          /\ lost' \subseteq Packets
      BY <1>2, <2>2, PassesType
    <3>2. tx' \in Tx
          /\ queue' \in Seq(Packets)
      BY <1>1, <2>2, NextOfBatchIs DEF Tx
    <3>3. muted' \in BOOLEAN  BY <2>2 DEF Mutes
    <3> QED  BY <1>3, <3>1, <3>2, <3>3 DEF XmitHook
  <2> QED  BY <1>3, <2>1, <2>2 DEF XmitHook
<1>4. ASSUME MaybeStop PROVE TypeOK'
  <2>1. tx' \in Tx
    BY <1>4 DEF MaybeStop, Fits, Tx
  <2> QED  BY <1>4, <2>1 DEF MaybeStop
<1>5. ASSUME StopQueue PROVE TypeOK'
  <2>1. tx' \in Tx
    BY <1>5 DEF StopQueue, Tx
  <2> QED  BY <1>5, <2>1 DEF StopQueue
<1>6. ASSUME Recheck PROVE TypeOK'
  <2>1. tx' \in Tx
    <3>1. <<>> \in Seq(Packets)  BY EmptySeq
    <3>2. CASE tx' = [tx EXCEPT !.pc = Fits]  BY <3>2 DEF Fits, Tx
    <3>3. CASE tx' = NoTx  BY <3>1, <3>3 DEF NoTx, Tx
    <3> QED  BY <1>6, <3>2, <3>3 DEF Recheck
  <2>2. queue' \in Seq(Packets)
    <3>1. tx.batch \o queue \in Seq(Packets)  BY RingTypes, ConcatProperties
    <3> QED  BY <1>6, <3>1 DEF Recheck
  <2>3. muted' \in BOOLEAN /\ stopped' \in BOOLEAN  BY <1>6 DEF Recheck, Mutes
  <2> QED  BY <1>6, <2>1, <2>2, <2>3 DEF Recheck
<1>7. ASSUME Map PROVE TypeOK'
  <2>1. tx' \in Tx
    BY <1>7 DEF Map, Tx
  <2>2. PICK S : S = SlotsFrom(next_to_use, Size[skb])  OBVIOUS
  <2>3. PICK e : e = Plus(next_to_use, Size[skb] - 1)  OBVIOUS
  <2>4. buffer_info' = [i \in Slots |->
              IF i \notin S THEN buffer_info[i]
              ELSE [skb |-> IF i = e THEN skb ELSE None, next_to_watch |-> i,
                    time_stamp |-> TRUE]]
    BY <1>7, <2>2, <2>3 DEF Map
  <2>5. buffer_info' \in [Slots -> Buffer]
    BY <1>2, <2>4 DEF Buffer
  <2> QED  BY <1>7, <2>1, <2>5 DEF Map
<1>8. ASSUME MapFails PROVE TypeOK'
  <2>1. /\ tx' \in Tx
        /\ queue' \in Seq(Packets)
    BY <1>1, <1>8, NextOfBatchIs DEF MapFails, Tx
  <2>2. muted' \in BOOLEAN  BY <1>8 DEF MapFails, Mutes
  <2>3. freed' \in [Packets -> Nat]
    <3>1. freed[skb] + 1 \in Nat  BY <1>2
    <3> QED  BY <1>8, <3>1 DEF MapFails
  <2>4. buffer_info' \in [Slots -> Buffer]  BY <1>8, MapFailsKeeps
  <2>5. UNCHANGED <<hook, kind, fresh, rewritten, lost, stopped, next_to_use, next_to_clean,
                    desc, tdh, tdt, cleaner, irq, napi, down, lines, work, races>>
    BY <1>8 DEF MapFails
  <2> QED  BY <2>1, <2>2, <2>3, <2>4, <2>5
<1>9. ASSUME TxQueue PROVE TypeOK'
  <2>1. tx' \in Tx
    BY <1>9 DEF TxQueue, Tx
  <2>2. PICK n : n = Size[skb]  OBVIOUS
  <2>3. PICK e : e = Plus(next_to_use, n - 1)  OBVIOUS
  <2>4. e \in Slots /\ Succ(e) \in Slots  BY <1>9, <2>2, <2>3, Mapping DEF TxQueue
  <2>5. /\ buffer_info' = [buffer_info EXCEPT ![next_to_use].next_to_watch = e]
        /\ desc' = [i \in Slots |->
                 IF i \in SlotsFrom(next_to_use, n)
                 THEN [skb |-> skb, last |-> i = e, dd |-> FALSE] ELSE desc[i]]
        /\ next_to_use' = Succ(e)
    BY <1>9, <2>2, <2>3 DEF TxQueue
  <2>6. buffer_info' \in [Slots -> Buffer]
    <3>1. buffer_info[next_to_use] \in Buffer  OBVIOUS
    <3>2. [buffer_info[next_to_use] EXCEPT !.next_to_watch = e] \in Buffer
      BY <2>4, <3>1 DEF Buffer
    <3> QED  BY <2>5, <3>2
  <2>7. desc' \in [Slots -> Desc]
    BY <1>2, <2>5 DEF Desc
  <2> QED  BY <1>9, <2>1, <2>4, <2>5, <2>6, <2>7 DEF TxQueue
<1>10. ASSUME WriteTail PROVE TypeOK'
  <2>1. /\ tx' \in Tx
        /\ queue' \in Seq(Packets)
    BY <1>1, <1>10, NextOfBatchIs DEF WriteTail, Tx
  <2>2. muted' \in BOOLEAN /\ tdt' \in Slots  BY <1>10 DEF WriteTail
  <2> QED  BY <1>10, <2>1, <2>2 DEF WriteTail
<1> QED  BY <1>3, <1>4, <1>5, <1>6, <1>7, <1>8, <1>9, <1>10 DEF Xmit

LEMMA TypeCleanPacket ==
    ASSUME TypeOK, Ring, CleanPacket
    PROVE  /\ cleaner' \in Cleaner /\ freed' \in [Packets -> Nat]
           /\ buffer_info' \in [Slots -> Buffer] /\ desc' \in [Slots -> Desc]
<1>1. PICK b : b = Succ(cleaner.eop)  OBVIOUS
<1>2. b \in Slots  BY <1>1, CleanMoves
<1>3. cleaner' \in Cleaner
  <2>1. cleaner' = [cleaner EXCEPT !.i = b, !.eop = buffer_info[b].next_to_watch,
                                   !.count = @ + At(b)]
    BY <1>1, CleanMoves
  <2>2. buffer_info[b].next_to_watch \in Slots /\ cleaner.count \in Nat  BY <1>2, RingTypes
  <2>3. At(b) \in Nat  BY <1>2, AtTypes
  <2>4. cleaner.count + At(b) \in Nat  BY <2>2, <2>3
  <2>5. cleaner \in Cleaner  BY DEF TypeOK
  <2>6. PICK c \in Nat, w \in Slots : c = cleaner.count + At(b) /\ w = buffer_info[b].next_to_watch
    BY <2>2, <2>4
  <2>7. cleaner' = [cleaner EXCEPT !.i = b, !.eop = w, !.count = c]  BY <2>1, <2>6
  <2> QED  BY <1>2, <2>5, <2>6, <2>7 DEF Cleaner
<1>4. desc' \in [Slots -> Desc]
  <2>1. desc' = [s \in Slots |-> IF At(s) < At(b) THEN [desc[s] EXCEPT !.dd = FALSE]
                                    ELSE desc[s]]
    BY <1>1, CleanMoves
  <2>2. ASSUME NEW s \in Slots PROVE desc'[s] \in Desc
    <3>1. desc[s] \in Desc  BY DEF TypeOK
    <3>2. [desc[s] EXCEPT !.dd = FALSE] \in Desc  BY <3>1 DEF Desc
    <3> QED  BY <2>1, <3>1, <3>2
  <2> QED  BY <2>1, <2>2
<1>5. buffer_info' \in [Slots -> Buffer]
  <2>1. buffer_info' = [s \in Slots |->
                 IF At(s) < At(b)
                 THEN [buffer_info[s] EXCEPT !.skb = None, !.time_stamp = FALSE]
                 ELSE buffer_info[s]]
    BY <1>1, CleanMoves
  <2>2. ASSUME NEW s \in Slots PROVE buffer_info'[s] \in Buffer
    <3>1. buffer_info[s] \in Buffer  BY DEF TypeOK
    <3>2. [buffer_info[s] EXCEPT !.skb = None, !.time_stamp = FALSE] \in Buffer
      BY <3>1 DEF Buffer
    <3> QED  BY <2>1, <3>1, <3>2
  <2> QED  BY <2>1, <2>2
<1>6. freed' \in [Packets -> Nat]
  <2>1. PICK S \in SUBSET Slots : S = {x \in Slots : At(x) < At(b)}  OBVIOUS
  <2>2. freed' = [p \in Packets |->
              freed[p] + Cardinality({s \in S : buffer_info[s].skb = p})]
    BY <1>1, <2>1, CleanFrees
  <2> QED  BY <2>2, BuffersFreed
<1> QED  BY <1>3, <1>4, <1>5, <1>6

LEMMA TypeClean ==
    ASSUME TypeOK, Ring, Clean
    PROVE  TypeOK'
<1> USE DEF stack, ring, lines, work, races, history
<1>0. cleaner \in Cleaner  BY DEF TypeOK
<1>1. ASSUME CleanStart PROVE TypeOK'
  <2>1. buffer_info[next_to_clean].next_to_watch \in Slots /\ next_to_clean \in Slots
    BY RingTypes
  <2>2. cleaner' \in Cleaner  BY <1>1, <2>1 DEF CleanStart, Cleaner
  <2> QED  BY <1>1, <2>2 DEF CleanStart, TypeOK
<1>2. ASSUME CleanPacket PROVE TypeOK'
  <2>1. /\ cleaner' \in Cleaner /\ freed' \in [Packets -> Nat]
        /\ buffer_info' \in [Slots -> Buffer] /\ desc' \in [Slots -> Desc]
    BY <1>2, TypeCleanPacket
  <2>2. UNCHANGED <<hook, kind, fresh, queue, rewritten, lost, stopped, tx, next_to_use,
                   next_to_clean, tdh, tdt, irq, napi, down, lines, work, history>>
    BY <1>2 DEF CleanPacket
  <2> QED  BY <2>1, <2>2 DEF TypeOK
<1>3. ASSUME CleanEnds PROVE TypeOK'
  <2>1. cleaner' \in Cleaner  BY <1>0, <1>3 DEF CleanEnds, Cleaner
  <2>2. next_to_clean' \in Slots  BY <1>3, RingTypes DEF CleanEnds
  <2> QED  BY <1>3, <2>1, <2>2 DEF CleanEnds, TypeOK
<1>4. ASSUME RoomToWake PROVE TypeOK'
  <2>1. cleaner' \in Cleaner  BY <1>0, <1>4 DEF RoomToWake, Cleaner
  <2> QED  BY <1>4, <2>1 DEF RoomToWake, TypeOK
<1>5. ASSUME WakeQueue PROVE TypeOK'
  <2>1. cleaner' \in Cleaner  BY <1>0, <1>5 DEF WakeQueue, Cleaner
  <2> QED  BY <1>5, <2>1 DEF WakeQueue, TypeOK
<1>6. ASSUME CleanDone PROVE TypeOK'
  <2>1. cleaner' \in Cleaner
    <3>1. 0 \in Slots  BY SlotTypes
    <3> QED  BY <1>6, <3>1 DEF CleanDone, NoCleaner, Cleaner
  <2>2. stopped' \in BOOLEAN /\ detect_tx_hung' \in BOOLEAN /\ napi' \in BOOLEAN
    BY <1>6 DEF CleanDone, TypeOK
  <2> QED  BY <1>6, <2>1, <2>2 DEF CleanDone, TypeOK
<1> QED  BY <1>1, <1>2, <1>3, <1>4, <1>5, <1>6 DEF Clean

LEMMA TypeReset ==
    ASSUME TypeOK, Reset
    PROVE  TypeOK'
<1> USE DEF TypeOK, stack, ring, lines, work, races, history
<1>1. ASSUME DownStart PROVE TypeOK'
  <2>1. UNCHANGED <<stack, tx, ring, cleaner, irq, napi, down, link, losses, watchdog,
                    detect_tx_hung, history>>
    BY <1>1 DEF DownStart
  <2>2. /\ carrier' \in BOOLEAN /\ enabled' \in BOOLEAN /\ stopped' \in BOOLEAN
        /\ reset_task' \in BOOLEAN /\ resetting' \in BOOLEAN
    BY <1>1 DEF DownStart
  <2> QED  BY <2>1, <2>2
<1>2. ASSUME DownFinish PROVE TypeOK'
  <2>1. 0 \in Slots  BY SlotTypes
  <2>2. freed' \in [Packets -> Nat]  BY <1>2, BuffersFreed DEF DownFinish
  <2>3. /\ buffer_info' \in [Slots -> Buffer]
        /\ desc' \in [Slots -> Desc]
    BY <1>2, <2>1 DEF DownFinish, NoBuffer, NoDesc, Buffer, Desc
  <2> QED  BY <1>2, <2>1, <2>2, <2>3 DEF DownFinish
<1>3. ASSUME Up PROVE TypeOK'
  <2>1. irq' \subseteq {"done", "link"}  BY <1>3 DEF Up
  <2>2. UNCHANGED <<stack, tx, ring, cleaner, napi, lines, watchdog, detect_tx_hung, reset_task,
                    history>>
    BY <1>3 DEF Up
  <2>3. stopped' \in BOOLEAN /\ down' \in BOOLEAN /\ resetting' \in BOOLEAN
    BY <1>3 DEF Up
  <2> QED  BY <2>1, <2>2, <2>3
<1> QED  BY <1>1, <1>2, <1>3 DEF Reset

LEMMA TypeStep ==
    ASSUME TypeOK, Ring, Transmitting, [Next]_vars
    PROVE  TypeOK'
<1> USE DEF TypeOK, stack, ring, lines, work, races, history
<1>1. ASSUME NEW p \in Packets, SendOut(p) PROVE TypeOK'
  <2>1. Append(queue, p) \in Seq(Packets)  BY AppendProperties
  <2>2. fresh' \subseteq Packets /\ queue' \in Seq(Packets)  BY <1>1, <2>1 DEF SendOut
  <2>3. /\ rewritten' \in [Packets -> Nat] /\ freed' \in [Packets -> Nat]
        /\ lost' \subseteq Packets
    BY <1>1, PassesType DEF SendOut
  <2> QED  BY <1>1, <2>2, <2>3 DEF SendOut
<1>2. ASSUME TakeBatch PROVE TypeOK'
  <2>1. PICK n \in 1 .. Len(queue) :
           /\ tx' = [pc |-> "hook", batch |-> SubSeq(queue, 1, n), queued |-> FALSE]
           /\ queue' = SubSeq(queue, n + 1, Len(queue))
    BY <1>2 DEF TakeBatch
  <2>2. SubSeq(queue, 1, n) \in Seq(Packets) /\ SubSeq(queue, n + 1, Len(queue)) \in Seq(Packets)
    BY HowOftenSplit
  <2>3. /\ queue' \in Seq(Packets)
        /\ tx' \in Tx
    BY <2>1, <2>2 DEF Tx
  <2> QED  BY <1>2, <2>3 DEF TakeBatch
<1>3. ASSUME DeviceSends PROVE TypeOK'
  <2>1. PICK e \in Slots : e = EndOf(tdh)  BY <1>3, EndOfIs DEF DeviceSends, CanSend
  <2>2. Succ(e) \in Slots  BY SuccIs
  <2>3. desc' = [desc EXCEPT ![e].dd = TRUE] /\ tdh' = Succ(e)  BY <1>3, <2>1 DEF DeviceSends
  <2>4. desc' \in [Slots -> Desc]
    BY <2>3 DEF Desc
  <2> QED  BY <1>3, <2>2, <2>3, <2>4 DEF DeviceSends
<1>4. ASSUME LinkChanges PROVE TypeOK'  BY <1>4 DEF LinkChanges
<1>5. ASSUME Interrupt PROVE TypeOK'  BY <1>5 DEF Interrupt
<1>6. ASSUME Watchdog PROVE TypeOK'
  <2>1. UNCHANGED <<stack, stopped, tx, ring, cleaner, napi, down, link, losses, resetting, history>>
    BY <1>6 DEF Watchdog
  <2>2. /\ carrier' \in BOOLEAN /\ enabled' \in BOOLEAN /\ irq' \subseteq {"done", "link"}
        /\ watchdog' \in BOOLEAN /\ detect_tx_hung' \in BOOLEAN /\ reset_task' \in BOOLEAN
    BY <1>6 DEF Watchdog
  <2> QED  BY <2>1, <2>2
<1>7. ASSUME TxTimeout PROVE TypeOK'  BY <1>7 DEF TxTimeout
<1>8. ASSUME UNCHANGED vars PROVE TypeOK'  BY <1>8 DEF vars
<1> QED
  BY <1>1, <1>2, <1>3, <1>4, <1>5, <1>6, <1>7, <1>8, TypeXmit, TypeClean, TypeReset DEF Next

\* The driver's ring, and the steps of the driver that it rests on.
DriverInv == TypeOK /\ Ring /\ Transmitting /\ Cleaning

\* e1000_clean_all_rings.
LEMMA RingCleared ==
    ASSUME Cleaned' = 0, next_to_clean' = 0, next_to_use' = 0, tdh' = 0, tdt' = 0,
           desc' = [s \in Slots |-> NoDesc]
    PROVE  Ring'
<1>0. 0 \in Slots  BY SlotTypes
<1>1. At(next_to_use)' = 0 /\ At(tdh)' = 0 /\ At(tdt)' = 0 /\ Dist(0, 0) = 0
  BY <1>0, DistSame DEF At
<1>2. \A s \in Slots : At(s)' \in Nat  BY <1>0, DistType DEF At
<1>3. Order'  BY <1>0, <1>1 DEF Order
<1>4. Whole'  BY DEF Whole, Begins
<1>5. \A s \in Slots : ~Used(s)' /\ ~Sent(s)'  BY <1>1, <1>2 DEF Used, Sent
<1>6. Watched'  BY <1>5 DEF Watched
<1>7. DoneIsSent'  BY <1>5 DEF DoneIsSent, NoDesc
<1> QED  BY <1>3, <1>4, <1>6, <1>7 DEF Ring

\* A packet is mapped where nothing is in use.
LEMMA MapKeepsUsed ==
    ASSUME DriverInv, Map \/ MapFails, NEW i \in Slots, Used(i)
    PROVE  buffer_info'[i] = buffer_info[i]
<1> USE DEF DriverInv
<1>1. tx.pc \in {"map", "queue"}  BY DEF Map, MapFails
<1>2. PICK n \in Nat \ {0} : n = Size[skb]  BY <1>1, Mapping
<1>3. \A m \in 0 .. n : \A x \in Slots :
         x \in SlotsFrom(next_to_use, m)
           <=> At(next_to_use) <= At(x) /\ At(x) < At(next_to_use) + m
  BY <1>1, <1>2, Mapping
<1>4. PICK m \in 0 .. n : \A x \in Slots :
         x \notin SlotsFrom(next_to_use, m) => buffer_info'[x] = buffer_info[x]
  <2>1. CASE Map
    <3>1. \A x \in Slots : x \notin SlotsFrom(next_to_use, n) => buffer_info'[x] = buffer_info[x]
      BY <1>2, <2>1 DEF Map
    <3> QED  BY <3>1
  <2>2. CASE MapFails
    <3>1. PICK m \in 0 .. n : \A x \in Slots :
             x \notin SlotsFrom(next_to_use, m) => buffer_info'[x] = buffer_info[x]
      BY <1>2, <2>2 DEF MapFails
    <3> QED  BY <3>1
  <2> QED  BY <2>1, <2>2
<1>5. At(i) \in Nat /\ At(next_to_use) \in Nat  BY AtTypes, RingTypes
<1>6. i \notin SlotsFrom(next_to_use, m)  BY <1>3, <1>5 DEF Used
<1> QED  BY <1>4, <1>6

LEMMA RingStep == ASSUME DriverInv, [Next]_vars PROVE Ring'
<1> USE DEF DriverInv
<1>1. ASSUME UNCHANGED <<next_to_use, next_to_clean, desc, tdh, tdt, buffer_info>>,
             \/ UNCHANGED cleaner
             \/ cleaner.pc # "clean" /\ cleaner'.pc # "clean"
             \/ cleaner'.pc = "clean" /\ cleaner'.i = next_to_clean /\ cleaner.pc # "clean"
      PROVE  Ring'
  <2>1. Cleaned' = Cleaned  BY <1>1 DEF Cleaned
  <2> QED  BY <1>1, <2>1, RingSame
<1>2. ASSUME NEW p \in Packets, SendOut(p) PROVE Ring'  BY <1>1, <1>2 DEF SendOut, ring
<1>3. ASSUME TakeBatch PROVE Ring'  BY <1>1, <1>3 DEF TakeBatch, ring
<1>4. ASSUME XmitHook PROVE Ring'  BY <1>1, <1>4 DEF XmitHook, driver, ring
<1>5. ASSUME MaybeStop PROVE Ring'  BY <1>1, <1>5 DEF MaybeStop, driver, ring
<1>6. ASSUME StopQueue PROVE Ring'  BY <1>1, <1>6 DEF StopQueue, driver, ring
<1>7. ASSUME Recheck PROVE Ring'  BY <1>1, <1>7 DEF Recheck, driver, ring
<1>8. ASSUME Map \/ MapFails PROVE Ring'
  <2>1. \A i \in Slots : Used(i) => buffer_info'[i] = buffer_info[i]
    BY <1>8, MapKeepsUsed
  <2>2. UNCHANGED <<next_to_use, next_to_clean, desc, tdh, tdt, cleaner>>
    BY <1>8 DEF Map, MapFails
  <2>3. Cleaned' = Cleaned  BY <2>2 DEF Cleaned
  <2> QED  BY <2>1, <2>2, <2>3, RingSame
<1>9. ASSUME TxQueue PROVE Ring'  BY <1>9, RingQueued
<1>10. ASSUME WriteTail PROVE Ring'
  <2>1. UNCHANGED <<next_to_use, next_to_clean, desc, tdh, buffer_info, cleaner>>
    BY <1>10 DEF WriteTail
  <2>2. tdt' \in {tdt, next_to_use}  BY <1>10 DEF WriteTail
  <2> QED  BY <2>1, <2>2, RingTold
<1>11. ASSUME DeviceSends PROVE Ring'  BY <1>11, RingSends
<1>12. ASSUME LinkChanges PROVE Ring'  BY <1>1, <1>12 DEF LinkChanges, ring
<1>13. ASSUME Interrupt PROVE Ring'  BY <1>1, <1>13 DEF Interrupt, ring
<1>14. ASSUME CleanStart PROVE Ring'  BY <1>1, <1>14 DEF CleanStart, ring
<1>15. ASSUME CleanPacket PROVE Ring'  BY <1>15, RingCleaned
<1>16. ASSUME CleanEnds PROVE Ring'  BY <1>16, RingEnds
<1>17. ASSUME RoomToWake \/ WakeQueue \/ CleanDone PROVE Ring'
  <2>1. cleaner.pc # "clean" /\ cleaner'.pc # "clean"
    BY <1>17 DEF RoomToWake, WakeQueue, CleanDone, NoCleaner, TypeOK, Cleaner
  <2> QED  BY <1>1, <1>17, <2>1 DEF RoomToWake, WakeQueue, CleanDone, ring
<1>18. ASSUME Watchdog PROVE Ring'  BY <1>1, <1>18 DEF Watchdog, ring
<1>19. ASSUME TxTimeout PROVE Ring'  BY <1>1, <1>19 DEF TxTimeout, ring
<1>20. ASSUME DownStart PROVE Ring'  BY <1>1, <1>20 DEF DownStart, ring
<1>21. ASSUME DownFinish PROVE Ring'
  <2>1. cleaner.pc # "clean" /\ cleaner' = cleaner
    BY <1>21 DEF DownFinish, Cleaning
  <2>2. Cleaned' = 0  BY <1>21, <2>1 DEF DownFinish, Cleaned
  <2> QED  BY <1>21, <2>2, RingCleared DEF DownFinish
<1>22. ASSUME Up PROVE Ring'  BY <1>1, <1>22 DEF Up, ring, stack
<1>23. ASSUME UNCHANGED vars PROVE Ring'  BY <1>1, <1>23 DEF vars, ring
<1> QED
  BY <1>2, <1>3, <1>4, <1>5, <1>6, <1>7, <1>8, <1>9, <1>10, <1>11, <1>12, <1>13, <1>14, <1>15,
     <1>16, <1>17, <1>18, <1>19, <1>20, <1>21, <1>22, <1>23 DEF Next, Xmit, Clean, Reset

\* What is mapped keeps its room, which only grows until it is queued.
LEMMA TransmittingStep == ASSUME DriverInv, [Next]_vars PROVE Transmitting'
<1> USE DEF DriverInv
<1>0. tx \in Tx  BY DEF TypeOK
<1>1. ASSUME UNCHANGED <<tx, next_to_use, next_to_clean>> PROVE Transmitting'
  <2>1. DescUnused' = DescUnused /\ skb' = skb  BY <1>1 DEF DescUnused, skb
  <2> QED  BY <1>1, <2>1 DEF Transmitting
<1>2. ASSUME NEW p \in Packets, SendOut(p) PROVE Transmitting'
  BY <1>1, <1>2 DEF SendOut, ring
<1>3. ASSUME TakeBatch PROVE Transmitting'
  <2>1. PICK n \in 1 .. Len(queue) :
           tx' = [pc |-> "hook", batch |-> SubSeq(queue, 1, n), queued |-> FALSE]
    BY <1>3 DEF TakeBatch
  <2>2. SubSeq(queue, 1, n) # <<>>  BY HowOftenSplit DEF TypeOK
  <2> QED  BY <2>1, <2>2 DEF Transmitting
<1>4. ASSUME tx.batch # <<>>, NextOfBatch PROVE Transmitting'
  <2>1. /\ tx' \in [pc : {"hook", "idle"}, batch : Seq(Packets), queued : {FALSE}]
        /\ tx'.pc = "idle" <=> tx'.batch = <<>>
    BY <1>4, NextOfBatchIs
  <2> QED  BY <2>1 DEF Transmitting
<1>5. ASSUME tx.pc # "idle", tx'.pc \notin {"idle", "hook", "map", "queue", "tail"},
             tx'.batch = tx.batch
      PROVE  Transmitting'
  BY <1>5 DEF Transmitting
<1>6. ASSUME XmitHook PROVE Transmitting'
  <2>1. tx.batch # <<>>  BY <1>6 DEF XmitHook, Transmitting
  <2>2. tx' = [tx EXCEPT !.pc = "check"] \/ NextOfBatch  BY <1>6 DEF XmitHook
  <2>3. ASSUME tx' = [tx EXCEPT !.pc = "check"] PROVE Transmitting'
    <3>1. tx'.pc = "check" /\ tx'.batch = tx.batch  BY <1>0, <2>3 DEF Tx
    <3> QED  BY <1>5, <1>6, <3>1 DEF XmitHook
  <2> QED  BY <1>4, <2>1, <2>2, <2>3
<1>7. ASSUME tx.pc \in {"check", "recheck"}, tx' = [tx EXCEPT !.pc = Fits],
             tx.queued \/ DescUnused >= Needed, UNCHANGED <<next_to_use, next_to_clean>>
      PROVE  Transmitting'
  <2>1. /\ tx'.pc = (IF tx.queued THEN "tail" ELSE "map") /\ tx'.batch = tx.batch
        /\ tx'.queued = tx.queued
    BY <1>0, <1>7 DEF Tx, Fits
  <2>2. DescUnused' = DescUnused /\ skb' = skb  BY <1>7, <2>1 DEF DescUnused, skb
  <2>3. ~tx.queued => DescUnused >= Size[skb] + 2  BY <1>7 DEF Needed
  <2>4. tx.queued \in BOOLEAN  BY <1>0 DEF Tx
  <2>5. CASE tx.queued
    <3>1. tx'.pc = "tail" /\ tx'.queued  BY <2>1, <2>5
    <3> QED  BY <1>7, <2>1, <3>1 DEF Transmitting
  <2>6. CASE ~tx.queued
    <3>1. tx'.pc = "map" /\ ~tx'.queued  BY <2>1, <2>6
    <3> QED  BY <1>7, <2>1, <2>2, <2>3, <2>6, <3>1 DEF Transmitting
  <2> QED  BY <2>5, <2>6
<1>8. ASSUME MaybeStop PROVE Transmitting'
  <2>1. UNCHANGED <<next_to_use, next_to_clean>>  BY <1>8 DEF MaybeStop, driver, ring
  <2>2. CASE DescUnused >= Needed  BY <1>7, <1>8, <2>1, <2>2 DEF MaybeStop
  <2>3. CASE ~(DescUnused >= Needed)
    <3>1. tx'.pc = "stop" /\ tx'.batch = tx.batch  BY <1>0, <1>8, <2>3 DEF Tx, MaybeStop
    <3> QED  BY <1>5, <1>8, <3>1 DEF MaybeStop
  <2> QED  BY <2>2, <2>3
<1>9. ASSUME StopQueue PROVE Transmitting'
  <2>1. tx'.pc = "recheck" /\ tx'.batch = tx.batch  BY <1>0, <1>9 DEF Tx, StopQueue
  <2> QED  BY <1>5, <1>9, <2>1 DEF StopQueue
<1>10. ASSUME Recheck PROVE Transmitting'
  <2>1. UNCHANGED <<next_to_use, next_to_clean>>  BY <1>10 DEF Recheck, driver, ring
  <2>2. \/ tx' = [tx EXCEPT !.pc = Fits] /\ (tx.queued \/ DescUnused >= Needed)
        \/ tx' = NoTx
    BY <1>10 DEF Recheck
  <2>3. ASSUME tx' = NoTx PROVE Transmitting'  BY <2>3 DEF NoTx, Transmitting
  <2> QED  BY <1>7, <1>10, <2>1, <2>2, <2>3 DEF Recheck
<1>11. ASSUME Map PROVE Transmitting'
  <2>1. /\ tx'.pc = "queue" /\ tx'.batch = tx.batch /\ tx'.queued = tx.queued
        /\ UNCHANGED <<next_to_use, next_to_clean>>
    BY <1>0, <1>11 DEF Tx, Map
  <2>2. DescUnused' = DescUnused /\ skb' = skb  BY <2>1 DEF DescUnused, skb
  <2>3. tx.pc = "map"  BY <1>11 DEF Map
  <2> QED  BY <2>1, <2>2, <2>3 DEF Transmitting
<1>12. ASSUME MapFails PROVE Transmitting'
  BY <1>4, <1>12 DEF MapFails, Transmitting
<1>13. ASSUME TxQueue PROVE Transmitting'
  <2>1. tx'.pc = "check" /\ tx'.batch = tx.batch  BY <1>0, <1>13 DEF Tx, TxQueue
  <2> QED  BY <1>5, <1>13, <2>1 DEF TxQueue
<1>14. ASSUME WriteTail PROVE Transmitting'
  BY <1>4, <1>14 DEF WriteTail, Transmitting
<1>15. ASSUME DeviceSends \/ LinkChanges \/ Interrupt \/ CleanStart \/ CleanPacket \/ RoomToWake
              \/ WakeQueue \/ CleanDone \/ Watchdog \/ TxTimeout \/ DownStart \/ Up
              \/ UNCHANGED vars
       PROVE  Transmitting'
  <2>1. UNCHANGED <<tx, next_to_use, next_to_clean>>
    BY <1>15 DEF DeviceSends, LinkChanges, Interrupt, CleanStart, CleanPacket, RoomToWake,
                 WakeQueue, CleanDone, Watchdog, TxTimeout, DownStart, Up, vars, ring
  <2> QED  BY <1>1, <2>1
<1>16. ASSUME next_to_use' \in Slots, next_to_clean' \in Slots, UNCHANGED tx,
              Dist(next_to_clean', next_to_use') <= Dist(next_to_clean, next_to_use)
       PROVE  Transmitting'
  <2>1. DescUnused = Count - 1 - Dist(next_to_clean, next_to_use)  BY RingTypes, DescUnusedIs
  <2>2. DescUnused' = Count - 1 - Dist(next_to_clean', next_to_use')
    BY <1>16, SlotTypes DEF DescUnused, Dist
  <2>3. /\ Dist(next_to_clean, next_to_use) \in Nat /\ Dist(next_to_clean', next_to_use') \in Nat
        /\ Count \in Nat
    BY <1>16, RingTypes, DistType, SlotTypes
  <2>4. DescUnused' >= DescUnused /\ DescUnused \in Int /\ DescUnused' \in Int
    BY <1>16, <2>1, <2>2, <2>3
  <2>5. ASSUME tx.pc \in {"map", "queue"} PROVE DescUnused' >= Size[skb] + 2
    <3>1. Size[skb] + 2 \in Nat  BY <2>5, SkbType DEF Transmitting
    <3>2. DescUnused >= Size[skb] + 2  BY <2>5 DEF Transmitting
    <3> QED  BY <2>4, <3>1, <3>2
  <2>6. skb' = skb  BY <1>16 DEF skb
  <2> QED  BY <1>16, <2>5, <2>6 DEF Transmitting
<1>17. ASSUME CleanEnds PROVE Transmitting'
  <2>1. /\ next_to_clean' = cleaner.i /\ UNCHANGED <<tx, next_to_use>> /\ Cleaned = cleaner.i
        /\ cleaner.i \in Slots
    BY <1>17, RingTypes DEF CleanEnds, Cleaned
  <2>2. Dist(next_to_clean, next_to_use) = Dist(next_to_clean, Cleaned)
                                           + Dist(Cleaned, next_to_use)
    BY DEF Ring, Order, At
  <2>3. Dist(next_to_clean, Cleaned) \in Nat /\ Dist(Cleaned, next_to_use) \in Nat
    BY <2>1, RingTypes, DistType
  <2>4. Dist(next_to_clean', next_to_use') <= Dist(next_to_clean, next_to_use)
    BY <2>1, <2>2, <2>3
  <2> QED  BY <1>16, <2>1, <2>4, RingTypes
<1>18. ASSUME DownFinish PROVE Transmitting'
  <2>1. next_to_clean' = 0 /\ next_to_use' = 0 /\ UNCHANGED tx /\ 0 \in Slots
    BY <1>18, SlotTypes DEF DownFinish
  <2>2. Dist(0, 0) = 0  BY <2>1, DistSame
  <2>3. Dist(next_to_clean, next_to_use) \in Nat  BY RingTypes, DistType
  <2>4. Dist(next_to_clean', next_to_use') <= Dist(next_to_clean, next_to_use)
    BY <2>1, <2>2, <2>3
  <2> QED  BY <1>16, <2>1, <2>4
<1> QED
  BY <1>2, <1>3, <1>6, <1>8, <1>9, <1>10, <1>11, <1>12, <1>13, <1>14, <1>15, <1>17, <1>18
  DEF Next, Xmit, Clean, Reset

LEMMA CleaningStep == ASSUME DriverInv, [Next]_vars PROVE Cleaning'
<1> USE DEF DriverInv
<1>0. cleaner \in Cleaner  BY DEF TypeOK
<1>1. ASSUME UNCHANGED <<cleaner, napi, down, next_to_clean>> PROVE Cleaning'
  BY <1>1 DEF Cleaning
<1>2. ASSUME (\E p \in Packets : SendOut(p)) \/ TakeBatch \/ XmitHook \/ MaybeStop \/ StopQueue
             \/ Recheck \/ Map \/ MapFails \/ TxQueue \/ WriteTail \/ DeviceSends \/ LinkChanges
             \/ Watchdog \/ TxTimeout \/ DownStart \/ UNCHANGED vars
      PROVE  Cleaning'
  <2>1. UNCHANGED <<cleaner, napi, down, next_to_clean>>
    BY <1>2 DEF SendOut, TakeBatch, XmitHook, MaybeStop, StopQueue, Recheck, Map, MapFails,
                TxQueue, WriteTail, DeviceSends, LinkChanges, Watchdog, TxTimeout, DownStart,
                vars, ring, driver
  <2> QED  BY <1>1, <2>1
<1>3. ASSUME Interrupt PROVE Cleaning'  BY <1>3 DEF Interrupt, ring, Cleaning
<1>4. ASSUME CleanStart PROVE Cleaning'
  <2>1. Dist(next_to_clean, next_to_clean) = 0  BY RingTypes, DistSame
  <2>2. cleaner'.i = next_to_clean /\ cleaner'.count = 0 /\ UNCHANGED <<next_to_clean, napi, down>>
        /\ napi
    BY <1>4 DEF CleanStart, ring
  <2> QED  BY <2>1, <2>2 DEF Cleaning
<1>5. ASSUME CleanPacket PROVE Cleaning'
  <2>1. PICK b : b = Succ(cleaner.eop)  OBVIOUS
  <2>2. /\ Cleaned = cleaner.i
        /\ Dist(next_to_clean, b) = Dist(next_to_clean, Cleaned) + At(b)
    BY <1>5, <2>1, CleanMoves
  <2>3. cleaner' = [cleaner EXCEPT !.i = b, !.eop = buffer_info[b].next_to_watch,
                                         !.count = @ + At(b)]
    BY <1>5, <2>1, CleanMoves
  <2>4. cleaner'.i = b /\ cleaner'.count = cleaner.count + At(b)  BY <1>0, <2>3 DEF Cleaner
  <2>5. cleaner.pc = "clean" /\ UNCHANGED <<next_to_clean, napi, down>>
    BY <1>5 DEF CleanPacket
  <2> QED  BY <2>2, <2>4, <2>5 DEF Cleaning
<1>6. ASSUME CleanEnds \/ RoomToWake \/ WakeQueue \/ CleanDone PROVE Cleaning'
  <2>1. cleaner.pc # "idle" /\ cleaner'.pc # "clean" /\ UNCHANGED down
    BY <1>0, <1>6 DEF CleanEnds, RoomToWake, WakeQueue, CleanDone, NoCleaner, Cleaner
  <2>2. cleaner'.pc = "idle" \/ napi' = napi
    BY <1>6 DEF CleanEnds, RoomToWake, WakeQueue, CleanDone, NoCleaner
  <2>3. napi' => napi  BY <1>6 DEF CleanEnds, RoomToWake, WakeQueue, CleanDone
  <2> QED  BY <2>1, <2>2, <2>3 DEF Cleaning
<1>7. ASSUME DownFinish PROVE Cleaning'
  BY <1>7 DEF DownFinish, Cleaning
<1>8. ASSUME Up PROVE Cleaning'  BY <1>8 DEF Up, Cleaning, ring
<1> QED
  BY <1>2, <1>3, <1>4, <1>5, <1>6, <1>7, <1>8 DEF Next, Xmit, Clean, Reset

\* The transmit ring holds together under e1000_xmit_frame, the poll and the resets,
\* which touch it with no lock in common: clean, sent, told and queued follow each
\* other around it, each at the begin of a packet; next_to_watch of a packet is its
\* end; and the device's marks are on the ends of what it has sent, so that
\* e1000_clean_tx_irq never takes a packet for another one.
THEOREM DriverInvariant == Spec => []DriverInv
<1>1. Init => DriverInv  BY Starts DEF DriverInv
<1>2. DriverInv /\ [Next]_vars => DriverInv'
  <2> SUFFICES ASSUME DriverInv, [Next]_vars PROVE DriverInv'  OBVIOUS
  <2>1. TypeOK'  BY TypeStep DEF DriverInv
  <2> QED  BY <2>1, RingStep, TransmittingStep, CleaningStep DEF DriverInv
<1> QED  BY <1>1, <1>2, PTL DEF Spec

-----------------------------------------------------------------------------
(* As long as the ring is not cleared under a transmission.                *)

\* The device has not been told of what was just queued, packets are handed over
\* only while the queue is awake, and a reset finds the ring empty.
Undisturbed ==
    /\ tx.queued => tdt # next_to_use
    /\ tx.pc = "idle" => next_to_use = tdt \/ muted
    /\ down => resetting /\ stopped /\ tx.pc = "idle" /\ next_to_use = next_to_clean

LEMMA BatchType ==
    ASSUME TypeOK, tx.batch # <<>>
    PROVE  XmitMore <=> Tail(tx.batch) # <<>>
<1>1. /\ tx.batch \in Seq(Packets) /\ Tail(tx.batch) \in Seq(Packets)
      /\ Len(Tail(tx.batch)) = Len(tx.batch) - 1
  BY RingTypes, HeadTailProperties
<1>2. Len(tx.batch) \in Nat /\ Len(tx.batch) # 0  BY <1>1, EmptySeq, LenProperties
<1>3. Tail(tx.batch) = <<>> <=> Len(Tail(tx.batch)) = 0  BY <1>1, EmptySeq
<1>4. \A n \in Nat : n # 0 => (n > 1 <=> n - 1 # 0)  OBVIOUS
<1> QED  BY <1>1, <1>2, <1>3, <1>4 DEF XmitMore

LEMMA UndisturbedStep ==
    ASSUME DriverInv, raced \/ Undisturbed, [Next]_vars
    PROVE  raced' \/ Undisturbed'
<1> SUFFICES ASSUME ~raced' PROVE Undisturbed'  OBVIOUS
<1> USE DEF DriverInv
<1>0. tx \in Tx /\ cleaner \in Cleaner /\ stopped \in BOOLEAN /\ raced \in BOOLEAN
  BY DEF TypeOK
<1>1. ASSUME UNCHANGED raced PROVE Undisturbed  BY <1>1
<1>2. ASSUME UNCHANGED <<tx, tdt, next_to_use, next_to_clean, stopped, muted, down, raced>>,
             resetting => resetting'
      PROVE  Undisturbed'
  BY <1>1, <1>2 DEF Undisturbed
<1>3. ASSUME NEW p \in Packets, SendOut(p) PROVE Undisturbed'
  BY <1>2, <1>3 DEF SendOut, ring, work, history, races
<1>4. ASSUME TakeBatch PROVE Undisturbed'
  <2>1. tx'.pc = "hook" /\ ~tx'.queued /\ ~stopped  BY <1>4 DEF TakeBatch
  <2>2. UNCHANGED <<stopped, down, raced>>  BY <1>4 DEF TakeBatch, history, races
  <2> QED  BY <1>1, <2>1, <2>2 DEF Undisturbed
<1>5. ASSUME tx.pc \in {"hook", "map"}, NextOfBatch, Mutes,
             UNCHANGED <<tdt, next_to_use, stopped, down, raced>>
      PROVE  Undisturbed'
  <2>1. ~down  BY <1>1, <1>5 DEF Undisturbed
  <2>2. CASE tx'.pc = "hook" /\ ~tx'.queued  BY <1>5, <2>1, <2>2 DEF Undisturbed
  <2>3. CASE tx' = NoTx
    <3>1. tx'.pc = "idle" /\ ~tx'.queued  BY <2>3 DEF NoTx
    <3>2. next_to_use' = tdt' \/ muted'  BY <1>5, <2>3 DEF Mutes
    <3> QED  BY <1>5, <2>1, <3>1, <3>2 DEF Undisturbed
  <2> QED  BY <1>5, <2>2, <2>3 DEF NextOfBatch
<1>6. ASSUME XmitHook PROVE Undisturbed'
  <2>1. tx.pc = "hook" /\ UNCHANGED <<tdt, next_to_use, stopped, down, raced>>
    BY <1>6 DEF XmitHook, driver, ring, races
  <2>2. ASSUME tx' = [tx EXCEPT !.pc = "check"] PROVE Undisturbed'
    <3>1. tx'.pc = "check" /\ tx'.queued = tx.queued  BY <1>0, <2>2 DEF Tx
    <3> QED  BY <1>1, <2>1, <3>1 DEF Undisturbed
  <2> QED  BY <1>5, <1>6, <2>1, <2>2 DEF XmitHook
<1>7. ASSUME MaybeStop PROVE Undisturbed'
  <2>1. tx.pc = "check" /\ UNCHANGED <<tdt, next_to_use, stopped, down, raced>>
    BY <1>7 DEF MaybeStop, driver, ring, races
  <2>2. tx'.pc \in {"tail", "map", "stop"} /\ tx'.queued = tx.queued
    BY <1>0, <1>7 DEF MaybeStop, Tx, Fits
  <2> QED  BY <1>1, <2>1, <2>2 DEF Undisturbed
<1>8. ASSUME StopQueue PROVE Undisturbed'
  <2>1. tx.pc = "stop" /\ UNCHANGED <<tdt, next_to_use, down, raced>>
    BY <1>8 DEF StopQueue, driver, ring, races
  <2>2. tx'.pc = "recheck" /\ tx'.queued = tx.queued  BY <1>0, <1>8 DEF StopQueue, Tx
  <2> QED  BY <1>1, <2>1, <2>2 DEF Undisturbed
<1>9. ASSUME Recheck PROVE Undisturbed'
  <2>1. tx.pc = "recheck" /\ UNCHANGED <<tdt, next_to_use, down, raced>>
    BY <1>9 DEF Recheck, driver, ring, races
  <2>2. ~down /\ (tx.queued => tdt # next_to_use)  BY <1>1, <2>1 DEF Undisturbed
  <2>3. ASSUME tx' = [tx EXCEPT !.pc = Fits] PROVE Undisturbed'
    <3>1. tx'.pc = (IF tx.queued THEN "tail" ELSE "map") /\ tx'.queued = tx.queued
      BY <1>0, <2>3 DEF Tx, Fits
    <3> QED  BY <2>1, <2>2, <2>3, <3>1 DEF Undisturbed
  <2>4. ASSUME tx' = NoTx, Mutes PROVE Undisturbed'
    <3>1. tx'.pc = "idle" /\ ~tx'.queued  BY <2>4 DEF NoTx
    <3>2. next_to_use' = tdt' \/ muted'  BY <2>1, <2>4 DEF Mutes
    <3> QED  BY <2>1, <2>2, <3>1, <3>2 DEF Undisturbed
  <2> QED  BY <1>9, <2>3, <2>4 DEF Recheck
<1>10. ASSUME Map PROVE Undisturbed'
  <2>1. tx.pc = "map" /\ UNCHANGED <<tdt, next_to_use, stopped, down, raced>>
    BY <1>10 DEF Map, history, races
  <2>2. tx'.pc = "queue" /\ tx'.queued = tx.queued  BY <1>0, <1>10 DEF Map, Tx
  <2> QED  BY <1>1, <2>1, <2>2 DEF Undisturbed
<1>11. ASSUME MapFails PROVE Undisturbed'
  BY <1>5, <1>11 DEF MapFails, history, races
<1>12. ASSUME TxQueue PROVE Undisturbed'
  <2>1. tx.pc = "queue" /\ UNCHANGED <<tdt, stopped, down, raced>>
    BY <1>12 DEF TxQueue, history, races
  <2>2. tx'.pc = "check" /\ tx'.queued  BY <1>0, <1>12 DEF TxQueue, Tx
  <2>3. PICK n : n = Size[skb]  OBVIOUS
  <2>4. PICK e : e = Plus(next_to_use, n - 1)  OBVIOUS
  <2>5. /\ n \in Nat \ {0} /\ At(Succ(e)) = At(next_to_use) + n
    BY <2>1, <2>3, <2>4, Mapping
  <2>6. next_to_use' = Succ(e)  BY <1>12, <2>3, <2>4 DEF TxQueue
  <2>7. At(tdt) <= At(next_to_use) /\ At(tdt) \in Nat /\ At(next_to_use) \in Nat
    BY RingTypes, AtTypes DEF Ring, Order
  <2>8. At(tdt) # At(Succ(e))  BY <2>5, <2>7
  <2>9. tdt' # next_to_use'  BY <2>1, <2>6, <2>8
  <2> QED  BY <1>1, <2>1, <2>2, <2>9 DEF Undisturbed
<1>13. ASSUME WriteTail PROVE Undisturbed'
  <2>1. tx.pc = "tail" /\ UNCHANGED <<next_to_use, stopped, down, raced>>
    BY <1>13 DEF WriteTail, races
  <2>2. ~down /\ tx.batch # <<>>  BY <1>1, <2>1 DEF Undisturbed, Transmitting
  <2>3. XmitMore <=> Tail(tx.batch) # <<>>  BY <2>2, BatchType
  <2>4. CASE Tail(tx.batch) # <<>> /\ ~stopped
    <3>1. tx'.pc = "hook" /\ ~tx'.queued  BY <1>13, <2>4 DEF WriteTail, NextOfBatch
    <3> QED  BY <2>1, <2>2, <2>4, <3>1 DEF Undisturbed
  <2>5. CASE ~(Tail(tx.batch) # <<>> /\ ~stopped)
    <3>1. tx'.pc = "idle" /\ ~tx'.queued  BY <1>13, <2>5 DEF WriteTail, NextOfBatch, NoTx
    <3>2. Tells  BY <2>3, <2>5 DEF Tells
    <3>3. tdt' = next_to_use  BY <1>13, <3>2 DEF WriteTail
    <3> QED  BY <2>1, <2>2, <3>1, <3>3 DEF Undisturbed
  <2> QED  BY <2>4, <2>5
<1>14. ASSUME DeviceSends \/ LinkChanges \/ Interrupt \/ CleanStart \/ CleanPacket \/ RoomToWake
              \/ Watchdog \/ TxTimeout \/ UNCHANGED vars
       PROVE  Undisturbed'
  <2>1. UNCHANGED <<tx, tdt, next_to_use, next_to_clean, stopped, muted, down, raced, resetting>>
    BY <1>14 DEF DeviceSends, LinkChanges, Interrupt, CleanStart, CleanPacket, RoomToWake,
                 Watchdog, TxTimeout, vars, ring, work, history, races
  <2> QED  BY <1>2, <2>1
<1>15. ASSUME CleanEnds PROVE Undisturbed'
  <2>1. cleaner.pc = "clean" /\ UNCHANGED <<tx, tdt, next_to_use, stopped, muted, down, raced>>
    BY <1>15 DEF CleanEnds, history, races
  <2>2. ~down  BY <2>1 DEF Cleaning
  <2> QED  BY <1>1, <2>1, <2>2 DEF Undisturbed
<1>16. ASSUME WakeQueue PROVE Undisturbed'
  <2>1. cleaner.pc = "wake" /\ UNCHANGED <<tx, tdt, next_to_use, next_to_clean, muted, down, raced>>
    BY <1>16 DEF WakeQueue, ring
  <2>2. ~down  BY <2>1 DEF Cleaning
  <2> QED  BY <1>1, <2>1, <2>2 DEF Undisturbed
<1>17. ASSUME CleanDone PROVE Undisturbed'
  <2>1. cleaner.pc = "hang" /\ UNCHANGED <<tx, tdt, next_to_use, next_to_clean, muted, down, raced>>
    BY <1>17 DEF CleanDone, ring, history, races
  <2>2. ~down  BY <2>1 DEF Cleaning
  <2> QED  BY <1>1, <2>1, <2>2 DEF Undisturbed
<1>18. ASSUME DownStart PROVE Undisturbed'
  <2>1. /\ tx.pc = "idle" /\ resetting' /\ stopped'
        /\ UNCHANGED <<tx, tdt, next_to_use, next_to_clean, muted, down, raced>>
    BY <1>18 DEF DownStart, ring, history, races
  <2> QED  BY <1>1, <2>1 DEF Undisturbed
<1>19. ASSUME DownFinish PROVE Undisturbed'
  <2>1. /\ tx' = tx /\ tx.pc = "idle" /\ stopped' /\ resetting' /\ next_to_use' = next_to_clean'
        /\ tdt' = next_to_use'
    BY <1>19 DEF DownFinish
  <2>2. ~tx.queued  BY <2>1 DEF Transmitting
  <2> QED  BY <2>1, <2>2 DEF Undisturbed
<1>20. ASSUME Up PROVE Undisturbed'
  <2>1. /\ ~down' /\ ~stopped' /\ UNCHANGED <<tx, tdt, next_to_use, muted, raced>>
    BY <1>20 DEF Up, stack, ring, history, races
  <2> QED  BY <1>1, <2>1 DEF Undisturbed
<1> QED
  BY <1>3, <1>4, <1>6, <1>7, <1>8, <1>9, <1>10, <1>11, <1>12, <1>13, <1>14, <1>15, <1>16, <1>17,
     <1>18, <1>19, <1>20 DEF Next, Xmit, Clean, Reset

-----------------------------------------------------------------------------
(* What is in the ring's buffers.                                          *)

\* Of what is mapped and not in the ring yet, only the last has the packet.
EndMapped(i) == tx.pc = "queue" /\ Dist(next_to_use, i) = Size[skb] - 1
BuffersUsed ==
    /\ \A i \in Slots : buffer_info[i].skb # None => Used(i) \/ EndMapped(i)
    /\ \A i \in Slots : EndMapped(i) => buffer_info[i].skb = skb

\* A packet that the device has not read is still in its buffer.
Unread(i) == At(tdh) <= At(i) /\ At(i) < At(next_to_use)
Buffered ==
    \A i \in Slots : Unread(i) =>
        /\ desc[i].skb # None
        /\ \E j \in Slots : /\ At(i) <= At(j) /\ At(j) < At(next_to_use)
                            /\ buffer_info[j].skb = desc[i].skb

Buffers == BuffersUsed /\ Buffered

\* Whatever leaves the buffers and what the device reads alone.
LEMMA BuffersSame ==
    ASSUME TypeOK, Buffers, Cleaned' = Cleaned, UNCHANGED next_to_use,
           tdh' \in Slots, At(tdh) <= At(tdh)',
           \A i \in Slots : /\ buffer_info'[i].skb = buffer_info[i].skb
                            /\ desc'[i].skb = desc[i].skb,
           tx.pc = "queue" <=> tx'.pc = "queue",
           tx.pc = "queue" => UNCHANGED tx
    PROVE  Buffers'
<1>1. \A i : At(i)' = At(i)  BY DEF At
<1>2. At(next_to_use)' = At(next_to_use)  BY <1>1
<1>3. \A i \in Slots : /\ Used(i)' <=> Used(i)
                       /\ EndMapped(i)' <=> EndMapped(i)
  BY <1>1, <1>2 DEF Used, EndMapped, skb
<1>4. ASSUME tx.pc = "queue" PROVE skb' = skb  BY <1>4 DEF skb
<1>5. BuffersUsed'
  <2>1. \A i \in Slots : buffer_info'[i].skb # None => Used(i)' \/ EndMapped(i)'
    BY <1>3 DEF Buffers, BuffersUsed
  <2>2. ASSUME NEW i \in Slots, EndMapped(i)' PROVE buffer_info'[i].skb = skb'
    <3>1. EndMapped(i)  BY <1>3, <2>2
    <3> QED  BY <1>4, <3>1 DEF Buffers, BuffersUsed, EndMapped
  <2> QED  BY <2>1, <2>2 DEF BuffersUsed
<1>6. Buffered'
  <2> SUFFICES ASSUME NEW i \in Slots, Unread(i)'
               PROVE  /\ desc'[i].skb # None
                      /\ \E j \in Slots : /\ At(i) <= At(j) /\ At(j) < At(next_to_use)
                                          /\ buffer_info'[j].skb = desc'[i].skb
    BY <1>1, <1>2 DEF Buffered
  <2>1. Unread(i)
    <3>1. At(tdh)' <= At(i) /\ At(i) < At(next_to_use)  BY <1>1, <1>2 DEF Unread
    <3>2. At(tdh) \in Nat /\ At(i) \in Nat  BY RingTypes, AtTypes
    <3>3. At(tdh)' \in Nat
      <4>1. At(tdh)' = Dist(Cleaned, tdh')  BY DEF At
      <4> QED  BY <4>1, CleanedType, DistType
    <3> QED  BY <3>1, <3>2, <3>3 DEF Unread
  <2> QED  BY <2>1 DEF Buffers, Buffered
<1> QED  BY <1>5, <1>6 DEF Buffers

LEMMA BuffersMapped ==
    ASSUME DriverInv, Buffers, Map
    PROVE  /\ Buffers'
           /\ skb \in Packets
           /\ \E e \in Slots : /\ buffer_info[e].skb = None
                               /\ \A i \in Slots : buffer_info'[i].skb =
                                    IF i = e THEN skb ELSE buffer_info[i].skb
<1> USE DEF DriverInv
<1>1. PICK n : n = Size[skb]  OBVIOUS
<1>2. PICK e : e = Plus(next_to_use, n - 1)  OBVIOUS
<1>3. /\ n \in Nat \ {0} /\ e \in Slots /\ At(next_to_use) + n + 2 < Count
      /\ At(e) = At(next_to_use) + n - 1
      /\ \A m \in 0 .. n : \A x \in Slots :
                x \in SlotsFrom(next_to_use, m)
                    <=> At(next_to_use) <= At(x) /\ At(x) < At(next_to_use) + m
  BY <1>1, <1>2, Mapping DEF Map
<1>4. \A x \in Slots : x \in SlotsFrom(next_to_use, n)
          <=> At(next_to_use) <= At(x) /\ At(x) < At(next_to_use) + n
  <2>1. n \in 0 .. n  BY <1>3
  <2> QED  BY <1>3, <2>1
<1>5. PICK S : S = SlotsFrom(next_to_use, n)  OBVIOUS
<1>6. buffer_info' = [i \in Slots |->
              IF i \notin S THEN buffer_info[i]
              ELSE [skb |-> IF i = e THEN skb ELSE None, next_to_watch |-> i,
                    time_stamp |-> TRUE]]
  BY <1>1, <1>2, <1>5 DEF Map
<1>7. /\ tx.pc = "map" /\ tx'.pc = "queue" /\ skb' = skb
      /\ UNCHANGED <<next_to_use, next_to_clean, desc, tdh, cleaner>>
  BY DEF Map, TypeOK, Tx, skb
<1>8. Cleaned' = Cleaned  BY <1>7 DEF Cleaned
<1>9. \A i : At(i)' = At(i)  BY <1>8 DEF At
<1>10. \A i \in Slots : (Used(i)' <=> Used(i)) /\ (Unread(i)' <=> Unread(i))
  BY <1>7, <1>9 DEF Used, Unread
<1>11. next_to_use \in Slots /\ Count \in Nat \ {0} /\ At(next_to_use) \in Nat
  BY RingTypes, AtTypes, SlotTypes
<1>12. ASSUME NEW i \in Slots
       PROVE  /\ i \in S <=> Dist(next_to_use, i) < n
              /\ i = e <=> Dist(next_to_use, i) = n - 1
  <2>1. n \in 0 .. Count /\ n - 1 \in 0 .. Count /\ n - 1 < Count  BY <1>3, <1>11
  <2>2. i \in S <=> Dist(next_to_use, i) < n  BY <1>5, <1>11, <2>1, SlotsFromIs
  <2>3. Dist(next_to_use, e) = n - 1  BY <1>2, <1>11, <2>1, PlusIs
  <2>4. Dist(next_to_use, i) = Dist(next_to_use, e) => i = e  BY <1>3, <1>11, DistSame
  <2> QED  BY <2>2, <2>3, <2>4
<1>13. e \in S
  <2>1. At(next_to_use) <= At(e) /\ At(e) < At(next_to_use) + n  BY <1>3, <1>11
  <2> QED  BY <1>3, <1>4, <1>5, <2>1
<1>14. ASSUME NEW i \in Slots, i \in S PROVE ~Used(i) /\ buffer_info[i].skb = None
  <2>1. At(next_to_use) <= At(i) /\ At(i) \in Nat  BY <1>4, <1>5, <1>14, AtTypes
  <2>2. ~Used(i)  BY <1>11, <2>1 DEF Used
  <2> QED  BY <1>7, <2>2 DEF Buffers, BuffersUsed, EndMapped
<1>15. \A i \in Slots : buffer_info'[i].skb = IF i = e THEN skb ELSE buffer_info[i].skb
  BY <1>6, <1>13, <1>14
<1>16. skb \in Packets  BY <1>7, SkbType DEF Transmitting
<1>17. BuffersUsed'
  <2>1. \A i \in Slots : EndMapped(i)' <=> i = e
    BY <1>1, <1>7, <1>12 DEF EndMapped
  <2>2. \A i \in Slots : buffer_info'[i].skb # None => Used(i)' \/ EndMapped(i)'
    BY <1>7, <1>10, <1>15, <2>1 DEF Buffers, BuffersUsed, EndMapped
  <2>3. \A i \in Slots : EndMapped(i)' => buffer_info'[i].skb = skb'
    BY <1>7, <1>15, <2>1
  <2> QED  BY <2>2, <2>3 DEF BuffersUsed
<1>18. Buffered'
  <2> SUFFICES ASSUME NEW i \in Slots, Unread(i)
               PROVE  /\ desc[i].skb # None
                      /\ \E j \in Slots : /\ At(i) <= At(j) /\ At(j) < At(next_to_use)
                                          /\ buffer_info'[j].skb = desc[i].skb
    BY <1>7, <1>9, <1>10 DEF Buffered
  <2>1. PICK j \in Slots : /\ At(i) <= At(j) /\ At(j) < At(next_to_use)
                           /\ buffer_info[j].skb = desc[i].skb /\ desc[i].skb # None
    BY DEF Buffers, Buffered
  <2>2. j # e  BY <1>3, <1>14, <1>13, <2>1 DEF Used
  <2> QED  BY <1>15, <2>1, <2>2
<1> QED  BY <1>3, <1>13, <1>14, <1>15, <1>16, <1>17, <1>18 DEF Buffers

LEMMA BuffersQueued ==
    ASSUME DriverInv, Buffers, TxQueue
    PROVE  Buffers' /\ \A i \in Slots : buffer_info'[i].skb = buffer_info[i].skb
<1> USE DEF DriverInv
<1>1. PICK n : n = Size[skb]  OBVIOUS
<1>2. PICK e : e = Plus(next_to_use, n - 1)  OBVIOUS
<1>3. /\ n \in Nat \ {0} /\ e \in Slots /\ At(next_to_use) + n + 2 < Count
      /\ Succ(e) \in Slots /\ At(Succ(e)) = At(next_to_use) + n
      /\ At(e) = At(next_to_use) + n - 1
      /\ \A m \in 0 .. n : \A x \in Slots :
                x \in SlotsFrom(next_to_use, m)
                    <=> At(next_to_use) <= At(x) /\ At(x) < At(next_to_use) + m
  BY <1>1, <1>2, Mapping DEF TxQueue
<1>4. \A x \in Slots : x \in SlotsFrom(next_to_use, n)
          <=> At(next_to_use) <= At(x) /\ At(x) < At(next_to_use) + n
  <2>1. n \in 0 .. n  BY <1>3
  <2> QED  BY <1>3, <2>1
<1>5. PICK S : S = SlotsFrom(next_to_use, n)  OBVIOUS
<1>6. /\ buffer_info' = [buffer_info EXCEPT ![next_to_use].next_to_watch = e]
      /\ next_to_use' = Succ(e)
      /\ desc' = [i \in Slots |->
                 IF i \in S THEN [skb |-> skb, last |-> i = e, dd |-> FALSE] ELSE desc[i]]
  BY <1>1, <1>2, <1>5 DEF TxQueue
<1>7. /\ tx.pc = "queue" /\ tx'.pc = "check"
      /\ UNCHANGED <<next_to_clean, tdh, cleaner>>
  BY DEF TxQueue, TypeOK, Tx
<1>8. Cleaned' = Cleaned  BY <1>7 DEF Cleaned
<1>9. \A i : At(i)' = At(i)  BY <1>8 DEF At
<1>10. next_to_use \in Slots /\ Count \in Nat \ {0} /\ At(next_to_use) \in Nat
       /\ \A i \in Slots : At(i) \in Nat
  BY RingTypes, AtTypes, SlotTypes
<1>11. At(next_to_use)' = At(next_to_use) + n  BY <1>3, <1>6, <1>9
<1>12. ASSUME NEW i \in Slots PROVE buffer_info'[i].skb = buffer_info[i].skb
  <2>1. buffer_info[i] \in Buffer /\ buffer_info \in [Slots -> Buffer]  BY DEF TypeOK
  <2>2. CASE i = next_to_use
    <3>1. buffer_info'[i] = [buffer_info[i] EXCEPT !.next_to_watch = e]
      BY <1>6, <2>1, <2>2
    <3> QED  BY <2>1, <3>1 DEF Buffer
  <2>3. CASE i # next_to_use  BY <1>6, <2>1, <2>3
  <2> QED  BY <2>2, <2>3
<1>13. ASSUME NEW i \in Slots, Dist(next_to_use, i) < n PROVE i \in S
  <2>1. n \in 0 .. Count  BY <1>3, <1>10
  <2> QED  BY <1>5, <1>10, <1>13, <2>1, SlotsFromIs
<1>14. e \in S /\ EndMapped(e)
  <2>1. At(next_to_use) <= At(e) /\ At(e) < At(next_to_use) + n  BY <1>3, <1>10
  <2>2. n - 1 \in 0 .. Count /\ n - 1 < Count  BY <1>3, <1>10
  <2>3. Dist(next_to_use, e) = n - 1  BY <1>2, <1>10, <2>2, PlusIs
  <2> QED  BY <1>1, <1>3, <1>4, <1>5, <1>7, <2>1, <2>3 DEF EndMapped
<1>15. ASSUME NEW i \in Slots, Used(i) \/ EndMapped(i) PROVE Used(i)'
  <2>1. CASE Used(i)
    <3>1. At(i) < At(next_to_use) + n  BY <1>3, <1>10, <2>1 DEF Used
    <3> QED  BY <1>9, <1>11, <3>1 DEF Used
  <2>2. CASE EndMapped(i)
    <3>1. i \in S  BY <1>1, <1>3, <1>13, <2>2 DEF EndMapped
    <3>2. At(i) < At(next_to_use) + n  BY <1>4, <1>5, <3>1
    <3> QED  BY <1>9, <1>11, <3>2 DEF Used
  <2> QED  BY <1>15, <2>1, <2>2
<1>16. BuffersUsed'
  <2>1. \A i \in Slots : ~EndMapped(i)'  BY <1>7 DEF EndMapped
  <2>2. \A i \in Slots : buffer_info[i].skb # None => Used(i) \/ EndMapped(i)
    BY DEF Buffers, BuffersUsed
  <2> QED  BY <1>12, <1>15, <2>1, <2>2 DEF BuffersUsed
<1>17. Buffered'
  <2> SUFFICES ASSUME NEW i \in Slots, At(tdh) <= At(i), At(i) < At(next_to_use) + n
               PROVE  /\ desc'[i].skb # None
                      /\ \E j \in Slots : /\ At(i) <= At(j) /\ At(j) < At(next_to_use) + n
                                          /\ buffer_info'[j].skb = desc'[i].skb
    BY <1>7, <1>9, <1>11 DEF Buffered, Unread
  <2>1. CASE At(i) < At(next_to_use)
    <3>1. Unread(i)  BY <2>1 DEF Unread
    <3>2. PICK j \in Slots : /\ At(i) <= At(j) /\ At(j) < At(next_to_use)
                             /\ buffer_info[j].skb = desc[i].skb /\ desc[i].skb # None
      BY <3>1 DEF Buffers, Buffered
    <3>3. i \notin S  BY <1>4, <1>5, <1>10, <2>1
    <3>4. desc'[i] = desc[i]  BY <1>6, <3>3
    <3>5. At(j) < At(next_to_use) + n  BY <1>3, <1>10, <3>2
    <3> QED  BY <1>12, <3>2, <3>4, <3>5
  <2>2. CASE ~(At(i) < At(next_to_use))
    <3>1. i \in S  BY <1>4, <1>5, <1>10, <2>2
    <3>2. desc'[i].skb = skb  BY <1>6, <3>1
    <3>3. skb # None  BY <1>7, SkbType, DriverAssumption DEF Transmitting
    <3>4. buffer_info'[e].skb = skb  BY <1>3, <1>12, <1>14 DEF Buffers, BuffersUsed
    <3>5. At(i) <= At(e) /\ At(e) < At(next_to_use) + n  BY <1>3, <1>10
    <3> QED  BY <1>3, <3>2, <3>3, <3>4, <3>5
  <2> QED  BY <2>1, <2>2
<1> QED  BY <1>12, <1>16, <1>17 DEF Buffers

LEMMA BuffersCleaned ==
    ASSUME DriverInv, Buffers, CleanPacket
    PROVE  Buffers'
<1> USE DEF DriverInv
<1>0. /\ next_to_use \in Slots /\ tdh \in Slots /\ cleaner.eop \in Slots
      /\ Count \in Nat \ {0}
      /\ \A i \in Slots : At(i) \in Nat /\ At(i) < Count
  BY RingTypes, SlotTypes, AtTypes
<1>1. PICK b : b = Succ(cleaner.eop)  OBVIOUS
<1>2. b \in Slots /\ Cleaned' = b /\ At(b) <= At(tdh)
  BY <1>1, CleanMoves
<1>3. \A i \in Slots : At(i)' = IF At(b) <= At(i) THEN At(i) - At(b)
                                ELSE At(i) + Count - At(b)
  BY <1>1, CleanMoves
<1>4. \A i \in Slots : /\ desc'[i].skb = desc[i].skb
                       /\ At(b) <= At(i) => buffer_info'[i] = buffer_info[i]
                       /\ At(i) < At(b) => buffer_info'[i].skb = None
  <2> SUFFICES ASSUME NEW i \in Slots
               PROVE  /\ desc'[i].skb = desc[i].skb
                      /\ At(b) <= At(i) => buffer_info'[i] = buffer_info[i]
                      /\ At(i) < At(b) => buffer_info'[i].skb = None
    OBVIOUS
  <2>1. desc' = [s \in Slots |-> IF At(s) < At(b) THEN [desc[s] EXCEPT !.dd = FALSE]
                                 ELSE desc[s]]
    BY <1>1, CleanMoves
  <2>2. buffer_info' = [s \in Slots |->
                 IF At(s) < At(b)
                 THEN [buffer_info[s] EXCEPT !.skb = None, !.time_stamp = FALSE]
                 ELSE buffer_info[s]]
    BY <1>1, CleanMoves
  <2>3. desc[i] \in Desc /\ buffer_info[i] \in Buffer  BY DEF TypeOK
  <2>4. CASE At(i) < At(b)
    <3>1. /\ desc'[i] = [desc[i] EXCEPT !.dd = FALSE]
          /\ buffer_info'[i] = [buffer_info[i] EXCEPT !.skb = None, !.time_stamp = FALSE]
      BY <2>1, <2>2, <2>4
    <3>2. ~(At(b) <= At(i))  BY <1>0, <1>2, <2>4
    <3> QED  BY <2>3, <3>1, <3>2 DEF Desc, Buffer
  <2>5. CASE ~(At(i) < At(b))  BY <2>1, <2>2, <2>5
  <2> QED  BY <2>4, <2>5
<1>5. UNCHANGED <<next_to_use, tdh, tx>>  BY DEF CleanPacket
<1>6. /\ At(b) \in Nat /\ At(b) <= At(tdh) /\ At(tdh) <= At(next_to_use)
      /\ At(tdh) \in Nat /\ At(next_to_use) \in Nat
  <2>1. At(tdh) <= At(tdt) /\ At(tdt) <= At(next_to_use) /\ tdt \in Slots
    BY RingTypes DEF Ring, Order
  <2> QED  BY <1>0, <1>2, <2>1
<1>7. At(tdh)' = At(tdh) - At(b) /\ At(next_to_use)' = At(next_to_use) - At(b)
  <2>1. At(b) <= At(next_to_use)  BY <1>6
  <2> QED  BY <1>0, <1>2, <1>3, <1>5, <2>1 DEF At
<1>8. ASSUME NEW i \in Slots, At(b) <= At(i)
      PROVE  (Used(i)' <=> Used(i)) /\ (Unread(i)' <=> Unread(i))
  <2>1. At(i)' = At(i) - At(b)  BY <1>3, <1>8
  <2>2. PICK x \in Nat, y \in Nat, h \in Nat, u \in Nat :
           x = At(i) /\ y = At(b) /\ h = At(tdh) /\ u = At(next_to_use)
    BY <1>0, <1>6
  <2>3. (x - y < u - y <=> x < u) /\ (h - y <= x - y <=> h <= x)  BY <2>2
  <2> QED  BY <1>7, <2>1, <2>2, <2>3 DEF Used, Unread
<1>9. ASSUME NEW i \in Slots, At(i) < At(b) PROVE ~Unread(i)'
  <2>1. ~(At(b) <= At(i))  BY <1>0, <1>6, <1>9
  <2>2. At(i)' = At(i) + Count - At(b)  BY <1>3, <2>1
  <2>3. PICK x \in Nat, y \in Nat, u \in Nat :
           x = At(i) /\ y = At(b) /\ u = At(next_to_use) /\ u < Count
    BY <1>0, <1>6
  <2>4. ~(x + Count - y < u - y)  BY <1>0, <2>3
  <2> QED  BY <1>7, <2>2, <2>3, <2>4 DEF Unread
<1>10. ASSUME NEW i \in Slots, EndMapped(i) PROVE At(b) <= At(i)
  <2>1. PICK n : n = Size[skb]  OBVIOUS
  <2>2. PICK e : e = Plus(next_to_use, n - 1)  OBVIOUS
  <2>3. /\ n \in Nat \ {0} /\ e \in Slots /\ At(next_to_use) + n + 2 < Count
        /\ At(e) = At(next_to_use) + n - 1
    BY <1>10, <2>1, <2>2, Mapping DEF EndMapped
  <2>4. n - 1 \in 0 .. Count /\ n - 1 < Count  BY <1>0, <1>6, <2>3
  <2>5. Dist(next_to_use, e) = n - 1  BY <1>0, <2>2, <2>4, PlusIs
  <2>6. i = e  BY <1>0, <1>10, <2>1, <2>3, <2>5, DistSame DEF EndMapped
  <2> QED  BY <1>6, <2>3, <2>6
<1>11. \A i \in Slots : (EndMapped(i)' <=> EndMapped(i)) /\ skb' = skb
  BY <1>5 DEF EndMapped, skb
<1>12. \A i \in Slots : At(b) <= At(i) \/ At(i) < At(b)  BY <1>0, <1>6
<1>13. BuffersUsed'
  <2>1. ASSUME NEW i \in Slots, buffer_info'[i].skb # None PROVE Used(i)' \/ EndMapped(i)'
    <3>1. At(b) <= At(i) /\ buffer_info'[i] = buffer_info[i]  BY <1>4, <1>12, <2>1
    <3>2. Used(i) \/ EndMapped(i)  BY <2>1, <3>1 DEF Buffers, BuffersUsed
    <3> QED  BY <1>8, <1>11, <3>1, <3>2
  <2>2. ASSUME NEW i \in Slots, EndMapped(i)' PROVE buffer_info'[i].skb = skb'
    <3>1. EndMapped(i)  BY <1>11, <2>2
    <3>2. At(b) <= At(i)  BY <1>10, <3>1
    <3>3. buffer_info[i].skb = skb  BY <3>1 DEF Buffers, BuffersUsed
    <3> QED  BY <1>4, <1>11, <3>2, <3>3
  <2> QED  BY <2>1, <2>2 DEF BuffersUsed
<1>14. Buffered'
  <2> SUFFICES ASSUME NEW i \in Slots, Unread(i)'
               PROVE  /\ desc'[i].skb # None
                      /\ \E j \in Slots : /\ At(i)' <= At(j)' /\ At(j)' < At(next_to_use)'
                                          /\ buffer_info'[j].skb = desc'[i].skb
    BY DEF Buffered
  <2>1. At(b) <= At(i)  BY <1>9, <1>12
  <2>2. Unread(i)  BY <1>8, <2>1
  <2>3. PICK j \in Slots : /\ At(i) <= At(j) /\ At(j) < At(next_to_use)
                           /\ buffer_info[j].skb = desc[i].skb /\ desc[i].skb # None
    BY <2>2 DEF Buffers, Buffered
  <2>4. At(b) <= At(j)  BY <1>0, <1>6, <2>1, <2>3
  <2>5. At(i)' = At(i) - At(b) /\ At(j)' = At(j) - At(b)  BY <1>3, <2>1, <2>4
  <2>6. At(i)' <= At(j)' /\ At(j)' < At(next_to_use)'
    <3>1. PICK x \in Nat, y \in Nat, z \in Nat, u \in Nat :
             x = At(i) /\ y = At(b) /\ z = At(j) /\ u = At(next_to_use)
      BY <1>0, <1>6
    <3>2. x - y <= z - y /\ z - y < u - y  BY <2>3, <3>1
    <3> QED  BY <1>7, <2>5, <3>1, <3>2
  <2> QED  BY <1>4, <2>3, <2>4, <2>6
<1> QED  BY <1>13, <1>14 DEF Buffers

LEMMA BuffersStep ==
    ASSUME DriverInv, raced \/ Undisturbed, raced \/ Buffers, [Next]_vars
    PROVE  raced' \/ Buffers'
<1> SUFFICES ASSUME ~raced' PROVE Buffers'  OBVIOUS
<1> USE DEF DriverInv
<1>0. TypeOK'  BY TypeStep
<1>1. ASSUME UNCHANGED raced PROVE Buffers  BY <1>1
<1>2. ASSUME UNCHANGED <<raced, next_to_use, next_to_clean, tdh, buffer_info, desc>>,
             \/ UNCHANGED cleaner
             \/ cleaner.pc # "clean" /\ cleaner'.pc # "clean"
             \/ cleaner'.pc = "clean" /\ cleaner'.i = next_to_clean /\ cleaner.pc # "clean",
             tx.pc = "queue" <=> tx'.pc = "queue",
             tx.pc = "queue" => UNCHANGED tx
      PROVE  Buffers'
  <2>1. Cleaned' = Cleaned  BY <1>2 DEF Cleaned
  <2>2. At(tdh)' = At(tdh) /\ At(tdh) \in Nat  BY <1>2, <2>1, RingTypes, AtTypes DEF At
  <2>3. At(tdh) <= At(tdh)'  BY <2>2
  <2>4. tdh' \in Slots  BY <1>2, RingTypes
  <2>5. \A i \in Slots : /\ buffer_info'[i].skb = buffer_info[i].skb
                         /\ desc'[i].skb = desc[i].skb
    BY <1>2
  <2> QED  BY <1>1, <1>2, <2>1, <2>3, <2>4, <2>5, BuffersSame
<1>3. ASSUME \/ \E p \in Packets : SendOut(p)
             \/ TakeBatch \/ XmitHook \/ MaybeStop \/ StopQueue \/ Recheck \/ WriteTail
             \/ LinkChanges \/ Interrupt \/ Watchdog \/ TxTimeout \/ DownStart \/ Up
             \/ UNCHANGED vars
      PROVE  Buffers'
  <2>1. UNCHANGED <<raced, next_to_use, next_to_clean, tdh, buffer_info, desc, cleaner>>
    BY <1>3 DEF SendOut, TakeBatch, XmitHook, MaybeStop, StopQueue, Recheck, WriteTail,
                LinkChanges, Interrupt, Watchdog, TxTimeout, DownStart, Up, vars, ring, driver,
                races, history
  <2>2. tx \in Tx  BY DEF TypeOK
  <2>3. tx' = tx \/ (tx.pc # "queue" /\ tx'.pc # "queue")
    <3>1. CASE (\E p \in Packets : SendOut(p)) \/ LinkChanges \/ Interrupt \/ Watchdog
               \/ TxTimeout \/ DownStart \/ Up \/ UNCHANGED vars
      BY <3>1 DEF SendOut, LinkChanges, Interrupt, Watchdog, TxTimeout, DownStart, Up, vars
    <3>2. CASE TakeBatch  BY <3>2 DEF TakeBatch
    <3>3. CASE XmitHook \/ WriteTail
      <4>1. tx.pc \in {"hook", "tail"} /\ (tx'.pc = "check" \/ NextOfBatch)
        BY <2>2, <3>3 DEF XmitHook, WriteTail, Tx
      <4> QED  BY <4>1 DEF NextOfBatch, NoTx
    <3>4. CASE MaybeStop \/ StopQueue \/ Recheck
      BY <2>2, <3>4 DEF MaybeStop, StopQueue, Recheck, Tx, Fits, NoTx
    <3> QED  BY <1>3, <3>1, <3>2, <3>3, <3>4
  <2> QED  BY <1>2, <2>1, <2>3
<1>4. ASSUME CleanStart \/ CleanEnds \/ RoomToWake \/ WakeQueue \/ CleanDone PROVE Buffers'
  <2>1. UNCHANGED <<raced, next_to_use, tdh, buffer_info, desc, tx>>
    BY <1>4 DEF CleanStart, CleanEnds, RoomToWake, WakeQueue, CleanDone, ring, races, history
  <2>2. cleaner \in Cleaner  BY DEF TypeOK
  <2>3. CASE CleanEnds
    <3>1. Cleaned' = Cleaned  BY <2>3, RingEnds
    <3>2. At(tdh)' = At(tdh) /\ At(tdh) \in Nat  BY <2>1, <3>1, RingTypes, AtTypes DEF At
    <3>3. At(tdh) <= At(tdh)'  BY <3>2
    <3>4. tdh' \in Slots  BY <2>1, RingTypes
    <3>5. \A i \in Slots : /\ buffer_info'[i].skb = buffer_info[i].skb
                           /\ desc'[i].skb = desc[i].skb
      BY <2>1
    <3> QED  BY <1>1, <2>1, <3>1, <3>3, <3>4, <3>5, BuffersSame
  <2>4. CASE CleanStart
    <3>1. cleaner'.pc = "clean" /\ cleaner'.i = next_to_clean /\ cleaner.pc # "clean"
          /\ next_to_clean' = next_to_clean
      BY <2>4 DEF CleanStart, ring
    <3> QED  BY <1>2, <2>1, <3>1
  <2>5. CASE RoomToWake \/ WakeQueue \/ CleanDone
    <3>1. cleaner.pc # "clean" /\ cleaner'.pc # "clean" /\ next_to_clean' = next_to_clean
      BY <2>2, <2>5 DEF RoomToWake, WakeQueue, CleanDone, NoCleaner, Cleaner, ring
    <3> QED  BY <1>2, <2>1, <3>1
  <2> QED  BY <1>4, <2>3, <2>4, <2>5
<1>5. ASSUME Map PROVE Buffers'
  <2>1. UNCHANGED raced  BY <1>5 DEF Map, history, races
  <2> QED  BY <1>1, <1>5, <2>1, BuffersMapped
<1>6. ASSUME TxQueue PROVE Buffers'
  <2>1. UNCHANGED raced  BY <1>6 DEF TxQueue, history, races
  <2> QED  BY <1>1, <1>6, <2>1, BuffersQueued
<1>7. ASSUME CleanPacket PROVE Buffers'
  <2>1. UNCHANGED raced  BY <1>7 DEF CleanPacket, history, races
  <2> QED  BY <1>1, <1>7, <2>1, BuffersCleaned
<1>8. ASSUME MapFails PROVE Buffers'
  <2>1. UNCHANGED <<raced, next_to_use, next_to_clean, tdh, desc, cleaner>> /\ tx.pc = "map"
    BY <1>8 DEF MapFails, races
  <2>2. tx'.pc # "queue"
    <3>1. NextOfBatch  BY <1>8 DEF MapFails
    <3> QED  BY <3>1 DEF NextOfBatch, NoTx
  <2>3. \A i \in Slots : buffer_info'[i].skb = buffer_info[i].skb  BY <1>8, MapFailsKeeps
  <2>4. \A i \in Slots : buffer_info'[i].skb = buffer_info[i].skb /\ desc'[i].skb = desc[i].skb
    BY <2>1, <2>3
  <2>5. Cleaned' = Cleaned  BY <2>1 DEF Cleaned
  <2>6. At(tdh)' = At(tdh) /\ At(tdh) \in Nat  BY <2>1, <2>5, RingTypes, AtTypes DEF At
  <2>7. At(tdh) <= At(tdh)' /\ tdh' \in Slots  BY <2>1, <2>6, RingTypes
  <2> QED  BY <1>1, <2>1, <2>2, <2>4, <2>5, <2>7, BuffersSame
<1>9. ASSUME DeviceSends PROVE Buffers'
  <2>1. UNCHANGED <<raced, next_to_use, next_to_clean, buffer_info, cleaner, tx>>
    BY <1>9 DEF DeviceSends, history, races
  <2>2. PICK e \in Slots : e = EndOf(tdh) /\ Ends(tdh, e) /\ At(e) < At(tdt)
    BY <1>9, EndOfIs DEF DeviceSends, CanSend
  <2>3. Cleaned' = Cleaned /\ Cleaned \in Slots  BY <2>1, CleanedType DEF Cleaned
  <2>4. At(tdh)' = At(Succ(e)) /\ tdh' \in Slots
    BY <1>9, <2>2, <2>3, SuccIs DEF DeviceSends, At
  <2>5. At(tdh) <= At(tdh)'
    <3>1. At(Succ(e)) = IF At(e) = Count - 1 THEN 0 ELSE At(e) + 1
      BY <2>2, <2>3, DistSucc DEF At
    <3>2. /\ At(e) \in Nat /\ At(tdt) \in Nat /\ At(tdt) < Count /\ At(tdh) \in Nat
          /\ Count \in Nat
      BY RingTypes, AtTypes, SlotTypes
    <3>3. At(tdh) <= At(e) /\ At(e) < At(tdt)  BY <2>2 DEF Ends
    <3> QED  BY <2>4, <3>1, <3>2, <3>3
  <2>6. ASSUME NEW i \in Slots PROVE desc'[i].skb = desc[i].skb
    <3>1. desc[i] \in Desc /\ desc \in [Slots -> Desc] /\ desc' = [desc EXCEPT ![e].dd = TRUE]
      BY <1>9, <2>2 DEF TypeOK, DeviceSends
    <3>2. CASE i = e
      <4>1. desc'[i] = [desc[i] EXCEPT !.dd = TRUE]  BY <3>1, <3>2
      <4> QED  BY <3>1, <4>1 DEF Desc
    <3>3. CASE i # e  BY <3>1, <3>3
    <3> QED  BY <3>2, <3>3
  <2> QED  BY <1>1, <2>1, <2>3, <2>4, <2>5, <2>6, BuffersSame
<1>10. ASSUME DownFinish PROVE Buffers'
  <2>1. /\ tx' = tx /\ tx.pc = "idle" /\ next_to_use' = 0 /\ next_to_clean' = 0
        /\ cleaner' = cleaner
        /\ buffer_info' = [i \in Slots |-> NoBuffer]
    BY <1>10 DEF DownFinish
  <2>2. cleaner.pc # "clean"  BY <1>10 DEF DownFinish, Cleaning
  <2>3. Cleaned' = 0 /\ 0 \in Slots  BY <2>1, <2>2, SlotTypes DEF Cleaned
  <2>4. At(next_to_use)' = 0 /\ \A i \in Slots : At(i)' \in Nat
    BY <2>1, <2>3, DistSame, DistType DEF At
  <2>5. \A i \in Slots : ~Unread(i)'  BY <2>4 DEF Unread
  <2>6. \A i \in Slots : buffer_info'[i].skb = None  BY <2>1 DEF NoBuffer
  <2>7. \A i \in Slots : ~EndMapped(i)'  BY <2>1 DEF EndMapped
  <2> QED  BY <2>5, <2>6, <2>7 DEF Buffers, BuffersUsed, Buffered
<1> QED
  BY <1>3, <1>4, <1>5, <1>6, <1>7, <1>8, <1>9, <1>10 DEF Next, Xmit, Clean, Reset

-----------------------------------------------------------------------------
(* Whose a packet is.                                                      *)

\* What the batch still has, and what the buffers have.
Behind == IF tx.queued \/ tx.pc = "queue" THEN Tail(tx.batch) ELSE tx.batch
InRing(p) == {i \in Slots : buffer_info[i].skb = p}

Good(p) ==
    \/ Owners(p) + freed[p] = 1
    \/ hook = "driver" /\ kind[p] = "control" /\ p \in lost /\ Owners(p) + freed[p] = 0
    \/ hook = "nf" /\ kind[p] = "syn" /\ freed[p] = 2 /\ Owners(p) = 0
Balance == \A p \in Packets : Good(p)

LEMMA InRingType ==
    ASSUME NEW p
    PROVE  /\ IsFiniteSet(InRing(p)) /\ Cardinality(InRing(p)) \in Nat
           /\ Cardinality(InRing(p)) = 0 <=> InRing(p) = {}
<1>1. IsFiniteSet(Slots)
  <2>1. 0 \in Int /\ Count - 1 \in Int  BY SlotTypes
  <2> QED  BY <2>1, SlotTypes, FS_Interval
<1>2. InRing(p) \in SUBSET Slots  BY DEF InRing
<1>3. IsFiniteSet(InRing(p))  BY <1>1, <1>2, FS_Subset
<1> QED  BY <1>3, FS_CardinalityType, FS_EmptySet

LEMMA BehindType ==
    ASSUME TypeOK, Transmitting
    PROVE  /\ Behind \in Seq(Packets)
           /\ tx.queued \/ tx.pc = "queue" => tx.batch # <<>>
<1>1. tx.queued \/ tx.pc = "queue" => tx.pc # "idle"  BY DEF Transmitting
<1>2. tx.queued \/ tx.pc = "queue" => tx.batch # <<>>  BY <1>1 DEF Transmitting
<1> QED  BY <1>2, SkbType, RingTypes DEF Behind

\* The owners of a packet, without the one that is subtracted.
LEMMA OwnersIs ==
    ASSUME TypeOK, Transmitting, NEW p \in Packets
    PROVE  /\ Owners(p) = (IF p \in fresh THEN 1 ELSE 0) + HowOften(p, queue)
                          + HowOften(p, Behind) + Cardinality(InRing(p))
           /\ HowOften(p, queue) \in Nat /\ HowOften(p, Behind) \in Nat
           /\ Cardinality(InRing(p)) \in Nat
           /\ Owners(p) \in Nat /\ freed[p] \in Nat
<1>1. HowOften(p, queue) \in Nat /\ HowOften(p, Behind) \in Nat
  <2>1. queue \in Seq(Packets) /\ Behind \in Seq(Packets)  BY BehindType DEF TypeOK
  <2> QED  BY <2>1, HowOftenType
<1>2. Cardinality(InRing(p)) \in Nat  BY InRingType
<1>3. PICK f \in Nat : f = IF p \in fresh THEN 1 ELSE 0  OBVIOUS
<1>4. Owners(p) = f + HowOften(p, queue)
                    + HowOften(p, IF tx.queued THEN Tail(tx.batch) ELSE tx.batch)
                    - (IF tx.pc = "queue" /\ p = skb THEN 1 ELSE 0)
                    + Cardinality(InRing(p))
  BY <1>3 DEF Owners, InRing
<1>5. Owners(p) = f + HowOften(p, queue) + HowOften(p, Behind) + Cardinality(InRing(p))
  <2>1. CASE tx.pc = "queue"
    <3>1. ~tx.queued /\ tx.batch # <<>>  BY <2>1, BehindType DEF Transmitting
    <3>2. /\ Tail(tx.batch) \in Seq(Packets)
          /\ HowOften(p, tx.batch)
             = HowOften(p, Tail(tx.batch)) + (IF Head(tx.batch) = p THEN 1 ELSE 0)
      BY <3>1, RingTypes, HowOftenHead
    <3>3. Behind = Tail(tx.batch)  BY <2>1 DEF Behind
    <3>4. PICK a \in Nat, b \in Nat, c \in Nat :
             a = HowOften(p, queue) /\ b = HowOften(p, Behind) /\ c = Cardinality(InRing(p))
      BY <1>1, <1>2
    <3>5. PICK h \in {0, 1} : h = IF Head(tx.batch) = p THEN 1 ELSE 0  OBVIOUS
    <3>6. HowOften(p, tx.batch) = b + h  BY <3>2, <3>3, <3>4, <3>5
    <3>7. (IF tx.pc = "queue" /\ p = skb THEN 1 ELSE 0) = h  BY <2>1, <3>5 DEF skb
    <3>8. Owners(p) = f + a + (b + h) - h + c  BY <1>4, <3>1, <3>4, <3>6, <3>7
    <3>9. f + a + (b + h) - h + c = f + a + b + c  BY <1>3, <3>4, <3>5
    <3> QED  BY <3>4, <3>8, <3>9
  <2>2. CASE tx.pc # "queue"
    <3>1. Behind = IF tx.queued THEN Tail(tx.batch) ELSE tx.batch  BY <2>2 DEF Behind
    <3>2. (IF tx.pc = "queue" /\ p = skb THEN 1 ELSE 0) = 0  BY <2>2
    <3>3. Owners(p) = f + HowOften(p, queue) + HowOften(p, Behind) - 0 + Cardinality(InRing(p))
      BY <1>4, <3>1, <3>2
    <3> QED  BY <1>1, <1>2, <1>3, <3>3
  <2> QED  BY <2>1, <2>2
<1>6. freed[p] \in Nat  BY DEF TypeOK
<1> QED  BY <1>1, <1>2, <1>3, <1>5, <1>6

\* What a step does to a packet: it stays with its owners, or is freed by them.
LEMMA GoodKept ==
    ASSUME NEW p \in Packets, Good(p), UNCHANGED <<hook, kind>>, lost \subseteq lost',
           Owners(p) \in Nat, Owners(p)' \in Nat, freed[p] \in Nat, freed'[p] \in Nat,
           Owners(p)' <= Owners(p), Owners(p)' + freed'[p] = Owners(p) + freed[p]
    PROVE  Good(p)'
<1>1. CASE Owners(p) + freed[p] = 1  BY <1>1 DEF Good
<1>2. CASE hook = "driver" /\ kind[p] = "control" /\ p \in lost /\ Owners(p) + freed[p] = 0
  BY <1>2 DEF Good
<1>3. CASE hook = "nf" /\ kind[p] = "syn" /\ freed[p] = 2 /\ Owners(p) = 0
  <2>1. Owners(p)' = 0  BY <1>3
  <2>2. freed'[p] = 2  BY <1>3, <2>1
  <2> QED  BY <1>3, <2>1, <2>2 DEF Good
<1> QED  BY <1>1, <1>2, <1>3 DEF Good

\* A packet that somebody has is good in the usual way.
LEMMA GoodOwned ==
    ASSUME NEW p \in Packets, Good(p), Owners(p) \in Nat, freed[p] \in Nat, Owners(p) >= 1
    PROVE  Owners(p) = 1 /\ freed[p] = 0
BY DEF Good

\* The rest of a batch goes on, or back to the queue.
LEMMA BatchGoesOn ==
    ASSUME TypeOK, tx.batch # <<>>, NextOfBatch, NEW p \in Packets
    PROVE  HowOften(p, queue') + HowOften(p, Behind')
           = HowOften(p, queue) + HowOften(p, Tail(tx.batch))
<1>1. Tail(tx.batch) \in Seq(Packets) /\ queue \in Seq(Packets)  BY SkbType DEF TypeOK
<1>2. HowOften(p, queue) \in Nat /\ HowOften(p, Tail(tx.batch)) \in Nat
  BY <1>1, HowOftenType
<1>3. CASE tx' = [pc |-> "hook", batch |-> Tail(tx.batch), queued |-> FALSE] /\ UNCHANGED queue
  <2>1. Behind' = Tail(tx.batch)  BY <1>3 DEF Behind
  <2> QED  BY <1>3, <2>1
<1>4. CASE tx' = NoTx /\ queue' = Tail(tx.batch) \o queue
  <2>1. Behind' = <<>>  BY <1>4 DEF Behind, NoTx
  <2>2. HowOften(p, <<>>) = 0  BY HowOftenEmpty
  <2>3. HowOften(p, Tail(tx.batch) \o queue) = HowOften(p, Tail(tx.batch)) + HowOften(p, queue)
    BY <1>1, HowOftenConcat
  <2> QED  BY <1>2, <1>4, <2>1, <2>2, <2>3
<1> QED  BY <1>3, <1>4 DEF NextOfBatch

OwnersFact ==
    \A p \in Packets :
        /\ Owners(p) = (IF p \in fresh THEN 1 ELSE 0) + HowOften(p, queue)
                       + HowOften(p, Behind) + Cardinality(InRing(p))
        /\ HowOften(p, queue) \in Nat /\ HowOften(p, Behind) \in Nat
        /\ Cardinality(InRing(p)) \in Nat
        /\ Owners(p) \in Nat /\ freed[p] \in Nat

LEMMA OwnersNow == TypeOK /\ Transmitting => OwnersFact
BY OwnersIs DEF OwnersFact

LEMMA OwnersNext == TypeOK' /\ Transmitting' => OwnersFact'
BY OwnersNow, PTL

\* A refused packet loses its owner.  Netfilter's SYN is freed twice, a driver's
\* DYSCO_SYN not at all.
LEMMA GoodRefused ==
    ASSUME TypeOK, NEW p \in Packets, Refused(p), UNCHANGED <<hook, kind>>,
           Owners(p) = 1, freed[p] = 0, Owners(p)' = 0
    PROVE  Good(p)'
<1>1. kind[p] \in {"syn", "control"} /\ hook \in {"driver", "nf"}
  BY DEF TypeOK, Kinds, Refused
<1>2. PICK n \in Nat : n = (IF kind[p] = "syn" THEN 1 ELSE 0) + (IF hook = "nf" THEN 1 ELSE 0)
  OBVIOUS
<1>3. freed'[p] = n /\ (n = 0 => p \in lost')
  <2>1. freed' = [freed EXCEPT ![p] = @ + n] /\ freed \in [Packets -> Nat]
    BY <1>2 DEF Refused, TypeOK
  <2>2. lost' = IF n = 0 THEN lost \cup {p} ELSE lost  BY <1>2 DEF Refused
  <2> QED  BY <2>1, <2>2
<1>4. CASE kind[p] = "syn" /\ hook = "nf"
  <2>1. n = 2  BY <1>2, <1>4
  <2> QED  BY <1>3, <1>4, <2>1 DEF Good
<1>5. CASE kind[p] = "control" /\ hook = "driver"
  <2>1. n = 0  BY <1>2, <1>5
  <2> QED  BY <1>3, <1>5, <2>1 DEF Good
<1>6. CASE kind[p] = "syn" /\ hook = "driver"
  <2>1. n = 1  BY <1>2, <1>6
  <2> QED  BY <1>3, <2>1 DEF Good
<1>7. CASE kind[p] = "control" /\ hook = "nf"
  <2>1. n = 1  BY <1>2, <1>7
  <2> QED  BY <1>3, <2>1 DEF Good
<1> QED  BY <1>1, <1>4, <1>5, <1>6, <1>7

LEMMA RefusedOther ==
    ASSUME TypeOK, NEW p \in Packets, NEW q \in Packets, Passes(q) \/ (Refused(q) /\ p # q)
    PROVE  freed'[p] = freed[p] /\ lost \subseteq lost'
BY DEF TypeOK, Passes, Refused

LEMMA BalanceStep ==
    ASSUME DriverInv, raced \/ Undisturbed, raced \/ Buffers, raced \/ Balance, [Next]_vars
    PROVE  raced' \/ Balance'
<1> SUFFICES ASSUME ~raced', NEW p \in Packets PROVE Good(p)'
  BY DEF Balance
<1>0. TypeOK /\ TypeOK' /\ Ring /\ Transmitting /\ Transmitting'
  BY TypeStep, TransmittingStep DEF DriverInv
<1>1. raced \/ (Good(p) /\ Buffers /\ Undisturbed)  BY DEF Balance
<1>2. PICK o \in Nat, f \in Nat, q \in Nat, b \in Nat, r \in Nat, d \in Nat :
         /\ o = Owners(p) /\ f = (IF p \in fresh THEN 1 ELSE 0) /\ q = HowOften(p, queue)
         /\ b = HowOften(p, Behind) /\ r = Cardinality(InRing(p)) /\ d = freed[p]
         /\ o = f + q + b + r
  BY <1>0, OwnersNow DEF OwnersFact
<1>3. PICK o1 \in Nat, f1 \in Nat, q1 \in Nat, b1 \in Nat, r1 \in Nat, d1 \in Nat :
         /\ o1 = Owners(p)' /\ f1 = (IF p \in fresh' THEN 1 ELSE 0) /\ q1 = HowOften(p, queue')
         /\ b1 = HowOften(p, Behind') /\ r1 = Cardinality(InRing(p)') /\ d1 = freed'[p]
         /\ o1 = f1 + q1 + b1 + r1
  <2>1. OwnersFact'  BY <1>0, OwnersNext
  <2>2. /\ Owners(p)' = (IF p \in fresh' THEN 1 ELSE 0) + HowOften(p, queue')
                       + HowOften(p, Behind') + Cardinality(InRing(p)')
        /\ HowOften(p, queue') \in Nat /\ HowOften(p, Behind') \in Nat
        /\ Cardinality(InRing(p)') \in Nat
        /\ Owners(p)' \in Nat /\ freed'[p] \in Nat
    BY <2>1 DEF OwnersFact
  <2> QED  BY <2>2
<1>4. ASSUME UNCHANGED <<raced, hook, kind>>, lost \subseteq lost', o1 <= o, o1 + d1 = o + d
      PROVE  Good(p)'
  BY <1>1, <1>2, <1>3, <1>4, GoodKept
<1>5. ASSUME UNCHANGED <<raced, hook, kind, fresh, queue, freed, lost>>,
             Behind' = Behind, \A i \in Slots : buffer_info'[i].skb = buffer_info[i].skb
      PROVE  Good(p)'
  <2>1. InRing(p)' = InRing(p)  BY <1>5 DEF InRing
  <2>2. f1 = f /\ q1 = q /\ b1 = b /\ r1 = r /\ d1 = d  BY <1>2, <1>3, <1>5, <2>1
  <2> QED  BY <1>2, <1>3, <1>4, <1>5, <2>2
<1>6. ASSUME raced' = raced, o >= 1 PROVE o = 1 /\ d = 0
  BY <1>1, <1>2, <1>6, GoodOwned
<1>7. ASSUME NEW x \in Packets, SendOut(x) PROVE Good(p)'
  <2>1. /\ UNCHANGED <<raced, hook, kind, tx, buffer_info>>
        /\ x \in fresh /\ fresh' = fresh \ {x}
    BY <1>7 DEF SendOut, ring, history, races
  <2>2. b1 = b /\ r1 = r  BY <1>2, <1>3, <2>1 DEF Behind, InRing
  <2>3. CASE queue' = Append(queue, x) /\ freed'[p] = freed[p] /\ lost \subseteq lost'
    <3>1. q1 = q + (IF x = p THEN 1 ELSE 0)
      <4>1. queue \in Seq(Packets)  BY <1>0 DEF TypeOK
      <4>2. HowOften(p, Append(queue, x)) = HowOften(p, queue) + (IF x = p THEN 1 ELSE 0)
        BY <4>1, HowOftenAppend
      <4> QED  BY <1>2, <1>3, <2>3, <4>2
    <3>2. f1 + (IF x = p THEN 1 ELSE 0) = f  BY <1>2, <1>3, <2>1
    <3>3. f1 + q1 = f + q
      <4>1. CASE x = p  BY <3>1, <3>2, <4>1
      <4>2. CASE x # p  BY <3>1, <3>2, <4>2
      <4> QED  BY <4>1, <4>2
    <3>4. o1 = o /\ d1 = d  BY <1>2, <1>3, <2>2, <2>3, <3>3
    <3> QED  BY <1>4, <2>1, <2>3, <3>4
  <2>4. CASE Refused(x) /\ queue' = queue
    <3>1. q1 = q  BY <1>2, <1>3, <2>4
    <3>2. CASE x = p
      <4>1. f = 1 /\ f1 = 0  BY <1>2, <1>3, <2>1, <3>2
      <4>2. o = 1 /\ d = 0  BY <1>2, <1>6, <2>1, <4>1
      <4>3. o1 = 0  BY <1>2, <1>3, <2>2, <3>1, <4>1, <4>2
      <4> QED  BY <1>0, <1>2, <1>3, <2>1, <2>4, <3>2, <4>2, <4>3, GoodRefused
    <3>3. CASE x # p
      <4>1. freed'[p] = freed[p] /\ lost \subseteq lost'  BY <1>0, <2>4, <3>3, RefusedOther
      <4>2. f1 = f  BY <1>2, <1>3, <2>1, <3>3
      <4>3. o1 = o /\ d1 = d  BY <1>2, <1>3, <2>2, <3>1, <4>1, <4>2
      <4> QED  BY <1>4, <2>1, <4>1, <4>3
    <3> QED  BY <3>2, <3>3
  <2>5. \/ queue' = Append(queue, x) /\ (Passes(x) \/ UNCHANGED <<rewritten, freed, lost>>)
        \/ Refused(x) /\ queue' = queue
    BY <1>7 DEF SendOut
  <2>6. Passes(x) => freed'[p] = freed[p] /\ lost \subseteq lost'  BY <1>0, RefusedOther
  <2> QED  BY <2>3, <2>4, <2>5, <2>6
<1>8. ASSUME TakeBatch PROVE Good(p)'
  <2>1. UNCHANGED <<raced, hook, kind, fresh, freed, lost, buffer_info>> /\ tx.pc = "idle"
    BY <1>8 DEF TakeBatch, ring, history, races
  <2>2. PICK n \in 1 .. Len(queue) :
           /\ tx' = [pc |-> "hook", batch |-> SubSeq(queue, 1, n), queued |-> FALSE]
           /\ queue' = SubSeq(queue, n + 1, Len(queue))
    BY <1>8 DEF TakeBatch
  <2>3. q = HowOften(p, SubSeq(queue, 1, n)) + HowOften(p, SubSeq(queue, n + 1, Len(queue)))
    BY <1>0, <1>2, HowOftenSplit DEF TypeOK
  <2>4. b = 0
    <3>1. Behind = <<>>  BY <1>0, <2>1 DEF Behind, Transmitting
    <3> QED  BY <1>2, <3>1, HowOftenEmpty
  <2>5. b1 = HowOften(p, SubSeq(queue, 1, n))
    <3>1. Behind' = SubSeq(queue, 1, n)  BY <2>2 DEF Behind
    <3> QED  BY <1>3, <3>1
  <2>6. q = b1 + q1  BY <1>3, <2>2, <2>3, <2>5
  <2>7. f1 = f /\ r1 = r /\ d1 = d  BY <1>2, <1>3, <2>1 DEF InRing
  <2>8. o1 = o
    <3>1. o = f + q + r  BY <1>2, <2>4
    <3>2. o1 = f + b1 + q1 + r  BY <1>3, <2>7
    <3> QED  BY <2>6, <3>1, <3>2
  <2>9. lost \subseteq lost' /\ UNCHANGED <<raced, hook, kind>>  BY <2>1
  <2> QED  BY <1>4, <2>7, <2>8, <2>9
\* The first packet of the batch is no longer in it, and the others go on.
<1>9. ASSUME tx.batch # <<>>, tx.pc \in {"hook", "map"}, NextOfBatch
      PROVE  q1 + b1 + (IF p = skb THEN 1 ELSE 0) = q + b
  <2>1. ~tx.queued  BY <1>0, <1>9 DEF Transmitting
  <2>2. Behind = tx.batch  BY <1>9, <2>1 DEF Behind
  <2>3. q1 + b1 = q + HowOften(p, Tail(tx.batch))  BY <1>0, <1>2, <1>3, <1>9, BatchGoesOn
  <2>4. b = HowOften(p, Tail(tx.batch)) + (IF skb = p THEN 1 ELSE 0)
        /\ Tail(tx.batch) \in Seq(Packets)
    BY <1>0, <1>2, <1>9, <2>2, RingTypes, HowOftenHead DEF skb
  <2>5. HowOften(p, Tail(tx.batch)) \in Nat  BY <2>4, HowOftenType
  <2>6. PICK t \in Nat : t = HowOften(p, Tail(tx.batch))  BY <2>5
  <2>7. CASE skb = p  BY <2>3, <2>4, <2>6, <2>7
  <2>8. CASE skb # p  BY <2>3, <2>4, <2>6, <2>8
  <2> QED  BY <2>7, <2>8
<1>10. ASSUME XmitHook PROVE Good(p)'
  <2>1. /\ UNCHANGED <<raced, hook, kind, fresh, buffer_info>> /\ tx.pc = "hook"
    BY <1>10 DEF XmitHook, driver, ring, races
  <2>2. tx.batch # <<>> /\ skb \in Packets  BY <1>0, <2>1, SkbType DEF Transmitting
  <2>3. f1 = f /\ r1 = r  BY <1>2, <1>3, <2>1 DEF InRing
  <2>4. CASE tx' = [tx EXCEPT !.pc = "check"] /\ UNCHANGED queue
             /\ (Passes(skb) \/ UNCHANGED <<rewritten, freed, lost>>)
    <3>1. tx'.pc = "check" /\ tx'.batch = tx.batch /\ tx'.queued = tx.queued
      BY <1>0, <2>4 DEF TypeOK, Tx
    <3>2. Behind' = Behind  BY <2>1, <3>1 DEF Behind
    <3>3. UNCHANGED <<freed, lost>>  BY <2>4 DEF Passes
    <3> QED  BY <1>5, <2>1, <2>4, <3>2, <3>3
  <2>5. CASE Refused(skb) /\ NextOfBatch
    <3>1. q1 + b1 + (IF p = skb THEN 1 ELSE 0) = q + b  BY <1>9, <2>1, <2>2, <2>5
    <3>2. CASE p = skb
      <4>1. q1 + b1 + 1 = q + b  BY <3>1, <3>2
      <4>2. o1 + 1 = o  BY <1>2, <1>3, <2>3, <4>1
      <4>3. o = 1 /\ d = 0  BY <1>3, <1>6, <2>1, <4>2
      <4>4. o1 = 0  BY <4>2, <4>3
      <4> QED  BY <1>0, <1>2, <1>3, <2>1, <2>5, <3>2, <4>3, <4>4, GoodRefused
    <3>3. CASE p # skb
      <4>1. freed'[p] = freed[p] /\ lost \subseteq lost'  BY <1>0, <2>2, <2>5, <3>3, RefusedOther
      <4>2. q1 + b1 = q + b  BY <3>1, <3>3
      <4>3. o1 = o /\ d1 = d  BY <1>2, <1>3, <2>3, <4>1, <4>2
      <4> QED  BY <1>4, <2>1, <4>1, <4>3
    <3> QED  BY <3>2, <3>3
  <2>6. hook \in {"driver", "nf"}  BY <1>0 DEF TypeOK
  <2> QED  BY <1>10, <2>4, <2>5, <2>6 DEF XmitHook
<1>11. ASSUME MaybeStop \/ StopQueue PROVE Good(p)'
  <2>1. UNCHANGED <<raced, hook, kind, fresh, queue, freed, lost, buffer_info>>
    BY <1>11 DEF MaybeStop, StopQueue, stack, driver, ring, races
  <2>2. tx.pc # "queue" /\ tx'.pc # "queue" /\ tx'.batch = tx.batch /\ tx'.queued = tx.queued
    <3>1. tx \in Tx  BY <1>0 DEF TypeOK
    <3>2. CASE MaybeStop  BY <3>1, <3>2 DEF MaybeStop, Tx, Fits
    <3>3. CASE StopQueue  BY <3>1, <3>3 DEF StopQueue, Tx
    <3> QED  BY <1>11, <3>2, <3>3
  <2>3. Behind' = Behind  BY <2>2 DEF Behind
  <2> QED  BY <1>5, <2>1, <2>3
<1>12. ASSUME Recheck PROVE Good(p)'
  <2>1. UNCHANGED <<raced, hook, kind, fresh, freed, lost, buffer_info>> /\ tx.pc = "recheck"
    BY <1>12 DEF Recheck, driver, ring, races
  <2>2. CASE tx' = [tx EXCEPT !.pc = Fits] /\ UNCHANGED queue
    <3>1. tx'.pc # "queue" /\ tx'.batch = tx.batch /\ tx'.queued = tx.queued
      BY <1>0, <2>2 DEF TypeOK, Tx, Fits
    <3>2. Behind' = Behind  BY <2>1, <3>1 DEF Behind
    <3> QED  BY <1>5, <2>1, <2>2, <3>2
  <2>3. CASE tx' = NoTx /\ queue' = tx.batch \o queue /\ ~tx.queued
    <3>1. Behind = tx.batch /\ Behind' = <<>>  BY <2>1, <2>3 DEF Behind, NoTx
    <3>2. HowOften(p, tx.batch \o queue) = HowOften(p, tx.batch) + HowOften(p, queue)
      BY <1>0, RingTypes, HowOftenConcat DEF TypeOK
    <3>3. q1 = b + q /\ b1 = 0  BY <1>2, <1>3, <2>3, <3>1, <3>2, HowOftenEmpty
    <3>4. f1 = f /\ r1 = r /\ d1 = d  BY <1>2, <1>3, <2>1 DEF InRing
    <3>5. o1 = o  BY <1>2, <1>3, <3>3, <3>4
    <3> QED  BY <1>2, <1>3, <1>4, <2>1, <3>4, <3>5
  <2> QED  BY <1>12, <2>2, <2>3 DEF Recheck
<1>13. ASSUME Map PROVE Good(p)'
  <2>1. UNCHANGED <<raced, hook, kind, fresh, queue, freed, lost>> /\ tx.pc = "map"
    BY <1>13 DEF Map, stack, history, races
  <2>2. tx'.pc = "queue" /\ tx'.batch = tx.batch /\ tx'.queued = tx.queued
    BY <1>0, <1>13 DEF Map, TypeOK, Tx
  <2>3. ~tx.queued /\ tx.batch # <<>>  BY <1>0, <2>1 DEF Transmitting
  <2>4. Behind = tx.batch /\ Behind' = Tail(tx.batch)  BY <2>1, <2>2, <2>3 DEF Behind
  <2>5. b = HowOften(p, Tail(tx.batch)) + (IF skb = p THEN 1 ELSE 0)
    BY <1>0, <1>2, <2>3, <2>4, RingTypes, HowOftenHead DEF skb
  <2>6. PICK e \in Slots : /\ buffer_info[e].skb = None
                           /\ \A i \in Slots : buffer_info'[i].skb =
                                 IF i = e THEN skb ELSE buffer_info[i].skb
    BY <1>1, <1>13, <2>1, BuffersMapped
  <2>7. p # None  BY DriverAssumption
  <2>8. CASE skb = p
    <3>1. InRing(p)' = InRing(p) \cup {e} /\ e \notin InRing(p)  BY <2>6, <2>7, <2>8 DEF InRing
    <3>2. Cardinality(InRing(p) \cup {e}) = Cardinality(InRing(p)) + 1
      BY <3>1, InRingType, FS_AddElement
    <3>3. r1 = r + 1  BY <1>2, <1>3, <3>1, <3>2
    <3>4. b = b1 + 1  BY <1>3, <2>4, <2>5, <2>8
    <3>5. f1 = f /\ q1 = q /\ d1 = d  BY <1>2, <1>3, <2>1
    <3>6. o1 = o  BY <1>2, <1>3, <3>3, <3>4, <3>5
    <3> QED  BY <1>2, <1>3, <1>4, <2>1, <3>5, <3>6
  <2>9. CASE skb # p
    <3>1. InRing(p)' = InRing(p)  BY <2>6, <2>7, <2>9 DEF InRing
    <3>2. r1 = r /\ f1 = f /\ q1 = q /\ d1 = d  BY <1>2, <1>3, <2>1, <3>1
    <3>3. b = b1  BY <1>3, <2>4, <2>5, <2>9
    <3>4. o1 = o  BY <1>2, <1>3, <3>2, <3>3
    <3> QED  BY <1>2, <1>3, <1>4, <2>1, <3>2, <3>4
  <2> QED  BY <2>8, <2>9
<1>14. ASSUME MapFails PROVE Good(p)'
  <2>1. /\ UNCHANGED <<raced, hook, kind, fresh, lost>> /\ tx.pc = "map"
        /\ freed' = [freed EXCEPT ![skb] = @ + 1]
    BY <1>14 DEF MapFails, races
  <2>2. tx.batch # <<>> /\ skb \in Packets  BY <1>0, <2>1, SkbType DEF Transmitting
  <2>4. \A i \in Slots : buffer_info'[i].skb = buffer_info[i].skb
    BY <1>0, <1>14, MapFailsKeeps
  <2>5. InRing(p)' = InRing(p)  BY <2>4 DEF InRing
  <2>6. f1 = f /\ r1 = r  BY <1>2, <1>3, <2>1, <2>5
  <2>7. q1 + b1 + (IF p = skb THEN 1 ELSE 0) = q + b
    BY <1>9, <1>14, <2>1, <2>2 DEF MapFails
  <2>8. d1 = d + (IF p = skb THEN 1 ELSE 0)
    <3>1. freed \in [Packets -> Nat]  BY <1>0 DEF TypeOK
    <3>2. CASE p = skb
      <4>1. freed'[p] = freed[p] + 1  BY <2>1, <2>2, <3>1, <3>2
      <4> QED  BY <1>2, <1>3, <3>2, <4>1
    <3>3. CASE p # skb
      <4>1. freed'[p] = freed[p]  BY <2>1, <2>2, <3>1, <3>3
      <4> QED  BY <1>2, <1>3, <3>3, <4>1
    <3> QED  BY <3>2, <3>3
  <2>9. o1 <= o /\ o1 + d1 = o + d
    <3>1. CASE p = skb  BY <1>2, <1>3, <2>6, <2>7, <2>8, <3>1
    <3>2. CASE p # skb  BY <1>2, <1>3, <2>6, <2>7, <2>8, <3>2
    <3> QED  BY <3>1, <3>2
  <2> QED  BY <1>4, <2>1, <2>9
<1>15. ASSUME TxQueue PROVE Good(p)'
  <2>1. UNCHANGED <<raced, hook, kind, fresh, queue, freed, lost>> /\ tx.pc = "queue"
    BY <1>15 DEF TxQueue, stack, history, races
  <2>2. tx'.batch = tx.batch /\ tx'.queued  BY <1>0, <1>15 DEF TxQueue, TypeOK, Tx
  <2>3. Behind' = Behind  BY <2>1, <2>2 DEF Behind
  <2>4. \A i \in Slots : buffer_info'[i].skb = buffer_info[i].skb
    BY <1>1, <1>15, <2>1, BuffersQueued
  <2> QED  BY <1>5, <2>1, <2>3, <2>4
<1>16. ASSUME WriteTail PROVE Good(p)'
  <2>1. UNCHANGED <<raced, hook, kind, fresh, freed, lost, buffer_info>> /\ tx.pc = "tail"
        /\ NextOfBatch
    BY <1>16 DEF WriteTail, races
  <2>2. tx.queued /\ tx.batch # <<>>  BY <1>0, <2>1 DEF Transmitting
  <2>3. Behind = Tail(tx.batch)  BY <2>2 DEF Behind
  <2>4. q1 + b1 = q + b  BY <1>0, <1>2, <1>3, <2>1, <2>2, <2>3, BatchGoesOn
  <2>5. f1 = f /\ r1 = r /\ d1 = d  BY <1>2, <1>3, <2>1 DEF InRing
  <2>6. o1 = o  BY <1>2, <1>3, <2>4, <2>5
  <2> QED  BY <1>2, <1>3, <1>4, <2>1, <2>5, <2>6
<1>17. ASSUME DeviceSends \/ LinkChanges \/ Interrupt \/ CleanStart \/ CleanEnds \/ RoomToWake
              \/ WakeQueue \/ CleanDone \/ Watchdog \/ TxTimeout \/ DownStart \/ Up
              \/ UNCHANGED vars
       PROVE  Good(p)'
  <2>1. UNCHANGED <<raced, hook, kind, fresh, queue, freed, lost, tx, buffer_info>>
    BY <1>17 DEF DeviceSends, LinkChanges, Interrupt, CleanStart, CleanEnds, RoomToWake,
                 WakeQueue, CleanDone, Watchdog, TxTimeout, DownStart, Up, vars, stack, ring,
                 history, races
  <2>2. Behind' = Behind  BY <2>1 DEF Behind
  <2> QED  BY <1>5, <2>1, <2>2
<1>18. ASSUME NEW S \in SUBSET Slots, UNCHANGED <<raced, hook, kind, fresh, queue, lost, tx>>,
              freed' = [x \in Packets |->
                            freed[x] + Cardinality({s \in S : buffer_info[s].skb = x})],
              \A i \in Slots : buffer_info'[i].skb = IF i \in S THEN None ELSE buffer_info[i].skb
       PROVE  Good(p)'
  <2>1. PICK T : T = {s \in S : buffer_info[s].skb = p}  OBVIOUS
  <2>2. p # None  BY DriverAssumption
  <2>3. T \in SUBSET InRing(p) /\ InRing(p)' = InRing(p) \ T
    BY <1>18, <2>1, <2>2 DEF InRing
  <2>4. IsFiniteSet(InRing(p))  BY InRingType
  <2>5. IsFiniteSet(T)  BY <2>3, <2>4, FS_Subset
  <2>6. Cardinality(T) \in Nat  BY <2>5, FS_CardinalityType
  <2>7. r1 = r - Cardinality(T)
    <3>1. Cardinality(InRing(p) \ T) = Cardinality(InRing(p)) - Cardinality(InRing(p) \cap T)
      BY <2>4, FS_Difference
    <3>2. InRing(p) \cap T = T  BY <2>3
    <3> QED  BY <1>2, <1>3, <2>3, <3>1, <3>2
  <2>8. d1 = d + Cardinality(T)
    <3>1. freed'[p] = freed[p] + Cardinality({s \in S : buffer_info[s].skb = p})  BY <1>18
    <3> QED  BY <1>2, <1>3, <2>1, <3>1
  <2>9. f1 = f /\ q1 = q /\ b1 = b  BY <1>2, <1>3, <1>18 DEF Behind
  <2>10. o1 <= o /\ o1 + d1 = o + d  BY <1>2, <1>3, <2>6, <2>7, <2>8, <2>9
  <2> QED  BY <1>4, <1>18, <2>10
<1>19. ASSUME CleanPacket PROVE Good(p)'
  <2>1. UNCHANGED <<raced, hook, kind, fresh, queue, lost, tx>>
    BY <1>19 DEF CleanPacket, history, races
  <2>2. PICK c : c = Succ(cleaner.eop)  OBVIOUS
  <2>3. PICK S \in SUBSET Slots : S = {x \in Slots : At(x) < At(c)}  OBVIOUS
  <2>4. freed' = [x \in Packets |->
                     freed[x] + Cardinality({s \in S : buffer_info[s].skb = x})]
    BY <1>0, <1>19, <2>2, <2>3, CleanFrees
  <2>5. buffer_info' = [s \in Slots |->
                 IF At(s) < At(c)
                 THEN [buffer_info[s] EXCEPT !.skb = None, !.time_stamp = FALSE]
                 ELSE buffer_info[s]]
    BY <1>0, <1>19, <2>2, CleanMoves
  <2>6. ASSUME NEW i \in Slots
        PROVE  buffer_info'[i].skb = IF i \in S THEN None ELSE buffer_info[i].skb
    <3>1. buffer_info[i] \in Buffer  BY <1>0 DEF TypeOK
    <3>2. CASE At(i) < At(c)
      <4>1. buffer_info'[i] = [buffer_info[i] EXCEPT !.skb = None, !.time_stamp = FALSE]
        BY <2>5, <3>2
      <4> QED  BY <2>3, <3>1, <3>2, <4>1 DEF Buffer
    <3>3. CASE ~(At(i) < At(c))  BY <2>3, <2>5, <3>3
    <3> QED  BY <3>2, <3>3
  <2> QED  BY <1>18, <2>1, <2>4, <2>6
<1>20. ASSUME DownFinish PROVE Good(p)'
  <2>1. UNCHANGED <<hook, kind, fresh, queue, lost, tx>>
    BY <1>20 DEF DownFinish
  <2>2. raced' = raced
    <3>1. raced' = (raced \/ ~stopped \/ tx.pc # "idle") /\ raced \in BOOLEAN
      BY <1>0, <1>20 DEF DownFinish, TypeOK
    <3> QED  BY <3>1
  <2>3. freed' = [x \in Packets |->
                     freed[x] + Cardinality({s \in Slots : buffer_info[s].skb = x})]
    BY <1>20 DEF DownFinish
  <2>4. \A i \in Slots : buffer_info'[i].skb = IF i \in Slots THEN None ELSE buffer_info[i].skb
    BY <1>20 DEF DownFinish, NoBuffer
  <2> QED  BY <1>18, <2>1, <2>2, <2>3, <2>4
<1> QED
  BY <1>7, <1>8, <1>10, <1>11, <1>12, <1>13, <1>14, <1>15, <1>16, <1>17, <1>19, <1>20
  DEF Next, Xmit, Clean, Reset

\* All that holds while the ring is not cleared under a transmission.
Intact == raced \/ (Undisturbed /\ Buffers /\ Balance)

LEMMA IntactStarts == ASSUME Init PROVE Intact
<1>1. TypeOK /\ Ring /\ Transmitting  BY Starts
<1>2. /\ tx = NoTx /\ Cleaned = Start /\ tdh = Start /\ tdt = Start /\ next_to_use = Start
      /\ Start \in Slots
  BY DriverAssumption DEF Init, NoCleaner, Cleaned, Slots
<1>3. \A i \in Slots : buffer_info[i].skb = None /\ At(i) \in Nat
  BY <1>1, AtTypes DEF Init, NoBuffer
<1>4. Undisturbed  BY <1>2 DEF Init, Undisturbed, NoTx
<1>5. Buffers
  <2>1. At(Start) \in Nat  BY <1>2, <1>3
  <2>2. \A i \in Slots : ~Unread(i)  BY <1>2, <1>3, <2>1 DEF Unread
  <2>3. \A i \in Slots : ~EndMapped(i)  BY <1>2 DEF EndMapped, NoTx
  <2> QED  BY <1>3, <2>2, <2>3 DEF Buffers, BuffersUsed, Buffered
<1>6. Balance
  <2> SUFFICES ASSUME NEW p \in Packets PROVE Good(p)  BY DEF Balance
  <2>1. HowOften(p, queue) = 0  BY HowOftenEmpty DEF Init
  <2>2. HowOften(p, Behind) = 0
    <3>1. Behind = <<>>  BY <1>2 DEF Behind, NoTx
    <3> QED  BY <3>1, HowOftenEmpty
  <2>3. Cardinality(InRing(p)) = 0
    <3>1. InRing(p) = {}  BY <1>3, DriverAssumption DEF InRing
    <3> QED  BY <3>1, InRingType
  <2>4. Owners(p) = 1  BY <1>1, <2>1, <2>2, <2>3, OwnersIs DEF Init
  <2> QED  BY <2>4 DEF Good, Init
<1> QED  BY <1>4, <1>5, <1>6 DEF Intact

LEMMA IntactStep == ASSUME DriverInv, Intact, [Next]_vars PROVE Intact'
<1>1. /\ raced \/ Undisturbed
      /\ raced \/ Buffers
      /\ raced \/ Balance
  BY DEF Intact
<1> QED  BY <1>1, UndisturbedStep, BuffersStep, BalanceStep DEF Intact

LEMMA StaysIntact == Spec => [](DriverInv /\ Intact)
<1>1. Init /\ DriverInv => Intact  BY IntactStarts
<1>2. DriverInv /\ Intact /\ [Next]_vars => Intact'  BY IntactStep
<1> QED  BY <1>1, <1>2, DriverInvariant, PTL DEF Spec

\* What the device has yet to read is still in its buffer, and so its owner's.
LEMMA LiveRead == ASSUME DriverInv, Buffers, Balance PROVE ReadsLive
<1>1. /\ TypeOK /\ Ring /\ Transmitting
      /\ tdh \in Slots /\ tdt \in Slots /\ next_to_use \in Slots /\ Cleaned \in Slots
      /\ Count \in Nat \ {0}
  BY RingTypes, CleanedType, SlotTypes DEF DriverInv
<1>2. PICK d \in 0 .. Count - 1 : d = Dist(tdh, tdt)  BY <1>1, DistType, SlotTypes
<1>3. (tdt + Count - tdh) % Count = d  BY <1>1, <1>2, DistMod
<1> SUFFICES ASSUME NEW n \in 0 .. d - 1 PROVE freed[desc[Plus(tdh, n)].skb] = 0
  BY <1>3 DEF ReadsLive
<1>4. PICK i : i = Plus(tdh, n)  OBVIOUS
<1>5. PICK h \in Nat, t \in Nat, u \in Nat :
         h = At(tdh) /\ t = At(tdt) /\ u = At(next_to_use) /\ t < Count
  BY <1>1, AtTypes
<1>6. h <= t /\ t <= u  BY <1>1, <1>5 DEF Ring, Order
<1>7. t = h + d  BY <1>1, <1>2, <1>5, <1>6, DistAdd DEF At
<1>8. i \in Slots /\ At(i) = h + n
  <2>1. n \in 0 .. Count /\ n \in 0 .. Count - 1 /\ h + n < Count
    BY <1>1, <1>2, <1>5, <1>7
  <2>2. i \in Slots  BY <1>1, <1>4, <2>1, PlusIs
  <2>3. At(i) = h + n  BY <1>1, <1>4, <1>5, <2>1, DistPlus DEF At
  <2> QED  BY <2>2, <2>3
<1>9. Unread(i)
  <2>1. h <= h + n /\ h + n < u  BY <1>2, <1>5, <1>6, <1>7
  <2> QED  BY <1>5, <1>8, <2>1 DEF Unread
<1>10. PICK j \in Slots : buffer_info[j].skb = desc[i].skb /\ desc[i].skb # None
  BY <1>8, <1>9 DEF Buffers, Buffered
<1>11. PICK p \in Packets : p = desc[i].skb  BY <1>1, <1>8, <1>10, RingTypes
<1>12. j \in InRing(p)  BY <1>10, <1>11 DEF InRing
<1>13. Cardinality(InRing(p)) \in Nat /\ Cardinality(InRing(p)) # 0  BY <1>12, InRingType
<1>14. Owners(p) >= 1 /\ Owners(p) \in Nat /\ freed[p] \in Nat
  <2>1. PICK f \in Nat, q \in Nat, b \in Nat, r \in Nat :
           /\ q = HowOften(p, queue) /\ b = HowOften(p, Behind)
           /\ r = Cardinality(InRing(p)) /\ Owners(p) = f + q + b + r
    <3>1. (IF p \in fresh THEN 1 ELSE 0) \in Nat  OBVIOUS
    <3> QED  BY <1>1, <3>1, OwnersIs
  <2>2. r # 0  BY <1>13, <2>1
  <2>3. freed[p] \in Nat  BY <1>1 DEF TypeOK
  <2> QED  BY <2>1, <2>2, <2>3
<1>15. Good(p)  BY DEF Balance
<1> QED  BY <1>4, <1>11, <1>14, <1>15, GoodOwned

\* What OneOwner says of every packet: the kernel's queue, e1000_xmit_frame or the ring
\* has it, until it is freed, once, by whoever has it (the hook, dma_error in
\* e1000_tx_map, e1000_clean_tx_irq or e1000_down), and what the device is still to
\* read is not freed.
THEOREM PacketsOwned == Spec => []OneOwner
<1>1. DriverInv /\ Intact => OneOwner
  <2> SUFFICES ASSUME DriverInv, Buffers, Balance PROVE OneOwner
    BY DEF Intact, OneOwner
  <2>1. ReadsLive  BY LiveRead
  <2> QED  BY <2>1 DEF OneOwner, Balance, Good
<1> QED  BY <1>1, StaysIntact, PTL

-----------------------------------------------------------------------------
(* A SYN gets its chain once.                                              *)

\* There is room for any SYN or message, or the queue is stopped.
Roomy == DescUnused >= Reserve
RoomKept ==
    /\ tx.pc = "idle" => stopped \/ Roomy
    /\ tx.pc # "idle" /\ ~tx.queued => Roomy
    /\ tx.queued /\ tx.pc \in {"recheck", "tail"} => stopped \/ Roomy
    /\ tx.pc \in {"stop", "recheck"} /\ ~tx.queued => kind[skb] = "data"

LEMMA RoomType == ASSUME TypeOK PROVE DescUnused \in Int /\ Reserve \in Nat
<1>1. Dist(next_to_clean, next_to_use) \in Nat /\ Count \in Nat
  BY RingTypes, DistType, SlotTypes
<1> QED  BY <1>1, RingTypes, DescUnusedIs, DriverAssumption

\* An empty ring has room.
RoomEmpty == next_to_use = next_to_clean => DescUnused = Count - 1 /\ Roomy

LEMMA RoomEmptyNow == TypeOK => RoomEmpty
<1> SUFFICES ASSUME TypeOK, next_to_use = next_to_clean
             PROVE  DescUnused = Count - 1 /\ Roomy
  BY DEF RoomEmpty
<1>1. Dist(next_to_clean, next_to_use) = 0  BY RingTypes, DistSame
<1>2. DescUnused = Count - 1  BY <1>1, RingTypes, DescUnusedIs, SlotTypes
<1>3. Count \in Nat /\ Reserve \in Nat /\ WakeThreshold \in Nat
      /\ Reserve <= WakeThreshold /\ WakeThreshold < Count
  BY DriverAssumption
<1> QED  BY <1>2, <1>3 DEF Roomy

LEMMA RoomEmptyNext == TypeOK' => RoomEmpty'
BY RoomEmptyNow, PTL

\* Only e1000_tx_queue takes from it.
LEMMA RoomGrows ==
    ASSUME DriverInv, TypeOK', \/ UNCHANGED <<next_to_use, next_to_clean>>
                               \/ CleanEnds \/ DownFinish
    PROVE  Roomy => Roomy'
<1>1. TypeOK /\ Ring  BY DEF DriverInv
<1>2. CASE UNCHANGED <<next_to_use, next_to_clean>>  BY <1>2 DEF Roomy, DescUnused
<1>3. CASE CleanEnds
  <2>1. next_to_clean' = cleaner.i /\ next_to_use' = next_to_use /\ Cleaned = cleaner.i
    BY <1>3 DEF CleanEnds, Cleaned
  <2>2. /\ Cleaned \in Slots /\ next_to_use \in Slots /\ next_to_clean \in Slots
    BY <1>1, RingTypes, CleanedType
  <2>3. PICK c \in Nat, d \in Nat, u \in Nat :
           c = Dist(next_to_clean, Cleaned) /\ d = Dist(next_to_clean, next_to_use)
           /\ u = Dist(Cleaned, next_to_use)
    BY <2>2, DistType
  <2>4. d = c + u  BY <1>1, <2>3 DEF Ring, Order, At
  <2>5. DescUnused = Count - 1 - d  BY <2>2, <2>3, DescUnusedIs
  <2>6. DescUnused' = Count - 1 - u
    BY <2>1, <2>2, <2>3, SlotTypes DEF DescUnused, Dist
  <2> QED  BY <2>3, <2>4, <2>5, <2>6, SlotTypes, DriverAssumption DEF Roomy
<1>4. CASE DownFinish
  <2>1. next_to_use' = next_to_clean'  BY <1>4 DEF DownFinish
  <2> QED  BY <2>1, RoomEmptyNext DEF RoomEmpty
<1> QED  BY <1>2, <1>3, <1>4

LEMMA RoomKeptStep ==
    ASSUME DriverInv, Intact, late \/ raced \/ RoomKept, [Next]_vars
    PROVE  late' \/ raced' \/ RoomKept'
<1> SUFFICES ASSUME ~late', ~raced' PROVE RoomKept'  OBVIOUS
<1>0. /\ TypeOK /\ TypeOK' /\ Transmitting /\ tx \in Tx
      /\ stopped \in BOOLEAN /\ late \in BOOLEAN /\ raced \in BOOLEAN
  BY TypeStep DEF DriverInv, TypeOK
<1>1. ASSUME late = FALSE \/ late' = late, raced = FALSE \/ raced' = raced
      PROVE  RoomKept /\ Undisturbed
  BY <1>0, <1>1 DEF Intact
<1>2. ASSUME late' = late, raced' = raced, UNCHANGED <<tx, kind, stopped>>,
             Roomy => Roomy'
      PROVE  RoomKept'
  <2>1. RoomKept /\ skb' = skb  BY <1>1, <1>2 DEF skb
  <2> QED  BY <1>2, <2>1 DEF RoomKept
<1>3. ASSUME UNCHANGED <<late, raced, stopped>>, Roomy \/ stopped, Roomy => Roomy',
             tx' \in [pc : {"hook", "idle"}, batch : Seq(Packets), queued : {FALSE}],
             tx'.pc = "hook" => ~stopped
      PROVE  RoomKept'
  BY <1>3 DEF RoomKept
<1>4. ASSUME NextOfBatch, tx.batch # <<>>
      PROVE  /\ tx' \in [pc : {"hook", "idle"}, batch : Seq(Packets), queued : {FALSE}]
             /\ tx'.pc = "hook" => ~stopped
  <2>1. CASE Tail(tx.batch) # <<>> /\ ~stopped  BY <1>0, <1>4, <2>1, NextOfBatchIs
  <2>2. CASE ~(Tail(tx.batch) # <<>> /\ ~stopped)
    <3>1. tx' = NoTx  BY <1>4, <2>2 DEF NextOfBatch
    <3> QED  BY <1>0, <1>4, <3>1, NextOfBatchIs DEF NoTx
  <2> QED  BY <2>1, <2>2
<1>5. ASSUME UNCHANGED <<next_to_use, next_to_clean>>
      PROVE  DescUnused' = DescUnused /\ (Roomy => Roomy')
  BY <1>5 DEF DescUnused, Roomy
<1>6. ASSUME TakeBatch PROVE RoomKept'
  <2>1. /\ UNCHANGED <<late, raced, stopped, next_to_use, next_to_clean>>
        /\ tx.pc = "idle" /\ ~stopped /\ tx'.pc = "hook" /\ ~tx'.queued
    BY <1>6 DEF TakeBatch, ring, history, races
  <2> QED  BY <1>1, <1>5, <2>1 DEF RoomKept
<1>7. ASSUME XmitHook PROVE RoomKept'
  <2>1. /\ UNCHANGED <<late, raced, stopped, next_to_use, next_to_clean>> /\ tx.pc = "hook"
    BY <1>7 DEF XmitHook, driver, ring, races
  <2>2. Roomy /\ Roomy' /\ ~tx.queued /\ tx.batch # <<>>
    BY <1>0, <1>1, <1>5, <2>1 DEF RoomKept, Transmitting
  <2>3. ASSUME tx' = [tx EXCEPT !.pc = "check"] PROVE RoomKept'
    <3>1. tx'.pc = "check" /\ tx'.queued = tx.queued  BY <1>0, <2>3 DEF Tx
    <3> QED  BY <2>2, <3>1 DEF RoomKept
  <2> QED  BY <1>3, <1>4, <1>7, <2>1, <2>2, <2>3 DEF XmitHook
<1>8. ASSUME MaybeStop PROVE RoomKept'
  <2>1. /\ UNCHANGED <<late, raced, stopped, next_to_use, next_to_clean, kind>>
        /\ tx.pc = "check"
    BY <1>8 DEF MaybeStop, stack, driver, ring, races
  <2>2. RoomKept /\ (Roomy => Roomy') /\ tx.batch # <<>>
    BY <1>0, <1>1, <1>5, <2>1 DEF Transmitting
  <2>3. /\ tx'.queued = tx.queued /\ tx'.batch = tx.batch
        /\ tx'.pc = IF DescUnused >= Needed THEN Fits ELSE "stop"
    BY <1>0, <1>8 DEF MaybeStop, Tx
  <2>4. tx.queued \in BOOLEAN  BY <1>0 DEF Tx
  <2>5. CASE tx.queued
    <3>1. tx'.pc = "tail" => Roomy'  BY <2>2, <2>3, <2>5 DEF Needed, Fits, Roomy
    <3>2. tx'.pc \in {"tail", "stop"} /\ tx'.queued  BY <2>3, <2>5 DEF Fits
    <3> QED  BY <3>1, <3>2 DEF RoomKept
  <2>6. CASE ~tx.queued
    <3>1. Roomy /\ Roomy' /\ ~tx'.queued /\ tx'.pc \in {"map", "stop"}
      BY <2>1, <2>2, <2>3, <2>6 DEF RoomKept, Fits
    <3>2. tx'.pc = "stop" => kind[skb] = "data"
      <4> SUFFICES ASSUME tx'.pc = "stop" PROVE kind[skb] = "data"  OBVIOUS
      <4>1. ~(DescUnused >= Size[skb] + 2)  BY <2>3, <2>6 DEF Fits, Needed
      <4>2. skb \in Packets /\ Size[skb] \in Nat  BY <1>0, <2>2, SkbType
      <4>3. kind[skb] # "data" => Size[skb] + 2 <= Reserve
        <5>1. <<hook, kind>> \in Cases  BY <1>0 DEF TypeOK
        <5>2. <<hook, kind>>[2] = kind  OBVIOUS
        <5>3. <<hook, kind>>[2][skb] # "data" => Size[skb] + 2 <= Reserve
          BY <4>2, <5>1, DriverAssumption
        <5> QED  BY <5>2, <5>3
      <4> QED  BY <1>0, <3>1, <4>1, <4>2, <4>3, RoomType DEF Roomy
    <3>3. skb' = skb /\ kind' = kind  BY <2>1, <2>3 DEF skb
    <3> QED  BY <3>1, <3>2, <3>3 DEF RoomKept
  <2> QED  BY <2>4, <2>5, <2>6
<1>9. ASSUME StopQueue PROVE RoomKept'
  <2>1. /\ UNCHANGED <<late, raced, next_to_use, next_to_clean, kind>>
        /\ tx.pc = "stop" /\ stopped'
    BY <1>9 DEF StopQueue, stack, driver, ring, races
  <2>2. RoomKept /\ (Roomy => Roomy')  BY <1>1, <1>5, <2>1
  <2>3. tx'.queued = tx.queued /\ tx'.batch = tx.batch /\ tx'.pc = "recheck"
    BY <1>0, <1>9 DEF StopQueue, Tx
  <2>4. skb' = skb  BY <2>3 DEF skb
  <2> QED  BY <2>1, <2>2, <2>3, <2>4 DEF RoomKept
<1>10. ASSUME Recheck PROVE RoomKept'
  <2>1. /\ UNCHANGED <<late, raced, next_to_use, next_to_clean, kind>> /\ tx.pc = "recheck"
    BY <1>10 DEF Recheck, driver, ring, races
  <2>2. RoomKept /\ (Roomy => Roomy') /\ DescUnused' = DescUnused  BY <1>1, <1>5, <2>1
  <2>3. tx.queued \in BOOLEAN  BY <1>0 DEF Tx
  <2>4. CASE tx.queued
    <3>1. tx' = [tx EXCEPT !.pc = "tail"] /\ (stopped' = stopped \/ DescUnused >= Reserve)
      BY <1>10, <2>4 DEF Recheck, Fits, Needed
    <3>2. tx'.pc = "tail" /\ tx'.queued  BY <1>0, <2>4, <3>1 DEF Tx
    <3>3. stopped' \/ Roomy'
      <4>1. stopped \/ Roomy  BY <2>1, <2>2, <2>4 DEF RoomKept
      <4> QED  BY <2>2, <3>1, <4>1 DEF Roomy
    <3> QED  BY <3>2, <3>3 DEF RoomKept
  <2>5. CASE ~tx.queued
    <3>1. Roomy /\ Roomy'  BY <2>1, <2>2, <2>5 DEF RoomKept
    <3>2. tx' = [tx EXCEPT !.pc = "map"] \/ tx' = NoTx
      BY <1>10, <2>5 DEF Recheck, Fits
    <3>3. tx'.pc \in {"map", "idle"} /\ ~tx'.queued  BY <1>0, <2>5, <3>2 DEF Tx, NoTx
    <3> QED  BY <3>1, <3>3 DEF RoomKept
  <2> QED  BY <2>3, <2>4, <2>5
<1>11. ASSUME Map PROVE RoomKept'
  <2>1. /\ UNCHANGED <<late, raced, stopped, next_to_use, next_to_clean>> /\ tx.pc = "map"
    BY <1>11 DEF Map, history, races
  <2>2. Roomy /\ Roomy'  BY <1>0, <1>1, <1>5, <2>1 DEF RoomKept, Transmitting
  <2>3. tx'.pc = "queue"  BY <1>0, <1>11 DEF Map, Tx
  <2> QED  BY <2>2, <2>3 DEF RoomKept
<1>12. ASSUME MapFails PROVE RoomKept'
  <2>1. /\ UNCHANGED <<late, raced, stopped, next_to_use, next_to_clean>> /\ tx.pc = "map"
        /\ NextOfBatch
    BY <1>12 DEF MapFails, races
  <2>2. Roomy /\ tx.batch # <<>>  BY <1>0, <1>1, <2>1 DEF RoomKept, Transmitting
  <2> QED  BY <1>3, <1>4, <1>5, <2>1, <2>2
<1>13. ASSUME TxQueue PROVE RoomKept'
  <2>1. tx'.pc = "check" /\ tx'.queued  BY <1>0, <1>13 DEF TxQueue, Tx
  <2> QED  BY <2>1 DEF RoomKept
<1>14. ASSUME WriteTail PROVE RoomKept'
  <2>1. /\ UNCHANGED <<late, raced, stopped, next_to_use, next_to_clean>> /\ tx.pc = "tail"
        /\ NextOfBatch
    BY <1>14 DEF WriteTail, races
  <2>2. (Roomy \/ stopped) /\ tx.batch # <<>>
    BY <1>0, <1>1, <2>1 DEF RoomKept, Transmitting
  <2> QED  BY <1>3, <1>4, <1>5, <2>1, <2>2
<1>15. ASSUME \/ \E p \in Packets : SendOut(p)
              \/ DeviceSends \/ LinkChanges \/ Interrupt \/ CleanStart \/ CleanPacket \/ CleanEnds
              \/ RoomToWake \/ Watchdog \/ TxTimeout \/ UNCHANGED vars
       PROVE  RoomKept'
  <2>1. /\ UNCHANGED <<late, raced, tx, kind, stopped>>
    BY <1>15 DEF SendOut, DeviceSends, LinkChanges, Interrupt, CleanStart, CleanPacket, CleanEnds,
                 RoomToWake, Watchdog, TxTimeout, vars, stack, races, history
  <2>2. UNCHANGED <<next_to_use, next_to_clean>> \/ CleanEnds
    BY <1>15 DEF SendOut, DeviceSends, LinkChanges, Interrupt, CleanStart, CleanPacket,
                 RoomToWake, Watchdog, TxTimeout, vars, ring
  <2>3. Roomy => Roomy'  BY <1>0, <2>2, RoomGrows
  <2> QED  BY <1>2, <2>1, <2>3
<1>16. ASSUME WakeQueue PROVE RoomKept'
  <2>1. /\ UNCHANGED <<raced, tx, kind, next_to_use, next_to_clean>>
        /\ stopped' = (stopped /\ down)
        /\ late' = (late \/ (stopped /\ ~down /\ DescUnused < WakeThreshold))
    BY <1>16 DEF WakeQueue, stack, ring
  <2>2. late = FALSE /\ RoomKept  BY <1>0, <1>1, <2>1
  <2>3. stopped => stopped' \/ Roomy'
    <3> SUFFICES ASSUME stopped, ~stopped' PROVE Roomy'  OBVIOUS
    <3>1. ~(DescUnused < WakeThreshold)  BY <2>1
    <3>2. DescUnused \in Int /\ Reserve \in Nat /\ WakeThreshold \in Nat /\ Reserve <= WakeThreshold
      BY <1>0, RoomType, DriverAssumption
    <3>3. Roomy  BY <3>1, <3>2 DEF Roomy
    <3> QED  BY <1>5, <2>1, <3>3
  <2>4. (Roomy => Roomy') /\ skb' = skb  BY <1>5, <2>1 DEF skb
  <2> QED  BY <2>1, <2>2, <2>3, <2>4 DEF RoomKept
<1>17. ASSUME CleanDone \/ DownStart PROVE RoomKept'
  <2>1. UNCHANGED <<late, raced, tx, kind, next_to_use, next_to_clean>> /\ (stopped => stopped')
    BY <1>17 DEF CleanDone, DownStart, stack, ring, history, races
  <2>2. RoomKept /\ (Roomy => Roomy') /\ skb' = skb  BY <1>1, <1>5, <2>1 DEF skb
  <2> QED  BY <2>1, <2>2 DEF RoomKept
<1>18. ASSUME DownFinish PROVE RoomKept'
  <2>1. UNCHANGED <<late, tx, kind, stopped>> /\ raced' = (raced \/ ~stopped \/ tx.pc # "idle")
    BY <1>18 DEF DownFinish
  <2>2. raced' = raced  BY <1>0, <2>1
  <2>3. Roomy => Roomy'  BY <1>0, <1>18, RoomGrows
  <2> QED  BY <1>2, <2>1, <2>2, <2>3
<1>19. ASSUME Up PROVE RoomKept'
  <2>1. UNCHANGED <<late, raced, tx, next_to_use, next_to_clean>> /\ down
    BY <1>19 DEF Up, ring, history, races
  <2>2. next_to_use = next_to_clean /\ tx.pc = "idle"  BY <1>1, <2>1 DEF Undisturbed
  <2>3. Roomy'  BY <1>0, <1>5, <2>1, <2>2, RoomEmptyNow DEF RoomEmpty
  <2>4. ~tx.queued  BY <1>0, <2>2 DEF Transmitting
  <2> QED  BY <2>1, <2>2, <2>3, <2>4 DEF RoomKept
<1> QED
  BY <1>6, <1>7, <1>8, <1>9, <1>10, <1>11, <1>12, <1>13, <1>14, <1>15, <1>16, <1>17, <1>18, <1>19
  DEF Next, Xmit, Clean, Reset

\* The packets that the hook has not seen yet: in the driver's case those of the
\* queue and of the batch, but for the one that is being sent.
Ahead == IF tx.pc \in {"idle", "hook"} THEN tx.batch ELSE Tail(tx.batch)
Waits(p) ==
    \/ p \in fresh
    \/ hook = "driver" /\ (HowOften(p, queue) # 0 \/ HowOften(p, Ahead) # 0)

\* Only a SYN gets a chain, once, and not before the hook.
Written(p) ==
    /\ rewritten[p] <= 1
    /\ kind[p] # "syn" => rewritten[p] = 0
    /\ Waits(p) => rewritten[p] = 0
Unwritten == \A p \in Packets : Written(p)

LEMMA AheadType ==
    ASSUME TypeOK, Transmitting, NEW p
    PROVE  /\ Ahead \in Seq(Packets) /\ queue \in Seq(Packets)
           /\ HowOften(p, queue) \in Nat /\ HowOften(p, Ahead) \in Nat
<1>1. tx.pc \notin {"idle", "hook"} => tx.batch # <<>>  BY DEF Transmitting
<1>2. Ahead \in Seq(Packets)  BY <1>1, SkbType, RingTypes DEF Ahead
<1> QED  BY <1>2, HowOftenType DEF TypeOK

LEMMA WrittenKept ==
    ASSUME NEW p, Written(p), UNCHANGED kind, rewritten'[p] = rewritten[p],
           Waits(p)' => Waits(p) \/ kind[p] # "syn"
    PROVE  Written(p)'
BY DEF Written

\* The rest of a batch waits as it did.
LEMMA RestWaits ==
    ASSUME TypeOK, Transmitting, tx.batch # <<>>, NextOfBatch, UNCHANGED <<hook, fresh>>,
           NEW p \in Packets, Waits(p)'
    PROVE  /\ p \in fresh \/ HowOften(p, queue) + HowOften(p, Tail(tx.batch)) # 0
           /\ Waits(p)
<1>1. Tail(tx.batch) \in Seq(Packets) /\ queue \in Seq(Packets)  BY SkbType DEF TypeOK
<1>2. HowOften(p, queue) \in Nat /\ HowOften(p, Tail(tx.batch)) \in Nat  BY <1>1, HowOftenType
<1>3. HowOften(p, queue') + HowOften(p, Behind') = HowOften(p, queue) + HowOften(p, Tail(tx.batch))
  BY BatchGoesOn
<1>4. Behind' = Ahead' /\ queue' \in Seq(Packets) /\ Ahead' \in Seq(Packets)
  <2>1. /\ tx' \in [pc : {"hook", "idle"}, batch : Seq(Packets), queued : {FALSE}]
        /\ queue' \in Seq(Packets)
    BY NextOfBatchIs
  <2> QED  BY <2>1 DEF Behind, Ahead
<1>5. HowOften(p, queue') \in Nat /\ HowOften(p, Ahead') \in Nat  BY <1>4, HowOftenType
<1>6. hook = "driver" /\ p \notin fresh
        => HowOften(p, queue) + HowOften(p, Tail(tx.batch)) # 0
  <2> SUFFICES ASSUME hook = "driver", p \notin fresh
               PROVE  HowOften(p, queue) + HowOften(p, Tail(tx.batch)) # 0
    OBVIOUS
  <2>1. HowOften(p, queue') # 0 \/ HowOften(p, Ahead') # 0  BY DEF Waits
  <2>2. HowOften(p, queue') + HowOften(p, Ahead') # 0  BY <1>5, <2>1
  <2> QED  BY <1>3, <1>4, <2>2
<1>7. p \in fresh \/ hook = "driver"  BY DEF Waits
<1>8. ASSUME hook = "driver", HowOften(p, Tail(tx.batch)) # 0 PROVE HowOften(p, Ahead) # 0
  <2>1. CASE tx.pc \notin {"idle", "hook"}  BY <1>8, <2>1 DEF Ahead
  <2>2. CASE tx.pc \in {"idle", "hook"}
    <3>1. HowOften(p, tx.batch)
          = HowOften(p, Tail(tx.batch)) + (IF Head(tx.batch) = p THEN 1 ELSE 0)
      BY RingTypes, HowOftenHead
    <3>2. HowOften(p, tx.batch) # 0
      <4>1. CASE Head(tx.batch) = p  BY <1>2, <3>1, <4>1
      <4>2. CASE Head(tx.batch) # p  BY <1>2, <1>8, <3>1, <4>2
      <4> QED  BY <4>1, <4>2
    <3> QED  BY <2>2, <3>2 DEF Ahead
  <2> QED  BY <2>1, <2>2
<1>9. Waits(p)
  <2>1. CASE p \in fresh  BY <2>1 DEF Waits
  <2>2. CASE hook = "driver" /\ p \notin fresh
    <3>1. CASE HowOften(p, queue) # 0  BY <2>2, <3>1 DEF Waits
    <3>2. CASE HowOften(p, Tail(tx.batch)) # 0
      <4>1. HowOften(p, Ahead) # 0  BY <1>8, <2>2, <3>2
      <4> QED  BY <2>2, <4>1 DEF Waits
    <3>3. HowOften(p, queue) + HowOften(p, Tail(tx.batch)) # 0  BY <1>6, <2>2
    <3> QED  BY <1>2, <3>1, <3>2, <3>3
  <2> QED  BY <1>7, <2>1, <2>2
<1> QED  BY <1>6, <1>7, <1>9

LEMMA RacedStays == ASSUME TypeOK, [Next]_vars, raced PROVE raced'
BY DEF Next, Xmit, Clean, Reset, SendOut, TakeBatch, XmitHook, MaybeStop, StopQueue, Recheck, Map,
       MapFails, TxQueue, WriteTail, DeviceSends, LinkChanges, Interrupt, CleanStart, CleanPacket,
       CleanEnds, RoomToWake, WakeQueue, CleanDone, Watchdog, TxTimeout, DownStart, DownFinish, Up,
       vars, driver, races, history

LEMMA UnwrittenStep ==
    ASSUME DriverInv, Intact, late \/ raced \/ RoomKept, late \/ raced \/ Unwritten, [Next]_vars
    PROVE  late' \/ raced' \/ Unwritten'
<1> SUFFICES ASSUME ~late', ~raced', NEW p \in Packets PROVE Written(p)'
  BY DEF Unwritten
<1>0. /\ TypeOK /\ TypeOK' /\ Transmitting /\ Transmitting' /\ tx \in Tx
      /\ late \in BOOLEAN /\ raced \in BOOLEAN
  <2>1. TypeOK /\ Ring /\ Transmitting  BY DEF DriverInv
  <2>2. TypeOK'  BY <2>1, TypeStep
  <2>3. Transmitting'  BY TransmittingStep
  <2>4. tx \in Tx /\ late \in BOOLEAN /\ raced \in BOOLEAN  BY <2>1 DEF TypeOK
  <2> QED  BY <2>1, <2>2, <2>3, <2>4
<1>1. ~raced /\ ~late
  <2>1. late => late'
    BY <1>0 DEF Next, Xmit, Clean, Reset, SendOut, TakeBatch, XmitHook, MaybeStop, StopQueue,
                Recheck, Map, MapFails, TxQueue, WriteTail, DeviceSends, LinkChanges, Interrupt,
                CleanStart, CleanPacket, CleanEnds, RoomToWake, WakeQueue, CleanDone, Watchdog,
                TxTimeout, DownStart, DownFinish, Up, vars, driver, races, history
  <2>2. raced => raced'  BY <1>0, RacedStays
  <2> QED  BY <2>1, <2>2
<1>2. RoomKept /\ Written(p) /\ Balance
  <2>1. Balance  BY <1>1 DEF Intact
  <2>2. RoomKept /\ Unwritten  BY <1>1
  <2> QED  BY <2>1, <2>2 DEF Unwritten
<1>3. ASSUME UNCHANGED <<hook, kind, fresh, queue, rewritten>>, Ahead' = Ahead PROVE Written(p)'
  BY <1>2, <1>3, WrittenKept DEF Waits
<1>4. ASSUME tx.pc \notin {"idle", "hook"}, tx'.pc \notin {"idle", "hook"}, tx'.batch = tx.batch
      PROVE  Ahead' = Ahead
  BY <1>4 DEF Ahead
<1>5. PICK q \in Nat, a \in Nat : q = HowOften(p, queue) /\ a = HowOften(p, Ahead)
  BY <1>0, AheadType
<1>6. ASSUME NEW x \in Packets, SendOut(x) PROVE Written(p)'
  <2>1. /\ UNCHANGED <<hook, kind, tx>> /\ x \in fresh /\ fresh' = fresh \ {x}
    BY <1>6 DEF SendOut
  <2>2. Ahead' = Ahead  BY <2>1 DEF Ahead
  <2>3. CASE hook = "driver" /\ queue' = Append(queue, x) /\ rewritten' = rewritten
    <3>1. HowOften(p, queue') = q + (IF x = p THEN 1 ELSE 0)
      BY <1>0, <1>5, <2>3, HowOftenAppend DEF TypeOK
    <3>2. Waits(p)' => Waits(p)
      <4>1. CASE x = p  BY <2>1, <4>1 DEF Waits
      <4>2. CASE x # p
        <5>1. HowOften(p, queue') = HowOften(p, queue)  BY <1>5, <3>1, <4>2
        <5> QED  BY <2>1, <2>2, <5>1 DEF Waits
      <4> QED  BY <4>1, <4>2
    <3> QED  BY <1>2, <2>1, <2>3, <3>2, WrittenKept
  <2>4. CASE hook = "nf" /\ Passes(x)
    <3>1. Waits(p)' => p \in fresh /\ p # x  BY <2>1, <2>4 DEF Waits
    <3>2. CASE p = x /\ kind[x] = "syn"
      <4>1. rewritten[p] = 0  BY <1>2, <2>1, <3>2 DEF Written, Waits
      <4>2. rewritten' = [rewritten EXCEPT ![p] = @ + 1] /\ rewritten \in [Packets -> Nat]
        BY <1>0, <2>4, <3>2 DEF Passes, TypeOK
      <4>3. rewritten'[p] = 1  BY <4>1, <4>2
      <4> QED  BY <2>1, <3>1, <3>2, <4>3 DEF Written
    <3>3. CASE p # x \/ kind[x] # "syn"
      <4>1. rewritten'[p] = rewritten[p]  BY <1>0, <2>4, <3>3 DEF Passes, TypeOK
      <4> QED  BY <1>2, <2>1, <3>1, <4>1, WrittenKept DEF Waits
    <3> QED  BY <3>2, <3>3
  <2>5. CASE hook = "nf" /\ Refused(x)
    <3>1. Waits(p)' => Waits(p)  BY <2>1, <2>5 DEF Waits
    <3> QED  BY <1>2, <2>1, <2>5, <3>1, WrittenKept DEF Refused
  <2> QED  BY <1>6, <2>3, <2>4, <2>5 DEF SendOut
<1>7. ASSUME TakeBatch PROVE Written(p)'
  <2>1. UNCHANGED <<hook, kind, fresh, rewritten>>  BY <1>7 DEF TakeBatch
  <2>2. PICK n \in 1 .. Len(queue) :
           /\ tx' = [pc |-> "hook", batch |-> SubSeq(queue, 1, n), queued |-> FALSE]
           /\ queue' = SubSeq(queue, n + 1, Len(queue))
    BY <1>7 DEF TakeBatch
  <2>3. Ahead' = SubSeq(queue, 1, n)  BY <2>2 DEF Ahead
  <2>4. HowOften(p, queue) = HowOften(p, Ahead') + HowOften(p, queue')
    BY <1>0, <2>2, <2>3, HowOftenSplit DEF TypeOK
  <2>5. HowOften(p, Ahead') \in Nat /\ HowOften(p, queue') \in Nat
    <3>1. Ahead' \in Seq(Packets) /\ queue' \in Seq(Packets)
      BY <1>0, <2>2, <2>3, HowOftenSplit DEF TypeOK
    <3> QED  BY <3>1, HowOftenType
  <2>6. HowOften(p, queue) = 0 => HowOften(p, Ahead') = 0 /\ HowOften(p, queue') = 0
    BY <2>4, <2>5
  <2>7. Waits(p)' => Waits(p)  BY <2>1, <2>6 DEF Waits
  <2> QED  BY <1>2, <2>1, <2>7, WrittenKept
\* The first packet of a batch, and the others.
<1>8. ASSUME tx.batch # <<>>
      PROVE  /\ skb \in Packets /\ Tail(tx.batch) \in Seq(Packets)
             /\ HowOften(p, Tail(tx.batch)) \in Nat
             /\ HowOften(p, tx.batch) = HowOften(p, Tail(tx.batch)) + (IF skb = p THEN 1 ELSE 0)
  <2>1. skb \in Packets /\ Tail(tx.batch) \in Seq(Packets)  BY <1>0, <1>8, SkbType
  <2>2. HowOften(p, Tail(tx.batch)) \in Nat  BY <2>1, HowOftenType
  <2> QED  BY <1>0, <1>8, <2>1, <2>2, RingTypes, HowOftenHead DEF skb
<1>9. ASSUME XmitHook PROVE Written(p)'
  <2>1. UNCHANGED <<hook, kind, fresh>> /\ tx.pc = "hook"  BY <1>9 DEF XmitHook
  <2>2. tx.batch # <<>> /\ ~tx.queued /\ Ahead = tx.batch /\ Behind = tx.batch
    BY <1>0, <2>1 DEF Transmitting, Ahead, Behind
  <2>3. PICK t \in Nat : t = HowOften(p, Tail(tx.batch))  BY <1>8, <2>2
  <2>4. a = t + (IF skb = p THEN 1 ELSE 0)  BY <1>5, <1>8, <2>2, <2>3
  <2>5. CASE tx' = [tx EXCEPT !.pc = "check"] /\ UNCHANGED queue
    <3>1. tx'.pc = "check" /\ tx'.batch = tx.batch  BY <1>0, <2>5 DEF Tx
    <3>2. Ahead' = Tail(tx.batch)  BY <3>1 DEF Ahead
    <3>3. Waits(p)' => Waits(p)
      <4>1. t # 0 => a # 0
        <5>1. CASE skb = p  BY <2>3, <2>4, <5>1
        <5>2. CASE skb # p  BY <2>3, <2>4, <5>2
        <5> QED  BY <5>1, <5>2
      <4> QED  BY <1>5, <2>1, <2>3, <2>5, <3>2, <4>1 DEF Waits
    <3>4. CASE hook = "driver" /\ Passes(skb) /\ p = skb /\ kind[p] = "syn"
      <4>1. a = t + 1  BY <2>4, <3>4
      <4>2. Waits(p)  BY <1>5, <2>3, <3>4, <4>1 DEF Waits
      <4>3. rewritten[p] = 0  BY <1>2, <4>2 DEF Written
      <4>4. rewritten' = [rewritten EXCEPT ![p] = @ + 1] /\ rewritten \in [Packets -> Nat]
        BY <1>0, <3>4 DEF Passes, TypeOK
      <4>5. rewritten'[p] = 1  BY <4>3, <4>4
      <4>6. PICK f \in Nat, r \in Nat, o \in Nat :
               /\ f = (IF p \in fresh THEN 1 ELSE 0) /\ r = Cardinality(InRing(p))
               /\ o = Owners(p) /\ o = f + q + (t + 1) + r
        <5>1. /\ Owners(p) = (IF p \in fresh THEN 1 ELSE 0) + HowOften(p, queue)
                          + HowOften(p, Behind) + Cardinality(InRing(p))
              /\ Cardinality(InRing(p)) \in Nat /\ Owners(p) \in Nat
          BY <1>0, OwnersIs
        <5>2. HowOften(p, Behind) = t + 1  BY <1>5, <2>2, <4>1
        <5>3. (IF p \in fresh THEN 1 ELSE 0) \in Nat  OBVIOUS
        <5> QED  BY <1>5, <5>1, <5>2, <5>3
      <4>7. o = 1
        <5>1. Good(p)  BY <1>2 DEF Balance
        <5>2. freed[p] \in Nat  BY <1>0 DEF TypeOK
        <5>3. Owners(p) \in Nat /\ Owners(p) >= 1
          <6>1. q \in Nat /\ t \in Nat  BY <1>5, <2>3
          <6> QED  BY <4>6, <6>1
        <5> QED  BY <4>6, <5>1, <5>2, <5>3, GoodOwned
      <4>8. f = 0 /\ q = 0 /\ t = 0  BY <1>5, <2>3, <4>6, <4>7
      <4>9. p \notin fresh  BY <4>6, <4>8
      <4>10. ~Waits(p)'  BY <1>5, <2>1, <2>3, <2>5, <3>2, <4>8, <4>9 DEF Waits
      <4> QED  BY <2>1, <3>4, <4>5, <4>10 DEF Written
    <3>5. CASE rewritten'[p] = rewritten[p]  BY <1>2, <2>1, <3>3, <3>5, WrittenKept
    <3>6. /\ hook = "driver" => Passes(skb)
          /\ hook = "nf" => UNCHANGED rewritten
          /\ hook \in {"driver", "nf"}
      <4>1. hook \in {"driver", "nf"}  BY <1>0 DEF TypeOK
      <4>2. tx'.pc = "check"  BY <3>1
      <4>3. ~NextOfBatch  BY <1>0, <2>2, <4>2, NextOfBatchIs
      <4> QED  BY <1>9, <4>1, <4>3 DEF XmitHook
    <3>7. ASSUME Passes(skb), ~(p = skb /\ kind[p] = "syn") PROVE rewritten'[p] = rewritten[p]
      BY <1>0, <3>7 DEF Passes, TypeOK
    <3> QED  BY <3>4, <3>5, <3>6, <3>7
  <2>6. CASE Refused(skb) /\ NextOfBatch
    <3>1. Waits(p)' => Waits(p)  BY <1>0, <2>1, <2>2, <2>6, RestWaits
    <3> QED  BY <1>2, <2>1, <2>6, <3>1, WrittenKept DEF Refused
  <2> QED  BY <1>9, <2>5, <2>6 DEF XmitHook
<1>10. ASSUME MapFails \/ WriteTail PROVE Written(p)'
  <2>1. /\ UNCHANGED <<hook, kind, fresh, rewritten>> /\ tx.pc \in {"map", "tail"} /\ NextOfBatch
    BY <1>10 DEF MapFails, WriteTail
  <2>2. tx.batch # <<>>  BY <1>0, <2>1 DEF Transmitting
  <2>3. Waits(p)' => Waits(p)  BY <1>0, <2>1, <2>2, RestWaits
  <2> QED  BY <1>2, <2>1, <2>3, WrittenKept
<1>11. ASSUME MaybeStop \/ StopQueue \/ Map \/ TxQueue PROVE Written(p)'
  <2>1. UNCHANGED <<hook, kind, fresh, queue, rewritten>>
    BY <1>11 DEF MaybeStop, StopQueue, Map, TxQueue, stack
  <2>2. tx.pc \notin {"idle", "hook"} /\ tx'.pc \notin {"idle", "hook"} /\ tx'.batch = tx.batch
    BY <1>0, <1>11 DEF MaybeStop, StopQueue, Map, TxQueue, Tx, Fits
  <2> QED  BY <1>3, <1>4, <2>1, <2>2
<1>12. ASSUME Recheck PROVE Written(p)'
  <2>1. UNCHANGED <<hook, kind, fresh, rewritten>> /\ tx.pc = "recheck" /\ tx.batch # <<>>
    BY <1>0, <1>12 DEF Recheck, Transmitting
  <2>2. CASE tx' = [tx EXCEPT !.pc = Fits] /\ UNCHANGED queue
    <3>1. tx'.pc \notin {"idle", "hook"} /\ tx'.batch = tx.batch
      BY <1>0, <2>2 DEF Tx, Fits
    <3> QED  BY <1>3, <1>4, <2>1, <2>2, <3>1
  <2>3. CASE ~tx.queued /\ tx' = NoTx /\ queue' = tx.batch \o queue
    <3>1. Ahead' = <<>> /\ Ahead = Tail(tx.batch)  BY <2>1, <2>3 DEF Ahead, NoTx
    <3>2. HowOften(p, Ahead') = 0  BY <3>1, HowOftenEmpty
    <3>3. HowOften(p, queue') = HowOften(p, tx.batch) + q
      <4>1. tx.batch \in Seq(Packets) /\ queue \in Seq(Packets)  BY <1>0, RingTypes DEF TypeOK
      <4> QED  BY <1>5, <2>3, <4>1, HowOftenConcat
    <3>4. HowOften(p, tx.batch) = a + (IF skb = p THEN 1 ELSE 0)  BY <1>5, <1>8, <2>1, <3>1
    <3>5. CASE skb = p
      <4>1. kind[p] = "data"  BY <1>2, <2>1, <2>3, <3>5 DEF RoomKept
      <4> QED  BY <1>2, <2>1, <4>1, WrittenKept
    <3>6. CASE skb # p
      <4>1. HowOften(p, queue') = a + q  BY <1>5, <3>3, <3>4, <3>6
      <4>2. HowOften(p, queue') # 0 => a # 0 \/ q # 0  BY <1>5, <4>1
      <4>3. Waits(p)' => Waits(p)  BY <1>5, <2>1, <3>2, <4>2 DEF Waits
      <4> QED  BY <1>2, <2>1, <4>3, WrittenKept
    <3> QED  BY <3>5, <3>6
  <2> QED  BY <1>12, <2>2, <2>3 DEF Recheck
<1>13. ASSUME DeviceSends \/ LinkChanges \/ Interrupt \/ CleanStart \/ CleanPacket \/ CleanEnds
              \/ RoomToWake \/ WakeQueue \/ CleanDone \/ Watchdog \/ TxTimeout \/ DownStart
              \/ DownFinish \/ Up \/ UNCHANGED vars
       PROVE  Written(p)'
  <2>1. UNCHANGED <<hook, kind, fresh, queue, rewritten, tx>>
    BY <1>13 DEF DeviceSends, LinkChanges, Interrupt, CleanStart, CleanPacket, CleanEnds,
                 RoomToWake, WakeQueue, CleanDone, Watchdog, TxTimeout, DownStart, DownFinish, Up,
                 vars, stack
  <2>2. Ahead' = Ahead  BY <2>1 DEF Ahead
  <2> QED  BY <1>3, <2>1, <2>2
<1> QED
  BY <1>6, <1>7, <1>9, <1>10, <1>11, <1>12, <1>13 DEF Next, Xmit, Clean, Reset

LEMMA WrittenStarts == ASSUME Init PROVE RoomKept /\ Unwritten
<1>1. TypeOK  BY Starts
<1>2. Roomy
  <2>1. next_to_use = next_to_clean  BY DEF Init
  <2> QED  BY <1>1, <2>1, RoomEmptyNow DEF RoomEmpty
<1>3. RoomKept  BY <1>2 DEF Init, RoomKept, NoTx
<1>4. Unwritten  BY DEF Init, Unwritten, Written
<1> QED  BY <1>3, <1>4

\* RewrittenOnce: dysco_output puts the chain into a SYN once, although
\* e1000_xmit_frame returns NETDEV_TX_BUSY after it has called the hook and is then
\* called again for the same packet.  e1000_maybe_stop_tx keeps a reserve, or stops the
\* queue, and only a packet of data is larger than the reserve.
THEOREM ChainsOnce == Spec => []RewrittenOnce
<1> DEFINE Once == (late \/ raced \/ RoomKept) /\ (late \/ raced \/ Unwritten)
<1>1. Init => Once  BY WrittenStarts
<1>2. DriverInv /\ Intact /\ Once /\ [Next]_vars => Once'
  <2> SUFFICES ASSUME DriverInv, Intact, Once, [Next]_vars PROVE Once'  OBVIOUS
  <2>1. late' \/ raced' \/ RoomKept'  BY RoomKeptStep
  <2>2. late' \/ raced' \/ Unwritten'  BY UnwrittenStep
  <2> QED  BY <2>1, <2>2
<1>3. Once => RewrittenOnce  BY DEF RewrittenOnce, Unwritten, Written
<1> QED  BY <1>1, <1>2, <1>3, StaysIntact, PTL DEF Spec

-----------------------------------------------------------------------------
(* The driver goes on.                                                     *)

\* A poll that is still to see more than it has cleaned, or an interrupt that is
\* due, knows where the next packet ends.
Watching ==
    cleaner.pc = "clean" /\ cleaner.i # tdh =>
        "done" \in irq \/ cleaner.eop = buffer_info[cleaner.i].next_to_watch

\* After it, all that was sent is clean, or an interrupt is due.
CaughtUp ==
    ~napi \/ cleaner.pc \in {"room", "wake", "hang"} => next_to_clean = tdh \/ "done" \in irq

\* Where a transmission leaves a stopped queue as it is.
Holds == tx.pc \in {"idle", "hook", "check", "map"} /\ ~tx.queued

\* Nobody but the poll wakes a queue with an empty ring.
WakesUp ==
    stopped /\ Holds /\ ~resetting /\ next_to_clean = next_to_use =>
        dark \/ stale \/ (cleaner.pc = "room" /\ cleaner.count > 0) \/ cleaner.pc = "wake"

\* What is clean is not sent, unless all is.
LEMMA CleanedIs ==
    ASSUME TypeOK, Ring
    PROVE  /\ Cleaned \in Slots /\ At(Cleaned) = 0
           /\ Cleaned # tdh => Used(Cleaned) /\ Sent(Cleaned)
           /\ next_to_clean = next_to_use => Cleaned = next_to_clean /\ tdh = next_to_clean
           /\ \A i \in Slots : Used(i) => next_to_clean # next_to_use
           /\ tdt # next_to_use => next_to_clean # next_to_use
<1>1. /\ Cleaned \in Slots /\ tdh \in Slots /\ tdt \in Slots
      /\ next_to_use \in Slots /\ next_to_clean \in Slots
  BY RingTypes, CleanedType
<1>2. At(Cleaned) = 0  BY <1>1, DistSame DEF At
<1>3. PICK h \in Nat, t \in Nat, u \in Nat, c \in Nat, d \in Nat :
         /\ h = At(tdh) /\ t = At(tdt) /\ u = At(next_to_use)
         /\ c = Dist(next_to_clean, Cleaned) /\ d = Dist(next_to_clean, next_to_use)
  BY <1>1, AtTypes, DistType
<1>4. h <= t /\ t <= u /\ d = c + u  BY <1>3 DEF Ring, Order
<1>5. Cleaned # tdh => h # 0  BY <1>1, <1>3, DistSame DEF At
<1>6. Cleaned # tdh => Used(Cleaned) /\ Sent(Cleaned)
  BY <1>2, <1>3, <1>4, <1>5 DEF Used, Sent
<1>7. next_to_clean = next_to_use => c = 0 /\ u = 0 /\ h = 0 /\ t = 0
  <2> SUFFICES ASSUME next_to_clean = next_to_use PROVE c = 0 /\ u = 0 /\ h = 0 /\ t = 0
    OBVIOUS
  <2>1. d = 0  BY <1>1, <1>3, DistSame
  <2>2. h <= t /\ t <= u /\ c + u = 0  BY <1>4, <2>1
  <2> QED  BY <2>2
<1>8. /\ c = 0 => Cleaned = next_to_clean
      /\ h = 0 => tdh = Cleaned
      /\ t = 0 => tdt = Cleaned
      /\ u = 0 => next_to_use = Cleaned
  BY <1>1, <1>3, DistSame DEF At
<1>9. ASSUME NEW i \in Slots, Used(i) PROVE next_to_clean # next_to_use
  <2>1. At(i) \in Nat  BY AtTypes
  <2>2. u # 0  BY <1>3, <1>9, <2>1 DEF Used
  <2> QED  BY <1>7, <2>2
<1> QED  BY <1>1, <1>2, <1>6, <1>7, <1>8, <1>9

LEMMA WatchingStep == ASSUME DriverInv, Watching, [Next]_vars PROVE Watching'
<1>0. /\ TypeOK /\ Ring /\ Cleaning /\ cleaner \in Cleaner
  BY DEF DriverInv, TypeOK
<1>1. ASSUME UNCHANGED <<cleaner, tdh>>, irq \subseteq irq',
             \A i \in Slots : Used(i) =>
                 buffer_info'[i].next_to_watch = buffer_info[i].next_to_watch
      PROVE  Watching'
  <2> SUFFICES ASSUME cleaner.pc = "clean", cleaner.i # tdh, "done" \notin irq
               PROVE  cleaner.eop = buffer_info'[cleaner.i].next_to_watch
    BY <1>1 DEF Watching
  <2>1. Cleaned = cleaner.i  BY DEF Cleaned
  <2>2. Used(cleaner.i) /\ cleaner.i \in Slots  BY <1>0, <2>1, CleanedIs
  <2> QED  BY <1>1, <2>2 DEF Watching
<1>2. ASSUME \/ \E p \in Packets : SendOut(p)
             \/ TakeBatch \/ XmitHook \/ MaybeStop \/ StopQueue \/ Recheck \/ WriteTail
             \/ LinkChanges \/ Watchdog \/ TxTimeout \/ DownStart \/ UNCHANGED vars
      PROVE  Watching'
  <2>1. UNCHANGED <<cleaner, tdh, buffer_info>> /\ irq \subseteq irq'
    BY <1>2 DEF SendOut, TakeBatch, XmitHook, MaybeStop, StopQueue, Recheck, WriteTail,
                LinkChanges, Watchdog, TxTimeout, DownStart, vars, ring, driver
  <2> QED  BY <1>1, <2>1
<1>3. ASSUME Map \/ MapFails PROVE Watching'
  <2>1. UNCHANGED <<cleaner, tdh, irq>>  BY <1>3 DEF Map, MapFails
  <2> QED  BY <1>1, <1>3, <2>1, MapKeepsUsed
<1>4. ASSUME TxQueue PROVE Watching'
  <2>1. UNCHANGED <<cleaner, tdh, irq>>  BY <1>4 DEF TxQueue
  <2>2. PICK e : buffer_info' = [buffer_info EXCEPT ![next_to_use].next_to_watch = e]
    BY <1>4 DEF TxQueue
  <2>3. ASSUME NEW i \in Slots, Used(i) PROVE buffer_info'[i] = buffer_info[i]
    <3>1. At(i) \in Nat /\ At(next_to_use) \in Nat  BY <1>0, AtTypes, RingTypes
    <3>2. i # next_to_use  BY <2>3, <3>1 DEF Used
    <3> QED  BY <1>0, <2>2, <3>2 DEF TypeOK
  <2> QED  BY <1>1, <2>1, <2>3
<1>5. ASSUME DeviceSends PROVE Watching'
  BY <1>5 DEF DeviceSends, Watching
<1>6. ASSUME Interrupt \/ Up \/ DownFinish PROVE Watching'
  <2>1. cleaner' = cleaner /\ ~napi
    BY <1>0, <1>6 DEF Interrupt, Up, DownFinish, Cleaning
  <2> QED  BY <1>0, <2>1 DEF Cleaning, Watching
<1>7. ASSUME CleanStart PROVE Watching'
  <2>1. /\ UNCHANGED buffer_info
        /\ cleaner'.i = next_to_clean
        /\ cleaner'.eop = buffer_info[next_to_clean].next_to_watch
    BY <1>7 DEF CleanStart, ring
  <2> QED  BY <2>1 DEF Watching
<1>8. ASSUME CleanPacket PROVE Watching'
  <2>1. PICK b : b = Succ(cleaner.eop)  OBVIOUS
  <2>2. /\ b \in Slots
        /\ cleaner' = [cleaner EXCEPT !.i = b, !.eop = buffer_info[b].next_to_watch,
                                      !.count = @ + At(b)]
        /\ buffer_info' = [s \in Slots |->
                 IF At(s) < At(b)
                 THEN [buffer_info[s] EXCEPT !.skb = None, !.time_stamp = FALSE]
                 ELSE buffer_info[s]]
    BY <1>0, <1>8, <2>1, CleanMoves
  <2>3. cleaner'.i = b /\ cleaner'.eop = buffer_info[b].next_to_watch
    BY <1>0, <2>2 DEF Cleaner
  <2>4. At(b) \in Nat  BY <1>0, <2>2, AtTypes
  <2>5. ~(At(b) < At(b))  BY <2>4
  <2>6. buffer_info'[b] = buffer_info[b]  BY <2>2, <2>5
  <2> QED  BY <2>3, <2>6 DEF Watching
<1>9. ASSUME CleanEnds \/ RoomToWake \/ WakeQueue \/ CleanDone PROVE Watching'
  <2>1. cleaner'.pc # "clean"
    BY <1>0, <1>9 DEF CleanEnds, RoomToWake, WakeQueue, CleanDone, NoCleaner, Cleaner
  <2> QED  BY <2>1 DEF Watching
<1> QED
  BY <1>2, <1>3, <1>4, <1>5, <1>6, <1>7, <1>8, <1>9 DEF Next, Xmit, Clean, Reset

\* A poll ends where the device is, unless that has gone on.
LEMMA PollsAll ==
    ASSUME DriverInv, Watching, CleanEnds
    PROVE  cleaner.i = tdh \/ "done" \in irq
<1> SUFFICES ASSUME cleaner.i # tdh, "done" \notin irq PROVE FALSE  OBVIOUS
<1>1. /\ TypeOK /\ Ring /\ cleaner.pc = "clean" /\ Cleaned = cleaner.i
      /\ cleaner.count = Dist(next_to_clean, cleaner.i)
  BY DEF DriverInv, CleanEnds, Cleaned, Cleaning
<1>2. PICK e \in Slots : e = cleaner.eop /\ e = buffer_info[cleaner.i].next_to_watch
  BY <1>1, RingTypes DEF Watching
<1>3. /\ Used(cleaner.i) /\ cleaner.i \in Slots /\ At(cleaner.i) = 0 /\ Begins(cleaner.i)
  BY <1>1, CleanedIs DEF Begins
<1>4. Ends(cleaner.i, e)  BY <1>1, <1>2, <1>3 DEF Ring, Watched
<1>5. PICK h \in Nat, w \in Nat : h = At(tdh) /\ w = At(e)  BY <1>1, AtTypes, RingTypes
<1>6. At(e) < At(tdh)
  <2> SUFFICES ASSUME h <= w PROVE FALSE  BY <1>5
  <2>1. desc[Pred(tdh)].last  BY <1>1 DEF Ring, Whole, Begins
  <2>2. tdh \in Slots /\ Cleaned \in Slots /\ Pred(tdh) \in Slots
    BY <1>1, RingTypes, CleanedType, DistType
  <2>3. At(Pred(tdh)) = h - 1  BY <1>1, <1>5, <2>2, DistPred DEF At
  <2>4. At(Pred(tdh)) \in Nat  BY <1>1, <2>2, AtTypes
  <2>5. At(cleaner.i) <= At(Pred(tdh)) /\ At(Pred(tdh)) < At(e)
    BY <1>3, <1>5, <2>3, <2>4
  <2> QED  BY <1>4, <2>1, <2>2, <2>5 DEF Ends
<1>7. desc[e].dd  BY <1>1, <1>4, <1>6 DEF Ring, DoneIsSent, Sent, Ends
<1>8. cleaner.count < Count
  <2>1. next_to_clean \in Slots  BY <1>1, RingTypes
  <2>2. Dist(next_to_clean, cleaner.i) \in 0 .. Count - 1
    BY <1>3, <2>1, DistType, SlotTypes
  <2> QED  BY <1>1, <2>2, SlotTypes
<1> QED  BY <1>2, <1>7, <1>8 DEF CleanEnds

LEMMA CaughtUpStep ==
    ASSUME DriverInv, Watching, Undisturbed, CaughtUp, [Next]_vars
    PROVE  CaughtUp'
<1>0. /\ TypeOK /\ Ring /\ Cleaning /\ cleaner \in Cleaner
  BY DEF DriverInv, TypeOK
<1>1. ASSUME UNCHANGED <<next_to_clean, tdh>>, irq \subseteq irq',
             ~napi' => ~napi \/ cleaner.pc = "hang",
             cleaner'.pc \in {"room", "wake", "hang"} =>
                 cleaner.pc \in {"room", "wake", "hang"}
      PROVE  CaughtUp'
  BY <1>1 DEF CaughtUp
<1>2. ASSUME \/ \E p \in Packets : SendOut(p)
             \/ TakeBatch \/ XmitHook \/ MaybeStop \/ StopQueue \/ Recheck \/ WriteTail
             \/ Map \/ MapFails \/ TxQueue
             \/ LinkChanges \/ Watchdog \/ TxTimeout \/ DownStart \/ UNCHANGED vars
      PROVE  CaughtUp'
  <2>1. UNCHANGED <<next_to_clean, tdh, cleaner, napi>> /\ irq \subseteq irq'
    BY <1>2 DEF SendOut, TakeBatch, XmitHook, MaybeStop, StopQueue, Recheck, WriteTail,
                Map, MapFails, TxQueue, LinkChanges, Watchdog, TxTimeout, DownStart, vars, ring,
                driver
  <2> QED  BY <1>1, <2>1
<1>3. ASSUME CleanStart \/ CleanPacket \/ RoomToWake \/ WakeQueue \/ CleanDone PROVE CaughtUp'
  <2>1. UNCHANGED <<next_to_clean, tdh, irq>> /\ (napi' = napi \/ cleaner.pc = "hang")
    BY <1>3 DEF CleanStart, CleanPacket, RoomToWake, WakeQueue, CleanDone, ring
  <2>2. cleaner'.pc \in {"room", "wake", "hang"} => cleaner.pc \in {"room", "wake", "hang"}
    <3>1. CASE CleanPacket
      <4>1. PICK b : b = Succ(cleaner.eop)  OBVIOUS
      <4>2. PICK w, c : w = buffer_info[b].next_to_watch /\ c = cleaner.count + At(b)  OBVIOUS
      <4>3. cleaner' = [cleaner EXCEPT !.i = b, !.eop = w, !.count = c]
        BY <1>0, <3>1, <4>1, <4>2, CleanMoves
      <4> QED  BY <1>0, <3>1, <4>3 DEF CleanPacket, Cleaner
    <3>2. CASE CleanStart \/ RoomToWake \/ WakeQueue \/ CleanDone
      BY <1>0, <3>2 DEF CleanStart, RoomToWake, WakeQueue, CleanDone, NoCleaner, Cleaner
    <3> QED  BY <1>3, <3>1, <3>2
  <2> QED  BY <1>1, <2>1, <2>2
<1>4. ASSUME CleanEnds PROVE CaughtUp'
  <2>1. next_to_clean' = cleaner.i /\ UNCHANGED <<tdh, irq>>  BY <1>4 DEF CleanEnds
  <2>2. cleaner.i = tdh \/ "done" \in irq  BY <1>4, PollsAll
  <2> QED  BY <2>1, <2>2 DEF CaughtUp
<1>5. ASSUME DeviceSends PROVE CaughtUp'  BY <1>5 DEF DeviceSends, CaughtUp
<1>6. ASSUME Interrupt PROVE CaughtUp'
  <2>1. napi' /\ cleaner' = cleaner /\ ~napi  BY <1>6 DEF Interrupt
  <2> QED  BY <1>0, <2>1 DEF Cleaning, CaughtUp
<1>7. ASSUME DownFinish PROVE CaughtUp'  BY <1>7 DEF DownFinish, CaughtUp
<1>8. ASSUME Up PROVE CaughtUp'
  <2>1. next_to_use = next_to_clean /\ UNCHANGED <<next_to_clean, tdh>>
    BY <1>8 DEF Up, ring, Undisturbed
  <2>2. tdh = next_to_clean  BY <1>0, <2>1, CleanedIs
  <2> QED  BY <2>1, <2>2 DEF CaughtUp
<1> QED
  BY <1>2, <1>3, <1>4, <1>5, <1>6, <1>7, <1>8 DEF Next, Xmit, Clean, Reset

LEMMA WakesUpStep ==
    ASSUME DriverInv, Undisturbed, WakesUp, [Next]_vars
    PROVE  WakesUp'
<1>0. /\ TypeOK /\ Ring /\ Transmitting /\ Cleaning /\ cleaner \in Cleaner /\ tx \in Tx
      /\ stopped \in BOOLEAN /\ dark \in BOOLEAN /\ stale \in BOOLEAN
  BY DEF DriverInv, TypeOK
<1>1. ASSUME UNCHANGED <<tx, resetting, next_to_clean, next_to_use, dark, stale>>,
             stopped' => stopped,
             cleaner.pc \in {"room", "wake"} => UNCHANGED cleaner
      PROVE  WakesUp'
  BY <1>1 DEF WakesUp, Holds
\* A transmission leaves a stopped queue as it was, or something in the ring.
<1>2. ASSUME UNCHANGED <<stopped, resetting, next_to_clean, next_to_use, dark, stale, cleaner>>,
             Holds' => Holds \/ next_to_clean # next_to_use
      PROVE  WakesUp'
  BY <1>2 DEF WakesUp
<1>3. ASSUME \/ \E p \in Packets : SendOut(p)
             \/ DeviceSends \/ LinkChanges \/ Interrupt \/ CleanStart \/ Watchdog \/ TxTimeout
             \/ UNCHANGED vars
      PROVE  WakesUp'
  <2>1. /\ UNCHANGED <<tx, next_to_clean, next_to_use, dark, stale, stopped, resetting>>
        /\ cleaner' = cleaner \/ cleaner.pc = "idle"
    BY <1>3 DEF SendOut, DeviceSends, LinkChanges, Interrupt, CleanStart, Watchdog, TxTimeout,
                vars, ring, work, races, history
  <2> QED  BY <1>1, <2>1
<1>4. ASSUME TakeBatch \/ StopQueue \/ Map \/ TxQueue PROVE WakesUp'
  <2>1. CASE TakeBatch
    <3>1. ~stopped'  BY <2>1 DEF TakeBatch
    <3> QED  BY <3>1 DEF WakesUp
  <2>2. CASE StopQueue \/ Map \/ TxQueue
    <3>1. tx'.pc \in {"recheck", "queue"} \/ tx'.queued
      BY <1>0, <2>2 DEF StopQueue, Map, TxQueue, Tx
    <3> QED  BY <3>1 DEF WakesUp, Holds
  <2> QED  BY <1>4, <2>1, <2>2
<1>5. ASSUME XmitHook \/ MaybeStop \/ MapFails PROVE WakesUp'
  <2>1. /\ UNCHANGED <<stopped, resetting, next_to_clean, next_to_use, dark, stale, cleaner>>
        /\ tx.pc \in {"hook", "check", "map"}
    BY <1>5 DEF XmitHook, MaybeStop, MapFails, driver, ring, work, races
  <2>2. tx.queued => tx'.queued
    BY <1>0, <1>5, <2>1 DEF XmitHook, MaybeStop, MapFails, Transmitting, Tx
  <2>3. Holds' => Holds  BY <2>1, <2>2 DEF Holds
  <2> QED  BY <1>2, <2>1, <2>3
<1>6. ASSUME Recheck PROVE WakesUp'
  <2>1. /\ UNCHANGED <<resetting, next_to_clean, next_to_use, dark, stale, cleaner>>
        /\ tx.pc = "recheck" /\ tx.batch # <<>>
    BY <1>0, <1>6 DEF Recheck, driver, ring, work, races, Transmitting
  <2>2. CASE stopped' = FALSE  BY <2>2 DEF WakesUp
  <2>3. CASE tx.queued /\ tx' = [tx EXCEPT !.pc = Fits]
    <3>1. tx'.queued  BY <1>0, <2>3 DEF Tx
    <3> QED  BY <3>1 DEF WakesUp, Holds
  <2>4. CASE DescUnused < Needed /\ ~tx.queued /\ UNCHANGED stopped
    <3>1. /\ DescUnused < Size[skb] + 2 /\ Size[skb] + 2 < Count
          /\ Size[skb] \in Nat /\ DescUnused \in Int
      BY <1>0, <2>1, <2>4, SkbType, RoomType DEF Needed
    <3>2. next_to_use = next_to_clean => DescUnused = Count - 1
      BY <1>0, RoomEmptyNow DEF RoomEmpty
    <3>3. next_to_clean # next_to_use  BY <3>1, <3>2, SlotTypes
    <3> QED  BY <1>2, <2>1, <2>4, <3>3
  <2> QED  BY <1>6, <2>2, <2>3, <2>4 DEF Recheck
<1>7. ASSUME WriteTail PROVE WakesUp'
  <2>1. /\ UNCHANGED <<stopped, resetting, next_to_clean, next_to_use, dark, stale, cleaner>>
        /\ tx.queued
    BY <1>0, <1>7 DEF WriteTail, work, races, Transmitting
  <2>2. next_to_clean # next_to_use  BY <1>0, <2>1, CleanedIs DEF Undisturbed
  <2> QED  BY <1>2, <2>1, <2>2
<1>8. ASSUME CleanPacket PROVE WakesUp'
  <2>1. UNCHANGED <<tx, resetting, next_to_clean, next_to_use, dark, stale, stopped>>
        /\ cleaner.pc = "clean"
    BY <1>8 DEF CleanPacket, work, races, history
  <2> QED  BY <1>1, <2>1
<1>9. ASSUME CleanEnds PROVE WakesUp'
  <2>1. /\ next_to_clean' = cleaner.i /\ cleaner.pc = "clean"
        /\ UNCHANGED <<tx, resetting, next_to_use, dark, stale, stopped>>
        /\ cleaner'.pc = "room" /\ cleaner'.count = cleaner.count
    BY <1>0, <1>9 DEF CleanEnds, work, races, history, Cleaner
  <2>2. cleaner.count = Dist(next_to_clean, cleaner.i) /\ cleaner.count \in Nat
    BY <1>0, <2>1, RingTypes DEF Cleaning
  <2>3. CASE cleaner.count = 0
    <3>1. cleaner.i = next_to_clean  BY <1>0, <2>2, <2>3, RingTypes, DistSame
    <3>2. Holds' = Holds  BY <2>1 DEF Holds
    <3> QED  BY <2>1, <3>1, <3>2 DEF WakesUp
  <2>4. CASE cleaner.count > 0  BY <2>1, <2>4 DEF WakesUp
  <2> QED  BY <2>2, <2>3, <2>4
<1>10. ASSUME RoomToWake PROVE WakesUp'
  <2>1. /\ UNCHANGED <<tx, resetting, next_to_use, next_to_clean, stopped, stale>>
        /\ cleaner.pc = "room"
        /\ dark' = (dark \/ (cleaner.count > 0 /\ ~carrier))
        /\ cleaner'.pc =
              IF cleaner.count > 0 /\ carrier /\ DescUnused >= WakeThreshold THEN "wake" ELSE "hang"
    BY <1>0, <1>10 DEF RoomToWake, work, ring, Cleaner
  <2> SUFFICES ASSUME stopped, Holds, ~resetting, next_to_clean = next_to_use
               PROVE  dark' \/ stale \/ cleaner'.pc = "wake"
    BY <2>1 DEF WakesUp, Holds
  <2>2. dark \/ stale \/ cleaner.count > 0  BY <2>1 DEF WakesUp
  <2>3. DescUnused >= WakeThreshold
    <3>1. DescUnused = Count - 1  BY <1>0, RoomEmptyNow DEF RoomEmpty
    <3>2. Count \in Nat /\ WakeThreshold \in Nat /\ WakeThreshold < Count
      BY DriverAssumption
    <3> QED  BY <3>1, <3>2
  <2> QED  BY <2>1, <2>2, <2>3
<1>11. ASSUME WakeQueue PROVE WakesUp'
  <2>1. stopped' = (stopped /\ down) /\ UNCHANGED resetting  BY <1>11 DEF WakeQueue, work
  <2> QED  BY <2>1 DEF WakesUp, Undisturbed
<1>12. ASSUME CleanDone PROVE WakesUp'
  <2>1. /\ UNCHANGED <<tx, resetting, next_to_use, next_to_clean, dark>> /\ cleaner.pc = "hang"
        /\ stopped' = (stopped \/ (detect_tx_hung /\ Hangs))
        /\ stale' = (stale \/ (detect_tx_hung /\ Hangs /\ ~Filled(cleaner.eop)))
    BY <1>12 DEF CleanDone, ring
  <2>2. ASSUME Holds, next_to_clean = next_to_use PROVE ~Filled(cleaner.eop)
    <3>1. DescUnused = Count - 1  BY <1>0, <2>2, RoomEmptyNow DEF RoomEmpty
    <3>2. Count - 1 - DescUnused = 0  BY <3>1, SlotTypes
    <3>3. SlotsFrom(next_to_clean, 0) = {}  BY DEF SlotsFrom
    <3> QED  BY <2>2, <3>2, <3>3 DEF Filled, Holds
  <2>3. Holds' = Holds  BY <2>1 DEF Holds
  <2> QED  BY <2>1, <2>2, <2>3 DEF WakesUp
<1>13. ASSUME DownStart PROVE WakesUp'  BY <1>13 DEF DownStart, WakesUp
<1>14. ASSUME DownFinish PROVE WakesUp'  BY <1>14 DEF DownFinish, WakesUp
<1>15. ASSUME Up PROVE WakesUp'  BY <1>15 DEF Up, WakesUp
<1> QED
  BY <1>3, <1>4, <1>5, <1>6, <1>7, <1>8, <1>9, <1>10, <1>11, <1>12, <1>13, <1>14, <1>15
  DEF Next, Xmit, Clean, Reset

\* NeverStuck: between e1000_xmit_frame, which stops the queue and looks again, the
\* poll, which cleans and wakes, and the interrupt, no order of steps leaves the
\* driver at rest with something done in the ring or with the queue stopped.
THEOREM GoesOn == Spec => []NeverStuck
<1> DEFINE On == Watching /\ (raced \/ (CaughtUp /\ WakesUp))
<1>1. Init => On
  BY DEF Init, Watching, CaughtUp, WakesUp, NoCleaner
<1>2. DriverInv /\ Intact /\ On /\ [Next]_vars => On'
  <2> SUFFICES ASSUME DriverInv, Intact, On, [Next]_vars PROVE On'  OBVIOUS
  <2>1. Watching'  BY WatchingStep
  <2>2. ASSUME ~raced' PROVE CaughtUp' /\ WakesUp'
    <3>1. ~raced  BY <2>2, RacedStays DEF DriverInv
    <3>2. Undisturbed /\ CaughtUp /\ WakesUp  BY <3>1 DEF Intact
    <3> QED  BY <3>2, CaughtUpStep, WakesUpStep
  <2> QED  BY <2>1, <2>2
<1>3. DriverInv /\ Intact /\ On => NeverStuck
  <2> SUFFICES ASSUME DriverInv, Intact, On, AtRest, link, enabled, carrier, ~muted, ~raced
               PROVE  tdt = next_to_use /\ next_to_clean = next_to_use /\ (stopped => dark \/ stale)
    BY DEF NeverStuck
  <2>1. Undisturbed /\ CaughtUp /\ WakesUp  BY DEF Intact
  <2>2. tx.pc = "idle" /\ tdh = tdt /\ ~resetting /\ cleaner.pc = "idle" /\ ~napi /\ irq = {}
    BY DEF AtRest, Still, CanSend
  <2>3. tdt = next_to_use  BY <2>1, <2>2 DEF Undisturbed
  <2>4. next_to_clean = tdh  BY <2>1, <2>2 DEF CaughtUp
  <2>5. Holds  BY <2>2 DEF DriverInv, Transmitting, Holds
  <2> QED  BY <2>1, <2>2, <2>3, <2>4, <2>5 DEF WakesUp
<1> QED  BY <1>1, <1>2, <1>3, StaysIntact, PTL DEF Spec
=============================================================================
