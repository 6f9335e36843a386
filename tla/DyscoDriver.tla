---------------------------- MODULE DyscoDriver ----------------------------
(***************************************************************************)
(* The way out of a host: the kernel's queue, dysco_output as it is called *)
(* from a network driver or from netfilter, and the transmit ring of the   *)
(* e1000 driver, with its interrupts, its watchdog and its resets.         *)
(***************************************************************************)
EXTENDS Naturals, Sequences, FiniteSets

CONSTANTS
    Packets,
    Cases,          \* who calls the hook, and what the packets are: data, syn or control
    Size,           \* how many descriptors it takes
    Count, Start,   \* the ring has as many; it is empty there after a first lap
    Reserve,        \* MAX_SKB_FRAGS + 2
    WakeThreshold,  \* TX_WAKE_THRESHOLD
    MaxBatch,       \* bound: packets handed to the driver in a row
    MaxLoss,        \* bound: how often the link goes away
    None

ASSUME DriverAssumption ==
    /\ Count \in Nat /\ Reserve \in Nat /\ WakeThreshold \in Nat
    /\ Cases \subseteq {"driver", "nf"} \X [Packets -> {"data", "syn", "control"}]
    /\ Size \in [Packets -> Nat \ {0}]
    /\ Reserve <= WakeThreshold /\ WakeThreshold < Count
    /\ \A p \in Packets : Size[p] + 2 < Count
    /\ \A case \in Cases, p \in Packets : case[2][p] # "data" => Size[p] + 2 <= Reserve
    /\ Start \in 0 .. Count - 1
    /\ MaxBatch \in Nat \ {0} /\ MaxLoss \in Nat
    /\ None \notin Packets

VARIABLES
    hook, kind,     \* who calls dysco_output: the driver or netfilter (nf)
    fresh,          \* packets that TCP or the daemon has not sent yet
    queue, stopped, \* the queue of the device, and whether it may be taken from
    tx,             \* the CPU that holds the lock of the queue
    rewritten,      \* how often a packet got the chain of a SYN
    freed, lost,    \* history: how often it was freed; whether nobody has it
    next_to_use, next_to_clean, buffer_info,
    desc, tdh, tdt, \* the descriptors; where the device is, and may go
    cleaner,        \* e1000_clean_tx_irq
    irq, napi, down,
    carrier, enabled, link, losses,
    watchdog, detect_tx_hung, reset_task, resetting,
    muted,          \* history: a batch ended before the device was told of all of it
    late, dark,     \* history: the queue was woken without room for a packet, or was not
                    \* woken as there was no carrier
    raced,          \* history: the ring was cleared while the queue was awake or in use
    stale           \* history: the poll has stopped the queue, and not woken it, for the time
                    \* stamp of a buffer without a packet

stack == <<hook, kind, fresh, queue, rewritten, freed, lost>>
ring == <<next_to_use, next_to_clean, buffer_info, desc, tdh, tdt>>
lines == <<carrier, enabled, link, losses>>
work == <<watchdog, detect_tx_hung, reset_task, resetting>>
races == <<late, dark, raced, stale>>
history == <<muted, races>>
vars == <<stack, stopped, tx, ring, cleaner, irq, napi, down, lines, work, history>>

Slots == 0 .. Count - 1
Kinds == {"data", "syn", "control"}
Buffer == [skb : Packets \cup {None}, next_to_watch : Slots, time_stamp : BOOLEAN]
Desc == [skb : Packets \cup {None}, last : BOOLEAN, dd : BOOLEAN]
Tx == [pc : {"idle", "hook", "check", "stop", "recheck", "map", "queue", "tail"},
       batch : Seq(Packets), queued : BOOLEAN]
Cleaner == [pc : {"idle", "clean", "room", "wake", "hang"}, i : Slots, eop : Slots, count : Nat]

TypeOK ==
    /\ hook \in {"driver", "nf"} /\ kind \in [Packets -> Kinds] /\ <<hook, kind>> \in Cases
    /\ fresh \subseteq Packets /\ queue \in Seq(Packets)
    /\ tx \in Tx /\ cleaner \in Cleaner
    /\ rewritten \in [Packets -> Nat] /\ freed \in [Packets -> Nat] /\ lost \subseteq Packets
    /\ next_to_use \in Slots /\ next_to_clean \in Slots /\ tdh \in Slots /\ tdt \in Slots
    /\ buffer_info \in [Slots -> Buffer] /\ desc \in [Slots -> Desc]
    /\ irq \subseteq {"done", "link"} /\ losses \in Nat
    /\ stopped \in BOOLEAN /\ napi \in BOOLEAN /\ down \in BOOLEAN
    /\ carrier \in BOOLEAN /\ enabled \in BOOLEAN /\ link \in BOOLEAN
    /\ watchdog \in BOOLEAN /\ detect_tx_hung \in BOOLEAN
    /\ reset_task \in BOOLEAN /\ resetting \in BOOLEAN
    /\ muted \in BOOLEAN /\ late \in BOOLEAN /\ dark \in BOOLEAN /\ raced \in BOOLEAN
    /\ stale \in BOOLEAN

Succ(i) == (i + 1) % Count
Plus(i, n) == (i + n) % Count
SlotsFrom(i, n) == {Plus(i, k) : k \in 0 .. n - 1}

NoBuffer == [skb |-> None, next_to_watch |-> 0, time_stamp |-> FALSE]
NoDesc == [skb |-> None, last |-> FALSE, dd |-> FALSE]
NoTx == [pc |-> "idle", batch |-> <<>>, queued |-> FALSE]
NoCleaner == [pc |-> "idle", i |-> 0, eop |-> 0, count |-> 0]

\* E1000_DESC_UNUSED, without the slot that keeps a full ring from an empty one.
DescUnused ==
    (IF next_to_clean > next_to_use THEN 0 ELSE Count) + next_to_clean - next_to_use - 1

Init ==
    /\ \E case \in Cases : hook = case[1] /\ kind = case[2]
    /\ fresh = Packets /\ queue = <<>> /\ stopped = FALSE
    /\ tx = NoTx
    /\ rewritten = [p \in Packets |-> 0] /\ freed = rewritten /\ lost = {}
    /\ next_to_use = Start /\ next_to_clean = Start
    /\ buffer_info = [i \in Slots |-> [NoBuffer EXCEPT !.next_to_watch = i]]
    /\ desc = [i \in Slots |-> NoDesc] /\ tdh = Start /\ tdt = Start
    /\ cleaner = NoCleaner
    /\ irq = {} /\ napi = FALSE /\ down = FALSE
    /\ carrier = TRUE /\ enabled = TRUE /\ link = TRUE /\ losses = 0
    /\ watchdog = TRUE /\ detect_tx_hung = FALSE
    /\ reset_task = FALSE /\ resetting = FALSE
    /\ muted = FALSE /\ late = FALSE /\ dark = FALSE /\ raced = FALSE
    /\ stale = FALSE

-----------------------------------------------------------------------------
(* dysco_output.  1 is for the packet to go on, 0 if it does not.          *)

Passes(p) ==
    /\ rewritten' = IF kind[p] = "syn" THEN [rewritten EXCEPT ![p] = @ + 1] ELSE rewritten
    /\ UNCHANGED <<freed, lost>>

\* A SYN that its chain does not fit into is freed, in dysco_out_tx_init; a
\* DYSCO_SYN for which memory runs out is not, in dysco_control_output_syn.
\* Netfilter frees what the hook refuses; a driver does not.
Refused(p) ==
    /\ kind[p] # "data"
    /\ LET frees == (IF kind[p] = "syn" THEN 1 ELSE 0) + (IF hook = "nf" THEN 1 ELSE 0)
       IN  freed' = [freed EXCEPT ![p] = @ + frees]
           /\ lost' = IF frees = 0 THEN lost \cup {p} ELSE lost
    /\ UNCHANGED rewritten

-----------------------------------------------------------------------------
(* The kernel's side of the queue.                                         *)

\* A packet enters the queue, by way of dysco_nf_out where that is the hook.
SendOut(p) ==
    /\ p \in fresh
    /\ fresh' = fresh \ {p}
    /\ \/ hook = "driver" /\ queue' = Append(queue, p) /\ UNCHANGED <<rewritten, freed, lost>>
       \/ hook = "nf" /\ queue' = Append(queue, p) /\ Passes(p)
       \/ hook = "nf" /\ Refused(p) /\ UNCHANGED queue
    /\ UNCHANGED <<hook, kind, stopped, tx, ring, cleaner, irq, napi, down, lines, work, history>>

\* Some packets in a row go to e1000_xmit_frame; xmit_more is set but for the last.
TakeBatch ==
    /\ tx.pc = "idle" /\ ~stopped
    /\ \E n \in 1 .. Len(queue) :
          /\ n <= MaxBatch
          /\ tx' = [pc |-> "hook", batch |-> SubSeq(queue, 1, n), queued |-> FALSE]
          /\ queue' = SubSeq(queue, n + 1, Len(queue))
    /\ UNCHANGED <<hook, kind, fresh, rewritten, freed, lost, stopped, ring, cleaner, irq, napi,
                   down, lines, work, history>>

skb == Head(tx.batch)
XmitMore == Len(tx.batch) > 1

\* The batch goes on, unless that was its last packet or the queue was stopped.
NextOfBatch ==
    IF Tail(tx.batch) # <<>> /\ ~stopped
    THEN tx' = [pc |-> "hook", batch |-> Tail(tx.batch), queued |-> FALSE] /\ UNCHANGED queue
    ELSE tx' = NoTx /\ queue' = Tail(tx.batch) \o queue

\* A batch that ends so leaves the device without news of what came before.
Mutes == muted' = (muted \/ (tx' = NoTx /\ next_to_use # tdt))

-----------------------------------------------------------------------------
(* e1000_xmit_frame.                                                       *)

driver == <<ring, cleaner, irq, napi, down, lines, work, races>>

XmitHook ==
    /\ tx.pc = "hook"
    /\ \/ /\ hook = "driver" => Passes(skb)
          /\ hook = "nf" => UNCHANGED <<rewritten, freed, lost>>
          /\ tx' = [tx EXCEPT !.pc = "check"]
          /\ UNCHANGED <<queue, muted>>
       \/ /\ hook = "driver" /\ Refused(skb)
          /\ NextOfBatch
          /\ Mutes
    /\ UNCHANGED <<hook, kind, fresh, stopped, driver>>

\* e1000_maybe_stop_tx, before the packet is put into the ring and after.
Needed == IF tx.queued THEN Reserve ELSE Size[skb] + 2
Fits == IF tx.queued THEN "tail" ELSE "map"

\* No reserve is kept for the next packet.
MaybeStopBugOnlyBefore ==
    /\ tx.pc = "check"
    /\ tx' = [tx EXCEPT !.pc = IF tx.queued \/ DescUnused >= Needed THEN Fits ELSE "stop"]
    /\ UNCHANGED <<stack, stopped, driver, muted>>

MaybeStop ==
    /\ tx.pc = "check"
    /\ tx' = [tx EXCEPT !.pc = IF DescUnused >= Needed THEN Fits ELSE "stop"]
    /\ UNCHANGED <<stack, stopped, driver, muted>>

StopQueue ==
    /\ tx.pc = "stop"
    /\ stopped' = TRUE
    /\ tx' = [tx EXCEPT !.pc = "recheck"]
    /\ UNCHANGED <<stack, driver, muted>>

\* Room that was made before the queue was stopped is not seen.
RecheckBugBlind ==
    /\ tx.pc = "recheck"
    /\ IF tx.queued
       THEN tx' = [tx EXCEPT !.pc = Fits] /\ UNCHANGED <<queue, muted>>
       ELSE tx' = NoTx /\ queue' = tx.batch \o queue /\ Mutes
    /\ UNCHANGED <<hook, kind, fresh, rewritten, freed, lost, stopped, driver>>

\* "A reprieve!", or NETDEV_TX_BUSY: the packet goes back to the queue.
Recheck ==
    /\ tx.pc = "recheck"
    /\ \/ /\ DescUnused >= Needed
          /\ stopped' = FALSE
          /\ tx' = [tx EXCEPT !.pc = Fits]
          /\ UNCHANGED <<queue, muted>>
       \/ /\ DescUnused < Needed /\ tx.queued
          /\ tx' = [tx EXCEPT !.pc = Fits]
          /\ UNCHANGED <<queue, stopped, muted>>
       \/ /\ DescUnused < Needed /\ ~tx.queued
          /\ tx' = NoTx /\ queue' = tx.batch \o queue
          /\ Mutes
          /\ UNCHANGED stopped
    /\ UNCHANGED <<hook, kind, fresh, rewritten, freed, lost, driver>>

\* e1000_tx_map.  Each buffer is its own end of packet until all are mapped.
Map ==
    /\ tx.pc = "map"
    /\ LET slots == SlotsFrom(next_to_use, Size[skb])
           end == Plus(next_to_use, Size[skb] - 1)
       IN  buffer_info' = [i \in Slots |->
              IF i \notin slots THEN buffer_info[i]
              ELSE [skb |-> IF i = end THEN skb ELSE None, next_to_watch |-> i,
                    time_stamp |-> TRUE]]
    /\ tx' = [tx EXCEPT !.pc = "queue"]
    /\ UNCHANGED <<stack, stopped, next_to_use, next_to_clean, desc, tdh, tdt, cleaner, irq,
                   napi, down, lines, work, history>>

\* Whether buffer i keeps a time stamp when the n-th one cannot be mapped: that has got
\* one before.  dma_error takes back those of all before it but the packet's own first
\* buffer, and e1000_xmit_frame that of the first descriptor, which may be the offload's.
KeepsStamp(i, n, offload) ==
    /\ i = Plus(next_to_use, offload) \/ i = Plus(next_to_use, n - 1)
    /\ i # next_to_use

\* Then, or if e1000_tso fails (n = 0), the packet is freed, and next_to_use stays.
MapFails ==
    /\ tx.pc = "map"
    /\ \E n \in 0 .. Size[skb], offload \in {0, 1} :
          buffer_info' = [i \in Slots |->
             IF i \notin SlotsFrom(next_to_use, n) THEN buffer_info[i]
             ELSE [buffer_info[i] EXCEPT
                     !.next_to_watch = IF i = Plus(next_to_use, n - 1) THEN @ ELSE i,
                     !.time_stamp = KeepsStamp(i, n, offload)]]
    /\ freed' = [freed EXCEPT ![skb] = @ + 1]
    /\ NextOfBatch
    /\ Mutes
    /\ UNCHANGED <<hook, kind, fresh, rewritten, lost, stopped, next_to_use, next_to_clean,
                   desc, tdh, tdt, cleaner, irq, napi, down, lines, work, races>>

\* The end of packet is known, and e1000_tx_queue fills the descriptors.
TxQueue ==
    /\ tx.pc = "queue"
    /\ LET slots == SlotsFrom(next_to_use, Size[skb])
           end == Plus(next_to_use, Size[skb] - 1)
       IN  /\ buffer_info' = [buffer_info EXCEPT ![next_to_use].next_to_watch = end]
           /\ desc' = [i \in Slots |->
                 IF i \in slots THEN [skb |-> skb, last |-> i = end, dd |-> FALSE]
                 ELSE desc[i]]
           /\ next_to_use' = Succ(end)
    /\ tx' = [tx EXCEPT !.pc = "check", !.queued = TRUE]
    /\ UNCHANGED <<stack, stopped, next_to_clean, tdh, tdt, cleaner, irq, napi, down, lines,
                   work, history>>

\* The device is told when nothing more is to come, or could.
Tells == ~XmitMore \/ stopped

WriteTail ==
    /\ tx.pc = "tail"
    /\ tdt' = IF Tells THEN next_to_use ELSE tdt
    /\ muted' = (muted /\ ~Tells)
    /\ NextOfBatch
    /\ UNCHANGED <<hook, kind, fresh, rewritten, freed, lost, stopped, next_to_use, next_to_clean,
                   buffer_info, desc, tdh, cleaner, irq, napi, down, lines, work, races>>

-----------------------------------------------------------------------------
(* The device and its interrupts.                                          *)

EndOf(i) == CHOOSE j \in Slots : \E n \in 0 .. Count - 1 :
    /\ j = Plus(i, n) /\ desc[j].last
    /\ \A k \in 0 .. n - 1 : ~desc[Plus(i, k)].last

CanSend == link /\ enabled /\ tdh # tdt

DeviceSends ==
    /\ CanSend
    /\ desc' = [desc EXCEPT ![EndOf(tdh)].dd = TRUE]
    /\ tdh' = Succ(EndOf(tdh))
    /\ irq' = irq \cup {"done"}
    /\ UNCHANGED <<stack, stopped, tx, next_to_use, next_to_clean, buffer_info, tdt, cleaner,
                   napi, down, lines, work, history>>

\* The link comes or goes.
LinkChanges ==
    /\ link => losses < MaxLoss
    /\ losses' = IF link THEN losses + 1 ELSE losses
    /\ link' = ~link
    /\ irq' = irq \cup {"link"}
    /\ UNCHANGED <<stack, stopped, tx, ring, cleaner, napi, down, carrier, enabled, work, history>>

\* e1000_intr.  Interrupts are off while NAPI is at work, and while the device is
\* reset.
Interrupt ==
    /\ irq # {} /\ ~napi /\ ~down
    /\ watchdog' = (watchdog \/ "link" \in irq)
    /\ napi' = TRUE
    /\ irq' = {}
    /\ UNCHANGED <<stack, stopped, tx, ring, cleaner, down, lines, detect_tx_hung, reset_task,
                   resetting, history>>

-----------------------------------------------------------------------------
(* e1000_clean, of which e1000_clean_tx_irq.                               *)

CleanStart ==
    /\ napi /\ cleaner.pc = "idle"
    /\ cleaner' = [pc |-> "clean", i |-> next_to_clean, count |-> 0,
                   eop |-> buffer_info[next_to_clean].next_to_watch]
    /\ UNCHANGED <<stack, stopped, tx, ring, irq, napi, down, lines, work, history>>

\* A packet is done when its first descriptor is.
CleanPacketBugUnsent ==
    /\ cleaner.pc = "clean" /\ desc[cleaner.eop].last /\ cleaner.count < Count
    /\ LET n == 1 + ((cleaner.eop + Count - cleaner.i) % Count)
           slots == SlotsFrom(cleaner.i, n)
           i == Succ(cleaner.eop)
       IN  /\ freed' = [p \in Packets |->
                 freed[p] + Cardinality({s \in slots : buffer_info[s].skb = p})]
           /\ buffer_info' = [s \in Slots |->
                 IF s \in slots
                 THEN [buffer_info[s] EXCEPT !.skb = None, !.time_stamp = FALSE]
                 ELSE buffer_info[s]]
           /\ desc' = [s \in Slots |-> IF s \in slots THEN [desc[s] EXCEPT !.last = FALSE]
                                       ELSE desc[s]]
           /\ cleaner' = [cleaner EXCEPT !.i = i, !.eop = buffer_info[i].next_to_watch,
                                         !.count = @ + n]
    /\ UNCHANGED <<hook, kind, fresh, queue, rewritten, lost, stopped, tx, next_to_use,
                   next_to_clean, tdh, tdt, irq, napi, down, lines, work, history>>

\* One packet that the device has done is freed, and the end of the next one read.
CleanPacket ==
    /\ cleaner.pc = "clean" /\ desc[cleaner.eop].dd /\ cleaner.count < Count
    /\ LET n == 1 + ((cleaner.eop + Count - cleaner.i) % Count)
           slots == SlotsFrom(cleaner.i, n)
           i == Succ(cleaner.eop)
       IN  /\ freed' = [p \in Packets |->
                 freed[p] + Cardinality({s \in slots : buffer_info[s].skb = p})]
           /\ buffer_info' = [s \in Slots |->
                 IF s \in slots
                 THEN [buffer_info[s] EXCEPT !.skb = None, !.time_stamp = FALSE]
                 ELSE buffer_info[s]]
           /\ desc' = [s \in Slots |-> IF s \in slots THEN [desc[s] EXCEPT !.dd = FALSE]
                                       ELSE desc[s]]
           /\ cleaner' = [cleaner EXCEPT !.i = i, !.eop = buffer_info[i].next_to_watch,
                                         !.count = @ + n]
    /\ UNCHANGED <<hook, kind, fresh, queue, rewritten, lost, stopped, tx, next_to_use,
                   next_to_clean, tdh, tdt, irq, napi, down, lines, work, history>>

CleanEnds ==
    /\ cleaner.pc = "clean" /\ ~(desc[cleaner.eop].dd /\ cleaner.count < Count)
    /\ next_to_clean' = cleaner.i
    /\ cleaner' = [cleaner EXCEPT !.pc = "room"]
    /\ UNCHANGED <<stack, stopped, tx, next_to_use, buffer_info, desc, tdh, tdt, irq, napi,
                   down, lines, work, history>>

RoomToWake ==
    /\ cleaner.pc = "room"
    /\ cleaner' = [cleaner EXCEPT !.pc =
          IF cleaner.count > 0 /\ carrier /\ DescUnused >= WakeThreshold THEN "wake" ELSE "hang"]
    /\ dark' = (dark \/ (cleaner.count > 0 /\ ~carrier))
    /\ UNCHANGED <<stack, stopped, tx, ring, irq, napi, down, lines, work, muted, late, raced,
                   stale>>

WakeQueue ==
    /\ cleaner.pc = "wake"
    /\ stopped' = (stopped /\ down)
    /\ cleaner' = [cleaner EXCEPT !.pc = "hang"]
    /\ late' = (late \/ (stopped /\ ~down /\ DescUnused < WakeThreshold))
    /\ stale' = (stale /\ down)
    /\ UNCHANGED <<stack, tx, ring, irq, napi, down, lines, work, muted, dark, raced>>

\* Whether there is a packet in slot i: in the ring, or mapped and about to be.
Filled(i) ==
    \/ i \in SlotsFrom(next_to_clean, Count - 1 - DescUnused)
    \/ tx.pc = "queue" /\ i \in SlotsFrom(next_to_use, Size[skb])

\* What has a time stamp of a second ago hangs.  Of packets, only one that the device
\* will not do can; the time stamp that a failed mapping has left is of any age.
Hangs ==
    /\ buffer_info[cleaner.eop].time_stamp
    /\ Filled(cleaner.eop) => ~desc[cleaner.eop].dd /\ ~CanSend

\* A hang is only logged.
CleanDoneBugOnlyLogs ==
    /\ cleaner.pc = "hang"
    /\ detect_tx_hung' = FALSE
    /\ cleaner' = NoCleaner
    /\ napi' = FALSE
    /\ UNCHANGED <<stack, stopped, tx, ring, irq, down, lines, watchdog, reset_task, resetting,
                   history>>

\* The check for a hang, and the end of polling.
CleanDone ==
    /\ cleaner.pc = "hang"
    /\ detect_tx_hung' = FALSE
    /\ stopped' = (stopped \/ (detect_tx_hung /\ Hangs))
    /\ stale' = (stale \/ (detect_tx_hung /\ Hangs /\ ~Filled(cleaner.eop)))
    /\ cleaner' = NoCleaner
    /\ napi' = FALSE
    /\ UNCHANGED <<stack, tx, ring, irq, down, lines, watchdog, reset_task, resetting, muted,
                   late, dark, raced>>

-----------------------------------------------------------------------------
(* Watchdogs and resets.                                                   *)

\* e1000_watchdog follows the link, has a lost link's packets thrown away, or has
\* a hang looked for and comes back.
Watchdog ==
    /\ watchdog /\ ~down
    /\ carrier' = link
    /\ enabled' = (enabled \/ (link /\ ~carrier))
    /\ \/ /\ ~link /\ DescUnused + 1 < Count
          /\ reset_task' = TRUE /\ watchdog' = FALSE
          /\ UNCHANGED <<irq, detect_tx_hung>>
       \/ /\ link \/ DescUnused + 1 = Count
          /\ irq' = irq \cup {"done"}
          /\ detect_tx_hung' = TRUE
          /\ UNCHANGED <<reset_task, watchdog>>
    /\ UNCHANGED <<stack, stopped, tx, ring, cleaner, napi, down, link, losses, resetting, history>>

\* The kernel's watchdog of the queue, and e1000_tx_timeout: nothing was sent for
\* seconds.
Still == tx.pc = "idle" /\ ~CanSend /\ ~reset_task /\ ~resetting

TxTimeout ==
    /\ stopped /\ carrier /\ Still
    /\ reset_task' = TRUE
    /\ UNCHANGED <<stack, stopped, tx, ring, cleaner, irq, napi, down, lines, watchdog,
                   detect_tx_hung, resetting, history>>

\* e1000_reinit_locked.  netif_tx_disable takes the lock of the queue once,
DownStart ==
    /\ reset_task /\ ~resetting /\ tx.pc = "idle"
    /\ reset_task' = FALSE /\ resetting' = TRUE
    /\ carrier' = FALSE /\ enabled' = FALSE
    /\ stopped' = TRUE
    /\ UNCHANGED <<stack, tx, ring, cleaner, irq, napi, down, link, losses, watchdog,
                   detect_tx_hung, history>>

\* and napi_disable waits for the end of the poll.  All buffers are freed.
DownFinish ==
    /\ resetting /\ ~down /\ ~napi
    /\ irq' = {} /\ down' = TRUE /\ watchdog' = FALSE /\ enabled' = FALSE
    /\ freed' = [p \in Packets |->
          freed[p] + Cardinality({s \in Slots : buffer_info[s].skb = p})]
    /\ next_to_use' = 0 /\ next_to_clean' = 0 /\ tdh' = 0 /\ tdt' = 0
    /\ buffer_info' = [i \in Slots |-> NoBuffer]
    /\ desc' = [i \in Slots |-> NoDesc]
    /\ muted' = FALSE /\ stale' = FALSE /\ raced' = (raced \/ ~stopped \/ tx.pc # "idle")
    /\ UNCHANGED <<hook, kind, fresh, queue, rewritten, lost, stopped, tx, cleaner, napi, carrier,
                   link, losses, detect_tx_hung, reset_task, resetting, late, dark>>

\* e1000_up
Up ==
    /\ down
    /\ down' = FALSE /\ resetting' = FALSE
    /\ stopped' = FALSE
    /\ irq' = {"link"}
    /\ UNCHANGED <<stack, tx, ring, cleaner, napi, lines, watchdog, detect_tx_hung, reset_task,
                   history>>

-----------------------------------------------------------------------------
Xmit == \/ XmitHook \/ MaybeStop \/ StopQueue \/ Recheck \/ Map \/ MapFails \/ TxQueue
        \/ WriteTail
Clean == CleanStart \/ CleanPacket \/ CleanEnds \/ RoomToWake \/ WakeQueue \/ CleanDone
Reset == DownStart \/ DownFinish \/ Up

Next ==
    \/ \E p \in Packets : SendOut(p)
    \/ TakeBatch \/ Xmit
    \/ DeviceSends \/ LinkChanges \/ Interrupt
    \/ Clean
    \/ Watchdog \/ TxTimeout \/ Reset

Spec == Init /\ [][Next]_vars

\* CPUs, work queues and the device go on, and time passes.
FairSpec ==
    /\ Spec
    /\ WF_vars(TakeBatch) /\ WF_vars(Xmit) /\ WF_vars(DeviceSends)
    /\ WF_vars(Interrupt) /\ WF_vars(Clean)
    /\ WF_vars(Watchdog) /\ WF_vars(TxTimeout)
    /\ WF_vars(DownStart) /\ SF_vars(DownFinish) /\ WF_vars(Up)

-----------------------------------------------------------------------------
(* Properties.                                                             *)

HowOften(p, s) == Cardinality({i \in 1 .. Len(s) : s[i] = p})

\* Those who have p.  What is in the ring is no longer in the batch.
Owners(p) ==
    (IF p \in fresh THEN 1 ELSE 0) + HowOften(p, queue)
    + HowOften(p, IF tx.queued THEN Tail(tx.batch) ELSE tx.batch)
    - (IF tx.pc = "queue" /\ p = skb THEN 1 ELSE 0)
    + Cardinality({i \in Slots : buffer_info[i].skb = p})

\* What the device will read is not freed.
ReadsLive == \A n \in 0 .. ((tdt + Count - tdh) % Count) - 1 : freed[desc[Plus(tdh, n)].skb] = 0

\* A packet is somebody's until it is freed, and freed once, after the device has
\* read it.  Not so where the hook does not do what its caller takes for granted: a
\* driver never frees what dysco_control_output_syn refuses, netfilter frees again
\* what dysco_out_tx_init has freed.  Nor once e1000_down has cleared the ring of a
\* queue that the watchdog and the poll had woken again.
OneOwner ==
    \/ raced
    \/ /\ ReadsLive
       /\ \A p \in Packets :
           \/ Owners(p) + freed[p] = 1
           \/ hook = "driver" /\ kind[p] = "control" /\ p \in lost /\ Owners(p) + freed[p] = 0
           \/ hook = "nf" /\ kind[p] = "syn" /\ freed[p] = 2 /\ Owners(p) = 0

\* A SYN gets its chain once, although the driver may hand packets back and gets
\* them, and calls the hook, again: the queue is stopped while a SYN may not fit,
\* unless a poll that saw room before it was used up wakes it.
RewrittenOnce == late \/ raced \/ \A p \in Packets : rewritten[p] <= 1

AtRest == Still /\ cleaner.pc = "idle" /\ ~napi /\ irq = {}

\* The driver does not need a watchdog to go on: nothing stays in the ring that is
\* done or that the device was not told of, and the queue does not stay stopped.
\* Four cases do: a batch that ended early, a ring that was cleaned while there was
\* no carrier, the race in e1000_down, and a hang that is none, as a mapping that
\* failed has left a time stamp where there is no packet.
NeverStuck ==
    AtRest /\ link /\ enabled /\ carrier /\ ~muted /\ ~raced =>
        tdt = next_to_use /\ next_to_clean = next_to_use /\ (stopped => dark \/ stale)

\* Whatever happens to the batches and to a link that comes back, each packet that
\* was sent is freed in the end: the watchdogs notice a ring that nobody cleans.
Drained ==
    <>[]link => \A p \in Packets : [](p \notin fresh => <>(freed[p] > 0 \/ p \in lost))
=============================================================================
