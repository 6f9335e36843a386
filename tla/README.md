# Dysco, in TLA+

Dysco steers a TCP session through a chain of middleboxes. Each host runs a
kernel module (`src/kernel/common/`) that rewrites the session's packets hop by
hop, so that a session is a chain of *subsessions*, and it can replace a part of
the chain while the session goes on. This directory models that kernel module
(what its data path and its control plane do to a session's bytes,
acknowledgements, headers, ports and policies), the locking protocol that its
agents run before they replace a part of the chain, and the way of a packet from
the module out of the host.

## The system

| Component | Source | State it keeps | Operations | Correct when |
|---|---|---|---|---|
| Reconfiguration handshake | `dysco_control_output.c`, `dysco_control_input.c` | `dysco_cb_reconfig` blocks in a table keyed by session; `state`, `other_path`, cutoffs of `dysco_cb_out` | DYSCO_SYN, DYSCO_SYN_ACK, DYSCO_ACK, DYSCO_STATE_TRANSFERRED, each sent and received, first time or again | both anchors switch paths at the same byte; messages sent again change nothing |
| Two-path data path | `dysco_output.c` (`dysco_out_translate`, `dysco_pick_path_*`), `dysco_input.c` (`dysco_in_two_paths_*`) | `seq_cutoff`, `ack_cutoff`, `use_np_seq`, `use_np_ack`, `ack_ctr`, `two_paths` | choose the path of each segment and ack, learn the cutoff, leave the old path | no byte is mistaken for another, no ack covers what nobody holds, the old path finishes |
| Rewriting | `dysco_out_rewrite_*`, `dysco_in_rewrite_*`, `dysco_compute_deltas_*` | deltas and their signs in the control blocks | sequence and ack numbers, SACK blocks, time stamps, windows, checksums | translation there and back is the identity, wraps included |
| Ports | `dysco.h`, `dysco_main.c` | `alloc_ports` | `allocate_local_port`, `allocate_neighbor_port` | no two live subsessions share a pair |
| Session setup | `dysco_output.c`, `dysco_input.c`, `dysco_tcp.c` | tables of control blocks in and out, pending tables at a middlebox, the tag | policy at the SYN, chain in the SYN's payload, its removal, blocks of the reverse direction | each host's blocks link to the next host's; a middlebox's SYN finds its chain |
| Window repair of a spliced proxy | `dysco_fix_rcv_window`, `dysco_ctl_save_rcv_window` | `my_tp`, `other_tp` | throttle the sender | never announce more than the proxy can pass on |
| Namespaces and policies | `dysco_main.c` | list and cache of namespaces, policy list, under locks and RCU | add, delete, look up, free | no block outlives what it points to |
| Locking of a segment | `src/model/dysco3.pml`, `dysco3.txt`; implemented by the daemon, whose source is not published | lock state of each agent on the chain | request, grant, nack, cancel | overlapping reconfigurations exclude each other, one succeeds |
| Hooks | `kernel/nf/d.c`, `kernel/e1000/e1000_main.c` | the transmit ring, the state of the device's queue | `dysco_output` from netfilter or a driver's transmit routine, cleaning of the ring, watchdog, reset | a packet is freed once, rewritten once, and sent |
| Environment | two TCP ends, the middlebox M, the network, the daemons | | data, retransmissions, acks; loss, duplication, reordering | |

Not the program's own logic: `/proc` counters (`dysco_proc.c`), what the
vendored drivers (`kernel/e1000`, `kernel/ixgbe`) do besides calling the hooks,
scripts and experiments.

How they interact. The data path runs per packet, on any CPU, from the
network's receive and transmit hooks; the control plane runs when the hooks see
a UDP packet of the daemon. Both work on the same `dysco_cb_out`: its
`seq_lock` covers the choice of a path and the change of `state`, but not every
read. A packet of a session finds its block by five-tuple; the block of the old
path points to the one of the new path (`other_path`), and an input block to
the output block of its direction. The daemons retransmit each message until it
is answered, over UDP.

What is hard. Data and control messages take different paths and overtake one
another; each control message may come again at any later time; the anchors'
TCP numbers differ and wrap; acks of one byte may go either way; a state switch
and the value announced for it are not one critical section; ports of one
subsession are read in two critical sections; checksums are patched with every
number, by hosts that do not know who will complete them; sockets are put into a
block while packets use it; users delete policies together while packets are
matched; requests to lock overlapping segments meet on the chain; a driver hands
packets back that the hook has changed. `PROJECT.json` lists each of
these at its line, with the properties that watch it.

## Modules

| Module | Models |
|---|---|
| `DyscoSeq` | `__u32` arithmetic: wrap, `before`/`after`, deltas kept unsigned with a flag for the sign |
| `ReliableStream` | what the TCP ends expect of what is between them, an abstract specification |
| `DyscoReconfig` | one reconfiguration, EXTENDS `DyscoSeq`; implements `ReliableStream` |
| `DyscoPorts` | the port counter and the CPUs that use it |
| `DyscoSetup` | sessions set up through a chain of hosts |
| `SegmentLocks` | what the locking protocol promises, an abstract specification |
| `DyscoLock` | the port processes that lock a segment; implements `SegmentLocks` |
| `DyscoChecksum` | one's complement sums and their incremental update, EXTENDS `DyscoSeq` |
| `DyscoRewrite` | the header of a segment from one host to the other, EXTENDS `DyscoChecksum` |
| `DyscoWindow` | the windows of a proxy that will be spliced out, EXTENDS `DyscoSeq` |
| `DyscoNamespace` | namespaces, policies, users and CPUs |
| `DyscoDriver` | the hooks, the device's queue and e1000's transmit ring |
| `MCReconfig`, `MCPorts`, `MCSetup`, `MCLock`, `MCRewrite`, `MCWindow`, `MCNamespace`, `MCDriver` | the instances that TLC checks |
| `DyscoSeqProofs` | lemmas on the number arithmetic |
| `DyscoReconfigProofs` | nothing is confused or lost: a reliable stream is implemented; the anchors agree on the cutoff, split acks where data is split, and leave the old path in time and for good |
| `DyscoPortsProofs` | the port counter |
| `DyscoChainProofs` | a session keeps its chain, its hops agree and know its numbers |
| `DyscoNamespaceProofs` | policies are freed once, after their readers, and stay in their namespace; tables are not lost |
| `DyscoWindowProofs` | sockets in pairs, and what a proxy has unread |
| `DyscoRewriteProofs` | sequence numbers, acks, SACK blocks, time stamps and windows as they were meant |
| `DyscoDriverProofs` | the transmit ring holds together, each packet has one owner, a SYN gets one chain, the driver goes on |

An operator with `Bug` in its name is no part of a model. It is the definition
that follows it with a plausible mistake, and shows that some property notices.

### DyscoReconfig

Two anchors, L (which starts the reconfiguration) and R, and between them the
old path through M and the new, direct one. Data goes one way, from L's side to
R's or back (`Sender`); the code itself says "Assume data in one direction
only" (`dysco_output.c:618`).

*Positions and numbers.* A byte is a position: 0 the SYN, 1..N data, N+1 the
FIN. Control blocks and packets never hold positions, only numbers of
`DyscoSeq`, as the code does; each anchor has its own initial numbers
(`ISeq`, `IAck`), because M may have terminated the session. A packet on the
new path also carries the positions it really holds, which only the
properties and the receiver's record look at: `rcvd` has pairs of the position
a byte was *taken for* (from its number) and the byte that it *is*.

*State and code.* `cb[a]` is the `dysco_cb_out` of the old path at anchor a:
`state`, `other` (whether `other_path` is set), `state_t`, the cutoffs and
flags under their names. `nb[a]` stands for the new path's pair of blocks: the
numbers from which `dysco_compute_deltas_*` make the deltas. `two[a]` is
`two_paths` of the two input blocks. `rcb[a]` is the reconfiguration block:
absent, there, or there with `old_dcb` never set. `filling` is the program
counter of `dysco_replace_cb_leftA` between its unlock and its read of
`seq_cutoff`. `ctl` is the set of control messages ever sent. None is removed,
so each may arrive late, again, or never; the daemons are the environment.

*Actions and code.*

| Action | Code |
|---|---|
| `LeftSyn`, `LeftSynAllocFails` | `dysco_control_output_syn` |
| `RightSyn` | `dysco_control_reconfig_in`, `dysco_control_config_rightA` |
| `RightSynAck` | `dysco_replace_cb_rightA` |
| `LeftSynAck`, `RightAck`, `LeftStateTransferred`, `RightStateTransferred` | the cases of `dysco_control_input` |
| `LeftAckLock`, `LeftAckFill`, `LeftAckStateTransfer` | DYSCO_ACK in `dysco_control_output` |
| `LeftFollowsWildPointer` | the same, when `old_dcb` was never set |
| `SendData`, `SendBare`, `ReceiverAck` | `dysco_out_translate` for a segment with payload, a FIN or ack of the sender, an ack of the receiver |
| `NewArrive`, `NewAckArrive`, `OldDeliver`, `OldAckArrive` | `dysco_input` for what arrives on either path |
| `OldArrive` | M |

`SendData` chooses start and end of the segment freely between what is
unacknowledged and what is new, so it covers retransmission, coalescing and
splitting. Loss is a parameter of the send actions; `oldData`, `newData` and
`newAcks` keep what was not lost, so it may arrive repeatedly and in any order.
The old path's acks from the receiver are taken in order by M, being its own TCP
session.

*Refinement.* `Stream` maps the state to `ReliableStream`: sent and forgotten by
the sender's TCP are `sndNxt` and `sndUna`, taken by the receiver's is `rcvd`, and
held is what M or the receiver has. `ImplementsStream` says that every step is one
of the abstract stream or none. It contains that each byte is taken at its own
position (`StreamIntact`).

*Left out.* The other direction's data; SACK blocks, time stamps, windows and
checksums (no effect on which path a packet takes); middleboxes on the new path
(they forward with fixed blocks); allocation failures elsewhere than at the left
anchor's DYSCO_SYN; a second reconfiguration of the same session; the race of
two data packets on different CPUs inside one anchor, which `seq_lock` covers.

### DyscoPorts

`alloc_ports` is the integer that the code keeps, its halves `Lower` and
`Upper`; each of several CPUs calls `allocate_local_port` and then
`allocate_neighbor_port`, each atomic because of `port_alloc_lock`, and other
CPUs may run between the two. `NotExhausted` is the bound: the model ends where
the code's counter, after more than half a billion pairs, would wrap.

### DyscoSetup

Hosts 0 (the client's, with the policy) to `Last` (the server's), all with the
same kernel module; those between are middleboxes.

*State and code.* `tab[h].block` are the `dysco_cb_out` that host h has
allocated, in order; a block is known by its number. `tab[h].head` has the
buckets of `dysco_hash_out`, `dysco_hash_pen` and `dysco_hash_pen_tag`. All
three link blocks by the same field, `node`, so `next` is one field of a block,
and the operators `Insert`, `Remove` and `Find` do to it what the kernel's
rhashtable does (its code is not in the repository). `ins[h]` is
`dysco_hash_in`, to which `InsertInput` adds. A five-tuple is a session, the middleboxes that translated it
and a direction; a subsession is its two hosts and the number of its pair of
ports, which `DyscoPorts` shows to be fresh and, reversed, to be no other's.
Initial sequence numbers are the TCP end that drew them. `wire` is the set of
packets ever sent, so that each may arrive late, again, out of order, or never;
`inside[h]` is what `dysco_input` gave to the stack.

| Action | Code |
|---|---|
| `ClientSyn`, `MiddleboxForwards`, `ServerSynAck` | the stacks' call of `dysco_output`, up to what its lookups find |
| `OutPending`, `OutPendingTag` | `dysco_out_handle_mb`, the latter after `dysco_update_five_tuple` |
| `OutSynPolicy`, `OutPlain`, `OutSynAgain`, `OutSynAck` | the cases of `dysco_out_syn` |
| `InputSyn` | `dysco_rx_initiation_new` with all it calls |
| `InputSynAgain`, `InputSynAck` | `dysco_input` for a SYN, a SYN+ACK of a known subsession |

The lookup in `dysco_output` and what follows from it are two steps, and other
sessions' packets are handled between them. Packets of one session are not:
receive-side scaling puts them on one CPU. A tag is a number of two digits to
base H (2^16 in the code); `Parsed` is what `dysco_parse_tcp_syn_opt_s` makes
of it, which starts to read at the option's padding.

*Left out.* Allocation failures and chains longer than the SYN has room for;
one session's packets on two CPUs of a host at once; ARP; the other options of
the SYN. `Repeats` is the bound on what is sent or arrives again.

### SegmentLocks, DyscoLock

The kernel replaces a part of the chain only after the agents, the user-level
daemons, have locked the subsessions between the two anchors. Their source is
not published; the repository has the protocol as a Promela model
(`model/dysco3.pml`) with its description (`model/dysco3.txt`), and `DyscoLock`
is translated from the Promela.

`SegmentLocks` is what an application may rely on: an agent asks for the segment
from itself to an agent on its right, and is granted it, refused, or left to give
up when the session ends. Segments held at the same time do not overlap, and a
request is refused only if someone held a part of its segment in the meantime, or
its right anchor is not there.

In `DyscoLock` each agent has a port process for each of its sides. `R(i)` and
`L(i)` are the right-side and the left-side port of agent i, `addr[p]` and
`forward[p]` the queues of messages from the other end of the subsession and from
the port's pair, `st[p]` the state the process is in. `Receive(p)` is one turn of
the process's loop: whatever message stands first in a queue it reads, with all
that follows from it. `lockTimeout` stands for the answer that does not come. The
module's other variables have the names that the Promela has. `plan` is what the
agents will want: the environment of the Promela model chooses it by inlined
constants.

The refinement mapping takes a left anchor's request as `asking` while it has not
been answered, as `holds` from `ackLock` until the new path has taken over or the
cancellation has come back.

*Left out.* Data on the two paths (`DyscoReconfig` has it); the new path's
components other than as a handshake that comes through or does not.

### DyscoChecksum, DyscoRewrite

`DyscoRewrite` follows one segment at a time from one host to the other, through
`dysco_output` of the sender and `dysco_input` of the receiver, and through a
middlebox K where the session is plain. In a spliced session each host had a TCP
session of its own with M, so that numbers, time stamps and scales differ: the
right anchor maps them on the new path with the deltas it made from what the
DYSCO_SYN carried, and segments of the old path still come. A segment carries
as history the time it was sent and the offset it is at.

A 16-bit word is a digit to base B and a 32-bit word two of them (B = 2^16 in
the code), so a sum carries where the code's sum carries. What the checksum
field holds depends on `ip_summed`: the model has the three cases the code
distinguishes, and a device that completes what is left.

*Left out.* More than one SACK block; segments without the time-stamp option in
a session that has it; middleboxes on the new path, which the code's own FIXME
says it does not handle (`dysco_control_output.c:175`).

### DyscoWindow

When a proxy is to be spliced out, a control message makes
`dysco_ctl_save_rcv_window` put the two sockets of the proxy into its output
blocks, one pointer after the other; from then on `dysco_fix_rcv_window` cuts the
windows that the proxy's TCP announces. The module has a sender, the proxy's two
sockets and its application, acks that are under way, and the CPUs that see the
message. Pointers are stored in program order, as x86 has it.

### DyscoNamespace

`table[n]` is the `ns_hash_table` entry of a namespace, taken from `cache` when
its first device appears. A policy is on its namespace's list (`first`, `next`),
unlinked, or freed. A CPU matches a SYN in steps, one policy per step; a user
deletes policies one at a time: unlinks the first under the lock, lets go of the
lock, waits until every CPU that was in its read section has left it (`wait`),
frees it. `blocks[d]` are the chains that control blocks point to. The history
variables `gone` and `cpu[c].gone` say which policies a returned DYSCO_REM_POLICY
has taken away.

*Left out.* The two messages that only read; DYSCO_CLEAR_ALL, which does nothing;
a failing load of the module; namespaces that end, which the code does not notice.

### DyscoDriver

A packet goes from TCP or the daemon (`fresh`) into the device's queue, from
there to `e1000_xmit_frame`, and into the ring. `hook` says where `dysco_output`
stands: in `e1000_xmit_frame`, as the repository's driver has it, or in
netfilter's POST_ROUTING. Here it only matters whether `dysco_output` lets the
packet pass, and what it has done to it by then.

| Action | Code |
|---|---|
| `SendOut` | `dysco_nf_out`, where that is the hook |
| `XmitHook`, `MaybeStop`, `StopQueue`, `Recheck`, `Map`, `MapFails`, `TxQueue`, `WriteTail` | `e1000_xmit_frame` and what it calls |
| `Interrupt`, `CleanStart`, `CleanPacket`, `CleanEnds`, `RoomToWake`, `WakeQueue`, `CleanDone` | `e1000_intr`, `e1000_clean`, `e1000_clean_tx_irq` |
| `Watchdog`, `TxTimeout` | `e1000_watchdog`, `e1000_tx_timeout` |
| `DownStart`, `DownFinish`, `Up` | `e1000_reset_task`, `e1000_down`, `e1000_up` |
| `TakeBatch`, `DeviceSends`, `LinkChanges` | the kernel, the device |

`tx` is the CPU that holds the queue's lock; the poll, the watchdog, the reset
and the device go on beside it. A reset is cut where `e1000_down` waits: after
`netif_tx_disable` and TCTL, and once `napi_disable` has returned. `MapFails` may
fail at any buffer of a packet, and leaves the slots as `e1000_tx_map` and
`dma_error` do: with a time stamp in the failing buffer's (`KeepsStamp`), which
belongs to no packet (`Filled`). Five history variables name what goes wrong, so
that the properties can say that nothing else does (see below): `muted`, `late`,
`dark`, `raced`, `stale`.

*Left out.* Receiving; the 82547 and PCI-X workarounds; the descriptor of the
offload context is one of the packet's `Size`; ixgbe, which calls the hook at the
same place.

## Runs

H is 8, so numbers have 16 values; the initial numbers are chosen so that the
left anchor's wrap at the second byte and the deltas have both signs. Two bytes
and a FIN are enough for data before, at and beyond a cutoff, and for a
retransmission that joins or splits segments (`MaxSeg` 2 in `left_sender`).

| Run | Question |
|---|---|
| `left_sender` | The client sends. `DyscoReconfig` implements `ReliableStream`, acks cover held bytes, acks split where data split, announced cutoffs stay true, both anchors agree. |
| `right_sender` | The server sends, with pure acks and FINs, and the left anchor's allocation may fail: `use_np_seq` only after all old data is acknowledged. LAck is 13 here, so that the ack compared before translation (`dysco_input.c:665`) is far from the translated one. |
| `state_transfer` | The semantic is state transfer: no return to the old path. Without bare segments and with the client sending. |
| `delivery` | The server sends: all data arrives and is acknowledged wherever the handshake stops. |
| `stalled` | Expects a violation: when the client sends, the session can stall; see below. |
| `ports` | Two CPUs take ports: ranges stay apart, source ports rotate, pairs are fresh until a round ends between two calls of one CPU. |
| `setup` | Through two middleboxes, two sessions whose five-tuples share a bucket, or one whose packets are sent again twice, left alone or translated: SYNs keep chain and subsession, neighbours' blocks agree, initial numbers are known everywhere when the client has its answer, and it gets it. |
| `locking` | Up to four of five agents ask for overlapping segments, one message is lost, a new path fails, a reconfiguration completes, the session ends: `DyscoLock` implements `SegmentLocks`; the locks of a held segment are complete and none is left behind; the Promela's assertions hold; deltas add up; every request comes to an end. |
| `rewrite` | Nine sessions, spliced and plain: checksums verify whoever completes them, echoed time stamps and window scales are right, old duplicates are told from new segments, numbers move together. |
| `window` | One CPU saves the sockets while acks leave: pairs of sockets, at most two MAX_WND_REC unread, all bytes read in the end. |
| `namespaces` | Three namespaces and tables for two, two policies, one CPU and two users: no use after free, no double free, nothing deleted steers a session, no tables are lost, deletion ends. |
| `transmit` | A SYN or a daemon's message, and a segment that fills half of the ring; batches of two; the link goes once: one owner for each packet, one rewriting, no stopped queue, and all is freed in the end. |

The bounds and why they are enough. Two middleboxes make a chain with a
middlebox that hands on more than the server's address, and hops between all
kinds of hosts. The first tag is 1 where nothing depends on it, and 0 where a
translated session is to be found. Five agents give overlapping segments of all
kinds (nested, crossing, adjacent) and one subsession beyond. B = 4 gives words
in which sums carry once and twice, and the sessions of `rewrite` are chosen for
the carries: deltas of both signs and none, scales that grow, shrink or are 0.
The clock goes to 3, more than any skew. In `window` the left session's numbers
wrap; four bytes are two windows of one byte, in a buffer of three. The run was
also made with two savers and one ack. In `transmit` the ring of six starts at
slot 4, so that the first segment wraps; it leaves less than the reserve, so the
queue stops, and a second segment in the batch must be handed back.

Each module's `TypeOK` documents its state. Those of `DyscoReconfig`,
`DyscoNamespace` and `DyscoWindow` are proved, and that of `DyscoRewrite` as a part of `NumbersRight`; the others are left to the other properties of the
runs, which fail to evaluate where a value is of the wrong type.

Deadlock checking is off where the model may really stop: `right_sender` and
`state_transfer`, where nothing is known after the kernel followed a wild
pointer; `ports`, where the bound stops it; `setup`, which ends when the sessions
are set up; `locking`, when the plans are done; `namespaces`, when the policies
are used up; `window`, when all is read; `transmit`, when a lost link does not
come back. In the other runs it is on.

*Fairness.* In `delivery` and `stalled`: a TCP end retransmits its oldest
unacknowledged byte and acknowledges, again and again, and the network does not
lose what is sent infinitely often: strong fairness of the loss-free send
actions. What is in flight arrives, and M forwards and acknowledges: weak
fairness. Nothing is assumed about the control plane: a handshake may stop
anywhere, as a daemon may die. In `setup` it is weak fairness of all steps: TCP
sends its SYN until it arrives, so that the wire's set loses nothing for ever,
and the CPUs go on; what may repeat is bounded, so nothing else is needed. In
`locking` a port process that can receive does: weak fairness of each. In
`namespaces` a CPU ends its packet and a user its deletion, and no fairness says
that packets or messages come. In `window` the application reads, the sender
sends and probes a closed window; strong fairness is for acks that leave, as the
sender's probes are answered again and again. In `transmit` CPUs, work queues, the
timers and the device go on: weak fairness; `DownFinish` needs strong fairness,
as interrupts may start one poll after another, and `napi_disable` forbids that
by a flag (NAPI_STATE_DISABLE) that the model does not have. `Drained` assumes
that the link comes back.

## What the code does otherwise than its documents say

- `stalled`: `use_np_seq` can be set in DYSCO_SYN_SENT, while `seq_cutoff`
  still grows; old data is then retransmitted on the new path, its acks go to
  M, and the sender's session stalls.

`PROJECT.json` quotes the lines. The following came up in the same way, as
counterexamples to what the properties said at first. The properties now name
each as an exception, or an assumption or a choice of the instance excludes it.

Reconfiguration and setup:

- The last segment of the old path, retransmitted, takes the new path, because
  its end, not its start, is compared with the cutoff; M then receives an ack for
  bytes that it has not sent.
- At the left anchor data that arrives late lowers the announced cutoff, and
  nothing corrects it (`dysco_input.c:729`).
- DYSCO_SYN_ACK sent again takes the right anchor back from DYSCO_ESTABLISHED.
- With `LeftIsEndpoint` FALSE `AnnouncedCutoff` fails, since
  `dysco_out_handle_mb` never sets `seq_cutoff`; with `SenderBare` TRUE and the
  left end sending, a FIN without payload is routed by its ack, and
  `AcksSplitAtCutoff` fails. The passing runs keep to the roles that work.
- Without its condition `FreshUntilTorn` fails: two CPUs can get the same pair of
  ports.
- The tag that is to lead a SYN with a changed five-tuple back to its chain is
  read at the wrong offset and compared with a key that nobody sets: unless the
  tag reads as 0 the SYN leaves without its chain.
- A pending block is linked into two hash tables by one field
  (`dysco_input.c:116` and `:120`). Of three sessions pending at once, two of them
  in one bucket, the first can become unreachable while the others leave:
  `ChainKept` fails with three sessions, so `setup` keeps to two. That it takes
  sessions in the same bucket and others in other ones is what `ChainFollowed` proves.

Locking (`model/dysco3.pml`):

- A cancelled segment's middleboxes are free as soon as `cancelLock` has passed,
  before `ackCancel` comes back: if another request locks one of them in between,
  the assertion at line 593 fails. The cancellations of `MCLock` have no other
  request in them.
- `lockPending` stays TRUE in the left anchor's own port: the `ackLock` of its
  request sets `locked` (`dysco3.pml:529-531`) and leaves `lockPending`, also when the
  segment is released later. `dysco3.txt:113-116` has "Locked subsessions are never
  unlocked" and new ones "all initialized with locked = false, lockPending = false",
  but a request forwarded through such a port would find the assertion at line 470
  false. In the plans of `MCLock` only an endpoint gets that far, or there is no
  other request.
- The deltas that a request adds up are those of the other direction.
  `NumbersCarryOver` holds because both ports of a middlebox have the same offset
  in the Promela (`SameBothWays`); it fails with offsets that differ.
- A `rightRequest` that reaches a port in Anchoring stays first in its queue and
  keeps the `ackLock` behind it from being read: both wait for ever. The plans of
  `MCLock` have no such request.

Rewriting:

- `dysco_in_hdr_rewrite_csum` takes a carry from the wrong address
  (`dysco_input.c:475`): `ChecksumsHold` assumes `CarryIsRight`.
- `dysco_compute_deltas_in` takes the right host's own window scale where
  `dysco.h` says "Initial window scaling going to the app", and a scale or a time
  stamp of 0 for none: `NoOverrun` and `Translated` name the cases.
- The deltas of the time stamps contain the time between the two SYN+ACKs. PAWS
  drops segments that are newer by less than that (`DroppedWithinSkew`).

Windows:

- What `dysco_fix_rcv_window` computes from `snd_wnd`, and its special case for
  sessions without scaling, are overwritten by the last branch
  (`dysco_output.c:1291-1300`). If the special case took effect, such sessions
  would stop: it announces 0.
- If `rcv_nxt` has wrapped, the copied bytes of the *other* socket are used
  (`dysco_output.c:1283`): `Throttled` excepts it (`wrapped`).
- The lookup's references to the sockets are never released, also when only one
  of the two is found.

Namespaces:

- A SYN sent again after DYSCO_REM_POLICY finds the freed chain through its
  control block: `ReadersSafe` excepts this CPU's step by name (`again`).
- `dysco_dev_event`'s comment names NETDEV_REGISTER and NETDEV_UNREGISTER; the
  code handles POST_INIT only. Tables never return to the cache, and a namespace
  at an address that was used before gets the old one's tables.

Hooks:

- When `dysco_output` has freed a SYN that its chain did not fit into and returns
  0, `dysco_nf_out` returns NF_DROP and the kernel frees it again. When it has only
  refused a message of the daemon, `e1000_xmit_frame` returns NETDEV_TX_OK and
  nobody frees it; so does the virtual device (`veth/v.c:118`). `OneOwner` names
  both.
- If the hook swallows the last packet of a batch, or the driver hands it back,
  the device is not told of those before it (`muted`). They wait for the next
  packet, or for the watchdog, which takes them for a hang and resets the device.
- A poll that has seen room wakes a queue that was stopped since (`late`). The next
  SYN may then be handed back, and the hook puts the chain into it again.
- A ring that is cleaned while there is no carrier does not wake the queue, and the
  carrier's return does not either (`dark`): only the transmit timeout does.
- `e1000_tx_map` stamps a buffer before it maps it (`e1000_main.c:2906, 2959`). If
  the mapping fails, `dma_error` (2984-2996) takes back the stamps of buffers before
  it, and `e1000_xmit_frame` (3300) that of the first descriptor: the failing
  buffer's stays, and so does that of the packet's first buffer behind a descriptor
  of the offload. When the poll has cleaned the ring up to there, it takes the stamp
  for a hang and stops the queue (3931-3958), although the ring is empty (`stale`).
  Nobody wakes it but the reset of the transmit timeout, or a poll that still had
  something to clean.
- Between `netif_tx_disable` and the clearing of the ring `e1000_watchdog` may set
  the carrier and enable transmission again, and the poll may wake the queue
  (`raced`): packets enter a ring that is being cleared. Even without packets
  the device comes up with the carrier on and transmission disabled, and needs
  another reset.

## Proofs

Assumed are only `HAssumption`, `ReconfigAssumption` (initial numbers are
numbers, the stream is shorter than half the number space, at least one byte),
`PortsAssumption` (0 < MinPort < P, first destination port below MinPort),
`NamespaceAssumption` (`InitNet` is a namespace, there is at least one table, the
sets are finite, `None` is none of their elements), `WindowAssumption` (numbers
are numbers, a scaled window unit fits into MAX_WND_REC), `DriverAssumption` (the
ring is larger than any packet with the two descriptors kept free, and than
TX_WAKE_THRESHOLD, which is at least MAX_SKB_FRAGS + 2; a SYN or a message, with
the two, fits into those) and `RewriteAssumption` (more than four numbers, a time
shorter than half the number space, scales up to 14, to which
`dysco_tcp.c:125-139, 211-225` cut what a SYN says, addresses other than 0, and ends
of a plain session that saw each other's clocks) and `SetupAssumption` (there are two
hosts at least, the buckets of five-tuples are not that of the tag).

- `TypeCorrect`: `Spec => []TypeOK`. One step per action; the data path's
  actions rest on lemmas on what each operator returns.
- `StreamCorrect`: `Spec => []StreamIntact`, for all numbers, stream lengths,
  segment sizes, roles, with and without state transfer. `StreamIntact` is not
  inductive: a packet with a wrong number would be taken wrongly later. The
  invariant `StreamInv` adds `WireExact` (each packet on the new path has the
  number of its first byte) and `Numbers` (a DYSCO_SYN and the blocks made from
  it carry the left anchor's numbers, and a block in use exists). Its core is
  `RewriteShift`: an unsigned delta and a flag for its sign map the offset k
  from one initial number to the offset k from the other, for every wrap.
- `NothingLost`: `Spec => []AckedIsHeld`, as general. `AcksExact`: every ack on
  the new path's wire is the number of a position below which the receiver has all;
  that acks on the old path are, M sees to. An ack that is lowered goes to the old
  path (`NewPathAck`), and `HostAckTranslates` takes the number on the wire back to
  the position, whatever the anchors' initial numbers.
- `StreamImplemented`: `Spec => ImplementsStream`, from both. `Within` adds that
  nothing is anywhere that was not sent. One step for each kind of effect an
  action can have on the stream.
- `CutoffCorrect`: without state transfer `CutoffExact` and `AnnouncedCutoff`
  always hold. The handshake's invariant `Settled` relates states, messages and
  `filling`; `AnnouncedSwitched` is the reason that the read outside the lock is
  harmless: by the time anything is announced the anchor has switched, and
  after the switch only payload below the cutoff goes on the old path.
- `CutoffAgreed`: `CutoffAgreement` when the client's side sends. `Agreed`
  says that an ESTABLISHED right anchor has the cutoff of a DYSCO_ACK, and a
  DYSCO_ACK fixes the end of the old path's data.
- `SwitchedForGood`: `NewPathIsForGood` when the client's side sends, with state
  transfer. `Transferring`: nothing is on the new path before the left anchor is
  ESTABLISHED, and the reconfiguration block in its table keeps a DYSCO_SYN sent
  again from taking that back.
- `AcksStayApart`: `AcksSplitAtCutoff`, for data from the client's side without bare
  FINs. `Answering`: the new path carries data only after the right anchor's
  DYSCO_SYN_ACK came, and the right anchor then sees each segment of it, so that a
  missing cutoff is guessed from the first. `SplitAcks`: whatever the receiver has
  from beyond the guess came on the new path, and what M has does not exceed what the
  old path was used for.
- `ReleasedInTime`: `ReleasedWhenAcked`, for data from the server's side, with bare
  FINs and failing allocations. `dysco_in_two_paths_ack` compares the ack of the wire
  with a cutoff in the anchor's own numbers, so that the comparison may go either
  way. `Release` shows why that does no harm: no ack takes the new path before the
  receiver has all the old path's data (`LeftKnows`: the left anchor's cutoff is one
  announced, or nothing was sent below it), hence every ack on the new path
  already covers it (`Beyond`).
- `PortsStayApart`, `PairsFreshUntilTorn`: for any number of CPUs and any width
  of the counter. `CounterInv` keeps the halves in their ranges; `FreshInv`
  orders all pairs handed out before the counter, and says that the waiting
  CPUs have distinct source ports of the current round.
- `AllOthersFirst`: `SourcesRotate`. `RotateInv`: the source ports handed out last
  are those above the next one, in their order, then those below.
- `PairsOfSockets`, `ProxyThrottled`: `SocketsPaired` and `Throttled`, for all
  numbers, scales, buffers and streams. The second rests on `Cut`: each right edge
  that was announced, is on its way or was sent up to is either one of before the
  fix or at most two windows beyond what was read; and on `Noted`: the number that
  `dysco_fix_rcv_window` reads is that of a position not beyond what is received,
  although it may be older than the ack.
- `NumbersFollowed`: the invariant `NumbersRight` of a segment's way through the
  blocks: on the wire, at a middlebox and where it was taken, each number has
  its offset in the numbers of the session it is in, the clock values are of a
  time that was, and the echo is that of a segment taken before. From it
  `OffsetsAlwaysKept`, `EchoesReturn`, `OnlyOldDropped` and `NeverOverrun` follow, for all
  initial numbers, clocks and scales: `OffsetsKept`, `EchoReturns`,
  `DroppedWithinSkew`, `NoOverrun`. Translating twice with deltas of different signs
  is the arithmetic core (`WrapTwice`, and `RewriteShift` of `DyscoSeqProofs`).
- `ChecksumsRight`: `ChecksumsHold` for every size of a word and of a byte's number,
  all numbers, ports and clocks, and all addresses but 0, which no host has: with
  nothing but zeros in a segment, the sum of what was patched could be the other
  zero of one's complement. `SumsRight` says where a check stands for its
  segment, on the wire, at the middlebox and where it was taken, unless the carry
  was wrong. Sums are compared modulo one less than a word's values (`Cong`): each
  incremental update of a field keeps the relation (`CsumReplace4Is`,
  `SumWithCarryIs`), whatever was folded when, and as a sum of something never
  folds to 0, the receiver's test is exact (`SumsVerify`).
- `DriverInvariant`, `PacketsOwned`, `ChainsOnce`, `GoesOn`: of `DyscoDriver`, for every
  size of the ring and of its reserve, all packets and any number of resets. All
  positions are distances (`At`) from where the ring is clean, which moves with the
  poll (`Cleaned`), so that the wrap is dealt with in a few lemmas. `Ring`: cleaned,
  sent, told and queued follow each other (`Order`), each at the begin of a packet
  (`Whole`); `next_to_watch` of a packet is its end (`Watched`), and exactly the ends
  of sent packets are marked (`DoneIsSent`). This holds also when the ring was
  cleared while it was in use. `OneOwner` does not: until then, `Undisturbed` relates
  the queue, the batch and the tail; `Buffers` says that a buffer is in use only
  between clean and queued, or by the packet being mapped, and that what is unread
  is still in its buffer; `Balance`, that each step takes a packet from one owner to
  the next or frees it, needs both, and finite sets for those counted in the ring.
  `RewrittenOnce` rests on `RoomKept` (the queue is stopped, or there is the reserve,
  hence only data is handed back) and `Unwritten` (what still waits for the hook has
  no chain), with `Balance` to know that the packet at the hook is nowhere else.
  `NeverStuck` rests on `Watching` (the poll knows the next end, or an interrupt is
  due), `CaughtUp` (after the poll all that was sent is clean, or an interrupt is
  due) and `WakesUp` (where a transmission leaves the queue stopped over an empty
  ring, the poll is about to wake it, or has not cleaned with a carrier, or has
  stopped it for a stamp without a packet). Stamps themselves are not in the
  invariant: a failed mapping leaves them anywhere.
- `ChainFollowed`, `EndsAgree`, `SameSubsession`, `NumbersReach`: `ChainKept`,
  `HopsAgree`, `OneSubsession` and `NumbersKnown` of `DyscoSetup`, for every length of
  the chain, any number of sessions, and packets that are late, overtaken, or sent
  again. They are about the behaviours that start `Untranslated`: the middleboxes
  leave the five-tuples alone, and the sessions' five-tuples all share a bucket, or
  each has its own. With two sessions in one bucket and a third in another, `ChainKept`
  is false, because a pending block has one link for the lists of two tables (see
  above). Translated SYNs are left to TLC.
  `TablesRight` says of each list that its nodes are the blocks that belong to it,
  once each, in some order along the links; with one bucket the lists of both
  pending tables are the same one, with a bucket each those by five-tuple have a
  single node that leads on into the list of the tags. `TakenOut`: the second
  removal of a block finds what the first one left, and does no harm. That `Find`
  meets exactly the nodes of a list is an induction along the links; as the
  library's induction takes an operator, `FromZero` makes it an argument
  about the cardinality of an interval. The rest of the invariant `SetupInv` relates
  hosts: `BlocksRight` and `InputsRight` (each block of a direction has its
  counterparts at this host and at the next), `WireRight` and `InsideRight` (what a SYN
  or a SYN+ACK that is under way needs will be found), and `WorkRight` (what
  `dysco_output` has looked up is still right when it is used, although other
  sessions' packets have changed the lists since).
- `NoUseAfterFree`, `DeletedOnce`, `Isolation`: `ReadersSafe`, `FreedOnce` and
  `Isolated` for any number of namespaces, tables, policies, CPUs and users. None
  is inductive. The core is `Guarded`: a policy that a CPU can come to is of the
  CPU's namespace, is on its list or unlinked, and the user who waits to free it
  waits for this CPU too. `Reads` says that what the CPU looks at is guarded and
  that links lead from guarded policies to guarded ones only, those of unlinked
  policies included, which RCU leaves in place. `Chained`: links of what is on a list
  lead to what is on the list, and no policy follows two. `Victims`: what is unlinked
  waits for exactly one user. `Owned` and `Kept`: no two namespaces share a table,
  and a list and the blocks that keep chains have the policies of one namespace.
- `GoneForGood`: `DeletedForGood`. Readers still follow links of policies off the list.
  `Listed` says there is an order of each list along its links, so that an empty
  `first` means nothing is linked; `Gone` that what is gone for a SYN is off the
  list with all that leads to it. `RoomForAll`: `ServedWhileRoom`. `Supply`: every table
  is in the cache or a namespace's, and the cache was empty when a namespace was
  left without; the numbers then follow from a bijection.

Only model-checked: in `DyscoSetup` sessions that a middlebox translates, whose SYN is
found by the tag, where what holds of several such sessions depends on which of them meet
in a bucket; the properties of `DyscoLock`, some of which fail for other plans than
those of `MCLock` (see above), so that a theorem would need a condition on the plans,
and whose ports may ask, be refused and cancel over and over, so that its invariant
has to follow every message of every attempt, hence also that segments held at a time
do not overlap, which the run shows of five agents (`LocksSegments`: `SegmentLocks`
grants no others); and the liveness properties (`AllDelivered`, `Connected`,
`Answered`, `AllRead`, `DeletionEnds`, `Drained`), as the proof system has no support
for fairness.

## Not modelled

The vendored drivers make up nine tenths of the repository's lines: e1000 and
ixgbe are Intel's, with calls of Dysco's hooks added in a few places. `DyscoDriver`
has the part of e1000 that a packet passes after the hook; the rest (registers,
PHYs, EEPROMs, ethtool, SR-IOV, DCB) has no bearing on Dysco and is hardware
access. `dysco_proc.c` formats counters. The daemon and the control applications
are binaries. `src/user`, `scripts` and the experiments only set up testbeds.

## Plan

1. Done: `DyscoSeq`, `ReliableStream`, `DyscoReconfig`, `DyscoPorts`, `DyscoSetup`,
   `SegmentLocks`, `DyscoLock`, `DyscoChecksum`, `DyscoRewrite`, `DyscoWindow`,
   `DyscoNamespace`, `DyscoDriver`, and the proofs above.
2. Left in `DyscoSetup`: one session on two CPUs of a host, the options of the SYN,
   failing allocations.
3. Proofs left: the step from `DyscoLock` to `SegmentLocks`; a single translated session
   of `DyscoSetup`.
