----------------------------- MODULE DyscoLock -----------------------------
(***************************************************************************)
(* The locking of a segment of a session's chain by the Dysco agents, as   *)
(* model/dysco3.pml has it: the kernel runs a reconfiguration only after   *)
(* the agents have locked the subsessions between the two anchors.         *)
(*                                                                         *)
(* Agents 1 .. N stand in line.  Each has a port process for each of its   *)
(* sides; the two of a middlebox pass messages to each other (forward) and *)
(* each talks to the port at the other end of its subsession (addr).  The  *)
(* right-side port is the left end of a subsession and keeps its lock.     *)
(* Data is left out: the session is in use until SessionEnds.  The new     *)
(* path is its handshake, which its components let through or not.         *)
(***************************************************************************)
EXTENDS Integers, Sequences, FiniteSets, Functions

CONSTANTS
    N,              \* the agents are 1 .. N; 1 and N are the ends of the session
    Plans,          \* the reconfigurations the agents may want, see Plan
    Offsets,        \* Offsets[p]: the delta of port p
    MaxLost,        \* bound: locking messages lost
    Ends            \* whether the session may end meanwhile

Agents == 1 .. N
NoAgent == 0
Addresses == 1 .. N + 1     \* N + 1: an address of nobody on the chain

R(i) == <<"R", i>>
L(i) == <<"L", i>>
NoPort == <<"none", 0>>
Rights == {R(i) : i \in 1 .. N - 1}
Lefts == {L(i) : i \in 2 .. N}
Port == Rights \cup Lefts
Agent(p) == p[2]
IsEndpoint(p) == Agent(p) \in {1, N}
Pair(p) == IF p \in Rights THEN L(Agent(p)) ELSE R(Agent(p))

\* left[i]: the right anchor of i's own reconfiguration; right[i]: the one i asks
\* its left neighbor for, to move or to take itself out; fails, completes: the
\* agents whose new path may fail, whose old path may come to its end.
Plan == [left : [Agents -> Addresses \cup {NoAgent}],
         right : [Agents -> Addresses \cup {NoAgent}],
         fails : SUBSET Agents, completes : SUBSET Agents]

ASSUME LockAssumption ==
    /\ N \in Nat /\ N > 1
    /\ Plans \subseteq Plan
    /\ Offsets \in [Port -> Int]
    /\ MaxLost \in Nat
    /\ Ends \in BOOLEAN

VARIABLES
    plan,
    inUse,          \* sending \/ receiving
    lost,           \* locking messages lost so far
    addr, forward,  \* the messages to each port from outside and from its pair
    farLoc,         \* the port at the other end of the subsession
    newFarLoc,      \* the port at the other end of the new path
    st,             \* where the port process is
    requesting,
    reconfigured,   \* the port has had its one reconfiguration
    lockPending, locked, requestor,
    otherAnchor,
    kept,           \* requestPendingRequestor, ..Anchor, ..Delta
    delta, newDelta,
    contended       \* history: requests that met an overlapping held segment

lockState == <<lockPending, locked, requestor>>
anchorState == <<newFarLoc, requesting, reconfigured, otherAnchor, kept, newDelta>>
path == <<farLoc, delta>>
env == <<plan, inUse>>
vars == <<env, lost, addr, forward, path, st, anchorState, lockState, contended>>

Message(t, req, anc, d) == [t |-> t, req |-> req, anc |-> anc, d |-> d]
Signal(t) == Message(t, NoAgent, NoAgent, 0)
NoRequest == Signal("none")

Types == {"requestLock", "ackLock", "nackLock", "lockTimeout", "cancelLock",
          "ackCancel", "rightRequest", "syn", "synAck", "ack", "synTimeout", "none"}
MessageType == [t : Types, req : Addresses \cup {NoAgent},
                anc : Addresses \cup {NoAgent}, d : Int]

TypeOK ==
    /\ plan \in Plans
    /\ inUse \in BOOLEAN
    /\ lost \in 0 .. MaxLost
    /\ DOMAIN addr = Port /\ DOMAIN forward = Port
    /\ \A p \in Port :
          /\ \A i \in 1 .. Len(addr[p]) :
                addr[p][i].m \in MessageType /\ addr[p][i].src \in Port
          /\ \A i \in 1 .. Len(forward[p]) : forward[p][i] \in MessageType
    /\ farLoc \in [Port -> Port]
    /\ newFarLoc \in [Port -> Port \cup {NoPort}]
    /\ st \in [Port -> {"OnePath", "Anchoring", "TwoPaths"}]
    /\ requesting \in [Port -> BOOLEAN]
    /\ reconfigured \in [Port -> BOOLEAN]
    /\ lockPending \in [Port -> BOOLEAN] /\ locked \in [Port -> BOOLEAN]
    /\ requestor \in [Port -> Addresses \cup {NoAgent}]
    /\ otherAnchor \in [Port -> Addresses \cup {NoAgent}]
    /\ kept \in [Port -> MessageType]
    /\ delta \in [Port -> Int] /\ newDelta \in [Port -> Int]
    /\ contended \subseteq Agents

Init ==
    /\ plan \in Plans
    /\ inUse = TRUE
    /\ lost = 0
    /\ addr = [p \in Port |-> <<>>] /\ forward = [p \in Port |-> <<>>]
    /\ farLoc = [p \in Port |-> IF p \in Rights THEN L(Agent(p) + 1) ELSE R(Agent(p) - 1)]
    /\ newFarLoc = [p \in Port |-> NoPort]
    /\ st = [p \in Port |-> "OnePath"]
    /\ requesting = [p \in Port |-> FALSE]
    /\ reconfigured = [p \in Port |-> FALSE]
    /\ lockPending = [p \in Port |-> FALSE] /\ locked = [p \in Port |-> FALSE]
    /\ requestor = [p \in Port |-> NoAgent]
    /\ otherAnchor = [p \in Port |-> NoAgent]
    /\ kept = [p \in Port |-> NoRequest]
    /\ delta = Offsets /\ newDelta = [p \in Port |-> 0]
    /\ contended = {}

-----------------------------------------------------------------------------
(* Channels.                                                               *)

Take(q, p) == [q EXCEPT ![p] = Tail(@)]
Put(q, p, m) == [q EXCEPT ![p] = Append(@, m)]
From(p, m) == [src |-> p, m |-> m]

\* addr[nearLoc]?type(UDP, eval(farLoc), ...): the first message, if it is of that
\* type and from that port.  Nothing behind another one is received.
FirstFrom(p, far, t) ==
    /\ addr[p] # <<>>
    /\ Head(addr[p]).m.t = t
    /\ Head(addr[p]).src = far
Arrives(p, t) == FirstFrom(p, farLoc[p], t)
ArrivesNew(p, t) == FirstFrom(p, newFarLoc[p], t)
Arrived(p) == Head(addr[p]).m
Forwarded(p, t) == forward[p] # <<>> /\ Head(forward[p]).t = t

\* What a port does with the message it takes: hand it to its pair, send it on to
\* the other end of its subsession, or answer there.
Across(p, m) == addr' = Take(addr, p) /\ forward' = Put(forward, Pair(p), m)
Onward(p, m) == forward' = Take(forward, p) /\ addr' = Put(addr, farLoc[p], From(p, m))
Reply(p, to, m) == addr' = Put(Take(addr, p), to, From(p, m)) /\ UNCHANGED forward
Consume(p) == addr' = Take(addr, p) /\ UNCHANGED forward

Lose == lost < MaxLost /\ lost' = lost + 1

-----------------------------------------------------------------------------
(* Asking for a segment.                                                   *)

\* The lock itself is not looked at.
FreeBugIgnoresLocked(p) == ~reconfigured[p] /\ inUse /\ ~lockPending[p]

\* A port that a reconfiguration is to begin at: none went before, the connection
\* is used, and no other operation is in progress.
Free(p) == ~reconfigured[p] /\ inUse /\ ~lockPending[p] /\ ~locked[p]

Overlap(l, r, m, s) == l < s /\ m < r

\* The left anchors whose request was granted: they hold until the cancel is
\* acknowledged or the old path is gone.
Holds(p) == st[p] # "OnePath" /\ ~requesting[p] /\ p \in Rights
Holders == {l \in 1 .. N - 1 : Holds(R(l))}

BecomeLeftAnchor(p, r) ==
    /\ lockPending' = [lockPending EXCEPT ![p] = TRUE]
    /\ requestor' = [requestor EXCEPT ![p] = Agent(p)]
    /\ reconfigured' = [reconfigured EXCEPT ![p] = TRUE]
    /\ otherAnchor' = [otherAnchor EXCEPT ![p] = r]
    /\ newFarLoc' = [newFarLoc EXCEPT ![p] = IF r \in Agents THEN L(r) ELSE NoPort]
    /\ requesting' = [requesting EXCEPT ![p] = TRUE]
    /\ st' = [st EXCEPT ![p] = "Anchoring"]
    /\ contended' = IF \E m \in Holders :
                          Overlap(Agent(p), r, m, otherAnchor[R(m)])
                    THEN contended \cup {Agent(p)} ELSE contended
    /\ UNCHANGED <<env, lost, path, locked, kept, newDelta>>

RequestLock(p) == Message("requestLock", Agent(p), otherAnchor'[p], 0)

ChooseLeftAnchor(p) ==
    /\ p \in Rights /\ st[p] = "OnePath" /\ Free(p)
    /\ plan.left[Agent(p)] # NoAgent
    /\ BecomeLeftAnchor(p, plan.left[Agent(p)])
    /\ addr' = Put(addr, farLoc[p], From(p, RequestLock(p)))
    /\ UNCHANGED forward

\* A mobile end, or a middlebox that wants to leave, asks its left neighbor.
SendRightRequest(p) ==
    /\ p \in Lefts /\ st[p] = "OnePath" /\ Free(p)
    /\ plan.right[Agent(p)] # NoAgent
    /\ addr' = Put(addr, farLoc[p],
                   From(p, Message("rightRequest", plan.right[Agent(p)], NoAgent, 0)))
    /\ reconfigured' = [reconfigured EXCEPT ![p] = TRUE]
    /\ UNCHANGED <<env, lost, forward, path, st, newFarLoc, requesting, otherAnchor,
                   kept, newDelta, lockState, contended>>

RightRequestArrives(p) ==
    /\ st[p] = "OnePath" /\ Arrives(p, "rightRequest")
    /\ \/ /\ Free(p)
          /\ BecomeLeftAnchor(p, Arrived(p).req)
          /\ Reply(p, farLoc[p], RequestLock(p))
       \/ /\ ~Free(p)
          /\ Consume(p)
          /\ UNCHANGED <<env, lost, path, st, anchorState, lockState, contended>>

-----------------------------------------------------------------------------
(* In normal operation, OnePath.                                           *)

\* The offset replaces the sum.
WithDeltaBugReplaces(p, m) == [m EXCEPT !.d = delta[p]]

WithDelta(p, m) == [m EXCEPT !.d = @ + delta[p]]

\* The right anchor is found.
RequestFound(p) ==
    /\ st[p] = "OnePath" /\ p \in Lefts /\ Arrives(p, "requestLock")
    /\ Arrived(p).anc = Agent(p)
    /\ \/ /\ inUse
          /\ otherAnchor' = [otherAnchor EXCEPT ![p] = Arrived(p).req]
          /\ newDelta' = [newDelta EXCEPT ![p] = Arrived(p).d]
          /\ newFarLoc' = [newFarLoc EXCEPT ![p] = R(Arrived(p).req)]
          /\ st' = [st EXCEPT ![p] = "Anchoring"]
          /\ Reply(p, farLoc[p], Message("ackLock", Arrived(p).req, Agent(p), 0))
       \/ /\ ~inUse
          /\ Consume(p)
          /\ UNCHANGED <<otherAnchor, newDelta, newFarLoc, st>>
    /\ UNCHANGED <<env, lost, path, requesting, reconfigured, kept, lockState, contended>>

\* endOnePath: normal transmission in a middlebox.
Relays(p) == st[p] = "OnePath" /\ ~IsEndpoint(p)

relayed == <<env, path, st, anchorState, contended>>

\* A middlebox passes the request on; the right end refuses it.  The message may
\* be lost here.
RequestArrives(p) ==
    /\ st[p] = "OnePath" /\ p \in Lefts /\ Arrives(p, "requestLock")
    /\ Arrived(p).anc # Agent(p)
    /\ \/ /\ ~IsEndpoint(p)
          /\ Across(p, Arrived(p))
          /\ UNCHANGED lost
       \/ /\ IsEndpoint(p)
          /\ Reply(p, farLoc[p], Message("nackLock", Arrived(p).req, Arrived(p).anc, 0))
          /\ UNCHANGED lost
       \/ /\ Reply(p, farLoc[p], Signal("lockTimeout"))
          /\ Lose
    /\ UNCHANGED <<relayed, lockState>>

RequestPasses(p) ==
    /\ Relays(p) /\ p \in Rights /\ Forwarded(p, "requestLock")
    /\ LET m == Head(forward[p]) IN
          /\ Onward(p, WithDelta(p, m))
          /\ lockPending' = [lockPending EXCEPT ![p] = TRUE]
          /\ requestor' = [requestor EXCEPT ![p] = m.req]
    /\ UNCHANGED <<relayed, lost, locked>>

\* The subsession stays lockPending.
LockBugStaysPending(p) == UNCHANGED <<lockPending, locked>>

Lock(p) ==
    /\ lockPending' = [lockPending EXCEPT ![p] = FALSE]
    /\ locked' = [locked EXCEPT ![p] = TRUE]

AckArrives(p) ==
    /\ Relays(p) /\ p \in Rights /\ Arrives(p, "ackLock")
    /\ \/ /\ Lock(p)
          /\ Across(p, Arrived(p))
          /\ UNCHANGED lost
       \/ /\ Across(p, Signal("lockTimeout"))
          /\ Lose
          /\ UNCHANGED <<lockPending, locked>>
    /\ UNCHANGED <<relayed, requestor>>

\* The requestor is left behind.
UnlockBugKeepsRequestor(p) ==
    /\ lockPending' = [lockPending EXCEPT ![p] = FALSE]
    /\ locked' = [locked EXCEPT ![p] = FALSE]
    /\ UNCHANGED requestor

Unlock(p) ==
    /\ lockPending' = [lockPending EXCEPT ![p] = FALSE]
    /\ locked' = [locked EXCEPT ![p] = FALSE]
    /\ requestor' = [requestor EXCEPT ![p] = NoAgent]

NackArrives(p) ==
    /\ Relays(p) /\ p \in Rights /\ Arrives(p, "nackLock")
    /\ Unlock(p)
    /\ Across(p, Arrived(p))
    /\ UNCHANGED <<relayed, lost>>

CancelPasses(p) ==
    /\ Relays(p) /\ p \in Rights /\ Forwarded(p, "cancelLock")
    /\ Unlock(p)
    /\ Onward(p, Head(forward[p]))
    /\ UNCHANGED <<relayed, lost>>

\* What a middlebox hands across and on without a look at its lock.
AcrossUntouched(p) ==
    /\ Relays(p)
    /\ \E t \in {"lockTimeout", "cancelLock", "ackCancel"} : Arrives(p, t)
    /\ Across(p, Arrived(p))
    /\ UNCHANGED <<relayed, lost, lockState>>

OnwardUntouched(p) ==
    /\ Relays(p)
    /\ \E t \in {"ackLock", "nackLock", "lockTimeout", "ackCancel"} : Forwarded(p, t)
    /\ LET m == Head(forward[p]) IN
          Onward(p, IF m.t = "ackLock" THEN WithDelta(p, m) ELSE m)
    /\ UNCHANGED <<relayed, lost, lockState>>

-----------------------------------------------------------------------------
(* The left anchor.                                                        *)

\* The refusal names the right anchor.
RefusalBugNamesAnchor(m) == Message("nackLock", m.anc, NoAgent, 0)

Refusal(m) == Message("nackLock", m.req, NoAgent, 0)

\* A request from the left waits for the answer to the anchor's own, or is refused.
RequestAtAnchor(p) ==
    /\ st[p] # "OnePath" /\ p \in Rights /\ Forwarded(p, "requestLock")
    /\ LET m == Head(forward[p]) IN
          \/ /\ st[p] = "Anchoring" /\ requesting[p]
             /\ kept' = [kept EXCEPT ![p] = m]
             /\ forward' = Take(forward, p)
          \/ /\ st[p] = "TwoPaths" \/ ~requesting[p]
             /\ forward' = Put(Take(forward, p), Pair(p), Refusal(m))
             /\ UNCHANGED kept
    /\ UNCHANGED <<env, lost, addr, path, st, newFarLoc, requesting, reconfigured,
                   otherAnchor, newDelta, lockState, contended>>

\* Those who ask for a part of the segment that is now held.
Contenders(p) ==
    {l \in 1 .. N - 1 : /\ requesting[R(l)] /\ R(l) # p
                        /\ Overlap(l, otherAnchor[R(l)], Agent(p), otherAnchor[p])}

\* The segment is locked: whoever was kept waiting is refused, and the new path
\* is set up.
SegmentGranted(p) ==
    /\ st[p] = "Anchoring" /\ p \in Rights /\ Arrives(p, "ackLock")
    /\ \/ /\ inUse
          /\ addr' = Put(Take(addr, p), newFarLoc[p], From(p, Signal("syn")))
          /\ forward' = IF kept[p] = NoRequest THEN forward
                        ELSE Put(forward, Pair(p), Refusal(kept[p]))
          /\ kept' = [kept EXCEPT ![p] = NoRequest]
          /\ locked' = [locked EXCEPT ![p] = TRUE]
          /\ requestor' = [requestor EXCEPT ![p] = NoAgent]
          /\ newDelta' = [newDelta EXCEPT ![p] = Arrived(p).d]
          /\ requesting' = [requesting EXCEPT ![p] = FALSE]
          /\ contended' = contended \cup Contenders(p)
       \/ /\ ~inUse
          /\ Consume(p)
          /\ UNCHANGED <<kept, locked, requestor, newDelta, requesting, contended>>
    /\ UNCHANGED <<env, lost, path, st, newFarLoc, reconfigured, otherAnchor, lockPending>>

\* The segment is refused: the request that was kept waiting goes on instead.
SegmentRefused(p) ==
    /\ st[p] = "Anchoring" /\ p \in Rights /\ Arrives(p, "nackLock")
    /\ newFarLoc' = [newFarLoc EXCEPT ![p] = NoPort]
    /\ otherAnchor' = [otherAnchor EXCEPT ![p] = NoAgent]
    /\ \/ /\ kept[p] # NoRequest
          /\ Reply(p, farLoc[p], WithDelta(p, kept[p]))
          /\ requestor' = [requestor EXCEPT ![p] = kept[p].req]
          /\ UNCHANGED lockPending
       \/ /\ kept[p] = NoRequest
          /\ Consume(p)
          /\ requestor' = [requestor EXCEPT ![p] = NoAgent]
          /\ lockPending' = [lockPending EXCEPT ![p] = FALSE]
    /\ kept' = [kept EXCEPT ![p] = NoRequest]
    /\ requesting' = [requesting EXCEPT ![p] = FALSE]
    /\ st' = [st EXCEPT ![p] = "OnePath"]
    /\ UNCHANGED <<env, lost, path, reconfigured, newDelta, locked, contended>>

LockTimeout(p) ==
    /\ st[p] = "Anchoring" /\ p \in Rights /\ Arrives(p, "lockTimeout")
    /\ \/ /\ inUse
          /\ Reply(p, farLoc[p], Message("requestLock", Agent(p), otherAnchor[p], 0))
          /\ UNCHANGED <<st, requesting>>
       \/ /\ ~inUse
          /\ Consume(p)
          /\ requesting' = [requesting EXCEPT ![p] = FALSE]
          /\ st' = [st EXCEPT ![p] = "OnePath"]
    /\ UNCHANGED <<env, lost, path, newFarLoc, reconfigured, otherAnchor, kept, newDelta,
                   lockState, contended>>

anchored == <<env, lost, reconfigured, otherAnchor, kept, requesting, lockState, contended>>

\* What both anchors do when the new path is up.
EnterTwoPaths(p) ==
    /\ st' = [st EXCEPT ![p] = "TwoPaths"]
    /\ newDelta' = [newDelta EXCEPT ![p] = @ + delta[p]]
    /\ UNCHANGED <<anchored, path, newFarLoc>>

SynAckArrives(p) ==
    /\ st[p] = "Anchoring" /\ p \in Rights /\ ArrivesNew(p, "synAck")
    /\ \/ /\ inUse
          /\ Reply(p, newFarLoc[p], Signal("ack"))
          /\ EnterTwoPaths(p)
       \/ /\ ~inUse
          /\ Consume(p)
          /\ UNCHANGED <<anchored, path, newFarLoc, st, newDelta>>

\* The new path has failed: the segment is given back.
SynTimeout(p) ==
    /\ st[p] = "Anchoring" /\ p \in Rights /\ ArrivesNew(p, "synTimeout")
    /\ Reply(p, farLoc[p], Message("cancelLock", Agent(p), NoAgent, 0))
    /\ UNCHANGED <<anchored, path, newFarLoc, st, newDelta>>

CancelAcked(p) ==
    /\ st[p] = "Anchoring" /\ p \in Rights /\ Arrives(p, "ackCancel")
    /\ Consume(p)
    /\ st' = [st EXCEPT ![p] = "OnePath"]
    /\ UNCHANGED <<anchored, path, newFarLoc, newDelta>>

-----------------------------------------------------------------------------
(* The right anchor.                                                       *)

\* A request that was answered before is ignored.
RequestAgainBugIgnored(p) ==
    /\ st[p] = "Anchoring" /\ p \in Lefts /\ Arrives(p, "requestLock")
    /\ Consume(p)
    /\ UNCHANGED <<anchored, path, newFarLoc, st, newDelta>>

\* A request sent again because it, or the answer to it, was lost.
RequestAgain(p) ==
    /\ st[p] = "Anchoring" /\ p \in Lefts /\ Arrives(p, "requestLock")
    /\ Reply(p, farLoc[p], Message("ackLock", Arrived(p).req, Arrived(p).anc, 0))
    /\ UNCHANGED <<anchored, path, newFarLoc, st, newDelta>>

\* addr[newNearLoc]?syn.  A component of the new path may have failed: then the
\* left anchor gets a timeout, for the syn or for the answer to it.
SynArrives(p) ==
    /\ st[p] = "Anchoring" /\ p \in Lefts /\ ArrivesNew(p, "syn")
    /\ \/ inUse /\ Reply(p, newFarLoc[p], Signal("synAck"))
       \/ ~inUse /\ Consume(p)
    /\ UNCHANGED <<anchored, path, newFarLoc, st, newDelta>>

NewPathFails(p, t) ==
    /\ addr[p] # <<>> /\ Head(addr[p]).m.t = t
    /\ LET q == Head(addr[p]).src  l == IF t = "syn" THEN q ELSE p IN
          /\ Agent(l) \in plan.fails
          /\ addr' = Put(Take(addr, p), l,
                         From(IF t = "syn" THEN p ELSE q, Signal("synTimeout")))
    /\ UNCHANGED <<anchored, forward, path, newFarLoc, st, newDelta>>

NewPathUp(p) ==
    /\ st[p] = "Anchoring" /\ p \in Lefts /\ ArrivesNew(p, "ack")
    /\ Consume(p)
    /\ EnterTwoPaths(p)

CancelArrives(p) ==
    /\ st[p] = "Anchoring" /\ p \in Lefts /\ Arrives(p, "cancelLock")
    /\ Reply(p, farLoc[p], Message("ackCancel", Arrived(p).req, NoAgent, 0))
    /\ st' = [st EXCEPT ![p] = "OnePath"]
    /\ UNCHANGED <<anchored, path, newFarLoc, newDelta>>

-----------------------------------------------------------------------------
(* The end of a reconfiguration, and of the session.                       *)

SwitchPath(p) ==
    /\ farLoc' = [farLoc EXCEPT ![p] = newFarLoc[p]]
    /\ newFarLoc' = [newFarLoc EXCEPT ![p] = NoPort]

\* CheckCompletion: all of the old path's data has been acknowledged.
CheckCompletion(p) ==
    /\ st[p] = "TwoPaths"
    /\ (IF p \in Rights THEN Agent(p) ELSE otherAnchor[p]) \in plan.completes
    /\ locked' = [locked EXCEPT ![p] = FALSE]
    /\ otherAnchor' = [otherAnchor EXCEPT ![p] = NoAgent]
    /\ SwitchPath(p)
    /\ delta' = [delta EXCEPT ![p] = newDelta[p]]
    /\ newDelta' = [newDelta EXCEPT ![p] = 0]
    /\ reconfigured' = [reconfigured EXCEPT ![p] = TRUE]
    /\ st' = [st EXCEPT ![p] = "OnePath"]
    /\ UNCHANGED <<env, lost, addr, forward, requesting, kept, lockPending, requestor,
                   contended>>

SessionEnds ==
    /\ Ends /\ inUse
    /\ inUse' = FALSE
    /\ UNCHANGED <<plan, lost, addr, forward, path, st, anchorState, lockState, contended>>

\* What a port does with the next message to it.
Receive(p) ==
    \/ RightRequestArrives(p) \/ RequestFound(p) \/ RequestArrives(p) \/ RequestPasses(p)
    \/ AckArrives(p) \/ NackArrives(p) \/ CancelPasses(p) \/ AcrossUntouched(p)
    \/ OnwardUntouched(p)
    \/ RequestAtAnchor(p) \/ SegmentGranted(p) \/ SegmentRefused(p) \/ LockTimeout(p)
    \/ SynAckArrives(p) \/ SynTimeout(p) \/ CancelAcked(p)
    \/ RequestAgain(p) \/ SynArrives(p) \/ NewPathUp(p) \/ CancelArrives(p)

Next ==
    \/ \E p \in Port :
          \/ Receive(p)
          \/ ChooseLeftAnchor(p) \/ SendRightRequest(p)
          \/ \E t \in {"syn", "synAck"} : NewPathFails(p, t)
          \/ CheckCompletion(p)
    \/ SessionEnds

Spec == Init /\ [][Next]_vars

\* A port process does not stop with a message it can receive.
FairSpec == Spec /\ \A p \in Port : WF_vars(Receive(p))

-----------------------------------------------------------------------------
(* Properties.                                                             *)

\* The agents no reconfiguration has taken out: no subsession jumps over them.
Chain == {a \in Agents : \A i \in 1 .. a - 1 : Agent(farLoc[R(i)]) <= a}

Asking(l) == requesting[R(l)]
LockStatus(l) ==
    CASE ~reconfigured[R(l)] -> "idle"
      [] Asking(l) -> "asking"
      [] Holds(R(l)) -> "holds"
      [] OTHER -> "over"

Locks == INSTANCE SegmentLocks WITH
    status <- [l \in 1 .. N - 1 |-> LockStatus(l)],
    right <- [l \in 1 .. N - 1 |->
                 IF LockStatus(l) \in {"asking", "holds"} THEN otherAnchor[R(l)]
                 ELSE NoAgent],
    chain <- Chain,
    used <- inUse

\* The agents' locks and messages implement the locking of segments: two anchors
\* never hold overlapping segments, and a request is only refused when someone
\* held a part of its segment meanwhile or its right anchor is not on the chain
\* (model/dysco3.txt, section 2.2).
LocksSegments == Locks!LocksSpec

\* The left anchor's cancelLock, or the answer to it, is under way.
Cancelling(p) ==
    \E q \in Port :
        LET ms == {addr[q][i].m : i \in DOMAIN addr[q]} \cup Range(forward[q])
        IN  \E m \in ms : m.t \in {"cancelLock", "ackCancel"} /\ m.req = Agent(p)

\* The middleboxes locked for the left anchor l.
LockedFor(l) == {i \in 2 .. N - 1 : requestor[R(i)] = l /\ locked[R(i)]}

\* While an anchor holds its segment and does not give it back, every subsession
\* of the segment is locked for it, in spite of requests that were lost and sent
\* again.
SegmentLocked ==
    \A p \in Rights :
        Holds(p) /\ ~Cancelling(p) =>
            LockedFor(Agent(p)) = {i \in Chain : Agent(p) < i /\ i < otherAnchor[p]}

\* No lock outlives what it was taken for: a subsession that is locked, or about
\* to be, is so for an anchor at work.  Refusals and cancellations clear every
\* port they pass before the anchor goes back to OnePath.
NoOrphanLocks ==
    inUse => \A i \in Chain \ {N} :
        requestor[R(i)] # NoAgent => st[R(requestor[R(i)])] # "OnePath"

\* The assertions of the port processes on the messages they take, as long as the
\* session is in use.
AssertionsHold ==
    inUse => \A p \in Port :
        LET m == Arrived(p)
            f == Head(forward[p])
            mine == (locked[p] \/ lockPending[p])
        IN
        /\ st[p] = "OnePath" /\ Forwarded(p, "requestLock") =>
              ~lockPending[p] \/ f.req = requestor[p]
        /\ st[p] = "OnePath" /\ (Arrives(p, "ackLock") \/ Arrives(p, "nackLock")) =>
              mine /\ m.req = requestor[p]
        /\ st[p] = "OnePath" /\ Forwarded(p, "cancelLock") =>
              locked[p] /\ f.req = requestor[p]
        /\ st[p] = "Anchoring" /\ Arrives(p, "ackLock") => mine /\ m.anc = otherAnchor[p]
        /\ st[p] = "Anchoring" /\ Arrives(p, "nackLock") => mine /\ m.req = Agent(p)
        /\ st[p] = "Anchoring" /\ Arrives(p, "requestLock") =>
              m.req = otherAnchor[p] /\ m.anc = Agent(p) /\ m.d = newDelta[p]
        /\ st[p] = "Anchoring" /\ Arrives(p, "cancelLock") => m.req = otherAnchor[p]
        /\ st[p] = "Anchoring" /\ Arrives(p, "ackCancel") => m.req = Agent(p)

\* What the ports from p to its segment's other anchor add to the numbers that go
\* that way.
OldPathDelta(p) ==
    delta[p] + FoldFunctionOnSet(+, 0, delta,
        IF p \in Rights THEN {R(i) : i \in LockedFor(Agent(p))}
        ELSE {L(i) : i \in LockedFor(otherAnchor[p])})

\* Numbers carry over to the new path: what an anchor adds to the numbers it sends
\* there is what the old path added to them from it to the other anchor
\* (model/dysco3.txt, section 2.3, on the deltas).
NumbersCarryOver ==
    \A p \in Port : st[p] = "TwoPaths" => newDelta[p] = OldPathDelta(p)

\* Every attempt comes to an end: the left anchor gets an answer to its request,
\* and then the new path or the cancellation, unless the session ends.
Answered ==
    \A p \in Port : st[p] = "Anchoring" ~> st[p] # "Anchoring" \/ ~inUse
=============================================================================
