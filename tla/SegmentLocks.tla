---------------------------- MODULE SegmentLocks ----------------------------
(***************************************************************************)
(* What the locking protocol of the agents on a chain promises (section 2  *)
(* of model/dysco3.txt).  Agents 1 .. N stand in line; an agent l asks for *)
(* the segment of subsessions from itself to an agent r on its right.      *)
(* Segments held at the same time do not overlap, and contention alone     *)
(* never has a request refused: someone then holds an overlapping segment. *)
(***************************************************************************)
EXTENDS Integers

CONSTANTS
    N           \* the agents are 1 .. N

Agents == 1 .. N
NoAgent == 0
Addresses == 1 .. N + 1     \* N + 1: an address of nobody on the chain
LeftAnchors == 1 .. N - 1

VARIABLES
    status,     \* status[l]: what became of l's request: "idle", "asking", "holds", "over"
    right,      \* right[l]: the right anchor it is for
    contended,  \* those whose request met an overlapping segment that is held
    chain,      \* the agents that no reconfiguration has removed yet
    used        \* the session is not over

lockVars == <<status, right, contended, chain, used>>

\* The subsessions from l to r and those from m to s have one in common.
Overlap(l, r, m, s) == l < s /\ m < r

Overlapping(l, m) == Overlap(l, right[l], m, right[m])
Holders == {l \in LeftAnchors : status[l] = "holds"}

LocksInit ==
    /\ status = [l \in LeftAnchors |-> "idle"]
    /\ right = [l \in LeftAnchors |-> NoAgent]
    /\ contended = {}
    /\ chain = Agents
    /\ used = TRUE

Ask(l, r) ==
    /\ status[l] = "idle"
    /\ status' = [status EXCEPT ![l] = "asking"]
    /\ right' = [right EXCEPT ![l] = r]
    /\ contended' = IF \E m \in Holders : Overlap(l, r, m, right[m])
                    THEN contended \cup {l} ELSE contended
    /\ UNCHANGED <<chain, used>>

\* Only if no overlapping segment is held: "there are no concurrent reconfigurations
\* of overlapping segments of a session" (model/dysco3.txt, section 2.1).  Whoever
\* asks for a part of the segment now has a reason to be refused.
Grant(l) ==
    /\ status[l] = "asking"
    /\ \A m \in Holders : ~Overlapping(l, m)
    /\ status' = [status EXCEPT ![l] = "holds"]
    /\ contended' = contended \cup {m \in LeftAnchors :
                        status[m] = "asking" /\ m # l /\ Overlapping(l, m)}
    /\ UNCHANGED <<right, chain, used>>

Close(l) ==
    /\ status' = [status EXCEPT ![l] = "over"]
    /\ right' = [right EXCEPT ![l] = NoAgent]

Refuse(l) ==
    /\ status[l] = "asking"
    /\ l \in contended \/ right[l] <= l \/ right[l] \notin chain
    /\ Close(l)
    /\ UNCHANGED <<contended, chain, used>>

GiveUp(l) ==
    /\ status[l] = "asking" /\ ~used
    /\ Close(l)
    /\ UNCHANGED <<contended, chain, used>>

Cancel(l) ==
    /\ status[l] = "holds"
    /\ Close(l)
    /\ UNCHANGED <<contended, chain, used>>

\* The agents inside the segment leave the chain.
Finish(l) ==
    /\ status[l] = "holds"
    /\ chain' = {a \in chain : a <= l \/ right[l] <= a}
    /\ Close(l)
    /\ UNCHANGED <<contended, used>>

End ==
    /\ used
    /\ used' = FALSE
    /\ UNCHANGED <<status, right, contended, chain>>

LocksNext ==
    \/ \E l \in LeftAnchors :
          \/ \E r \in Addresses : Ask(l, r)
          \/ Grant(l) \/ Refuse(l) \/ GiveUp(l) \/ Cancel(l) \/ Finish(l)
    \/ End

LocksSpec == LocksInit /\ [][LocksNext]_lockVars
=============================================================================
