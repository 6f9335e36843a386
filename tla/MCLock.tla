------------------------------- MODULE MCLock -------------------------------
(***************************************************************************)
(* Instances of DyscoLock for TLC.                                         *)
(***************************************************************************)
EXTENDS DyscoLock

Wants(lefts, rights, fails, completes) ==
    [left |-> [i \in Agents |-> IF i \in DOMAIN lefts THEN lefts[i] ELSE NoAgent],
     right |-> [i \in Agents |-> IF i \in DOMAIN rights THEN rights[i] ELSE NoAgent],
     fails |-> fails, completes |-> completes]

Nobody == [i \in {} |-> NoAgent]
Nowhere == N + 1

\* Requests that overlap each other, with agents that are not on the chain or not
\* to the right; the leftmost reconfiguration may come to its end.
Contention ==
    {Wants(<<4, 4, 5, 5>>, Nobody, {}, {1}),
     Wants(<<5, 3, 5, Nowhere>>, Nobody, {}, {1}),
     Wants(<<3, 5, 5>>, Nobody, {}, {1}),
     Wants(<<3, 4, 2>>, Nobody, {}, {1})}

\* One reconfiguration whose new path may fail.
Cancellation ==
    {Wants(<<4>>, Nobody, {1}, {1}), Wants(<<0, 5>>, Nobody, {2}, {2})}

\* The right end moves, or a middlebox takes itself out, while another agent asks.
RightRequests ==
    {Wants(<<4>>, [i \in {3} |-> 4], {}, {1}), Wants(<<3>>, [i \in {5} |-> 5], {}, {1})}

AllPlans == Contention \cup Cancellation \cup RightRequests

\* Both ports of a middlebox add the same offset, as in dysco3.pml.
SameBothWays == [p \in Port |-> IF IsEndpoint(p) THEN 0 ELSE 10 ^ Agent(p)]
=============================================================================
