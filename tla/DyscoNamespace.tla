--------------------------- MODULE DyscoNamespace ---------------------------
(***************************************************************************)
(* Network namespaces and their policies.  Each namespace gets its tables  *)
(* from a cache when its first device appears.  A policy is a filter and a *)
(* service chain; users add and delete policies while CPUs that handle     *)
(* SYNs walk the list under RCU and take the chain of the one that         *)
(* matches, which the session's control block keeps.                       *)
(***************************************************************************)
EXTENDS Naturals, FiniteSets

CONSTANTS
    Nets, InitNet,  \* the namespaces, init_net among them
    Slots,          \* the tables: one for init_net and the cache
    Policies,       \* the policies that are ever added: none comes back
    Cpus,           \* those that handle packets
    Users,          \* those that send netlink messages
    None

ASSUME NamespaceAssumption ==
    /\ InitNet \in Nets
    /\ Slots # {} /\ IsFiniteSet(Slots) /\ IsFiniteSet(Nets) /\ IsFiniteSet(Policies)
    /\ None \notin Nets \cup Slots \cup Policies

VARIABLES
    cache,          \* ns_hashes: the tables that no namespace has
    table,          \* ns_hash_table
    seen,           \* history: the namespaces that had a device
    nl_sk,          \* the namespaces with a netlink socket
    first, next,    \* the list of policies of each namespace
    status,         \* of a policy: unused, linked, unlinked or freed
    owner,          \* history: the namespace that a policy belongs to
    gone,           \* history: policies deleted for a user, not freed yet
    blocks,         \* blocks[d]: the chains that d's control blocks point to
    cpu, user       \* what the CPUs and the users are about to do

lists == <<first, next, status, owner>>
tables == <<cache, table, seen, nl_sk>>
vars == <<tables, lists, gone, blocks, cpu, user>>

\* pc walk: at is the next policy to look at; found: it has matched; again: at is
\* the chain of the block that a SYN sent again has found.
Idle == [pc |-> "idle", net |-> InitNet, dh |-> None, at |-> None, gone |-> {}]
UserIdle == [pc |-> "idle", dh |-> None, victim |-> None, wait |-> {}]

CpuState == [pc : {"idle", "walk", "found", "again"}, net : Nets, dh : Slots \cup {None},
             at : Policies \cup {None}, gone : SUBSET Policies]
UserState == [pc : {"idle", "delete", "wait"}, dh : Slots \cup {None},
              victim : Policies \cup {None}, wait : SUBSET Cpus]

TypeOK ==
    /\ cache \subseteq Slots
    /\ table \in [Nets -> Slots \cup {None}]
    /\ seen \subseteq Nets /\ nl_sk \subseteq seen
    /\ first \in [Slots -> Policies \cup {None}]
    /\ next \in [Policies -> Policies \cup {None}]
    /\ status \in [Policies -> {"unused", "linked", "unlinked", "freed"}]
    /\ owner \in [Policies -> Nets \cup {None}]
    /\ gone \subseteq Policies
    /\ blocks \in [Slots -> SUBSET Policies]
    /\ cpu \in [Cpus -> CpuState] /\ user \in [Users -> UserState]

\* dysco_init_hashes
Init ==
    /\ \E s \in Slots :
          /\ table = [n \in Nets |-> IF n = InitNet THEN s ELSE None]
          /\ cache = Slots \ {s}
    /\ seen = {InitNet} /\ nl_sk = {InitNet}
    /\ first = [s \in Slots |-> None]
    /\ next = [p \in Policies |-> None]
    /\ status = [p \in Policies |-> "unused"]
    /\ owner = [p \in Policies |-> None]
    /\ gone = {}
    /\ blocks = [s \in Slots |-> {}]
    /\ cpu = [c \in Cpus |-> Idle]
    /\ user = [u \in Users |-> UserIdle]

-----------------------------------------------------------------------------
(* Namespaces.                                                             *)

\* The tables stay in the cache.
TakeFromCacheBugStays(n) ==
    \E s \in cache : table' = [table EXCEPT ![n] = s] /\ UNCHANGED cache

TakeFromCache(n) ==
    \E s \in cache : table' = [table EXCEPT ![n] = s] /\ cache' = cache \ {s}

\* The namespace may have tables already.
DeviceEventBugAgain(n) ==
    /\ seen' = seen \cup {n}
    /\ IF cache # {} THEN TakeFromCache(n) ELSE UNCHANGED <<cache, table>>
    /\ UNCHANGED <<nl_sk, lists, gone, blocks, cpu, user>>

\* NETDEV_POST_INIT, under new_ns_lock: a namespace's first device takes tables
\* from the cache, unless that is empty.
DeviceEvent(n) ==
    /\ seen' = seen \cup {n}
    /\ IF table[n] = None /\ cache # {} THEN TakeFromCache(n)
       ELSE UNCHANGED <<cache, table>>
    /\ UNCHANGED <<nl_sk, lists, gone, blocks, cpu, user>>

\* After the lock.
NetlinkCreate(n) ==
    /\ table[n] # None /\ n \notin nl_sk
    /\ nl_sk' = nl_sk \cup {n}
    /\ UNCHANGED <<cache, table, seen, lists, gone, blocks, cpu, user>>

-----------------------------------------------------------------------------
(* Packets.  rcu_read_lock is the caller's: a CPU that is not idle is in   *)
(* its section.                                                            *)

\* dysco_output for a SYN that has no block yet.
SynOut(c, n) ==
    /\ cpu[c].pc = "idle"
    /\ table[n] # None
    /\ cpu' = [cpu EXCEPT ![c] = [pc |-> "walk", net |-> n, dh |-> table[n],
                                  at |-> first[table[n]], gone |-> gone]]
    /\ UNCHANGED <<tables, lists, gone, blocks, user>>

\* A SYN sent again finds its block.
SynAgain(c, n) ==
    /\ cpu[c].pc = "idle"
    /\ table[n] # None
    /\ \E p \in blocks[table[n]] :
          cpu' = [cpu EXCEPT ![c] = [pc |-> "again", net |-> n, dh |-> table[n],
                                     at |-> p, gone |-> gone]]
    /\ UNCHANGED <<tables, lists, gone, blocks, user>>

\* The filter of the policy matches, or the next one is looked at.
MatchPolicy(c) ==
    /\ cpu[c].pc = "walk" /\ cpu[c].at # None
    /\ \/ cpu' = [cpu EXCEPT ![c].pc = "found"]
       \/ cpu' = [cpu EXCEPT ![c].at = next[cpu[c].at]]
    /\ UNCHANGED <<tables, lists, gone, blocks, user>>

\* The section ends: no user waits for it any longer.
LeaveSection(c) ==
    /\ cpu' = [cpu EXCEPT ![c] = Idle]
    /\ user' = [u \in Users |-> [user[u] EXCEPT !.wait = @ \ {c}]]

NoMatch(c) ==
    /\ cpu[c].pc = "walk" /\ cpu[c].at = None
    /\ LeaveSection(c)
    /\ UNCHANGED <<tables, lists, gone, blocks>>

\* dysco_create_cb_out keeps the chain, dysco_out_tx_init copies it to the SYN.
SynLeaves(c) ==
    /\ \/ /\ cpu[c].pc = "found"
          /\ blocks' = [blocks EXCEPT ![cpu[c].dh] = @ \cup {cpu[c].at}]
       \/ /\ cpu[c].pc = "again"
          /\ UNCHANGED blocks
    /\ LeaveSection(c)
    /\ UNCHANGED <<tables, lists, gone>>

-----------------------------------------------------------------------------
(* Policies.                                                               *)

\* DYSCO_POLICY: list_add_rcu puts it in front.  Memory may run out before, or
\* the filter be refused: then nothing is left of it.
AddPolicy(u, n) ==
    /\ user[u].pc = "idle" /\ n \in nl_sk
    /\ \E p \in Policies :
          /\ status[p] = "unused"
          /\ status' = [status EXCEPT ![p] = "linked"]
          /\ owner' = [owner EXCEPT ![p] = n]
          /\ next' = [next EXCEPT ![p] = first[table[n]]]
          /\ first' = [first EXCEPT ![table[n]] = p]
    /\ UNCHANGED <<tables, gone, blocks, cpu, user>>

\* DYSCO_REM_POLICY.
DelPolicies(u, n) ==
    /\ user[u].pc = "idle" /\ n \in nl_sk
    /\ user' = [user EXCEPT ![u] = [pc |-> "delete", dh |-> table[n], victim |-> None, wait |-> {}]]
    /\ UNCHANGED <<tables, lists, gone, blocks, cpu>>

\* The policy is freed at once.
SynchronizeRcuBugNobody == {}

\* synchronize_rcu waits for every CPU that is in a section now.
SynchronizeRcu == {c \in Cpus : cpu[c].pc # "idle"}

\* The policy is not taken off the list.
UnlinkBugStays(d) ==
    /\ status' = [status EXCEPT ![first[d]] = "unlinked"]
    /\ UNCHANGED <<first, next, owner>>

\* list_del_rcu of the first one, which keeps its own link.
Unlink(d) ==
    /\ first' = [first EXCEPT ![d] = next[first[d]]]
    /\ status' = [status EXCEPT ![first[d]] = "unlinked"]
    /\ UNCHANGED <<next, owner>>

\* The loop ends after one policy.
EndsBugAfterOne(u) == user[u].victim # None \/ first[user[u].dh] = None

\* list_empty
Ends(u) == first[user[u].dh] = None

HasTables(p, d) == owner[p] # None /\ table[owner[p]] = d

\* One round of dysco_del_policies's loop, up to where it lets go of the lock.
DeleteOne(u) ==
    /\ user[u].pc = "delete"
    /\ \/ /\ Ends(u)
          /\ gone' = gone \cup {p \in Policies : HasTables(p, user[u].dh)}
          /\ user' = [user EXCEPT ![u] = UserIdle]
          /\ UNCHANGED lists
       \/ /\ ~Ends(u)
          /\ user' = [user EXCEPT ![u].pc = "wait", ![u].victim = first[user[u].dh],
                                  ![u].wait = SynchronizeRcu]
          /\ Unlink(user[u].dh)
          /\ UNCHANGED gone
    /\ UNCHANGED <<tables, blocks, cpu>>

\* After synchronize_rcu the filter, the chain and the policy, with its link, are
\* freed.
FreeOne(u) ==
    /\ user[u].pc = "wait" /\ user[u].wait = {}
    /\ status' = [status EXCEPT ![user[u].victim] = "freed"]
    /\ next' = [next EXCEPT ![user[u].victim] = None]
    /\ owner' = [owner EXCEPT ![user[u].victim] = None]
    /\ gone' = gone \ {user[u].victim}
    /\ user' = [user EXCEPT ![u].pc = "delete"]
    /\ UNCHANGED <<tables, first, blocks, cpu>>

-----------------------------------------------------------------------------
CpuStep(c) == MatchPolicy(c) \/ NoMatch(c) \/ SynLeaves(c)
UserStep(u) == DeleteOne(u) \/ FreeOne(u)

Next ==
    \/ \E n \in Nets : DeviceEvent(n) \/ NetlinkCreate(n)
    \/ \E c \in Cpus : CpuStep(c) \/ \E n \in Nets : SynOut(c, n) \/ SynAgain(c, n)
    \/ \E u \in Users :
          UserStep(u) \/ \E n \in Nets : AddPolicy(u, n) \/ DelPolicies(u, n)

Spec == Init /\ [][Next]_vars

\* A CPU gets a packet done, and a user the deletion it has started; nothing is
\* said of when packets and messages come.  The loop of one user never runs dry of
\* lock time: spinlocks of this kernel are fair.
FairSpec ==
    /\ Spec
    /\ \A c \in Cpus : WF_vars(NoMatch(c)) /\ WF_vars(SynLeaves(c)) /\ WF_vars(MatchPolicy(c))
    /\ \A u \in Users : WF_vars(UserStep(u))

-----------------------------------------------------------------------------
(* Properties.                                                             *)

\* A CPU never touches a policy that is freed while it walks the list, takes the
\* chain or sends the SYN: synchronize_rcu outlasts its section, although the
\* chain is used after dysco_match_policy has left its own inner section.  Only a
\* SYN sent again can find its chain freed, if its policy was deleted since.
ReadersSafe ==
    \A c \in Cpus :
        cpu[c].at # None /\ status[cpu[c].at] = "freed" => cpu[c].pc = "again"

\* Two users delete the policies of a namespace at once: each policy is freed once.
FreedOnce ==
    \A u \in Users :
        user[u].pc = "wait" =>
            /\ status[user[u].victim] = "unlinked"
            /\ \A v \in Users \ {u} :
                  user[v].pc = "wait" => user[v].victim # user[u].victim

\* A SYN that arrives after DYSCO_REM_POLICY has returned is not steered by a
\* policy of before it, even if another user still waits to free that one.
DeletedForGood ==
    \A c \in Cpus : cpu[c].pc \in {"walk", "found"} => cpu[c].at \notin cpu[c].gone

\* The policies of a namespace do not steer the sessions of another.
Isolated ==
    \A c \in Cpus : cpu[c].at # None => owner[cpu[c].at] \in {cpu[c].net, None}

\* A namespace goes without tables only if as many others have all there are,
\* whatever events arrive, and for whichever device.
ServedWhileRoom ==
    \A n \in seen :
        table[n] # None
        \/ Cardinality({m \in Nets : table[m] # None}) = Cardinality(Slots)

\* DYSCO_REM_POLICY comes to an end, however many SYNs are on their way: each
\* grace period ends, and so does the list.
DeletionEnds == \A u \in Users : user[u].pc # "idle" ~> user[u].pc = "idle"
=============================================================================
