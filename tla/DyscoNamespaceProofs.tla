------------------------ MODULE DyscoNamespaceProofs ------------------------
(***************************************************************************)
(* No policy is used after it is freed, none is freed twice, and none      *)
(* steers another namespace's sessions: for any number of namespaces,      *)
(* policies, CPUs and users.                                               *)
(***************************************************************************)
EXTENDS DyscoNamespace, FiniteSetTheorems, TLAPS

-----------------------------------------------------------------------------
(* Types.  What the actions follow is there when they follow it.           *)

Cpu == {r \in CpuState : /\ r.pc = "idle" => r = Idle
                         /\ r.pc # "idle" => r.dh # None
                         /\ r.pc \in {"found", "again"} => r.at # None}
User == {r \in UserState : /\ r.pc # "idle" => r.dh # None
                           /\ r.pc = "wait" => r.victim # None}

Present ==
    /\ TypeOK
    /\ \A n \in nl_sk : table[n] # None
    /\ \A n \in Nets : table[n] # None => n \in seen
    /\ cpu \in [Cpus -> Cpu]
    /\ user \in [Users -> User]

LEMMA IdleStates == Idle \in Cpu /\ UserIdle \in User
BY NamespaceAssumption DEF Idle, UserIdle, Cpu, User, CpuState, UserState

LEMMA WaitState ==
    ASSUME NEW r \in User, r.pc # "idle", NEW p \in Policies, NEW w \in SUBSET Cpus
    PROVE  [r EXCEPT !.pc = "wait", !.victim = p, !.wait = w] \in User
BY NamespaceAssumption DEF User, UserState

LEMMA PresentInit == Init => Present
<1> SUFFICES ASSUME Init PROVE Present
  OBVIOUS
<1>1. cpu \in [Cpus -> Cpu] /\ user \in [Users -> User]
  BY IdleStates DEF Init
<1>2. cpu \in [Cpus -> CpuState] /\ user \in [Users -> UserState]
  BY <1>1 DEF Cpu, User
<1> QED  BY <1>1, <1>2, NamespaceAssumption DEF Init, Present, TypeOK

\* The steps of a CPU or a user only concern its own state.
LEMMA CpuSteps ==
    ASSUME Present, NEW c \in Cpus, NEW r \in Cpu, cpu' = [cpu EXCEPT ![c] = r]
    PROVE  cpu' \in [Cpus -> Cpu] /\ cpu' \in [Cpus -> CpuState]
BY DEF Present, TypeOK, Cpu

LEMMA UserSteps ==
    ASSUME Present, NEW u \in Users, NEW r \in User, user' = [user EXCEPT ![u] = r]
    PROVE  user' \in [Users -> User] /\ user' \in [Users -> UserState]
BY DEF Present, TypeOK, User

LEMMA LeaveSectionSteps ==
    ASSUME Present, NEW c \in Cpus, LeaveSection(c)
    PROVE  /\ cpu' \in [Cpus -> Cpu] /\ cpu' \in [Cpus -> CpuState]
           /\ user' \in [Users -> User] /\ user' \in [Users -> UserState]
<1>1. ASSUME NEW v \in Users
      PROVE [user[v] EXCEPT !.wait = @ \ {c}] \in User
  BY DEF Present, User, UserState
<1>2. user' \in [Users -> User]
  BY <1>1 DEF LeaveSection
<1>3. user' \in [Users -> UserState]
  BY <1>2 DEF User
<1> QED  BY <1>2, <1>3, IdleStates, CpuSteps DEF LeaveSection

LEMMA PresentStep ==
    ASSUME Present, [Next]_vars
    PROVE  Present'
<1> USE NamespaceAssumption DEF Present, TypeOK
<1>1. ASSUME NEW n \in Nets, DeviceEvent(n) PROVE Present'
  BY <1>1 DEF DeviceEvent, TakeFromCache, lists
<1>2. ASSUME NEW n \in Nets, NetlinkCreate(n) PROVE Present'
  BY <1>2 DEF NetlinkCreate, lists
<1>3. ASSUME NEW c \in Cpus, NEW n \in Nets, SynOut(c, n) PROVE Present'
  <2> DEFINE r == [pc |-> "walk", net |-> n, dh |-> table[n], at |-> first[table[n]],
                   gone |-> gone]
  <2>1. r \in Cpu  BY <1>3 DEF SynOut, Cpu, CpuState
  <2>2. cpu' = [cpu EXCEPT ![c] = r]  BY <1>3 DEF SynOut
  <2> HIDE DEF r
  <2> QED  BY <1>3, <2>1, <2>2, CpuSteps DEF SynOut, tables, lists
<1>4. ASSUME NEW c \in Cpus, NEW n \in Nets, SynAgain(c, n) PROVE Present'
  <2>1. PICK p \in blocks[table[n]] :
            cpu' = [cpu EXCEPT ![c] = [pc |-> "again", net |-> n, dh |-> table[n],
                                       at |-> p, gone |-> gone]]
    BY <1>4 DEF SynAgain
  <2> DEFINE r == [pc |-> "again", net |-> n, dh |-> table[n], at |-> p, gone |-> gone]
  <2>2. table[n] \in Slots /\ p \in Policies  BY <1>4 DEF SynAgain
  <2>3. r \in Cpu  BY <2>2 DEF Cpu, CpuState
  <2>4. cpu' = [cpu EXCEPT ![c] = r]  BY <2>1
  <2> HIDE DEF r
  <2> QED  BY <1>4, <2>3, <2>4, CpuSteps DEF SynAgain, tables, lists
<1>5. ASSUME NEW c \in Cpus, MatchPolicy(c) PROVE Present'
  <2>1. cpu[c].at \in Policies  BY <1>5 DEF MatchPolicy, CpuState
  <2>2. PICK r \in Cpu : cpu' = [cpu EXCEPT ![c] = r]
    <3>1. CASE cpu' = [cpu EXCEPT ![c].pc = "found"]
      <4>1. [cpu[c] EXCEPT !.pc = "found"] \in Cpu
        BY <1>5, <2>1 DEF MatchPolicy, Cpu, CpuState
      <4> QED  BY <3>1, <4>1
    <3>2. CASE cpu' = [cpu EXCEPT ![c].at = next[cpu[c].at]]
      <4>1. [cpu[c] EXCEPT !.at = next[cpu[c].at]] \in Cpu
        BY <1>5, <2>1 DEF MatchPolicy, Cpu, CpuState
      <4> QED  BY <3>2, <4>1
    <3> QED  BY <1>5, <3>1, <3>2 DEF MatchPolicy
  <2> QED  BY <1>5, <2>2, CpuSteps DEF MatchPolicy, tables, lists
<1>6. ASSUME NEW c \in Cpus, NoMatch(c) PROVE Present'
  BY <1>6, LeaveSectionSteps DEF NoMatch, tables, lists
<1>7. ASSUME NEW c \in Cpus, SynLeaves(c) PROVE Present'
  <2>1. cpu[c].pc = "found" => cpu[c].dh \in Slots /\ cpu[c].at \in Policies
    BY DEF Cpu, CpuState
  <2>2. blocks' \in [Slots -> SUBSET Policies]
    BY <1>7, <2>1 DEF SynLeaves
  <2> QED  BY <1>7, <2>2, LeaveSectionSteps DEF SynLeaves, tables, lists
<1>8. ASSUME NEW u \in Users, NEW n \in Nets, AddPolicy(u, n) PROVE Present'
  BY <1>8 DEF AddPolicy, tables
<1>9. ASSUME NEW u \in Users, NEW n \in Nets, DelPolicies(u, n) PROVE Present'
  <2> DEFINE r == [pc |-> "delete", dh |-> table[n], victim |-> None, wait |-> {}]
  <2>1. r \in User  BY <1>9 DEF DelPolicies, User, UserState
  <2>2. user' = [user EXCEPT ![u] = r]  BY <1>9 DEF DelPolicies
  <2> HIDE DEF r
  <2> QED  BY <1>9, <2>1, <2>2, UserSteps DEF DelPolicies, tables, lists
<1>10. ASSUME NEW u \in Users, DeleteOne(u) PROVE Present'
  <2>1. user[u].dh \in Slots /\ user[u].pc = "delete"
    BY <1>10 DEF DeleteOne, User, UserState
  <2>2. CASE Ends(u)
    BY <1>10, <2>2, IdleStates, UserSteps DEF DeleteOne, Ends, tables, lists
  <2>3. CASE ~Ends(u)
    <3> DEFINE r == [user[u] EXCEPT !.pc = "wait", !.victim = first[user[u].dh],
                                    !.wait = SynchronizeRcu]
    <3>0. first[user[u].dh] \in Policies /\ SynchronizeRcu \in SUBSET Cpus
      BY <2>1, <2>3 DEF Ends, SynchronizeRcu
    <3>1. r \in User
      BY <2>1, <2>3, <3>0, WaitState DEF Ends
    <3>2. user' = [user EXCEPT ![u] = r]
      BY <1>10, <2>3 DEF DeleteOne
    <3> HIDE DEF r
    <3>4. user' \in [Users -> User] /\ user' \in [Users -> UserState]
      BY <3>1, <3>2, UserSteps
    <3> QED  BY <1>10, <2>1, <2>3, <3>0, <3>4 DEF DeleteOne, Unlink, tables
  <2> QED  BY <2>2, <2>3
<1>11. ASSUME NEW u \in Users, FreeOne(u) PROVE Present'
  <2>1. user[u].victim \in Policies
    BY <1>11 DEF FreeOne, User, UserState
  <2>2. [user[u] EXCEPT !.pc = "delete"] \in User
    BY <1>11 DEF FreeOne, User, UserState
  <2>3. user' \in [Users -> User] /\ user' \in [Users -> UserState]
    BY <1>11, <2>2, UserSteps DEF FreeOne
  <2> QED  BY <1>11, <2>1, <2>3 DEF FreeOne, tables
<1>12. CASE UNCHANGED vars
  BY <1>12 DEF vars, tables, lists
<1> QED
  BY <1>1, <1>2, <1>3, <1>4, <1>5, <1>6, <1>7, <1>8, <1>9, <1>10, <1>11, <1>12
  DEF Next, CpuStep, UserStep

\* Every reachable state is well typed, whatever the numbers of namespaces, users,
\* CPUs and policies of dysco_main.c.
THEOREM TypeCorrect == Spec => []TypeOK
<1>1. Present => TypeOK
  BY DEF Present
<1> QED  BY PresentInit, PresentStep, <1>1, PTL DEF Spec

-----------------------------------------------------------------------------
(* The lists, and whose policies are in them.                              *)

\* No policy has two predecessors, so that taking one off the front leaves the
\* others where they were.
Chained ==
    /\ \A d \in Slots : first[d] # None => status[first[d]] = "linked"
    /\ \A p \in Policies : status[p] = "linked" /\ next[p] # None =>
          /\ status[next[p]] = "linked"
          /\ \A d \in Slots : first[d] # next[p]
          /\ \A q \in Policies : status[q] = "linked" /\ next[q] = next[p] => q = p
    /\ \A d, e \in Slots : first[d] # None /\ first[d] = first[e] => d = e

\* No two namespaces share tables, and a list has one namespace's policies.
Owned ==
    /\ \A m, n \in Nets : table[m] # None /\ table[m] = table[n] => m = n
    /\ \A n \in Nets : table[n] \notin cache
    /\ \A d \in Slots : first[d] # None =>
          owner[first[d]] \in Nets /\ table[owner[first[d]]] = d
    /\ \A p \in Policies : status[p] = "linked" =>
          owner[p] \in Nets /\ (next[p] # None => owner[next[p]] = owner[p])

\* A chain that a block of a namespace keeps is, or was, a policy of that namespace.
Kept ==
    \A d \in Slots : \A p \in blocks[d] :
        status[p] # "unused" /\ (owner[p] = None \/ table[owner[p]] = d)

\* A policy that is off the list and not freed is some user's victim, and only one's.
Victims ==
    /\ FreedOnce
    /\ \A p \in Policies : status[p] = "unlinked" =>
          \E u \in Users : user[u].pc = "wait" /\ user[u].victim = p

LEMMA ChainedStep ==
    ASSUME Present, Chained, Victims, [Next]_vars
    PROVE  Chained'
<1> USE NamespaceAssumption DEF Chained
<1>0. first \in [Slots -> Policies \cup {None}] /\ next \in [Policies -> Policies \cup {None}]
      /\ status \in [Policies -> {"unused", "linked", "unlinked", "freed"}]
  BY DEF Present, TypeOK
<1>1. ASSUME NEW u \in Users, NEW n \in Nets, AddPolicy(u, n) PROVE Chained'
  <2>1. PICK p \in Policies :
          /\ status[p] = "unused"
          /\ status' = [status EXCEPT ![p] = "linked"]
          /\ next' = [next EXCEPT ![p] = first[table[n]]]
          /\ first' = [first EXCEPT ![table[n]] = p]
    BY <1>1 DEF AddPolicy
  <2>2. table[n] \in Slots
    BY <1>1 DEF AddPolicy, Present, TypeOK
  <2> QED  BY <1>0, <2>1, <2>2
<1>2. ASSUME NEW u \in Users, DeleteOne(u) PROVE Chained'
  <2>1. CASE UNCHANGED lists
    BY <2>1 DEF lists
  <2>2. CASE ~Ends(u) /\ Unlink(user[u].dh)
    <3> DEFINE d == user[u].dh
               f == first[d]
    <3>1. d \in Slots /\ f \in Policies
      BY <1>0, <1>2, <2>2 DEF DeleteOne, Ends, Present, User, UserState
    <3>2. /\ first' = [first EXCEPT ![d] = next[f]]
          /\ status' = [status EXCEPT ![f] = "unlinked"]
          /\ next' = next
      BY <2>2 DEF Unlink
    <3> HIDE DEF d
    <3> QED  BY <1>0, <3>1, <3>2
  <2> QED  BY <1>2, <2>1, <2>2 DEF DeleteOne
<1>3. ASSUME NEW u \in Users, FreeOne(u) PROVE Chained'
  <2>1. user[u].victim \in Policies /\ status[user[u].victim] = "unlinked"
    BY <1>3 DEF FreeOne, Present, User, UserState, Victims, FreedOnce
  <2> QED  BY <1>0, <1>3, <2>1 DEF FreeOne
<1>4. CASE UNCHANGED lists
  BY <1>4 DEF lists
<1> QED
  BY <1>1, <1>2, <1>3, <1>4
  DEF Next, CpuStep, UserStep, vars, DeviceEvent, NetlinkCreate, SynOut, SynAgain,
      MatchPolicy, NoMatch, SynLeaves, DelPolicies

LEMMA VictimsStep ==
    ASSUME Present, Chained, Victims, [Next]_vars
    PROVE  Victims'
<1> USE NamespaceAssumption DEF Victims, FreedOnce
<1>0. user \in [Users -> User] /\ status \in [Policies -> {"unused", "linked", "unlinked", "freed"}]
  BY DEF Present, TypeOK
<1>1. ASSUME NEW u \in Users, NEW n \in Nets, AddPolicy(u, n) PROVE Victims'
  <2>1. \A v \in Users : user[v].pc = "wait" => user[v].victim \in Policies
    BY <1>0 DEF User, UserState
  <2> QED  BY <1>0, <1>1, <2>1 DEF AddPolicy
<1>2. ASSUME NEW u \in Users, DeleteOne(u) PROVE Victims'
  <2>1. CASE Ends(u) /\ UNCHANGED lists /\ user' = [user EXCEPT ![u] = UserIdle]
    BY <1>0, <1>2, <2>1 DEF lists, UserIdle, DeleteOne
  <2>2. CASE ~Ends(u) /\ Unlink(user[u].dh) /\
             user' = [user EXCEPT ![u].pc = "wait", ![u].victim = first[user[u].dh],
                                  ![u].wait = SynchronizeRcu]
    <3> DEFINE f == first[user[u].dh]
    <3>1. f \in Policies /\ status[f] = "linked"
      BY <1>2, <2>2 DEF DeleteOne, Ends, Present, TypeOK, User, UserState, Chained
    <3>2. status' = [status EXCEPT ![f] = "unlinked"]
      BY <2>2 DEF Unlink
    <3>3. /\ user'[u].pc = "wait" /\ user'[u].victim = f
          /\ \A v \in Users \ {u} : user'[v] = user[v]
      BY <1>0, <2>2 DEF User, UserState
    <3>4. \A v \in Users : user[v].pc = "wait" => user[v].victim \in Policies
      BY <1>0 DEF User, UserState
    <3> HIDE DEF f
    <3> QED  BY <1>0, <1>2, <3>1, <3>2, <3>3, <3>4 DEF DeleteOne
  <2> QED  BY <1>2, <2>1, <2>2 DEF DeleteOne
<1>3. ASSUME NEW u \in Users, FreeOne(u) PROVE Victims'
  <2>1. \A v \in Users : user[v].pc = "wait" => user[v].victim \in Policies
    BY <1>0 DEF User, UserState
  <2>2. user'[u].pc = "delete" /\ \A v \in Users \ {u} : user'[v] = user[v]
    BY <1>0, <1>3 DEF FreeOne, User, UserState
  <2>3. status' = [status EXCEPT ![user[u].victim] = "freed"]
    BY <1>3 DEF FreeOne
  <2> QED  BY <1>0, <1>3, <2>1, <2>2, <2>3 DEF FreeOne
<1>4. ASSUME NEW c \in Cpus, LeaveSection(c), UNCHANGED lists PROVE Victims'
  <2>1. \A v \in Users : user'[v].pc = user[v].pc /\ user'[v].victim = user[v].victim
    BY <1>0, <1>4 DEF LeaveSection, User, UserState
  <2> QED  BY <1>4, <2>1 DEF lists
<1>5. ASSUME NEW u \in Users, NEW n \in Nets, DelPolicies(u, n) PROVE Victims'
  BY <1>0, <1>5 DEF DelPolicies, lists
<1>6. CASE UNCHANGED lists /\ UNCHANGED user
  BY <1>6 DEF lists
<1> QED
  BY <1>1, <1>2, <1>3, <1>4, <1>5, <1>6
  DEF Next, CpuStep, UserStep, vars, DeviceEvent, NetlinkCreate, SynOut, SynAgain,
      MatchPolicy, NoMatch, SynLeaves

LEMMA OwnedStep ==
    ASSUME Present, Chained, Victims, Owned, [Next]_vars
    PROVE  Owned'
<1> USE NamespaceAssumption
<1>0. /\ first \in [Slots -> Policies \cup {None}] /\ next \in [Policies -> Policies \cup {None}]
      /\ status \in [Policies -> {"unused", "linked", "unlinked", "freed"}]
      /\ owner \in [Policies -> Nets \cup {None}] /\ table \in [Nets -> Slots \cup {None}]
      /\ blocks \in [Slots -> SUBSET Policies] /\ cache \subseteq Slots
  BY DEF Present, TypeOK
<1>1. ASSUME NEW n \in Nets, DeviceEvent(n) PROVE Owned'
  <2>1. CASE table[n] = None /\ TakeFromCache(n)
    <3>1. PICK s \in cache : table' = [table EXCEPT ![n] = s] /\ cache' = cache \ {s}
      BY <2>1 DEF TakeFromCache
    <3>2. UNCHANGED <<lists, blocks>>
      BY <1>1 DEF DeviceEvent
    <3> QED  BY <1>0, <2>1, <3>1, <3>2 DEF Owned, lists
  <2>2. CASE UNCHANGED <<cache, table, lists, blocks>>
    BY <2>2 DEF Owned, lists
  <2> QED  BY <1>1, <2>1, <2>2 DEF DeviceEvent, lists
<1>2. ASSUME NEW u \in Users, NEW n \in Nets, AddPolicy(u, n) PROVE Owned'
  <2>1. PICK p \in Policies :
          /\ status[p] = "unused"
          /\ status' = [status EXCEPT ![p] = "linked"]
          /\ owner' = [owner EXCEPT ![p] = n]
          /\ next' = [next EXCEPT ![p] = first[table[n]]]
          /\ first' = [first EXCEPT ![table[n]] = p]
    BY <1>2 DEF AddPolicy
  <2>2. table[n] \in Slots /\ UNCHANGED <<tables, blocks>>
    BY <1>2 DEF AddPolicy, Present, TypeOK
  <2> QED  BY <1>0, <2>1, <2>2 DEF Owned, Chained, tables
<1>3. ASSUME NEW u \in Users, DeleteOne(u) PROVE Owned'
  <2>1. CASE UNCHANGED <<tables, lists, blocks>>
    BY <2>1 DEF lists, tables, Owned
  <2>2. CASE ~Ends(u) /\ Unlink(user[u].dh)
    <3> DEFINE d == user[u].dh
               f == first[d]
    <3>1. d \in Slots /\ f \in Policies
      BY <1>0, <1>3, <2>2 DEF DeleteOne, Ends, Present, User, UserState
    <3>2. /\ first' = [first EXCEPT ![d] = next[f]]
          /\ status' = [status EXCEPT ![f] = "unlinked"]
          /\ UNCHANGED <<next, owner, tables, blocks>>
      BY <1>3, <2>2 DEF Unlink, DeleteOne
    <3> HIDE DEF d
    <3> QED  BY <1>0, <3>1, <3>2 DEF Owned, Chained, tables
  <2> QED  BY <1>3, <2>1, <2>2 DEF DeleteOne
<1>4. ASSUME NEW u \in Users, FreeOne(u) PROVE Owned'
  <2> DEFINE p == user[u].victim
  <2>1. p \in Policies /\ status[p] = "unlinked"
    BY <1>4 DEF FreeOne, Present, User, UserState, Victims, FreedOnce
  <2>2. /\ status' = [status EXCEPT ![p] = "freed"]
        /\ next' = [next EXCEPT ![p] = None]
        /\ owner' = [owner EXCEPT ![p] = None]
        /\ UNCHANGED <<tables, first, blocks>>
    BY <1>4 DEF FreeOne
  <2> HIDE DEF p
  <2> QED  BY <1>0, <2>1, <2>2 DEF Owned, Chained, tables
<1>5. CASE UNCHANGED <<cache, table, lists>>
  BY <1>5 DEF lists, Owned
<1> QED
  BY <1>1, <1>2, <1>3, <1>4, <1>5
  DEF Next, CpuStep, UserStep, vars, tables, NetlinkCreate, SynOut, SynAgain,
      MatchPolicy, NoMatch, SynLeaves, DelPolicies

-----------------------------------------------------------------------------
(* What a CPU may come to in its section.                                  *)

\* q is on the list, or off it with a user that waits for c.
Guarded(c, q) ==
    /\ status[q] \in {"linked", "unlinked"} /\ owner[q] = cpu[c].net
    /\ \A u \in Users : user[u].pc = "wait" /\ user[u].victim = q => c \in user[u].wait

\* From a guarded policy a CPU only comes to guarded ones, although the links of a
\* policy that is off the list are still followed.
Reads(c) ==
    /\ cpu[c].pc # "idle" => table[cpu[c].net] = cpu[c].dh
    /\ cpu[c].pc \in {"walk", "found"} /\ cpu[c].at # None => Guarded(c, cpu[c].at)
    /\ cpu[c].pc # "idle" =>
          \A q \in Policies : Guarded(c, q) /\ next[q] # None => Guarded(c, next[q])
    /\ cpu[c].pc = "again" =>
          status[cpu[c].at] # "unused" /\ owner[cpu[c].at] \in {cpu[c].net, None}

Readers ==
    /\ \A c \in Cpus : Reads(c)
    /\ \A u \in Users : \A c \in user[u].wait :
          user[u].pc = "wait" => cpu[c].pc # "idle"

LEMMA KeptStep ==
    ASSUME Present, Chained, Victims, Owned, Kept, Readers, [Next]_vars
    PROVE  Kept'
<1> USE NamespaceAssumption
<1>0. /\ status \in [Policies -> {"unused", "linked", "unlinked", "freed"}]
      /\ owner \in [Policies -> Nets \cup {None}] /\ table \in [Nets -> Slots \cup {None}]
      /\ blocks \in [Slots -> SUBSET Policies]
  BY DEF Present, TypeOK
<1>1. ASSUME NEW n \in Nets, DeviceEvent(n) PROVE Kept'
  <2>1. UNCHANGED <<lists, blocks>> /\ \A m \in Nets : table[m] # None => table'[m] = table[m]
    BY <1>0, <1>1 DEF DeviceEvent, TakeFromCache
  <2> QED  BY <1>0, <2>1 DEF Kept, lists
<1>2. ASSUME NEW u \in Users, NEW n \in Nets, AddPolicy(u, n) PROVE Kept'
  <2>1. PICK p \in Policies :
          /\ status[p] = "unused"
          /\ status' = [status EXCEPT ![p] = "linked"]
          /\ owner' = [owner EXCEPT ![p] = n]
    BY <1>2 DEF AddPolicy
  <2> QED  BY <1>0, <1>2, <2>1 DEF AddPolicy, Kept, tables
<1>3. ASSUME NEW u \in Users, DeleteOne(u) PROVE Kept'
  BY <1>0, <1>3 DEF DeleteOne, Unlink, Kept, tables, lists
<1>4. ASSUME NEW u \in Users, FreeOne(u) PROVE Kept'
  BY <1>0, <1>4 DEF FreeOne, Kept, tables
<1>5. ASSUME NEW c \in Cpus, SynLeaves(c) PROVE Kept'
  <2>1. UNCHANGED <<tables, lists>>
    BY <1>5 DEF SynLeaves
  <2>2. CASE UNCHANGED blocks
    BY <2>1, <2>2 DEF Kept, tables, lists
  <2>3. CASE /\ cpu[c].pc = "found"
             /\ blocks' = [blocks EXCEPT ![cpu[c].dh] = @ \cup {cpu[c].at}]
    <3>1. /\ cpu[c].dh \in Slots /\ cpu[c].at \in Policies
          /\ table[cpu[c].net] = cpu[c].dh /\ Guarded(c, cpu[c].at)
      BY <2>3 DEF Present, Cpu, CpuState, Readers, Reads
    <3> QED  BY <1>0, <2>1, <2>3, <3>1 DEF Kept, Guarded, tables, lists
  <2> QED  BY <1>5, <2>2, <2>3 DEF SynLeaves
<1>6. CASE UNCHANGED <<table, lists, blocks>>
  BY <1>6 DEF lists, Kept
<1> QED
  BY <1>1, <1>2, <1>3, <1>4, <1>5, <1>6
  DEF Next, CpuStep, UserStep, vars, tables, NetlinkCreate, SynOut, SynAgain,
      MatchPolicy, NoMatch, DelPolicies

\* A CPU whose section and user's waits are as they were reads what it read before,
\* as long as what it is guarded from stays.
LEMMA ReadersSame ==
    ASSUME Present, Readers, UNCHANGED <<status, owner, next, table>>,
           NEW c \in Cpus, cpu'[c] = cpu[c],
           \A u \in Users : /\ user'[u].pc = "wait" <=> user[u].pc = "wait"
                            /\ user'[u].victim = user[u].victim
                            /\ c \in user'[u].wait <=> c \in user[u].wait
    PROVE  Reads(c)'
BY DEF Readers, Reads, Guarded

\* A CPU that enters its section: what is off the list now is not in its way.
LEMMA ReadersEnter ==
    ASSUME Present, Chained, Victims, Owned, Readers,
           NEW c \in Cpus, cpu[c].pc = "idle", NEW r \in Cpu,
           cpu' = [cpu EXCEPT ![c] = r], UNCHANGED <<tables, lists, user>>,
           r.pc # "idle" => table[r.net] = r.dh,
           r.pc = "walk" => r.at = first[r.dh],
           r.pc # "found",
           r.pc = "again" => status[r.at] # "unused" /\ owner[r.at] \in {r.net, None}
    PROVE  Readers'
<1>1. cpu'[c] = r /\ \A d \in Cpus \ {c} : cpu'[d] = cpu[d]
  BY DEF Present, TypeOK
<1>2. \A u \in Users : user[u].pc = "wait" => c \notin user[u].wait
  BY DEF Readers
<1>3. \A q \in Policies : Guarded(c, q)' <=> status[q] = "linked" /\ owner[q] = r.net
  BY <1>1, <1>2 DEF Guarded, lists, Victims, FreedOnce
<1>4. \A q \in Policies : Guarded(c, q)' /\ next[q] # None => Guarded(c, next[q])'
  <2>1. ASSUME NEW q \in Policies, status[q] = "linked", owner[q] = r.net, next[q] # None
        PROVE  /\ next[q] \in Policies
               /\ status[next[q]] = "linked" /\ owner[next[q]] = r.net
    BY <2>1 DEF Chained, Owned, Present, TypeOK
  <2> QED  BY <1>3, <2>1 DEF lists
<1>5. r.pc = "walk" /\ r.at # None => Guarded(c, r.at)'
  <2>1. SUFFICES ASSUME r.pc = "walk", r.at # None PROVE Guarded(c, r.at)'
    OBVIOUS
  <2>2. r.dh \in Slots /\ r.net \in Nets /\ r.at \in Policies
    BY <2>1, NamespaceAssumption DEF Cpu, CpuState
  <2>3. status[r.at] = "linked" /\ owner[r.at] = r.net
    BY <2>1, <2>2, NamespaceAssumption DEF Chained, Owned
  <2> QED  BY <1>3, <2>2, <2>3
<1>6. ASSUME NEW d \in Cpus \ {c}
      PROVE  Reads(d)'
  BY <1>1, ReadersSame DEF tables, lists
<1>7. \A u \in Users : \A d \in user[u].wait : user[u].pc = "wait" => cpu'[d].pc # "idle"
  BY <1>1, <1>2 DEF Readers, Present, User, UserState
<1>8. Reads(c)'
  BY <1>1, <1>4, <1>5 DEF tables, lists, Reads, Guarded
<1>9. user' = user
  OBVIOUS
<1> QED
  BY <1>6, <1>7, <1>8, <1>9 DEF Readers

LEMMA ReadersLeave ==
    ASSUME Present, Readers, NEW c \in Cpus, LeaveSection(c), UNCHANGED <<tables, lists>>
    PROVE  Readers'
<1>1. /\ cpu'[c] = Idle /\ \A d \in Cpus \ {c} : cpu'[d] = cpu[d]
      /\ \A u \in Users : /\ user'[u].pc = user[u].pc /\ user'[u].victim = user[u].victim
                           /\ user'[u].wait = user[u].wait \ {c}
  BY DEF Present, TypeOK, LeaveSection, User, UserState
<1>2. ASSUME NEW d \in Cpus \ {c} PROVE Reads(d)'
  BY <1>1, ReadersSame DEF tables, lists
<1>3. Reads(c)'
  BY <1>1 DEF Reads, Idle
<1>4. \A u \in Users : \A d \in user'[u].wait : user'[u].pc = "wait" => cpu'[d].pc # "idle"
  BY <1>1 DEF Readers, Present, User, UserState
<1> QED  BY <1>2, <1>3, <1>4 DEF Readers

LEMMA ReadersStep ==
    ASSUME Present, Chained, Victims, Owned, Kept, Readers, [Next]_vars
    PROVE  Readers'
<1> USE NamespaceAssumption
<1>0. /\ first \in [Slots -> Policies \cup {None}] /\ next \in [Policies -> Policies \cup {None}]
      /\ status \in [Policies -> {"unused", "linked", "unlinked", "freed"}]
      /\ owner \in [Policies -> Nets \cup {None}] /\ table \in [Nets -> Slots \cup {None}]
      /\ cpu \in [Cpus -> Cpu] /\ user \in [Users -> User]
  BY DEF Present, TypeOK
<1>1. ASSUME NEW n \in Nets, DeviceEvent(n) PROVE Readers'
  <2>1. /\ UNCHANGED <<lists, cpu, user>>
        /\ \A m \in Nets : table[m] # None => table'[m] = table[m]
    BY <1>0, <1>1 DEF DeviceEvent, TakeFromCache
  <2>2. \A c \in Cpus : cpu[c].pc # "idle" => cpu[c].net \in Nets /\ cpu[c].dh # None
    BY <1>0 DEF Cpu, CpuState
  <2> QED  BY <2>1, <2>2 DEF Readers, Reads, Guarded, lists
<1>2. ASSUME NEW c \in Cpus, NEW n \in Nets, SynOut(c, n) PROVE Readers'
  <2> DEFINE r == [pc |-> "walk", net |-> n, dh |-> table[n], at |-> first[table[n]],
                   gone |-> gone]
  <2>1. r \in Cpu  BY <1>2 DEF SynOut, Cpu, CpuState, Present, TypeOK
  <2>2. /\ r.pc = "walk" /\ table[r.net] = r.dh /\ r.at = first[r.dh]
        /\ cpu' = [cpu EXCEPT ![c] = r] /\ cpu[c].pc = "idle"
    BY <1>2 DEF SynOut
  <2> HIDE DEF r
  <2> QED  BY <1>2, <2>1, <2>2, ReadersEnter DEF SynOut
<1>3. ASSUME NEW c \in Cpus, NEW n \in Nets, SynAgain(c, n) PROVE Readers'
  <2>1. PICK p \in blocks[table[n]] :
            cpu' = [cpu EXCEPT ![c] = [pc |-> "again", net |-> n, dh |-> table[n],
                                       at |-> p, gone |-> gone]]
    BY <1>3 DEF SynAgain
  <2> DEFINE r == [pc |-> "again", net |-> n, dh |-> table[n], at |-> p, gone |-> gone]
  <2>2. table[n] \in Slots /\ p \in Policies  BY <1>0, <1>3 DEF SynAgain, Present, TypeOK
  <2>3. r \in Cpu  BY <2>2 DEF Cpu, CpuState, Present, TypeOK
  <2>4. status[p] # "unused" /\ owner[p] \in {n, None}
    BY <1>0, <2>1, <2>2 DEF Kept, Owned
  <2>5. /\ r.pc = "again" /\ table[r.net] = r.dh
        /\ status[r.at] # "unused" /\ owner[r.at] \in {r.net, None}
        /\ cpu' = [cpu EXCEPT ![c] = r] /\ cpu[c].pc = "idle"
    BY <1>3, <2>1, <2>4 DEF SynAgain
  <2> HIDE DEF r
  <2> QED  BY <1>3, <2>3, <2>5, ReadersEnter DEF SynAgain
<1>4. ASSUME NEW c \in Cpus, MatchPolicy(c) PROVE Readers'
  <2>1. cpu[c].pc = "walk" /\ cpu[c].at \in Policies
    BY <1>0, <1>4 DEF MatchPolicy, Cpu, CpuState
  <2>2. /\ cpu'[c].net = cpu[c].net /\ cpu'[c].dh = cpu[c].dh
        /\ \/ cpu'[c].pc = "found" /\ cpu'[c].at = cpu[c].at
           \/ cpu'[c].pc = "walk" /\ cpu'[c].at = next[cpu[c].at]
        /\ \A d \in Cpus \ {c} : cpu'[d] = cpu[d]
    BY <1>0, <1>4 DEF MatchPolicy, Cpu, CpuState
  <2>3. \A q : Guarded(c, q)' <=> Guarded(c, q)
    BY <1>4, <2>2 DEF MatchPolicy, Guarded, lists
  <2>4. Guarded(c, cpu[c].at)
        /\ \A q \in Policies : Guarded(c, q) /\ next[q] # None => Guarded(c, next[q])
    BY <2>1 DEF Readers, Reads
  <2>5. Reads(c)'
    <3>1. cpu'[c].at # None => Guarded(c, cpu'[c].at)
      BY <2>1, <2>2, <2>4
    <3>2. cpu'[c].at # None => Guarded(c, cpu[c].at)'
      BY <1>4, <3>1, <2>2 DEF MatchPolicy, Guarded, lists
    <3>3. \A q \in Policies : Guarded(c, q)' /\ next'[q] # None => Guarded(c, next[q])'
      BY <1>4, <2>3, <2>4 DEF MatchPolicy, lists
    <3> QED  BY <1>4, <2>1, <2>2, <3>2, <3>3 DEF MatchPolicy, Reads, Readers, tables
  <2>6. ASSUME NEW d \in Cpus \ {c} PROVE Reads(d)'
    BY <1>4, <2>2, ReadersSame DEF MatchPolicy, tables, lists
  <2> QED  BY <1>0, <1>4, <2>2, <2>5, <2>6 DEF MatchPolicy, Readers, User, UserState
<1>5. ASSUME NEW c \in Cpus, NoMatch(c) \/ SynLeaves(c) PROVE Readers'
  BY <1>5, ReadersLeave DEF NoMatch, SynLeaves
<1>6. ASSUME NEW u \in Users, NEW n \in Nets, AddPolicy(u, n) PROVE Readers'
  <2>1. PICK p \in Policies :
          /\ status[p] = "unused"
          /\ status' = [status EXCEPT ![p] = "linked"]
          /\ owner' = [owner EXCEPT ![p] = n]
          /\ next' = [next EXCEPT ![p] = first[table[n]]]
    BY <1>6 DEF AddPolicy
  <2>2. UNCHANGED <<tables, cpu, user>> /\ table[n] \in Slots
    BY <1>6 DEF AddPolicy, Present, TypeOK
  <2>3. \A c \in Cpus, q \in Policies \ {p} : Guarded(c, q)' <=> Guarded(c, q)
    BY <1>0, <2>1, <2>2 DEF Guarded
  <2>4. \A c \in Cpus : ~Guarded(c, p)
    BY <2>1 DEF Guarded
  <2>5. ASSUME NEW c \in Cpus PROVE Reads(c)'
    <3>1. Reads(c)
      BY DEF Readers
    <3>2. ASSUME cpu[c].pc # "idle", NEW q \in Policies, Guarded(c, q)', next'[q] # None
          PROVE  Guarded(c, next[q])'
      <4>1. CASE q = p
        <5>1. next'[p] = first[table[n]] /\ first[table[n]] \in Policies
          BY <1>0, <2>1, <2>2, <3>2, <4>1
        <5>2. status[first[table[n]]] = "linked" /\ owner[first[table[n]]] = n
          BY <2>2, <5>1 DEF Chained, Owned
        <5>3. cpu[c].net = n
          BY <1>0, <2>1, <2>2, <3>2, <4>1 DEF Guarded
        <5>4. Guarded(c, first[table[n]])
          BY <5>1, <5>2, <5>3 DEF Guarded, Victims, FreedOnce
        <5>5. first[table[n]] # p
          BY <2>1, <5>2
        <5>6. Guarded(c, next'[q])
          BY <4>1, <5>1, <5>4
        <5> QED  BY <1>0, <2>1, <2>2, <4>1, <5>1, <5>5, <5>6 DEF Guarded
      <4>2. CASE q # p
        <5>1. next'[q] = next[q] /\ Guarded(c, q)
          BY <1>0, <2>1, <2>3, <3>2, <4>2
        <5>2. Guarded(c, next[q]) /\ next[q] \in Policies \ {p}
          BY <1>0, <2>4, <3>1, <3>2, <5>1 DEF Reads
        <5> QED  BY <1>0, <2>1, <2>2, <5>1, <5>2 DEF Guarded
      <4> QED  BY <4>1, <4>2
    <3>3. cpu[c].pc \in {"walk", "found"} /\ cpu[c].at # None => Guarded(c, cpu[c].at)'
      <4>1. cpu[c].at \in Policies \cup {None}
        BY <1>0 DEF Cpu, CpuState
      <4> QED  BY <1>0, <2>1, <2>2, <2>4, <3>1, <4>1 DEF Reads, Guarded
    <3>4. cpu[c].pc = "again" => cpu[c].at \in Policies \ {p}
      BY <1>0, <2>1, <3>1 DEF Cpu, CpuState, Reads
    <3> QED  BY <1>0, <2>1, <2>2, <3>1, <3>2, <3>3, <3>4 DEF Reads, tables
  <2> QED  BY <2>2, <2>5 DEF Readers
<1>7. ASSUME NEW u \in Users, NEW n \in Nets, DelPolicies(u, n) PROVE Readers'
  <2>1. /\ user'[u].pc = "delete" /\ user[u].pc = "idle"
        /\ \A v \in Users \ {u} : user'[v] = user[v]
        /\ UNCHANGED <<tables, lists, cpu>>
    BY <1>0, <1>7 DEF DelPolicies
  <2>2. \A c \in Cpus : \A q : Guarded(c, q)' <=> Guarded(c, q)
    BY <1>0, <2>1 DEF Guarded, lists
  <2>3. ASSUME NEW c \in Cpus PROVE Reads(c)'
    <3>1. cpu'[c] = cpu[c] /\ cpu'[c].at = cpu[c].at /\ next' = next
      BY <2>1 DEF lists
    <3>2. Guarded(c, cpu[c].at)' <=> Guarded(c, cpu[c].at)
      BY <2>1 DEF Guarded, lists
    <3>3. \A q \in Policies : Guarded(c, next[q])' <=> Guarded(c, next[q])
      BY <2>1 DEF Guarded, lists
    <3> QED  BY <2>1, <2>2, <3>1, <3>2, <3>3 DEF Readers, Reads, tables, lists
  <2> QED  BY <2>1, <2>3 DEF Readers
<1>8. ASSUME NEW u \in Users, DeleteOne(u) PROVE Readers'
  <2>1. CASE Ends(u) /\ UNCHANGED lists /\ user' = [user EXCEPT ![u] = UserIdle]
    <3>1. UNCHANGED <<tables, lists, cpu>>
      BY <1>8, <2>1 DEF DeleteOne
    <3>2. /\ user'[u].pc = "idle" /\ user[u].pc = "delete"
          /\ \A v \in Users \ {u} : user'[v] = user[v]
      BY <1>0, <1>8, <2>1 DEF DeleteOne, UserIdle
    <3>3. ASSUME NEW c \in Cpus PROVE Reads(c)'
      BY <3>1, <3>2 DEF Readers, Reads, Guarded, tables, lists
    <3> QED  BY <3>1, <3>2, <3>3 DEF Readers
  <2>2. CASE ~Ends(u) /\ Unlink(user[u].dh) /\
             user' = [user EXCEPT ![u].pc = "wait", ![u].victim = first[user[u].dh],
                                  ![u].wait = SynchronizeRcu]
    <3> DEFINE f == first[user[u].dh]
    <3>1. f \in Policies /\ status[f] = "linked" /\ user[u].pc = "delete"
      BY <1>0, <1>8, <2>2 DEF DeleteOne, Ends, User, UserState, Chained
    <3>2. /\ status' = [status EXCEPT ![f] = "unlinked"]
          /\ UNCHANGED <<tables, next, owner, cpu>>
      BY <1>8, <2>2 DEF DeleteOne, Unlink
    <3>3. /\ user'[u].pc = "wait" /\ user'[u].victim = f /\ user'[u].wait = SynchronizeRcu
          /\ \A v \in Users \ {u} : user'[v] = user[v]
      BY <1>0, <2>2 DEF User, UserState
    <3> HIDE DEF f
    <3>4. \A c \in Cpus : cpu[c].pc # "idle" <=> c \in SynchronizeRcu
      BY DEF SynchronizeRcu
    <3>5. \A c \in Cpus, q \in Policies : cpu[c].pc # "idle" => (Guarded(c, q)' <=> Guarded(c, q))
      <4>1. SUFFICES ASSUME NEW c \in Cpus, NEW q \in Policies, cpu[c].pc # "idle"
                     PROVE  Guarded(c, q)' <=> Guarded(c, q)
        OBVIOUS
      <4>2. c \in SynchronizeRcu
        BY <3>4, <4>1
      <4> QED  BY <1>0, <3>1, <3>2, <3>3, <4>2 DEF Guarded
    <3>6. ASSUME NEW c \in Cpus PROVE Reads(c)'
      <4>1. cpu[c].at \in Policies \cup {None} /\ Reads(c)
        BY <1>0 DEF Cpu, CpuState, Readers
      <4>2. cpu[c].pc \in {"walk", "found"} /\ cpu[c].at # None => Guarded(c, cpu[c].at)'
        <5>1. CASE cpu[c].at \in Policies /\ cpu[c].pc # "idle"
          <6>1. Guarded(c, cpu[c].at) => Guarded(c, cpu[c].at)'
            <7>1. c \in SynchronizeRcu
              BY <3>4, <5>1
            <7> QED  BY <1>0, <3>1, <3>2, <3>3, <5>1, <7>1 DEF Guarded
          <6> QED  BY <4>1, <6>1 DEF Reads
        <5> QED  BY <4>1, <5>1
      <4>3. ASSUME cpu[c].pc # "idle", NEW q \in Policies, Guarded(c, q)', next[q] # None
            PROVE  Guarded(c, next[q])'
        <5>1. Guarded(c, next[q]) /\ next[q] \in Policies
          BY <1>0, <3>5, <4>1, <4>3 DEF Reads
        <5>2. c \in SynchronizeRcu
          BY <3>4, <4>3
        <5> QED  BY <1>0, <3>1, <3>2, <3>3, <5>1, <5>2 DEF Guarded
      <4> QED  BY <1>0, <3>1, <3>2, <4>1, <4>2, <4>3 DEF Reads, tables
    <3>7. \A v \in Users : \A c \in user'[v].wait : user'[v].pc = "wait" => cpu'[c].pc # "idle"
      BY <3>2, <3>3 DEF Readers, SynchronizeRcu
    <3> QED  BY <3>6, <3>7 DEF Readers
  <2> QED  BY <1>8, <2>1, <2>2 DEF DeleteOne
<1>9. ASSUME NEW u \in Users, FreeOne(u) PROVE Readers'
  <2> DEFINE p == user[u].victim
  <2>1. p \in Policies /\ status[p] = "unlinked" /\ user[u].pc = "wait" /\ user[u].wait = {}
    BY <1>0, <1>9 DEF FreeOne, User, UserState, Victims, FreedOnce
  <2>2. /\ status' = [status EXCEPT ![p] = "freed"]
        /\ next' = [next EXCEPT ![p] = None]
        /\ owner' = [owner EXCEPT ![p] = None]
        /\ UNCHANGED <<tables, cpu>>
    BY <1>9 DEF FreeOne
  <2>3. user'[u].pc = "delete" /\ \A v \in Users \ {u} : user'[v] = user[v]
    BY <1>0, <1>9 DEF FreeOne, User, UserState
  <2>4. \A c \in Cpus : ~Guarded(c, p)
    BY <2>1 DEF Guarded
  <2>5. \A q \in Policies \ {p} : q # user[u].victim
    OBVIOUS
  <2> HIDE DEF p
  <2>6. ASSUME NEW c \in Cpus, NEW q \in Policies, Guarded(c, q)'
        PROVE  q # p /\ Guarded(c, q)
    <3>1. status'[q] \in {"linked", "unlinked"}
      BY <2>6 DEF Guarded
    <3>2. q # p
      BY <1>0, <2>1, <2>2, <3>1
    <3> QED  BY <1>0, <2>1, <2>2, <2>3, <2>5, <2>6, <3>2 DEF Guarded
  <2>7. ASSUME NEW c \in Cpus PROVE Reads(c)'
    <3>1. cpu[c].at \in Policies \cup {None} /\ Reads(c)
      BY <1>0 DEF Cpu, CpuState, Readers
    <3>2. cpu[c].pc \in {"walk", "found"} /\ cpu[c].at # None => Guarded(c, cpu[c].at)'
      <4>1. SUFFICES ASSUME cpu[c].pc \in {"walk", "found"}, cpu[c].at # None
                     PROVE  Guarded(c, cpu[c].at)'
        OBVIOUS
      <4>2. Guarded(c, cpu[c].at) /\ cpu[c].at \in Policies
        BY <3>1, <4>1 DEF Reads
      <4>3. cpu[c].at # p
        BY <2>4, <4>2
      <4> QED  BY <1>0, <2>1, <2>2, <2>3, <2>5, <4>2, <4>3 DEF Guarded
    <3>3. ASSUME cpu[c].pc # "idle", NEW q \in Policies, Guarded(c, q)', next'[q] # None
          PROVE  Guarded(c, next[q])'
      <4>1. q # p /\ Guarded(c, q)
        BY <2>6, <3>3
      <4>2. next'[q] = next[q] /\ Guarded(c, next[q]) /\ next[q] \in Policies
        BY <1>0, <2>2, <3>1, <3>3, <4>1 DEF Reads
      <4>3. next[q] # p
        BY <2>4, <4>2
      <4> QED  BY <1>0, <2>1, <2>2, <2>3, <2>5, <4>2, <4>3 DEF Guarded
    <3>4. cpu[c].pc = "again" => cpu[c].at \in Policies
      BY <1>0 DEF Cpu, CpuState
    <3> QED  BY <1>0, <2>1, <2>2, <3>1, <3>2, <3>3, <3>4 DEF Reads, tables
  <2> QED  BY <2>2, <2>3, <2>7 DEF Readers
<1>10. CASE UNCHANGED <<table, lists, cpu, user>>
  BY <1>10 DEF Readers, Reads, Guarded, lists
<1> QED
  BY <1>1, <1>2, <1>3, <1>4, <1>5, <1>6, <1>7, <1>8, <1>9, <1>10
  DEF Next, CpuStep, UserStep, vars, tables, NetlinkCreate

-----------------------------------------------------------------------------
(* The invariant and what follows from it.                                 *)

Inv == Present /\ Chained /\ Victims /\ Owned /\ Kept /\ Readers

LEMMA InvInit == Init => Inv
<1> SUFFICES ASSUME Init PROVE Inv
  OBVIOUS
<1> USE NamespaceAssumption
<1>1. Present
  BY PresentInit
<1>2. Chained /\ Kept
  BY DEF Init, Chained, Kept
<1>3. PICK s \in Slots : table = [n \in Nets |-> IF n = InitNet THEN s ELSE None]
                          /\ cache = Slots \ {s}
  BY DEF Init
<1>4. Owned
  BY <1>3 DEF Init, Owned
<1>5. Victims /\ Readers
  BY DEF Init, Victims, FreedOnce, Readers, Reads, Idle, UserIdle
<1> QED  BY <1>1, <1>2, <1>4, <1>5 DEF Inv

LEMMA Invariance == Spec => []Inv
<1>1. Inv /\ [Next]_vars => Inv'
  BY PresentStep, ChainedStep, VictimsStep, OwnedStep, KeptStep, ReadersStep DEF Inv
<1> QED  BY InvInit, <1>1, PTL DEF Spec

\* However many users delete the policies of a namespace, which the loop of
\* dysco_del_policies allows between two rounds, no policy is freed twice.
THEOREM DeletedOnce == Spec => []FreedOnce
<1>1. Inv => FreedOnce
  BY DEF Inv, Victims
<1> QED  BY Invariance, <1>1, PTL

\* A CPU that walks the list, takes the chain or sends the SYN never touches a
\* policy that dysco_del_policies has freed.
THEOREM NoUseAfterFree == Spec => []ReadersSafe
<1>1. ASSUME Inv, NEW c \in Cpus, cpu[c].at # None, status[cpu[c].at] = "freed"
      PROVE  cpu[c].pc = "again"
  <2>1. cpu[c] \in Cpu /\ Reads(c)
    BY <1>1 DEF Inv, Present, Readers
  <2>2. cpu[c].pc # "idle"
    BY <1>1, <2>1 DEF Cpu, Idle
  <2>3. cpu[c].pc \notin {"walk", "found"}
    BY <1>1, <2>1 DEF Reads, Guarded
  <2> QED  BY <2>1, <2>2, <2>3 DEF Cpu, CpuState
<1>2. Inv => ReadersSafe
  BY <1>1 DEF ReadersSafe
<1> QED  BY Invariance, <1>2, PTL

\* The device event handler never gives two namespaces the same tables: the policies of one
\* do not steer the sessions of another.
THEOREM Isolation == Spec => []Isolated
<1>1. ASSUME Inv, NEW c \in Cpus, cpu[c].at # None
      PROVE  owner[cpu[c].at] \in {cpu[c].net, None}
  <2>1. cpu[c] \in Cpu /\ Reads(c)
    BY <1>1 DEF Inv, Present, Readers
  <2>2. cpu[c].pc # "idle"
    BY <1>1, <2>1 DEF Cpu, Idle
  <2>3. CASE cpu[c].pc \in {"walk", "found"}
    BY <1>1, <2>1, <2>3 DEF Reads, Guarded
  <2>4. CASE cpu[c].pc = "again"
    BY <2>1, <2>4 DEF Reads
  <2> QED  BY <2>1, <2>2, <2>3, <2>4 DEF Cpu, CpuState
<1>2. Inv => Isolated
  BY <1>1 DEF Isolated
<1> QED  BY Invariance, <1>2, PTL

-----------------------------------------------------------------------------
(* A deleted policy stays deleted.                                         *)

\* The policies on the list of the tables d have the numbers from 1, the last one,
\* to k[d], the first: when there is no first one, nothing is on the list.
Order(r, k) ==
    /\ \A d \in Slots : first[d] = None => k[d] = 0
    /\ \A d \in Slots : first[d] # None => r[first[d]] = k[d]
    /\ \A p \in Policies : status[p] = "linked" =>
          /\ table[owner[p]] \in Slots
          /\ r[p] >= 1 /\ r[p] <= k[table[owner[p]]]
          /\ next[p] = None => r[p] = 1
          /\ next[p] # None => r[next[p]] = r[p] - 1
    /\ \A p, q \in Policies :
          status[p] = "linked" /\ status[q] = "linked" /\ r[p] = r[q]
          /\ table[owner[p]] = table[owner[q]] => p = q

Listed ==
    /\ \E r \in [Policies -> Nat], k \in [Slots -> Nat] : Order(r, k)
    /\ \A p \in Policies : status[p] \in {"unused", "freed"} => owner[p] = None

LEMMA OrderAdd ==
    ASSUME Present, Chained, Owned, NEW u \in Users, NEW n \in Nets, AddPolicy(u, n),
           NEW r \in [Policies -> Nat], NEW k \in [Slots -> Nat], Order(r, k)
    PROVE  \E s \in [Policies -> Nat], m \in [Slots -> Nat] : Order(s, m)'
<1> USE NamespaceAssumption
<1>0. /\ first \in [Slots -> Policies \cup {None}] /\ next \in [Policies -> Policies \cup {None}]
      /\ status \in [Policies -> {"unused", "linked", "unlinked", "freed"}]
      /\ owner \in [Policies -> Nets \cup {None}] /\ table \in [Nets -> Slots \cup {None}]
  BY DEF Present, TypeOK
<1>1. PICK p \in Policies :
        /\ status[p] = "unused"
        /\ status' = [status EXCEPT ![p] = "linked"]
        /\ owner' = [owner EXCEPT ![p] = n]
        /\ next' = [next EXCEPT ![p] = first[table[n]]]
        /\ first' = [first EXCEPT ![table[n]] = p]
  BY DEF AddPolicy
<1>2. PICK d \in Slots : d = table[n] /\ table' = table
  BY DEF AddPolicy, Present, TypeOK, tables
<1> DEFINE s == [r EXCEPT ![p] = k[d] + 1]
           m == [k EXCEPT ![d] = @ + 1]
<1>3. s \in [Policies -> Nat] /\ m \in [Slots -> Nat]
  BY <1>2
<1>4. /\ s[p] = k[d] + 1 /\ \A q \in Policies \ {p} : s[q] = r[q]
      /\ m[d] = k[d] + 1 /\ \A e \in Slots \ {d} : m[e] = k[e]
  BY <1>2
<1>5. /\ \A q \in Policies : status'[q] = "linked" <=> status[q] = "linked" \/ q = p
      /\ \A q \in Policies \ {p} : owner'[q] = owner[q] /\ next'[q] = next[q]
      /\ owner'[p] = n /\ next'[p] = first[d]
      /\ first'[d] = p /\ \A e \in Slots \ {d} : first'[e] = first[e]
  BY <1>0, <1>1, <1>2
<1>6. /\ \A e \in Slots : first[e] # p
      /\ \A q \in Policies : status[q] = "linked" => next[q] # p
  BY <1>0, <1>1 DEF Chained
<1> HIDE DEF s, m
<1>7. ASSUME NEW e \in Slots
      PROVE  /\ first'[e] = None => m[e] = 0
             /\ first'[e] # None => s[first'[e]] = m[e]
  BY <1>0, <1>2, <1>4, <1>5, <1>6 DEF Order
<1>8. ASSUME NEW q \in Policies, status'[q] = "linked"
      PROVE  /\ table[owner'[q]] \in Slots
             /\ s[q] >= 1 /\ s[q] <= m[table[owner'[q]]]
             /\ next'[q] = None => s[q] = 1
             /\ next'[q] # None => s[next'[q]] = s[q] - 1
  <2>1. CASE q = p
    <3>1. first[d] # None => first[d] \in Policies \ {p} /\ r[first[d]] = k[d]
      BY <1>0, <1>2, <1>6 DEF Order
    <3>2. k[d] \in Nat /\ (first[d] = None => k[d] = 0)  BY <1>2 DEF Order
    <3> QED  BY <1>2, <1>4, <1>5, <2>1, <3>1, <3>2
  <2>2. CASE q # p
    <3>1. /\ status[q] = "linked" /\ table[owner[q]] \in Slots
          /\ r[q] \in Nat /\ r[q] >= 1 /\ r[q] <= k[table[owner[q]]]
          /\ next[q] = None => r[q] = 1
          /\ next[q] # None => r[next[q]] = r[q] - 1 /\ next[q] \in Policies \ {p}
      BY <1>0, <1>5, <1>6, <1>8, <2>2 DEF Order
    <3>2. m[table[owner[q]]] >= k[table[owner[q]]] /\ k[table[owner[q]]] \in Nat
          /\ m[table[owner[q]]] \in Nat
      BY <1>2, <1>3, <1>4, <3>1
    <3> QED  BY <1>4, <1>5, <2>2, <3>1, <3>2
  <2> QED  BY <2>1, <2>2
<1>9. ASSUME NEW q \in Policies, NEW o \in Policies,
             status'[q] = "linked", status'[o] = "linked", s[q] = s[o],
             table[owner'[q]] = table[owner'[o]]
      PROVE  q = o
  <2>1. \A x \in Policies \ {p} : status'[x] = "linked" /\ table[owner'[x]] = d => s[x] # k[d] + 1
    BY <1>2, <1>4, <1>5 DEF Order
  <2>2. CASE q # p /\ o # p  BY <1>4, <1>5, <1>9, <2>2 DEF Order
  <2>3. CASE q = p \/ o = p  BY <1>4, <1>5, <1>2, <1>9, <2>1, <2>3
  <2> QED  BY <2>2, <2>3
<1>10. Order(s, m)'
  BY <1>2, <1>7, <1>8, <1>9 DEF Order
<1> QED  BY <1>3, <1>10

LEMMA OrderUnlink ==
    ASSUME Present, Chained, Owned, NEW d \in Slots, first[d] # None, Unlink(d),
           UNCHANGED table,
           NEW r \in [Policies -> Nat], NEW k \in [Slots -> Nat], Order(r, k)
    PROVE  \E m \in [Slots -> Nat] : Order(r, m)'
<1> USE NamespaceAssumption
<1>0. /\ first \in [Slots -> Policies \cup {None}] /\ next \in [Policies -> Policies \cup {None}]
      /\ status \in [Policies -> {"unused", "linked", "unlinked", "freed"}]
      /\ owner \in [Policies -> Nets \cup {None}] /\ table \in [Nets -> Slots \cup {None}]
  BY DEF Present, TypeOK
<1> DEFINE f == first[d]
           m == [k EXCEPT ![d] = @ - 1]
<1>1. /\ f \in Policies /\ status[f] = "linked" /\ table[owner[f]] = d
      /\ r[f] = k[d] /\ k[d] \in Nat /\ k[d] >= 1
  BY <1>0 DEF Chained, Owned, Order
<1>2. m \in [Slots -> Nat] /\ m[d] = k[d] - 1 /\ \A e \in Slots \ {d} : m[e] = k[e]
  BY <1>1
<1>3. /\ first'[d] = next[f] /\ \A e \in Slots \ {d} : first'[e] = first[e]
      /\ \A q \in Policies : status'[q] = "linked" <=> status[q] = "linked" /\ q # f
      /\ next' = next /\ owner' = owner
  BY <1>0, <1>1 DEF Unlink
<1> HIDE DEF f, m
<1>4. ASSUME NEW e \in Slots
      PROVE  /\ first'[e] = None => m[e] = 0
             /\ first'[e] # None => r[first'[e]] = m[e]
  <2>1. CASE e = d
    <3>1. next[f] = None => r[f] = 1  BY <1>1 DEF Order
    <3>2. next[f] # None => r[next[f]] = r[f] - 1  BY <1>1 DEF Order
    <3> QED  BY <1>1, <1>2, <1>3, <2>1, <3>1, <3>2
  <2>2. CASE e # d  BY <1>2, <1>3, <2>2 DEF Order
  <2> QED  BY <2>1, <2>2
<1>5. ASSUME NEW q \in Policies, status'[q] = "linked"
      PROVE  /\ table[owner[q]] \in Slots
             /\ r[q] >= 1 /\ r[q] <= m[table[owner[q]]]
             /\ next[q] = None => r[q] = 1
             /\ next[q] # None => r[next[q]] = r[q] - 1
  <2>1. /\ status[q] = "linked" /\ q # f /\ r[q] \in Nat
        /\ table[owner[q]] \in Slots /\ r[q] <= k[table[owner[q]]] /\ r[q] >= 1
        /\ next[q] = None => r[q] = 1
        /\ next[q] # None => r[next[q]] = r[q] - 1
    BY <1>3, <1>5 DEF Order
  <2>2. table[owner[q]] = d => r[q] # k[d]
    BY <1>1, <2>1 DEF Order
  <2>3. r[q] <= m[table[owner[q]]]
    BY <1>1, <1>2, <2>1, <2>2
  <2> QED  BY <2>1, <2>3
<1>6. Order(r, m)'
  BY <1>3, <1>4, <1>5 DEF Order
<1> QED  BY <1>2, <1>6

LEMMA ListedStep ==
    ASSUME Present, Chained, Victims, Owned, Listed, [Next]_vars
    PROVE  Listed'
<1> USE NamespaceAssumption
<1>0. /\ first \in [Slots -> Policies \cup {None}] /\ next \in [Policies -> Policies \cup {None}]
      /\ status \in [Policies -> {"unused", "linked", "unlinked", "freed"}]
      /\ owner \in [Policies -> Nets \cup {None}] /\ table \in [Nets -> Slots \cup {None}]
  BY DEF Present, TypeOK
<1>r. PICK r \in [Policies -> Nat], k \in [Slots -> Nat] : Order(r, k)
  BY DEF Listed
<1>1. CASE UNCHANGED lists /\ \A n \in Nets : table[n] # None => table'[n] = table[n]
  <2>1. \A p \in Policies : status[p] = "linked" => table'[owner[p]] = table[owner[p]]
    BY <1>r, <1>1 DEF Owned, Order
  <2>2. Order(r, k)'
    BY <1>r, <1>1, <2>1 DEF Order, lists
  <2> QED  BY <1>1, <2>2 DEF Listed, lists
<1>2. ASSUME NEW u \in Users, NEW n \in Nets, AddPolicy(u, n) PROVE Listed'
  <2>1. \A p \in Policies : status'[p] \in {"unused", "freed"} => owner'[p] = None
    BY <1>0, <1>2 DEF AddPolicy, Listed
  <2> QED  BY <1>r, <1>2, <2>1, OrderAdd DEF Listed
<1>3. ASSUME NEW u \in Users, DeleteOne(u) PROVE Listed'
  <2>1. CASE ~Ends(u) /\ Unlink(user[u].dh)
    <3>1. user[u].dh \in Slots /\ first[user[u].dh] # None /\ UNCHANGED table
      BY <1>3, <2>1 DEF DeleteOne, Ends, Present, User, UserState, tables
    <3>2. \A p \in Policies : status'[p] \in {"unused", "freed"} => owner'[p] = None
      BY <1>0, <2>1 DEF Unlink, Listed
    <3> QED  BY <1>r, <2>1, <3>1, <3>2, OrderUnlink DEF Listed
  <2>2. CASE UNCHANGED lists
    BY <1>1, <1>3, <2>2 DEF DeleteOne, tables
  <2> QED  BY <1>3, <2>1, <2>2 DEF DeleteOne
<1>4. ASSUME NEW u \in Users, FreeOne(u) PROVE Listed'
  <2> DEFINE v == user[u].victim
  <2>1. v \in Policies /\ status[v] = "unlinked"
    BY <1>4 DEF FreeOne, Present, User, UserState, Victims, FreedOnce
  <2>2. /\ status' = [status EXCEPT ![v] = "freed"]
        /\ next' = [next EXCEPT ![v] = None]
        /\ owner' = [owner EXCEPT ![v] = None]
        /\ UNCHANGED <<table, first>>
    BY <1>4 DEF FreeOne, tables
  <2> HIDE DEF v
  <2>3. Order(r, k)'
    BY <1>0, <1>r, <2>1, <2>2 DEF Order
  <2>4. \A p \in Policies : status'[p] \in {"unused", "freed"} => owner'[p] = None
    BY <1>0, <2>1, <2>2 DEF Listed
  <2> QED  BY <2>3, <2>4 DEF Listed
<1>5. ASSUME NEW n \in Nets, DeviceEvent(n) PROVE Listed'
  <2>1. UNCHANGED lists /\ \A m \in Nets : table[m] # None => table'[m] = table[m]
    BY <1>0, <1>5 DEF DeviceEvent, TakeFromCache
  <2> QED  BY <1>1, <2>1
<1>6. CASE UNCHANGED <<table, lists>>
  BY <1>1, <1>6
<1> QED
  BY <1>2, <1>3, <1>4, <1>5, <1>6
  DEF Next, CpuStep, UserStep, vars, tables, NetlinkCreate, SynOut, SynAgain,
      MatchPolicy, NoMatch, SynLeaves, DelPolicies

Dead == {"unlinked", "freed"}
Alive == {"linked", "unlinked"}

\* A link that has not been reset leads out of this set only from outside.
Closed(S) == \A q \in Policies : status[q] \in Alive /\ next[q] \in S => q \in S

\* What is gone is off the list, with all that leads to it; so is what was gone
\* when a CPU began, and it is not looking at it.
Gone ==
    /\ \A p \in gone : status[p] = "unlinked"
    /\ Closed(gone)
    /\ \A p \in Policies : status[p] = "unlinked" /\ next[p] # None =>
          \/ status[next[p]] = "freed"
          \/ status[next[p]] \in Alive /\ owner[next[p]] = owner[p]
    /\ \A c \in Cpus :
          /\ \A p \in cpu[c].gone : status[p] \in Dead
          /\ Closed(cpu[c].gone)
    /\ DeletedForGood

\* No list changes: what a CPU does is only of its own.
LEMMA GoneCpu ==
    ASSUME Present, Gone, NEW c \in Cpus, NEW r \in Cpu, cpu' = [cpu EXCEPT ![c] = r],
           UNCHANGED <<lists, gone>>, r.gone \in {gone, cpu[c].gone, {}},
           r.pc \in {"walk", "found"} => r.at \notin r.gone
    PROVE  Gone'
<1>1. cpu'[c] = r /\ \A d \in Cpus \ {c} : cpu'[d] = cpu[d]
  BY DEF Present
<1>2. \A p \in r.gone : status[p] \in Dead
  BY DEF Gone, Dead
<1>3. Closed(r.gone)
  BY DEF Gone, Closed
<1>4. DeletedForGood'
  BY <1>1 DEF Gone, DeletedForGood
<1> QED  BY <1>1, <1>2, <1>3, <1>4 DEF Gone, Closed, lists

LEMMA GoneStep ==
    ASSUME Inv, Listed, Gone, [Next]_vars
    PROVE  Gone'
<1> USE NamespaceAssumption
<1>0. /\ first \in [Slots -> Policies \cup {None}] /\ next \in [Policies -> Policies \cup {None}]
      /\ status \in [Policies -> {"unused", "linked", "unlinked", "freed"}]
      /\ owner \in [Policies -> Nets \cup {None}] /\ table \in [Nets -> Slots \cup {None}]
      /\ cpu \in [Cpus -> Cpu] /\ user \in [Users -> User] /\ gone \subseteq Policies
      /\ \A c \in Cpus : cpu[c].gone \subseteq Policies /\ cpu[c].gone \in SUBSET Policies
      /\ Present /\ Chained /\ Owned /\ Victims
  BY DEF Inv, Present, TypeOK, Cpu, CpuState
<1>1. CASE UNCHANGED <<lists, gone, cpu>>
  BY <1>1 DEF Gone, Closed, DeletedForGood, lists
<1>2. ASSUME NEW c \in Cpus, NEW n \in Nets, SynOut(c, n) PROVE Gone'
  <2> DEFINE r == [pc |-> "walk", net |-> n, dh |-> table[n], at |-> first[table[n]],
                   gone |-> gone]
  <2>1. r \in Cpu  BY <1>0, <1>2 DEF SynOut, Cpu, CpuState
  <2>2. r.at \notin gone  BY <1>0, <1>2 DEF SynOut, Gone, Chained
  <2>3. r.gone = gone /\ cpu' = [cpu EXCEPT ![c] = r]  BY <1>2 DEF SynOut
  <2> HIDE DEF r
  <2> QED  BY <1>0, <1>2, <2>1, <2>2, <2>3, GoneCpu DEF SynOut
<1>3. ASSUME NEW c \in Cpus, NEW n \in Nets, SynAgain(c, n) PROVE Gone'
  <2>1. PICK p \in blocks[table[n]] :
            cpu' = [cpu EXCEPT ![c] = [pc |-> "again", net |-> n, dh |-> table[n],
                                       at |-> p, gone |-> gone]]
    BY <1>3 DEF SynAgain
  <2> DEFINE r == [pc |-> "again", net |-> n, dh |-> table[n], at |-> p, gone |-> gone]
  <2>2. table[n] \in Slots /\ p \in Policies  BY <1>0, <1>3 DEF SynAgain, Present, TypeOK
  <2>3. r \in Cpu /\ r.gone = gone /\ r.pc = "again"  BY <1>0, <2>2 DEF Cpu, CpuState
  <2>4. cpu' = [cpu EXCEPT ![c] = r]  BY <2>1
  <2> HIDE DEF r
  <2> QED  BY <1>0, <1>3, <2>3, <2>4, GoneCpu DEF SynAgain
<1>4. ASSUME NEW c \in Cpus, MatchPolicy(c) PROVE Gone'
  <2>1. /\ cpu[c] \in Cpu /\ cpu[c].pc = "walk" /\ cpu[c].at \in Policies
        /\ cpu[c].at \notin cpu[c].gone
    BY <1>0, <1>4 DEF MatchPolicy, Cpu, CpuState, Gone, DeletedForGood
  <2>2. CASE cpu' = [cpu EXCEPT ![c].pc = "found"]
    <3> DEFINE r == [cpu[c] EXCEPT !.pc = "found"]
    <3>1. r \in Cpu /\ r.gone = cpu[c].gone /\ r.at = cpu[c].at
      BY <2>1 DEF Cpu, CpuState
    <3>2. cpu' = [cpu EXCEPT ![c] = r]  BY <2>2
    <3> HIDE DEF r
    <3> QED  BY <1>0, <1>4, <2>1, <3>1, <3>2, GoneCpu DEF MatchPolicy
  <2>3. CASE cpu' = [cpu EXCEPT ![c].at = next[cpu[c].at]]
    <3> DEFINE r == [cpu[c] EXCEPT !.at = next[cpu[c].at]]
    <3>1. r \in Cpu /\ r.gone = cpu[c].gone /\ r.at = next[cpu[c].at]
      BY <1>0, <2>1 DEF Cpu, CpuState
    <3>2. cpu' = [cpu EXCEPT ![c] = r]  BY <2>3
    <3>3. status[cpu[c].at] \in Alive
      <4>1. cpu[c].at # None  BY <2>1
      <4> QED  BY <2>1, <4>1 DEF Inv, Readers, Reads, Guarded, Alive
    <3>4. next[cpu[c].at] \notin cpu[c].gone  BY <2>1, <3>3 DEF Gone, Closed
    <3> HIDE DEF r
    <3> QED  BY <1>0, <1>4, <2>1, <3>1, <3>2, <3>4, GoneCpu DEF MatchPolicy
  <2> QED  BY <1>4, <2>2, <2>3 DEF MatchPolicy
<1>5. ASSUME NEW c \in Cpus, NoMatch(c) \/ SynLeaves(c) PROVE Gone'
  <2>1. cpu' = [cpu EXCEPT ![c] = Idle] /\ UNCHANGED <<lists, gone>>
    BY <1>5 DEF NoMatch, SynLeaves, LeaveSection
  <2>2. Idle \in Cpu /\ Idle.gone = {} /\ Idle.pc = "idle"  BY IdleStates DEF Idle
  <2> QED  BY <1>0, <2>1, <2>2, GoneCpu
<1>6. ASSUME NEW u \in Users, NEW n \in Nets, AddPolicy(u, n) PROVE Gone'
  <2>1. PICK p \in Policies :
          /\ status[p] = "unused"
          /\ status' = [status EXCEPT ![p] = "linked"]
          /\ owner' = [owner EXCEPT ![p] = n]
          /\ next' = [next EXCEPT ![p] = first[table[n]]]
          /\ UNCHANGED <<gone, cpu>>
    BY <1>6 DEF AddPolicy
  <2>2. /\ \A q \in Policies \ {p} : status'[q] = status[q] /\ next'[q] = next[q] /\ owner'[q] = owner[q]
        /\ status'[p] = "linked" /\ next'[p] = first[table[n]]
    BY <1>0, <2>1
  <2>3. first[table[n]] # None => status[first[table[n]]] = "linked"
    BY <1>0, <1>6 DEF AddPolicy, Chained, Present, TypeOK
  <2>4. ASSUME NEW S \in SUBSET Policies, Closed(S), \A q \in S : status[q] \in Dead
        PROVE  Closed(S)' /\ \A q \in S : status'[q] \in Dead
    <3>1. p \notin S /\ first[table[n]] \notin S
      BY <2>1, <2>3, <2>4 DEF Dead
    <3> QED  BY <2>2, <2>4, <3>1 DEF Closed
  <2>5. /\ \A q \in gone : status[q] \in Dead
        /\ \A q \in gone : status'[q] = "unlinked"
    BY <1>0, <2>1, <2>2 DEF Gone, Dead
  <2>6. Closed(gone)'
    BY <1>0, <2>1, <2>4, <2>5 DEF Gone, Closed
  <2>7. ASSUME NEW c \in Cpus
        PROVE  Closed(cpu[c].gone)' /\ \A q \in cpu'[c].gone : status'[q] \in Dead
    <3> DEFINE S == cpu[c].gone
    <3>1. S \in SUBSET Policies /\ Closed(S) /\ \A q \in S : status[q] \in Dead
      BY <1>0 DEF Gone
    <3>2. S' = S  BY <2>1
    <3> HIDE DEF S
    <3>3. Closed(S)' /\ \A q \in S : status'[q] \in Dead
      BY <2>4, <3>1, <3>2 DEF Closed
    <3> QED  BY <3>2, <3>3 DEF S
  <2>8. \A q \in Policies : status'[q] = "unlinked" /\ next'[q] # None =>
          \/ status'[next'[q]] = "freed"
          \/ status'[next'[q]] \in Alive /\ owner'[next'[q]] = owner'[q]
    <3> SUFFICES ASSUME NEW q \in Policies, status'[q] = "unlinked", next'[q] # None
                 PROVE  \/ status'[next'[q]] = "freed"
                        \/ status'[next'[q]] \in Alive /\ owner'[next'[q]] = owner'[q]
      OBVIOUS
    <3>1. q # p /\ status[q] = "unlinked" /\ next'[q] = next[q] /\ next[q] \in Policies
      BY <1>0, <2>2
    <3>2. next[q] # p
      <4>1. next[q] # None  BY <3>1
      <4> QED  BY <2>1, <3>1, <4>1 DEF Gone, Alive
    <3>3. next[q] # None  BY <3>1
    <3>4. \/ status[next[q]] = "freed"
          \/ status[next[q]] \in Alive /\ owner[next[q]] = owner[q]
      BY <1>0, <3>1, NamespaceAssumption DEF Gone
    <3> QED  BY <2>2, <3>1, <3>2, <3>4
  <2>9. DeletedForGood'  BY <2>1 DEF Gone, DeletedForGood
  <2> QED  BY <2>1, <2>5, <2>6, <2>7, <2>8, <2>9 DEF Gone
<1>7. ASSUME NEW u \in Users, DeleteOne(u) PROVE Gone'
  <2> DEFINE d == user[u].dh
  <2>1. d \in Slots /\ UNCHANGED <<tables, cpu>>
    BY <1>0, <1>7 DEF DeleteOne, User, UserState
  <2>2. CASE Ends(u) /\ UNCHANGED lists
             /\ gone' = gone \cup {p \in Policies : HasTables(p, user[u].dh)}
    <3> DEFINE T == {p \in Policies : HasTables(p, d)}
    <3>1. first[d] = None  BY <2>2 DEF Ends
    <3>2. ASSUME NEW p \in T PROVE status[p] = "unlinked"
      <4>1. p \in Policies /\ owner[p] # None /\ table[owner[p]] = d
        BY DEF HasTables
      <4>2. status[p] \notin {"unused", "freed"}  BY <4>1 DEF Listed
      <4>3. PICK r \in [Policies -> Nat], k \in [Slots -> Nat] : Order(r, k)
        BY DEF Listed
      <4>4. k[d] = 0  BY <2>1, <3>1, <4>3 DEF Order
      <4>5. status[p] # "linked"
        <5> HIDE DEF d
        <5>1. status[p] = "linked" => r[p] >= 1 /\ r[p] <= k[d]
          BY <4>1, <4>3 DEF Order
        <5>2. r[p] \in Nat  BY <4>1, <4>3
        <5> QED  BY <4>4, <5>1, <5>2
      <4> QED  BY <1>0, <4>1, <4>2, <4>5
    <3>3. ASSUME NEW q \in Policies, status[q] \in Alive, next[q] \in T PROVE q \in T
      <4>1. status[next[q]] = "unlinked" /\ next[q] # None  BY <1>0, <3>2, <3>3
      <4>2. status[q] = "unlinked"  BY <1>0, <3>3, <4>1 DEF Chained, Alive
      <4>3. owner[next[q]] = owner[q]  BY <3>3, <4>1, <4>2 DEF Gone
      <4> QED  BY <3>3, <4>3 DEF HasTables
    <3> HIDE DEF T
    <3>4. gone' = gone \cup T  BY <2>2 DEF T
    <3>5. Closed(gone)'  BY <2>2, <3>3, <3>4 DEF Gone, Closed, lists
    <3>6. \A p \in gone' : status[p] = "unlinked"  BY <3>2, <3>4 DEF Gone
    <3> QED  BY <2>1, <2>2, <3>5, <3>6 DEF Gone, Closed, DeletedForGood, lists
  <2>3. CASE ~Ends(u) /\ Unlink(user[u].dh) /\ UNCHANGED gone
    <3> DEFINE f == first[d]
    <3>1. /\ f \in Policies /\ status[f] = "linked"
          /\ next[f] # None => status[next[f]] = "linked" /\ owner[next[f]] = owner[f]
                               /\ next[f] # f
      BY <1>0, <2>1, <2>3 DEF Ends, Chained, Owned
    <3>2. /\ status' = [status EXCEPT ![f] = "unlinked"] /\ UNCHANGED <<next, owner>>
      BY <2>3 DEF Unlink
    <3> HIDE DEF f, d
    <3>3. /\ status'[f] = "unlinked" /\ \A q \in Policies \ {f} : status'[q] = status[q]
          /\ \A q \in Policies : status'[q] \in Alive <=> status[q] \in Alive
          /\ \A q \in Policies : status[q] \in Dead => status'[q] = status[q]
      BY <1>0, <3>1, <3>2 DEF Alive, Dead
    <3>4. \A p \in gone' : status'[p] = "unlinked"
      BY <1>0, <2>3, <3>3 DEF Gone
    <3>5. Closed(gone)' /\ \A c \in Cpus : Closed(cpu[c].gone)'
      BY <2>1, <2>3, <3>2, <3>3 DEF Gone, Closed
    <3>6. ASSUME NEW q \in Policies, status'[q] = "unlinked", next[q] # None
          PROVE  \/ status'[next[q]] = "freed"
                 \/ status'[next[q]] \in Alive /\ owner[next[q]] = owner[q]
      <4>1. next[q] \in Policies  BY <1>0, <3>6
      <4>2. CASE q = f  BY <3>1, <3>3, <3>6, <4>1, <4>2 DEF Alive
      <4>3. CASE q # f
        <5>1. \/ status[next[q]] = "freed"
              \/ status[next[q]] \in Alive /\ owner[next[q]] = owner[q]
          BY <3>3, <3>6, <4>3 DEF Gone
        <5> QED  BY <3>3, <4>1, <5>1 DEF Dead
      <4> QED  BY <4>2, <4>3
    <3>7. \A c \in Cpus : \A p \in cpu[c].gone : status'[p] \in Dead
      BY <1>0, <3>3 DEF Gone
    <3> QED  BY <2>1, <3>2, <3>4, <3>5, <3>6, <3>7 DEF Gone, DeletedForGood
  <2> QED  BY <1>7, <2>2, <2>3 DEF DeleteOne
<1>8. ASSUME NEW u \in Users, FreeOne(u) PROVE Gone'
  <2> DEFINE v == user[u].victim
  <2>1. v \in Policies /\ status[v] = "unlinked"
    BY <1>0, <1>8 DEF FreeOne, User, UserState, Victims, FreedOnce
  <2>2. /\ status' = [status EXCEPT ![v] = "freed"]
        /\ next' = [next EXCEPT ![v] = None]
        /\ owner' = [owner EXCEPT ![v] = None]
        /\ gone' = gone \ {v} /\ cpu' = cpu
    BY <1>8 DEF FreeOne
  <2> HIDE DEF v
  <2>3. /\ status'[v] = "freed" /\ next'[v] = None
        /\ \A q \in Policies \ {v} : status'[q] = status[q] /\ next'[q] = next[q]
                                     /\ owner'[q] = owner[q]
    BY <1>0, <2>1, <2>2
  <2>4. \A p \in gone' : status'[p] = "unlinked"
    BY <1>0, <2>2, <2>3 DEF Gone
  <2>5. Closed(gone)' /\ \A c \in Cpus : Closed(cpu[c].gone)'
    BY <1>0, <2>2, <2>3 DEF Gone, Closed, Alive
  <2>6. ASSUME NEW q \in Policies, status'[q] = "unlinked", next'[q] # None
        PROVE  \/ status'[next'[q]] = "freed"
               \/ status'[next'[q]] \in Alive /\ owner'[next'[q]] = owner'[q]
    <3>1. q # v /\ status[q] = "unlinked" /\ next'[q] = next[q] /\ next[q] \in Policies
      BY <1>0, <2>3, <2>6
    <3>2. next[q] # None  BY <3>1
    <3>3. \/ status[next[q]] = "freed"
          \/ status[next[q]] \in Alive /\ owner[next[q]] = owner[q]
      BY <3>1, <3>2 DEF Gone
    <3> QED  BY <2>3, <3>1, <3>3
  <2>7. \A c \in Cpus : \A p \in cpu[c].gone : status'[p] \in Dead
    BY <1>0, <2>3 DEF Gone, Dead
  <2> QED  BY <2>2, <2>4, <2>5, <2>6, <2>7 DEF Gone, DeletedForGood
<1> QED
  BY <1>1, <1>2, <1>3, <1>4, <1>5, <1>6, <1>7, <1>8
  DEF Next, CpuStep, UserStep, vars, DeviceEvent, NetlinkCreate, DelPolicies

LEMMA GoneInit == Init => Listed /\ Gone
<1> SUFFICES ASSUME Init PROVE Listed /\ Gone
  OBVIOUS
<1> USE NamespaceAssumption
<1>1. Order([p \in Policies |-> 0], [d \in Slots |-> 0])
  BY DEF Init, Order
<1>2. [p \in Policies |-> 0] \in [Policies -> Nat] /\ [d \in Slots |-> 0] \in [Slots -> Nat]
  OBVIOUS
<1>3. Listed
  BY <1>1, <1>2 DEF Init, Listed
<1>4. Gone
  BY DEF Init, Gone, Closed, DeletedForGood, Alive, Idle
<1> QED  BY <1>3, <1>4

\* Once dysco_del_policies has found the list empty, no SYN that comes later is
\* steered by what was on it, even by a policy that another user still holds for its
\* grace period: the links that a reader may follow out of the list lead only to
\* policies that left it later.
THEOREM GoneForGood == Spec => []DeletedForGood
<1>1. Inv /\ Listed /\ [Next]_vars => Listed'
  BY ListedStep DEF Inv
<1>2. Inv /\ Listed /\ Gone /\ [Next]_vars => Gone'
  BY GoneStep
<1>3. Gone => DeletedForGood
  BY DEF Gone
<1> QED  BY Invariance, GoneInit, <1>1, <1>2, <1>3, PTL DEF Spec

-----------------------------------------------------------------------------
(* No tables are lost.                                                     *)

\* All tables are in the cache or with a namespace, and the cache was empty when a
\* namespace that was seen got none.
Supply ==
    /\ \A s \in Slots : s \in cache \/ \E m \in Nets : table[m] = s
    /\ \A n \in seen : table[n] = None => cache = {}

LEMMA SupplyStep ==
    ASSUME Present, Supply, [Next]_vars
    PROVE  Supply'
<1> USE NamespaceAssumption
<1>0. table \in [Nets -> Slots \cup {None}] /\ cache \subseteq Slots /\ seen \subseteq Nets
  BY DEF Present, TypeOK
<1>1. CASE UNCHANGED <<cache, table, seen>>
  BY <1>1 DEF Supply
<1>2. ASSUME NEW n \in Nets, DeviceEvent(n) PROVE Supply'
  <2>1. CASE table[n] = None /\ TakeFromCache(n)
    <3>1. PICK s \in cache : table' = [table EXCEPT ![n] = s] /\ cache' = cache \ {s}
      BY <2>1 DEF TakeFromCache
    <3>2. seen' = seen \cup {n} /\ cache # {}  BY <1>2, <3>1 DEF DeviceEvent
    <3>3. /\ table'[n] = s /\ s \in Slots
          /\ \A m \in Nets \ {n} : table'[m] = table[m]
      BY <1>0, <3>1
    <3>4. \A m \in seen \ {n} : table[m] # None  BY <3>2 DEF Supply
    <3>5. ASSUME NEW t \in Slots PROVE t \in cache' \/ \E m \in Nets : table'[m] = t
      <4>1. CASE t = s  BY <3>3, <4>1
      <4>2. CASE t # s /\ t \in cache  BY <3>1, <4>2
      <4>3. CASE t \notin cache
        <5>1. PICK m \in Nets : table[m] = t  BY <4>3 DEF Supply
        <5>2. m # n  BY <2>1, <5>1
        <5> QED  BY <3>3, <5>1, <5>2
      <4> QED  BY <4>1, <4>2, <4>3
    <3> QED  BY <1>0, <3>2, <3>3, <3>4, <3>5 DEF Supply
  <2>2. CASE ~(table[n] = None /\ cache # {})
    BY <1>2, <2>2 DEF DeviceEvent, Supply
  <2> QED  BY <1>2, <2>1, <2>2 DEF DeviceEvent
<1> QED
  BY <1>1, <1>2
  DEF Next, CpuStep, UserStep, vars, tables, NetlinkCreate, SynOut, SynAgain,
      MatchPolicy, NoMatch, SynLeaves, DelPolicies, AddPolicy, DeleteOne, FreeOne

\* Whatever device events arrive, and for however many namespaces: one that had a
\* device goes without tables only if as many others have all there are.
THEOREM RoomForAll == Spec => []ServedWhileRoom
<1>1. Init => Supply
  <2> SUFFICES ASSUME Init PROVE Supply
    OBVIOUS
  <2>1. PICK s \in Slots : table = [n \in Nets |-> IF n = InitNet THEN s ELSE None]
                           /\ cache = Slots \ {s} /\ seen = {InitNet}
    BY DEF Init
  <2>2. table[InitNet] = s  BY <2>1, NamespaceAssumption
  <2> QED  BY <2>1, <2>2, NamespaceAssumption DEF Supply
<1>2. Inv /\ Supply /\ [Next]_vars => Supply'
  BY SupplyStep DEF Inv
<1>3. ASSUME Inv, Supply, NEW n \in seen, table[n] = None
      PROVE  Cardinality({m \in Nets : table[m] # None}) = Cardinality(Slots)
  <2> DEFINE M == {m \in Nets : table[m] # None}
             f == [m \in M |-> table[m]]
  <2>1. cache = {}  BY <1>3 DEF Supply
  <2>2. \A m \in M : table[m] \in Slots  BY <1>3 DEF Inv, Present, TypeOK
  <2>3. \A l, m \in M : table[l] = table[m] => l = m  BY <1>3 DEF Inv, Owned
  <2>4. \A s \in Slots : \E m \in M : table[m] = s
    BY <1>3, <2>1, NamespaceAssumption DEF Supply
  <2>5. f \in Bijection(M, Slots)
    BY <2>2, <2>3, <2>4 DEF Bijection, Injection, Surjection, IsInjective
  <2>6. ExistsBijection(M, Slots)  BY <2>5 DEF ExistsBijection
  <2>7. IsFiniteSet(M)  BY NamespaceAssumption, FS_Subset
  <2> HIDE DEF M
  <2> QED  BY <2>6, <2>7, FS_Bijection DEF M
<1>4. Inv /\ Supply => ServedWhileRoom
  BY <1>3 DEF ServedWhileRoom
<1> QED  BY Invariance, <1>1, <1>2, <1>4, PTL DEF Spec
=============================================================================
