------------------------- MODULE FlowTableProofs -------------------------
(* Proofs about flow.Table for any goroutines, keys, shards and times: Inv is   *)
(* inductive, and from it a flow leaves its map only for a cause the code names *)
(* (FlowsLeaveForCause), a flow that is over is never touched again             *)
(* (NeverRevived), and OnClose is called once for every flow that leaves its    *)
(* table (OnCloseExactlyOnce).                                                  *)
EXTENDS FlowTable, FiniteSetTheorems, TLAPS

Labels == {"idle", "freeze", "touch", "closed", "closedFreeze", "onClose", "sweep", "scan",
           "expire", "close"}
FlowRec == [key : Key, state : {"none", "open", "closing", "closed"}, seen : Nat,
            frozen : BOOLEAN, left : {"no", "remove", "sweep", "close"}, onClose : Nat]
LocRec == [at : Labels, f : Nat, v : Nat, t : Nat, seen : Nat, frozen : BOOLEAN,
           shards : SUBSET Nat, keys : SUBSET Key, todo : SUBSET Nat]

Types ==
  /\ m \in [Key -> Nat] /\ now \in Nat /\ lastID \in 0 .. MaxFlows
  /\ flow \in [Flow -> FlowRec] /\ loc \in [Proc -> LocRec]

\* IDs are given out in order, and a map holds a flow under its own key.
Ids ==
  /\ \A f \in Flow : flow[f].state = "none" <=> f > lastID
  /\ \A k \in Key : m[k] <= lastID /\ (m[k] # NoFlow => flow[m[k]].key = k)
  /\ \A p \in Proc : loc[p].f <= lastID /\ loc[p].v <= lastID /\ loc[p].todo \subseteq 1 .. lastID

Sweeping(p) == loc[p].at \in {"scan", "expire"}

\* What a goroutine's position says of its variables.
Places ==
  \A p \in Proc :
    /\ loc[p].at \in {"freeze", "touch"} => loc[p].f # NoFlow
    /\ loc[p].at \in {"closedFreeze", "onClose"} => loc[p].v \in loc[p].todo
    /\ loc[p].at \in {"idle", "freeze", "touch", "close"} => loc[p].todo = {}

\* A Sweep holds the lock of the shard it scans, so that what it has yet to visit stays there.
Scans ==
  \A p \in Proc : Sweeping(p) =>
    /\ NextShard(p) \in locked
    /\ \A q \in Proc : q # p /\ Sweeping(q) => NextShard(q) # NextShard(p)
    /\ \A k \in loc[p].keys : m[k] # NoFlow /\ ShardOf[k] = NextShard(p)

\* Sweep has loaded a flow's word, and only a Touch of a flow that is not frozen changes it.
Expiring ==
  \A p \in Proc : loc[p].at = "expire" =>
    /\ loc[p].v # NoFlow /\ m[flow[loc[p].v].key] = loc[p].v
    /\ ShardOf[flow[loc[p].v].key] = NextShard(p) /\ flow[loc[p].v].key \notin loc[p].keys
    /\ loc[p].seen < Cutoff(p)
    /\ loc[p].frozen => flow[loc[p].v].frozen /\ flow[loc[p].v].seen = loc[p].seen

Inv == Types /\ Ids /\ Places /\ Scans /\ Expiring

\* The clock that Sweep advances.
LEMMA AdvanceType == ASSUME now \in Nat, NEW t \in Nat PROVE advance(t) \in Nat
  BY DEF advance, Max

\* The initial state satisfies the invariant.
LEMMA InitInv == Init => Inv
<1> SUFFICES ASSUME Init PROVE Inv
    OBVIOUS
<1>1. Types
      BY FlowAssumption DEF Init, Types, Absent, Resting, FlowRec, LocRec, Labels, NoFlow
<1>2. Ids
      BY FlowAssumption DEF Init, Ids, Absent, Resting, NoFlow, Flow
<1>3. Places /\ Scans /\ Expiring
      BY DEF Init, Places, Scans, Expiring, Sweeping, Resting
<1>4. QED
      BY <1>1, <1>2, <1>3 DEF Inv

\* Pointers are NoFlow or point to a flow.
LEMMA Pointers ==
  ASSUME Types, Ids
  PROVE  /\ \A p \in Proc : /\ loc[p].f \in Flow \cup {NoFlow} /\ loc[p].v \in Flow \cup {NoFlow}
                            /\ loc[p].todo \subseteq Flow
         /\ \A k \in Key : m[k] \in Flow \cup {NoFlow}
         /\ \A f \in Flow : flow[f] \in FlowRec /\ flow[f].key \in Key
<1>1. lastID \in Nat /\ MaxFlows \in Nat /\ lastID <= MaxFlows
      BY FlowAssumption DEF Types
<1>2. \A p \in Proc : loc[p].f \in Nat /\ loc[p].v \in Nat
      BY DEF Types, LocRec
<1>3. \A p \in Proc : loc[p].f <= lastID /\ loc[p].v <= lastID /\ loc[p].todo \subseteq 1 .. lastID
      BY DEF Ids
<1>4. \A k \in Key : m[k] \in Nat /\ m[k] <= lastID
      BY DEF Types, Ids
<1>5. \A f \in Flow : flow[f] \in FlowRec /\ flow[f].key \in Key
      BY DEF Types, FlowRec
<1>6. QED
      BY <1>1, <1>2, <1>3, <1>4, <1>5 DEF Flow, NoFlow

\* An assignment of a well-typed record to a goroutine's locals keeps their type.
LEMMA LocType ==
  ASSUME Types, NEW p \in Proc, NEW r \in LocRec, Local(p, r) PROVE loc' \in [Proc -> LocRec]
  BY DEF Types, Local

\* The same for a flow's record.
LEMMA FlowType ==
  ASSUME Types, NEW x \in Flow, NEW r \in FlowRec, flow' = [flow EXCEPT ![x] = r]
  PROVE  flow' \in [Flow -> FlowRec]
  BY DEF Types

\* Every step keeps the types, one case for each action.
LEMMA NextTypes == Inv /\ [Next]_vars => Types'
<1> SUFFICES ASSUME Inv, [Next]_vars PROVE Types'
    OBVIOUS
<1>t. Types /\ Ids /\ Places
      BY DEF Inv
<1>g. /\ m \in [Key -> Nat] /\ now \in Nat /\ lastID \in 0 .. MaxFlows
      /\ flow \in [Flow -> FlowRec] /\ loc \in [Proc -> LocRec]
      BY <1>t DEF Types
<1>p. \A p \in Proc : loc[p] \in LocRec
      BY <1>g
<1>f. \A p \in Proc : /\ loc[p].f \in Flow \cup {NoFlow} /\ loc[p].v \in Flow \cup {NoFlow}
                      /\ loc[p].todo \subseteq Flow
      BY <1>t, Pointers
<1>r. \A x \in Flow : flow[x] \in FlowRec
      BY <1>g
<1>n. Flow \subseteq Nat /\ NoFlow \notin Flow /\ NoFlow \in Nat
      BY DEF Flow, NoFlow
<1>q. ASSUME NEW p \in Proc PROVE [Resting EXCEPT !.f = loc[p].f] \in LocRec
  <2>1. loc[p].f \in Nat
        BY <1>p DEF LocRec
  <2>2. QED
        BY <1>n, <2>1 DEF LocRec, Labels, Resting
<1>1. ASSUME NEW p \in Proc, BeginClose(p) PROVE Types'
  <2>1. [loc[p] EXCEPT !.at = "freeze"] \in LocRec
        BY <1>p, <1>n DEF LocRec, Labels
  <2>2. loc' \in [Proc -> LocRec]
        BY <1>1, <1>t, <2>1, LocType DEF BeginClose, Goto
  <2>3. loc[p].f \in Flow
        BY <1>1, <1>t, <1>f DEF BeginClose, Places, At
  <2>4. [flow[loc[p].f] EXCEPT !.state = "closing"] \in FlowRec
        BY <1>p, <1>r, <2>3 DEF FlowRec
  <2>5. flow' \in [Flow -> FlowRec]
        BY <1>1, <1>t, <2>3, <2>4, FlowType, Zenon DEF BeginClose
  <2>6. QED
        BY <1>1, <1>g, <2>2, <2>5 DEF BeginClose, Types
<1>2. ASSUME NEW p \in Proc, CloseFlow(p) PROVE Types'
  <2>1. [loc[p] EXCEPT !.at = "freeze"] \in LocRec
        BY <1>p, <1>n DEF LocRec, Labels
  <2>2. loc' \in [Proc -> LocRec]
        BY <1>2, <1>t, <2>1, LocType DEF CloseFlow, Goto
  <2>3. loc[p].f \in Flow
        BY <1>2, <1>t, <1>f DEF CloseFlow, Places, At
  <2>4. [flow[loc[p].f] EXCEPT !.state = "closed"] \in FlowRec
        BY <1>p, <1>r, <2>3 DEF FlowRec
  <2>5. flow' \in [Flow -> FlowRec]
        BY <1>2, <1>t, <2>3, <2>4, FlowType, Zenon DEF CloseFlow
  <2>6. QED
        BY <1>2, <1>g, <2>2, <2>5 DEF CloseFlow, Types
<1>3. ASSUME NEW p \in Proc, freeze(p) PROVE Types'
  <2>1. [Resting EXCEPT !.f = loc[p].f] \in LocRec
        BY <1>q
  <2>2. loc' \in [Proc -> LocRec]
        BY <1>3, <1>t, <2>1, LocType DEF freeze, Return
  <2>3. loc[p].f \in Flow
        BY <1>3, <1>t, <1>f DEF freeze, Places, At
  <2>4. [flow[loc[p].f] EXCEPT !.frozen = TRUE] \in FlowRec
        BY <1>p, <1>r, <2>3, Zenon DEF FlowRec
  <2>5. flow' \in [Flow -> FlowRec]
        BY <1>3, <1>t, <2>3, <2>4, FlowType, Zenon DEF freeze
  <2>6. QED
        BY <1>3, <1>g, <2>2, <2>5 DEF freeze, Types
<1>4. ASSUME NEW p \in Proc, Touch(p) PROVE Types'
  <2>1. [loc[p] EXCEPT !.at = "touch", !.t = now] \in LocRec
        BY <1>p, <1>n, <1>g, ZenonT(30) DEF LocRec, Labels
  <2>2. loc' \in [Proc -> LocRec]
        BY <1>4, <1>t, <2>1, LocType DEF Touch
  <2>3. QED
        BY <1>4, <1>g, <2>2 DEF Touch, Types
<1>5. ASSUME NEW p \in Proc, TouchCAS(p) PROVE Types'
  <2>1. [Resting EXCEPT !.f = loc[p].f] \in LocRec
        BY <1>q
  <2>2. loc' \in [Proc -> LocRec]
        BY <1>5, <1>t, <2>1, LocType DEF TouchCAS, Return
  <2>3. loc[p].f \in Flow
        BY <1>5, <1>t, <1>f DEF TouchCAS, Places, At
  <2>4. [flow[loc[p].f] EXCEPT !.seen = loc[p].t] \in FlowRec
        BY <1>p, <1>r, <2>3 DEF FlowRec, LocRec
  <2>5. flow' \in [Flow -> FlowRec]
    <3>1. CASE Touchable(loc[p].f, loc[p].t)
          BY <1>5, <1>t, <2>3, <2>4, <3>1, FlowType, Zenon DEF TouchCAS
    <3>2. CASE ~Touchable(loc[p].f, loc[p].t)
          BY <1>5, <1>g, <3>2 DEF TouchCAS
    <3>3. QED
          BY <3>1, <3>2
  <2>6. QED
        BY <1>5, <1>g, <2>2, <2>5 DEF TouchCAS, Types
<1>6. ASSUME NEW p \in Proc, NEW k \in Key, Get(p, k) PROVE Types'
  <2>1. [loc[p] EXCEPT !.f = m[k]] \in LocRec
        BY <1>p, <1>n, <1>g DEF LocRec, Labels
  <2>2. loc' \in [Proc -> LocRec]
        BY <1>6, <1>t, <2>1, LocType DEF Get
  <2>3. QED
        BY <1>6, <1>g, <2>2 DEF Get, Types
<1>7. ASSUME NEW p \in Proc, NEW k \in Key, GetOrOpen(p, k) PROVE Types'
  <2>1. /\ lastID + 1 \in Flow /\ lastID' \in 0 .. MaxFlows /\ lastID + 1 \in Nat
        /\ m' \in [Key -> Nat]
        BY <1>7, <1>g, FlowAssumption DEF GetOrOpen, Flow
  <2>2. [loc[p] EXCEPT !.f = lastID + 1] \in LocRec
        BY <1>p, <2>1 DEF LocRec
  <2>3. loc' \in [Proc -> LocRec]
        BY <1>7, <1>t, <2>2, LocType DEF GetOrOpen
  <2>4. [Absent EXCEPT !.key = k, !.state = "open", !.seen = now] \in FlowRec
        BY <1>g, Zenon DEF Absent, FlowRec
  <2>5. flow' \in [Flow -> FlowRec]
        BY <1>7, <1>t, <2>1, <2>4, FlowType, Zenon DEF GetOrOpen
  <2>6. QED
        BY <1>7, <1>g, <2>1, <2>3, <2>5 DEF GetOrOpen, Types
<1>8. ASSUME NEW p \in Proc, Remove(p) PROVE Types'
  <2> DEFINE f == loc[p].f
             k == flow[f].key
  <2>1. f \in Flow /\ k \in Key /\ m[k] = f /\ f \in Nat
        BY <1>8, <1>f, <1>n, <1>t, Pointers DEF Remove, Removable
  <2>2. [loc[p] EXCEPT !.at = "closed", !.todo = {f}] \in LocRec
        BY <1>p, <2>1, ZenonT(30) DEF LocRec, Labels
  <2>3. [flow[f] EXCEPT !.frozen = TRUE, !.left = "remove"] \in FlowRec
        BY <1>r, <2>1, Zenon DEF FlowRec
  <2>4. /\ m' = [m EXCEPT ![k] = NoFlow] /\ UNCHANGED <<now, lastID>>
        /\ flow' = [flow EXCEPT ![f] = [flow[f] EXCEPT !.frozen = TRUE, !.left = "remove"]]
        /\ Local(p, [loc[p] EXCEPT !.at = "closed", !.todo = {f}])
        BY <1>8, <2>1 DEF Remove
  <2>5. loc' \in [Proc -> LocRec]
        BY <1>t, <2>2, <2>4, LocType
  <2>6. flow' \in [Flow -> FlowRec]
        BY <1>t, <2>1, <2>3, <2>4, FlowType, Zenon
  <2>7. m' \in [Key -> Nat]
        BY <1>g, <1>n, <2>4, Zenon
  <2>8. QED
        BY <1>g, <2>4, <2>5, <2>6, <2>7 DEF Types
<1>9. ASSUME NEW p \in Proc, NEW f \in Flow, ClosedCAS(p, f) PROVE Types'
  <2>1. [loc[p] EXCEPT !.v = f,
              !.at = IF flow[f].state = "closed" THEN "onClose" ELSE "closedFreeze"] \in LocRec
        BY <1>p, <1>n, ZenonT(30) DEF LocRec, Labels
  <2>2. loc' \in [Proc -> LocRec]
        BY <1>9, <1>t, <2>1, LocType DEF ClosedCAS
  <2>3. [flow[f] EXCEPT !.state = "closed"] \in FlowRec
        BY <1>r DEF FlowRec
  <2>5. flow' \in [Flow -> FlowRec]
        BY <1>9, <1>t, <2>3, FlowType, Zenon DEF ClosedCAS
  <2>6. QED
        BY <1>9, <1>g, <2>2, <2>5 DEF ClosedCAS, Types
<1>10. ASSUME NEW p \in Proc, ClosedFreeze(p) PROVE Types'
  <2>1. [loc[p] EXCEPT !.at = "onClose"] \in LocRec
        BY <1>p, <1>n DEF LocRec, Labels
  <2>2. loc' \in [Proc -> LocRec]
        BY <1>10, <1>t, <2>1, LocType DEF ClosedFreeze, Goto
  <2>3. loc[p].v \in Flow
        BY <1>10, <1>t, <1>f DEF ClosedFreeze, Places, At
  <2>4. [flow[loc[p].v] EXCEPT !.frozen = TRUE] \in FlowRec
        BY <1>p, <1>r, <2>3, Zenon DEF FlowRec
  <2>5. flow' \in [Flow -> FlowRec]
        BY <1>10, <1>t, <2>3, <2>4, FlowType, Zenon DEF ClosedFreeze
  <2>6. QED
        BY <1>10, <1>g, <2>2, <2>5 DEF ClosedFreeze, Types
<1>11. ASSUME NEW p \in Proc, onClose(p) PROVE Types'
  <2>1. [loc[p] EXCEPT !.at = "closed", !.todo = @ \ {loc[p].v}] \in LocRec
        BY <1>p, <1>n, Zenon DEF LocRec, Labels
  <2>2. loc' \in [Proc -> LocRec]
        BY <1>11, <1>t, <2>1, LocType DEF onClose
  <2>3. loc[p].v \in Flow
        BY <1>11, <1>t, <1>f DEF onClose, Places, At
  <2>4. [flow[loc[p].v] EXCEPT !.onClose = @ + 1] \in FlowRec
        BY <1>p, <1>r, <2>3 DEF FlowRec
  <2>5. flow' \in [Flow -> FlowRec]
        BY <1>11, <1>t, <2>3, <2>4, FlowType, Zenon DEF onClose
  <2>6. QED
        BY <1>11, <1>g, <2>2, <2>5 DEF onClose, Types
<1>12. ASSUME NEW p \in Proc, ClosedAll(p) PROVE Types'
  <2>1. [Resting EXCEPT !.f = loc[p].f] \in LocRec
        BY <1>q
  <2>2. [loc[p] EXCEPT !.at = "close"] \in LocRec
        BY <1>p DEF LocRec, Labels
  <2>3. loc' \in [Proc -> LocRec]
        BY <1>12, <1>t, <2>1, <2>2, LocType DEF ClosedAll, Return, Goto
  <2>4. QED
        BY <1>12, <1>g, <2>3 DEF ClosedAll, Types
<1>13. ASSUME NEW p \in Proc, NEW t \in Times, Sweep(p, t) PROVE Types'
  <2>1. Shard \subseteq Nat /\ t \in Nat
        BY FlowAssumption DEF Shard
  <2>2. [loc[p] EXCEPT !.at = "sweep", !.t = t, !.shards = Shard] \in LocRec
        BY <1>p, <2>1, ZenonT(30) DEF LocRec, Labels
  <2>3. loc' \in [Proc -> LocRec]
        BY <1>13, <1>g, <1>t, <2>2, LocType DEF Sweep
  <2>4. now' \in Nat
        BY <1>13, <1>g, <2>1, AdvanceType DEF Sweep
  <2>5. QED
        BY <1>13, <1>g, <2>3, <2>4 DEF Sweep, Types
<1>14. ASSUME NEW p \in Proc, SweepLock(p) PROVE Types'
  <2>1. [loc[p] EXCEPT !.at = "scan", !.keys = Mapped(NextShard(p))] \in LocRec
        BY <1>p, <1>n, Zenon DEF LocRec, Labels, Mapped
  <2>2. loc' \in [Proc -> LocRec]
        BY <1>14, <1>t, <2>1, LocType DEF SweepLock
  <2>3. QED
        BY <1>14, <1>g, <2>2 DEF SweepLock, Types
<1>15. ASSUME NEW p \in Proc, NEW k \in Key, ExpireLoad(p, k) PROVE Types'
  <2>1. m[k] \in Flow /\ m[k] \in Nat
        BY <1>15, <1>t, <1>n, Pointers DEF ExpireLoad, Inv, Scans, Sweeping, At
  <2>2. flow[m[k]].seen \in Nat /\ flow[m[k]].frozen \in BOOLEAN
        BY <1>r, <2>1 DEF FlowRec
  <2>3. [loc[p] EXCEPT !.keys = @ \ {k}] \in LocRec
        BY <1>p DEF LocRec
  <2>4. [loc[p] EXCEPT !.at = "expire", !.keys = @ \ {k}, !.v = m[k],
                       !.seen = flow[m[k]].seen, !.frozen = flow[m[k]].frozen] \in LocRec
        BY <1>p, <2>1, <2>2, Zenon DEF LocRec, Labels
  <2>5. loc' \in [Proc -> LocRec]
        BY <1>15, <1>t, <2>3, <2>4, LocType DEF ExpireLoad
  <2>6. QED
        BY <1>15, <1>g, <2>5 DEF ExpireLoad, Types
<1>16. ASSUME NEW p \in Proc, ExpireCAS(p) PROVE Types'
  <2>1. loc[p].v \in Flow
        BY <1>16, <1>f DEF ExpireCAS, Inv, Expiring, At
  <2>2. flow[loc[p].v].key \in Key /\ Victims(p) \subseteq Nat
        BY <1>f, <1>n, <1>r, <2>1, Zenon DEF Victims, FlowRec
  <2>3. [loc[p] EXCEPT !.at = "scan"] \in LocRec
        BY <1>p DEF LocRec, Labels
  <2>4. [loc[p] EXCEPT !.at = "scan", !.todo = Victims(p)] \in LocRec
        BY <1>p, <2>2, Zenon DEF LocRec, Labels
  <2>5. [flow[loc[p].v] EXCEPT !.frozen = TRUE, !.left = "sweep"] \in FlowRec
        BY <1>r, <2>1, Zenon DEF FlowRec
  <2>6. CASE Expires(p)
    <3>1. loc' \in [Proc -> LocRec]
          BY <1>16, <1>t, <2>4, <2>6, LocType DEF ExpireCAS
    <3>2. flow' \in [Flow -> FlowRec]
          BY <1>16, <1>t, <2>1, <2>5, <2>6, FlowType DEF ExpireCAS
    <3>3. m' \in [Key -> Nat]
          BY <1>16, <1>g, <1>n, <2>6 DEF ExpireCAS
    <3>4. QED
          BY <1>16, <1>g, <3>1, <3>2, <3>3 DEF ExpireCAS, Types
  <2>7. CASE ~Expires(p)
    <3>1. loc' \in [Proc -> LocRec]
          BY <1>16, <1>t, <2>3, <2>7, LocType DEF ExpireCAS, Goto
    <3>2. QED
          BY <1>16, <1>g, <2>7, <3>1 DEF ExpireCAS, Types
  <2>8. QED
        BY <2>6, <2>7
<1>17. ASSUME NEW p \in Proc, SweepUnlock(p) PROVE Types'
  <2>1. [loc[p] EXCEPT !.at = IF Cardinality(loc[p].shards) = 1 THEN "closed" ELSE "sweep",
              !.shards = @ \ {NextShard(p)}] \in LocRec
        BY <1>p, <1>n, ZenonT(30) DEF LocRec, Labels
  <2>2. loc' \in [Proc -> LocRec]
        BY <1>17, <1>t, <2>1, LocType DEF SweepUnlock
  <2>3. QED
        BY <1>17, <1>g, <2>2 DEF SweepUnlock, Types
<1>18. ASSUME NEW p \in Proc, Close(p) PROVE Types'
  <2>1. Shard \subseteq Nat
        BY FlowAssumption DEF Shard
  <2>2. [loc[p] EXCEPT !.at = "close", !.shards = Shard] \in LocRec
        BY <1>p, <2>1, Zenon DEF LocRec, Labels
  <2>3. loc' \in [Proc -> LocRec]
        BY <1>18, <1>t, <2>2, LocType DEF Close
  <2>4. QED
        BY <1>18, <1>g, <2>3 DEF Close, Types
<1>19. ASSUME NEW p \in Proc, CloseShard(p) PROVE Types'
  <2>1. {m[k] : k \in Mapped(NextShard(p))} \subseteq Nat
        BY <1>g DEF Mapped
  <2>2. [loc[p] EXCEPT !.at = "closed", !.shards = @ \ {NextShard(p)},
                       !.todo = {m[k] : k \in Mapped(NextShard(p))}] \in LocRec
        BY <1>p, <2>1, Zenon DEF LocRec, Labels
  <2>3. loc' \in [Proc -> LocRec]
        BY <1>19, <1>t, <2>2, LocType DEF CloseShard
  <2>4. \A f \in Flow : [flow[f] EXCEPT !.left = "close"] \in FlowRec
        BY <1>r DEF FlowRec
  <2>5. flow' \in [Flow -> FlowRec]
        BY <1>19, <1>r, <2>4 DEF CloseShard
  <2>6. m' \in [Key -> Nat]
        BY <1>19, <1>g, <1>n DEF CloseShard, CloseSwaps
  <2>7. QED
        BY <1>19, <1>g, <2>3, <2>5, <2>6 DEF CloseShard, Types
<1>20. CASE UNCHANGED vars
      BY <1>20, <1>g DEF vars, Types
<1>21. QED
      BY <1>1, <1>2, <1>3, <1>4, <1>5, <1>6, <1>7, <1>8, <1>9, <1>10, <1>11, <1>12, <1>13, <1>14,
         <1>15, <1>16, <1>17, <1>18, <1>19, <1>20 DEF Next, Call, Continue

-----------------------------------------------------------------------------
(* What a step changes *)

Others(p) == \A q \in Proc : q # p => loc'[q] = loc[q]

Taken == {"remove", "sweep"}

\* A step that opens no flow, changes no lock and takes no flow out of a shard that a Sweep has
\* locked, by a goroutine that is not sweeping.
Calm(p) ==
  /\ UNCHANGED <<locked, lastID>> /\ Others(p) /\ ~Sweeping(p) /\ ~Sweeping(p)'
  /\ \A k \in Key : m'[k] = m[k] \/ (m'[k] = NoFlow /\ Free(k))
  /\ loc'[p].f <= lastID /\ loc'[p].v <= lastID /\ loc'[p].todo \subseteq 1 .. lastID
  /\ \A g \in Flow : /\ flow'[g].key = flow[g].key
                     /\ flow'[g].state = "none" <=> flow[g].state = "none"
                     /\ flow[g].frozen => flow'[g].frozen /\ flow'[g].seen = flow[g].seen

CalmStep(p) ==
  \/ BeginClose(p) \/ CloseFlow(p) \/ freeze(p) \/ Touch(p) \/ TouchCAS(p) \/ Close(p)
  \/ ClosedFreeze(p) \/ onClose(p) \/ Remove(p) \/ CloseShard(p) \/ ClosedAll(p)
  \/ (\E k \in Key : Get(p, k)) \/ (\E t \in Times : Sweep(p, t)) \/ (\E f \in Flow : ClosedCAS(p, f))

\* What taking a flow out of the map writes to its record.
LEMMA TakenType ==
  ASSUME NEW r \in FlowRec, NEW how \in Taken
  PROVE  /\ [r EXCEPT !.frozen = TRUE, !.left = how] \in FlowRec
         /\ [r EXCEPT !.frozen = TRUE, !.left = how].key = r.key
         /\ [r EXCEPT !.frozen = TRUE, !.left = how].state = r.state
         /\ [r EXCEPT !.frozen = TRUE, !.left = how].frozen
         /\ [r EXCEPT !.frozen = TRUE, !.left = how].seen = r.seen
         /\ [r EXCEPT !.frozen = TRUE, !.left = how].left = how
         /\ [r EXCEPT !.frozen = TRUE, !.left = how].onClose = r.onClose
<1>1. [r EXCEPT !.frozen = TRUE, !.left = how] \in FlowRec
      BY Zenon DEF FlowRec, Taken
<1>2. QED
      BY Zenon DEF FlowRec, Taken

\* An assignment to the goroutine's own locals changes no other goroutine's.
LEMMA LocalEffect ==
  ASSUME Types, NEW p \in Proc, NEW r, Local(p, r)
  PROVE  loc'[p] = r /\ Others(p)
  BY DEF Types, Local, Others

\* The assignments to a flow's fields.
LEMMA SetState ==
  ASSUME Types, NEW x \in Flow, NEW s, flow' = [flow EXCEPT ![x].state = s]
  PROVE  \A g \in Flow :
           /\ flow'[g].state = IF g = x THEN s ELSE flow[g].state
           /\ flow'[g].key = flow[g].key /\ flow'[g].seen = flow[g].seen /\ flow'[g].frozen = flow[g].frozen
           /\ flow'[g].left = flow[g].left /\ flow'[g].onClose = flow[g].onClose
<1>1. flow[x] \in FlowRec
      BY DEF Types
<1>2. flow'[x] = [flow[x] EXCEPT !.state = s]
      BY DEF Types
<1>3. \A g \in Flow : g # x => flow'[g] = flow[g]
      BY DEF Types
<1>4. QED
      BY <1>1, <1>2, <1>3 DEF FlowRec

\* freeze sets one flow's frozen bit.
LEMMA SetFrozen ==
  ASSUME Types, NEW x \in Flow, flow' = [flow EXCEPT ![x].frozen = TRUE]
  PROVE  \A g \in Flow :
           /\ g = x \/ flow[g].frozen => flow'[g].frozen
           /\ flow'[g].key = flow[g].key /\ flow'[g].state = flow[g].state /\ flow'[g].seen = flow[g].seen
           /\ flow'[g].left = flow[g].left /\ flow'[g].onClose = flow[g].onClose
<1>1. flow[x] \in FlowRec
      BY DEF Types
<1>2. flow'[x] = [flow[x] EXCEPT !.frozen = TRUE]
      BY DEF Types
<1>3. \A g \in Flow : g # x => flow'[g] = flow[g]
      BY DEF Types
<1>4. flow'[x].frozen
      BY <1>1, <1>2 DEF FlowRec
<1>5. QED
      BY <1>1, <1>2, <1>3, <1>4 DEF FlowRec

\* Touch stores one flow's lastSeen.
LEMMA SetSeen ==
  ASSUME Types, NEW x \in Flow, NEW t, flow' = [flow EXCEPT ![x].seen = t]
  PROVE  \A g \in Flow :
           /\ flow'[g].seen = IF g = x THEN t ELSE flow[g].seen
           /\ flow'[g].key = flow[g].key /\ flow'[g].state = flow[g].state /\ flow'[g].frozen = flow[g].frozen
           /\ flow'[g].left = flow[g].left /\ flow'[g].onClose = flow[g].onClose
<1>1. flow[x] \in FlowRec
      BY DEF Types
<1>2. flow'[x] = [flow[x] EXCEPT !.seen = t]
      BY DEF Types
<1>3. \A g \in Flow : g # x => flow'[g] = flow[g]
      BY DEF Types
<1>4. QED
      BY <1>1, <1>2, <1>3 DEF FlowRec

\* OnClose is called for one flow.
LEMMA IncOnClose ==
  ASSUME Types, NEW x \in Flow, flow' = [flow EXCEPT ![x].onClose = @ + 1]
  PROVE  \A g \in Flow :
           /\ flow'[g].onClose = IF g = x THEN flow[x].onClose + 1 ELSE flow[g].onClose
           /\ flow'[g].key = flow[g].key /\ flow'[g].state = flow[g].state /\ flow'[g].seen = flow[g].seen
           /\ flow'[g].frozen = flow[g].frozen /\ flow'[g].left = flow[g].left
<1>1. flow[x] \in FlowRec
      BY DEF Types
<1>2. flow'[x] = [flow[x] EXCEPT !.onClose = @ + 1]
      BY DEF Types
<1>3. \A g \in Flow : g # x => flow'[g] = flow[g]
      BY DEF Types
<1>4. QED
      BY <1>1, <1>2, <1>3 DEF FlowRec

\* Remove or Sweep takes one flow, frozen, out of its map.
LEMMA TakeFlow ==
  ASSUME Types, NEW x \in Flow, NEW how \in Taken,
         flow' = [flow EXCEPT ![x] = [flow[x] EXCEPT !.frozen = TRUE, !.left = how]]
  PROVE  \A g \in Flow :
           /\ flow'[g].key = flow[g].key /\ flow'[g].state = flow[g].state /\ flow'[g].seen = flow[g].seen
           /\ flow'[g].onClose = flow[g].onClose /\ (flow[g].frozen => flow'[g].frozen)
           /\ flow'[g].left \in Taken => flow[g].left \in Taken \/ flow'[g].frozen
<1> DEFINE r == [flow[x] EXCEPT !.frozen = TRUE, !.left = how]
<1>1. flow[x] \in FlowRec
      BY DEF Types
<1>2. flow'[x] = r
      BY DEF Types
<1>3. \A g \in Flow : g # x => flow'[g] = flow[g]
      BY SMTT(30) DEF Types
<1>4. /\ r.key = flow[x].key /\ r.state = flow[x].state /\ r.seen = flow[x].seen
      /\ r.onClose = flow[x].onClose /\ r.frozen
      BY <1>1, TakenType, Zenon
<1> HIDE DEF r
<1>5. QED
      BY <1>2, <1>3, <1>4

\* The steps of CalmStep are calm, one case for each action.
LEMMA CalmSteps == ASSUME Inv, NEW p \in Proc, CalmStep(p) PROVE Calm(p)
<1> USE DEF At
<1>a. Types /\ loc[p] \in LocRec /\ lastID \in Nat
      BY DEF Inv, Types
<1>b. /\ loc[p].f <= lastID /\ loc[p].v <= lastID /\ loc[p].todo \subseteq 1 .. lastID
      /\ \A k \in Key : m[k] <= lastID
      BY DEF Inv, Ids
<1>c. loc[p].f \in Flow \cup {NoFlow} /\ loc[p].v \in Flow \cup {NoFlow} /\ loc[p].todo \subseteq Flow
      BY Pointers DEF Inv
<1>d. \A r : Local(p, r) => loc'[p] = r /\ Others(p)
      BY <1>a, LocalEffect
<1>e. \A g \in Flow : flow[g].state = "none" <=> g > lastID
      BY SMTT(30) DEF Inv, Ids
<1>1. ASSUME BeginClose(p) PROVE Calm(p)
  <2>1. Local(p, [loc[p] EXCEPT !.at = "freeze"])
        BY <1>1 DEF BeginClose, Goto
  <2>2. loc'[p] = [loc[p] EXCEPT !.at = "freeze"] /\ Others(p)
        BY <2>1, <1>d
  <2>3. /\ ~Sweeping(p) /\ ~Sweeping(p)'
        /\ loc'[p].f <= lastID /\ loc'[p].v <= lastID /\ loc'[p].todo \subseteq 1 .. lastID
        BY <1>1, <1>a, <1>b, <2>2 DEF BeginClose, Sweeping, LocRec, Resting, NoFlow
  <2>4. loc[p].f \in Flow
        BY <1>1, <1>c, SMTT(30) DEF BeginClose, Inv, Places
  <2>5. QED
        BY <1>1, <1>a, <1>e, <2>2, <2>3, <2>4, SetState DEF BeginClose, Calm
<1>2. ASSUME CloseFlow(p) PROVE Calm(p)
  <2>1. Local(p, [loc[p] EXCEPT !.at = "freeze"])
        BY <1>2 DEF CloseFlow, Goto
  <2>2. loc'[p] = [loc[p] EXCEPT !.at = "freeze"] /\ Others(p)
        BY <2>1, <1>d
  <2>3. /\ ~Sweeping(p) /\ ~Sweeping(p)'
        /\ loc'[p].f <= lastID /\ loc'[p].v <= lastID /\ loc'[p].todo \subseteq 1 .. lastID
        BY <1>2, <1>a, <1>b, <2>2 DEF CloseFlow, Sweeping, LocRec, Resting, NoFlow
  <2>4. loc[p].f \in Flow /\ flow[loc[p].f].state # "none"
        BY <1>2, <1>a, <1>b, <1>c, <1>e, SMTT(30) DEF CloseFlow, Flow
  <2>5. QED
        BY <1>2, <1>a, <1>e, <2>2, <2>3, <2>4, SetState DEF CloseFlow, Calm
<1>3. ASSUME freeze(p) PROVE Calm(p)
  <2>1. Local(p, [Resting EXCEPT !.f = loc[p].f])
        BY <1>3 DEF freeze, Return
  <2>2. loc'[p] = [Resting EXCEPT !.f = loc[p].f] /\ Others(p)
        BY <2>1, <1>d
  <2>3. /\ ~Sweeping(p) /\ ~Sweeping(p)'
        /\ loc'[p].f <= lastID /\ loc'[p].v <= lastID /\ loc'[p].todo \subseteq 1 .. lastID
        BY <1>3, <1>a, <1>b, <2>2 DEF freeze, Sweeping, LocRec, Resting, NoFlow
  <2>4. loc[p].f \in Flow
        BY <1>3, <1>c DEF freeze, Inv, Places
  <2>5. QED
        BY <1>3, <1>a, <1>e, <2>2, <2>3, <2>4, SetFrozen DEF freeze, Calm
<1>4. ASSUME Touch(p) PROVE Calm(p)
  <2>1. Local(p, [loc[p] EXCEPT !.at = "touch", !.t = now])
        BY <1>4 DEF Touch
  <2>2. loc'[p] = [loc[p] EXCEPT !.at = "touch", !.t = now] /\ Others(p)
        BY <2>1, <1>d
  <2>3. /\ ~Sweeping(p) /\ ~Sweeping(p)'
        /\ loc'[p].f <= lastID /\ loc'[p].v <= lastID /\ loc'[p].todo \subseteq 1 .. lastID
        BY <1>4, <1>a, <1>b, <2>2 DEF Touch, Sweeping, LocRec, Resting, NoFlow
  <2>4. QED
        BY <1>4, <2>2, <2>3 DEF Touch, Calm
<1>5. ASSUME TouchCAS(p) PROVE Calm(p)
  <2>1. Local(p, [Resting EXCEPT !.f = loc[p].f])
        BY <1>5 DEF TouchCAS, Return
  <2>2. loc'[p] = [Resting EXCEPT !.f = loc[p].f] /\ Others(p)
        BY <2>1, <1>d
  <2>3. /\ ~Sweeping(p) /\ ~Sweeping(p)'
        /\ loc'[p].f <= lastID /\ loc'[p].v <= lastID /\ loc'[p].todo \subseteq 1 .. lastID
        BY <1>5, <1>a, <1>b, <2>2, SMTT(30) DEF TouchCAS, Sweeping, LocRec, Resting, NoFlow
  <2>4. CASE Touchable(loc[p].f, loc[p].t)
    <3>1. loc[p].f \in Flow
          BY <1>5, <1>c DEF TouchCAS, Inv, Places
    <3>2. QED
          BY <1>5, <1>a, <2>2, <2>3, <2>4, <3>1, SetSeen DEF TouchCAS, Touchable, Calm
  <2>5. CASE ~Touchable(loc[p].f, loc[p].t)
        BY <1>5, <2>2, <2>3, <2>5 DEF TouchCAS, Calm
  <2>6. QED
        BY <2>4, <2>5
<1>6. ASSUME NEW k \in Key, Get(p, k) PROVE Calm(p)
  <2>1. Local(p, [loc[p] EXCEPT !.f = m[k]])
        BY <1>6 DEF Get
  <2>2. loc'[p] = [loc[p] EXCEPT !.f = m[k]] /\ Others(p)
        BY <2>1, <1>d
  <2>3. /\ ~Sweeping(p) /\ ~Sweeping(p)'
        /\ loc'[p].f <= lastID /\ loc'[p].v <= lastID /\ loc'[p].todo \subseteq 1 .. lastID
        BY <1>6, <1>a, <1>b, <2>2 DEF Get, Sweeping, LocRec, Resting, NoFlow
  <2>4. QED
        BY <1>6, <2>2, <2>3 DEF Get, Calm
<1>7. ASSUME NEW f \in Flow, ClosedCAS(p, f) PROVE Calm(p)
  <2> DEFINE next == IF flow[f].state = "closed" THEN "onClose" ELSE "closedFreeze"
  <2>f. f <= lastID
        BY <1>7, <1>a, <1>b DEF ClosedCAS
  <2>1. Local(p, [loc[p] EXCEPT !.v = f, !.at = next])
        BY <1>7 DEF ClosedCAS
  <2>2. loc'[p] = [loc[p] EXCEPT !.v = f, !.at = next] /\ Others(p)
        BY <2>1, <1>d
  <2>3. /\ ~Sweeping(p) /\ ~Sweeping(p)'
        /\ loc'[p].f <= lastID /\ loc'[p].v <= lastID /\ loc'[p].todo \subseteq 1 .. lastID
        BY <1>7, <1>a, <1>b, <2>2, <2>f DEF ClosedCAS, Sweeping, LocRec, Resting, NoFlow
  <2>4. f \in Flow /\ flow[f].state # "none"
        BY <1>a, <1>e, <2>f, SMTT(30) DEF Flow
  <2>5. QED
        BY <1>7, <1>a, <1>e, <2>2, <2>3, <2>4, SetState DEF ClosedCAS, Calm
<1>8. ASSUME ClosedFreeze(p) PROVE Calm(p)
  <2>1. Local(p, [loc[p] EXCEPT !.at = "onClose"])
        BY <1>8 DEF ClosedFreeze, Goto
  <2>2. loc'[p] = [loc[p] EXCEPT !.at = "onClose"] /\ Others(p)
        BY <2>1, <1>d
  <2>3. /\ ~Sweeping(p) /\ ~Sweeping(p)'
        /\ loc'[p].f <= lastID /\ loc'[p].v <= lastID /\ loc'[p].todo \subseteq 1 .. lastID
        BY <1>8, <1>a, <1>b, <2>2 DEF ClosedFreeze, Sweeping, LocRec, Resting, NoFlow
  <2>4. loc[p].v \in Flow
        BY <1>8, <1>c, SMTT(30) DEF ClosedFreeze, Inv, Places
  <2>5. QED
        BY <1>8, <1>a, <1>e, <2>2, <2>3, <2>4, SetFrozen DEF ClosedFreeze, Calm
<1>9. ASSUME onClose(p) PROVE Calm(p)
  <2>1. Local(p, [loc[p] EXCEPT !.at = "closed", !.todo = @ \ {loc[p].v}])
        BY <1>9 DEF onClose
  <2>2. loc'[p] = [loc[p] EXCEPT !.at = "closed", !.todo = @ \ {loc[p].v}] /\ Others(p)
        BY <2>1, <1>d
  <2>3. /\ ~Sweeping(p) /\ ~Sweeping(p)'
        /\ loc'[p].f <= lastID /\ loc'[p].v <= lastID /\ loc'[p].todo \subseteq 1 .. lastID
        BY <1>9, <1>a, <1>b, <2>2 DEF onClose, Sweeping, LocRec, Resting, NoFlow
  <2>4. loc[p].v \in Flow
        BY <1>9, <1>c DEF onClose, Inv, Places
  <2>5. QED
        BY <1>9, <1>a, <1>e, <2>2, <2>3, <2>4, IncOnClose DEF onClose, Calm
<1>10. ASSUME Close(p) PROVE Calm(p)
  <2>1. Local(p, [loc[p] EXCEPT !.at = "close", !.shards = Shard])
        BY <1>10 DEF Close
  <2>2. loc'[p] = [loc[p] EXCEPT !.at = "close", !.shards = Shard] /\ Others(p)
        BY <2>1, <1>d
  <2>3. /\ ~Sweeping(p) /\ ~Sweeping(p)'
        /\ loc'[p].f <= lastID /\ loc'[p].v <= lastID /\ loc'[p].todo \subseteq 1 .. lastID
        BY <1>10, <1>a, <1>b, <2>2 DEF Close, Sweeping, LocRec, Resting, NoFlow, Flow
  <2>4. QED
        BY <1>10, <2>2, <2>3 DEF Close, Calm
<1>11. ASSUME ClosedAll(p) PROVE Calm(p)
  <2>1. Local(p, [Resting EXCEPT !.f = loc[p].f]) \/ Local(p, [loc[p] EXCEPT !.at = "close"])
        BY <1>11 DEF ClosedAll, Return, Goto
  <2>2. (loc'[p] = [Resting EXCEPT !.f = loc[p].f] \/ loc'[p] = [loc[p] EXCEPT !.at = "close"]) /\ Others(p)
        BY <2>1, <1>d
  <2>3. /\ ~Sweeping(p) /\ ~Sweeping(p)'
        /\ loc'[p].f <= lastID /\ loc'[p].v <= lastID /\ loc'[p].todo \subseteq 1 .. lastID
        BY <1>11, <1>a, <1>b, <2>2 DEF ClosedAll, Sweeping, LocRec, Resting, NoFlow
  <2>4. QED
        BY <1>11, <2>2, <2>3 DEF ClosedAll, Calm
<1>12. ASSUME NEW t \in Times, Sweep(p, t) PROVE Calm(p)
  <2>1. Local(p, [loc[p] EXCEPT !.at = "sweep", !.t = t, !.shards = Shard]) \/ loc' = loc
        BY <1>12 DEF Sweep
  <2>2. (loc'[p] = [loc[p] EXCEPT !.at = "sweep", !.t = t, !.shards = Shard] \/ loc'[p] = loc[p]) /\ Others(p)
        BY <2>1, <1>d DEF Others
  <2>3. /\ ~Sweeping(p) /\ ~Sweeping(p)'
        /\ loc'[p].f <= lastID /\ loc'[p].v <= lastID /\ loc'[p].todo \subseteq 1 .. lastID
        BY <1>12, <1>a, <1>b, <2>2, ZenonT(30) DEF Sweep, Sweeping, LocRec
  <2>4. QED
        BY <1>12, <2>2, <2>3 DEF Sweep, Calm
<1>13. ASSUME Remove(p) PROVE Calm(p)
  <2>1. loc[p].f \in Flow /\ m[flow[loc[p].f].key] = loc[p].f
        BY <1>13, <1>c DEF Remove, Removable
  <2>2. /\ Local(p, [loc[p] EXCEPT !.at = "closed", !.todo = {loc[p].f}])
        /\ flow' = [flow EXCEPT
                      ![loc[p].f] = [flow[loc[p].f] EXCEPT !.frozen = TRUE, !.left = "remove"]]
        /\ m' = [m EXCEPT ![flow[loc[p].f].key] = NoFlow] /\ UNCHANGED <<locked, lastID>>
        BY <1>13, <2>1 DEF Remove
  <2>3. loc'[p] = [loc[p] EXCEPT !.at = "closed", !.todo = {loc[p].f}] /\ Others(p)
        BY <2>2, <1>d
  <2>4. /\ ~Sweeping(p) /\ ~Sweeping(p)'
        /\ loc'[p].f <= lastID /\ loc'[p].v <= lastID /\ loc'[p].todo \subseteq 1 .. lastID
        BY <1>13, <1>a, <1>b, <2>1, <2>3 DEF Remove, Sweeping, LocRec, Flow
  <2>5. \A k \in Key : m'[k] = m[k] \/ (m'[k] = NoFlow /\ Free(k))
        BY <1>13, <1>a, <2>1, <2>2 DEF Remove, Types
  <2>6. "remove" \in Taken
        BY DEF Taken
  <2>7. QED
        BY <1>a, <2>1, <2>2, <2>3, <2>4, <2>5, <2>6, TakeFlow, Zenon DEF Calm
<1>14. ASSUME CloseShard(p) PROVE Calm(p)
  <2>1. Local(p, [loc[p] EXCEPT !.at = "closed", !.shards = @ \ {NextShard(p)},
                            !.todo = {m[k] : k \in Mapped(NextShard(p))}])
        BY <1>14 DEF CloseShard
  <2>2. loc'[p] = [loc[p] EXCEPT !.at = "closed", !.shards = @ \ {NextShard(p)},
                            !.todo = {m[k] : k \in Mapped(NextShard(p))}] /\ Others(p)
        BY <2>1, <1>d
  <2>3. {m[k] : k \in Mapped(NextShard(p))} \subseteq 1 .. lastID
        BY <1>a, <1>b DEF Mapped, NoFlow, Types
  <2>4. /\ ~Sweeping(p) /\ ~Sweeping(p)'
        /\ loc'[p].f <= lastID /\ loc'[p].v <= lastID /\ loc'[p].todo \subseteq 1 .. lastID
        BY <1>14, <1>a, <1>b, <2>2, <2>3 DEF CloseShard, Sweeping, LocRec
  <2>5. \A g \in Flow : flow'[g] = flow[g] \/ flow'[g] = [flow[g] EXCEPT !.left = "close"]
        BY <1>14 DEF CloseShard
  <2>6. \A g \in Flow : /\ flow'[g].key = flow[g].key /\ flow'[g].state = flow[g].state
                        /\ flow'[g].frozen = flow[g].frozen /\ flow'[g].seen = flow[g].seen
    <3>1. ASSUME NEW r \in FlowRec
          PROVE  LET q == [r EXCEPT !.left = "close"]
                 IN  q.key = r.key /\ q.state = r.state /\ q.frozen = r.frozen /\ q.seen = r.seen
          BY DEF FlowRec
    <3>2. \A g \in Flow : flow[g] \in FlowRec
          BY <1>a DEF Types
    <3>3. QED
          BY <2>5, <3>1, <3>2, ZenonT(30)
  <2>7. \A k \in Key : m'[k] = m[k] \/ (m'[k] = NoFlow /\ Free(k))
        BY <1>14 DEF CloseShard, CloseSwaps, Free
  <2>8. QED
        BY <1>14, <2>2, <2>4, <2>6, <2>7 DEF CloseShard, Calm
<1>15. QED
      BY CalmStep(p), <1>1, <1>2, <1>3, <1>4, <1>5, <1>6, <1>7, <1>8, <1>9, <1>10, <1>11, <1>12,
         <1>13, <1>14 DEF CalmStep

\* A calm step keeps the facts about identifiers, scans and expiring flows.
LEMMA CalmKeeps == ASSUME Inv, Types', NEW p \in Proc, Calm(p) PROVE Ids' /\ Scans' /\ Expiring'
<1> USE DEF Inv, Calm
<1>1. Ids'
  <2>1. \A k \in Key : m'[k] <= lastID' /\ (m'[k] # NoFlow => flow'[m'[k]].key = k)
        BY Pointers DEF Ids, NoFlow, Types
  <2>2. \A q \in Proc : loc'[q].f <= lastID' /\ loc'[q].v <= lastID' /\ loc'[q].todo \subseteq 1 .. lastID'
        BY DEF Ids, Others
  <2>3. QED
        BY <2>1, <2>2 DEF Ids
<1>2. \A q \in Proc : Sweeping(q)' => q # p /\ loc'[q] = loc[q] /\ Sweeping(q) /\ NextShard(q)' = NextShard(q)
      BY DEF Others, Sweeping, NextShard
<1>3. Scans'
      BY <1>2 DEF Scans, Free, Types, LocRec
<1>4. Expiring'
  <2>1. SUFFICES ASSUME NEW q \in Proc, loc'[q].at = "expire"
                 PROVE  (/\ loc[q].v # NoFlow /\ m[flow[loc[q].v].key] = loc[q].v
                         /\ ShardOf[flow[loc[q].v].key] = NextShard(q) /\ flow[loc[q].v].key \notin loc[q].keys
                         /\ loc[q].seen < Cutoff(q)
                         /\ loc[q].frozen => flow[loc[q].v].frozen /\ flow[loc[q].v].seen = loc[q].seen)'
        BY DEF Expiring
  <2>2. q # p /\ loc'[q] = loc[q] /\ NextShard(q)' = NextShard(q) /\ Cutoff(q)' = Cutoff(q)
        BY <1>2, <2>1 DEF Sweeping, Cutoff
  <2>3. loc[q].v \in Flow
        BY <2>1, <2>2, Pointers DEF Expiring
  <2>4. ~Free(flow[loc[q].v].key) /\ m'[flow[loc[q].v].key] = m[flow[loc[q].v].key]
        BY <2>1, <2>2, <2>3, Pointers DEF Expiring, Scans, Sweeping, Free
  <2>5. QED
        BY <2>1, <2>2, <2>3, <2>4, SMTT(30) DEF Expiring
<1>5. QED
      BY <1>1, <1>3, <1>4

\* GetOrOpen of an absent key, and the steps of a Sweep under a shard's lock.
LEMMA OpenKeeps ==
  ASSUME Inv, Types', NEW p \in Proc, NEW k \in Key, GetOrOpen(p, k)
  PROVE  Ids' /\ Scans' /\ Expiring'
<1> DEFINE new == lastID + 1
<1> USE DEF Inv
<1>1. new \in Flow /\ lastID' = new /\ lastID \in Nat
      BY FlowAssumption DEF GetOrOpen, Types, Flow
<1>2. /\ loc'[p] = [loc[p] EXCEPT !.f = new] /\ Others(p) /\ UNCHANGED locked /\ ~Sweeping(p)
      /\ m[k] = NoFlow /\ m' = [m EXCEPT ![k] = new]
      BY LocalEffect DEF GetOrOpen, At, Sweeping
<1>3. /\ loc'[p].f = new /\ loc'[p].v = loc[p].v /\ loc'[p].todo = loc[p].todo /\ ~Sweeping(p)'
      BY <1>2 DEF Types, LocRec, Sweeping
<1>4. /\ flow'[new].key = k /\ flow'[new].state = "open"
      /\ \A g \in Flow : g # new => flow'[g] = flow[g]
      BY <1>1 DEF GetOrOpen, Absent, Types
<1>5. /\ m'[k] = new /\ \A j \in Key : j # k => m'[j] = m[j]
      BY <1>2 DEF Types
<1> HIDE DEF new
<1>n. new = lastID + 1
      BY DEF new
<1>6. Ids'
  <2>1. \A f \in Flow : flow'[f].state = "none" <=> f > lastID'
        BY <1>1, <1>n, <1>4 DEF Ids, Flow
  <2>2. \A j \in Key : m'[j] <= lastID' /\ (m'[j] # NoFlow => flow'[m'[j]].key = j)
    <3>1. \A j \in Key : m[j] \in Flow \cup {NoFlow} /\ m[j] \in Nat /\ m[j] <= lastID
          BY Pointers DEF Types, Ids
    <3>2. QED
          BY <1>1, <1>n, <1>4, <1>5, <3>1 DEF Ids, Flow
  <2>3. \A q \in Proc : loc'[q].f <= lastID' /\ loc'[q].v <= lastID' /\ loc'[q].todo \subseteq 1 .. lastID'
    <3>1. \A q \in Proc : loc[q].f \in Nat /\ loc[q].v \in Nat
          BY DEF Types, LocRec
    <3>2. \A q \in Proc : /\ loc[q].f <= lastID' /\ loc[q].v <= lastID'
                          /\ loc[q].todo \subseteq 1 .. lastID'
          BY <1>1, <1>n, <3>1 DEF Ids
    <3>3. loc'[p].f <= lastID' /\ loc'[p].v <= lastID' /\ loc'[p].todo \subseteq 1 .. lastID'
          BY <1>1, <1>3, <3>2 DEF Flow
    <3>4. QED
          BY <1>2, <3>2, <3>3, Zenon DEF Others
  <2>4. QED
        BY <2>1, <2>2, <2>3 DEF Ids
<1>7. \A q \in Proc : Sweeping(q)' => /\ q # p /\ loc'[q] = loc[q] /\ Sweeping(q)
                                      /\ NextShard(q)' = NextShard(q) /\ Cutoff(q)' = Cutoff(q)
      BY <1>2, <1>3, Zenon DEF Others, Sweeping, NextShard, Cutoff
<1>8. Scans'
      BY <1>1, <1>2, <1>5, <1>7, SMTT(30) DEF Scans, Types, LocRec, Flow, NoFlow
<1>9. Expiring'
  <2>1. SUFFICES ASSUME NEW q \in Proc, loc'[q].at = "expire"
                 PROVE  (/\ loc[q].v # NoFlow /\ m[flow[loc[q].v].key] = loc[q].v
                         /\ ShardOf[flow[loc[q].v].key] = NextShard(q) /\ flow[loc[q].v].key \notin loc[q].keys
                         /\ loc[q].seen < Cutoff(q)
                         /\ loc[q].frozen => flow[loc[q].v].frozen /\ flow[loc[q].v].seen = loc[q].seen)'
        BY DEF Expiring
  <2>2. q # p /\ loc'[q] = loc[q] /\ NextShard(q)' = NextShard(q) /\ Cutoff(q)' = Cutoff(q)
        BY <1>7, <2>1 DEF Sweeping
  <2>3. loc[q].v \in Flow /\ loc[q].v # new /\ flow[loc[q].v].key # k /\ flow[loc[q].v].key \in Key
        BY <1>1, <1>n, <1>2, <2>1, <2>2, Pointers DEF Expiring, Ids, Types, Flow, NoFlow
  <2>4. QED
        BY <1>4, <1>5, <2>1, <2>2, <2>3 DEF Expiring
<1>10. QED
      BY <1>6, <1>8, <1>9

\* Sweep takes the lock of its next shard, or gives it back.
LEMMA LockKeeps ==
  ASSUME Inv, Types', NEW p \in Proc, SweepLock(p) \/ SweepUnlock(p)
  PROVE  Ids' /\ Scans' /\ Expiring'
<1> USE DEF Inv
<1>a. loc[p] \in LocRec
      BY DEF Types
<1>1. /\ UNCHANGED <<m, lastID, flow>> /\ Others(p) /\ loc'[p].at # "expire"
      /\ loc'[p].f = loc[p].f /\ loc'[p].v = loc[p].v /\ loc'[p].todo = loc[p].todo
      /\ \/ /\ Sweeping(p)' /\ loc'[p].keys = Mapped(NextShard(p)) /\ loc'[p].shards = loc[p].shards
            /\ NextShard(p) \notin locked /\ locked' = locked \cup {NextShard(p)}
         \/ Sweeping(p) /\ ~Sweeping(p)' /\ locked' = locked \ {NextShard(p)}
  <2>1. CASE SweepLock(p)
    <3>1. Local(p, [loc[p] EXCEPT !.at = "scan", !.keys = Mapped(NextShard(p))])
          BY <2>1 DEF SweepLock
    <3>2. /\ loc'[p] = [loc[p] EXCEPT !.at = "scan", !.keys = Mapped(NextShard(p))]
          /\ Others(p)
          BY <3>1, LocalEffect
    <3>3. QED
          BY <1>a, <2>1, <3>2 DEF SweepLock, LocRec, Sweeping
  <2>2. CASE SweepUnlock(p)
    <3> DEFINE next == IF Cardinality(loc[p].shards) = 1 THEN "closed" ELSE "sweep"
    <3>1. Local(p, [loc[p] EXCEPT !.at = next, !.shards = @ \ {NextShard(p)}])
          BY <2>2 DEF SweepUnlock
    <3>2. /\ loc'[p] = [loc[p] EXCEPT !.at = next, !.shards = @ \ {NextShard(p)}]
          /\ Others(p)
          BY <3>1, LocalEffect
    <3>3. QED
          BY <1>a, <2>2, <3>2 DEF SweepUnlock, LocRec, Sweeping, At
  <2>3. QED
        BY <2>1, <2>2
<1>2. Ids'
      BY <1>1 DEF Ids, Others
<1>3. \A q \in Proc : q # p => /\ NextShard(q)' = NextShard(q) /\ Cutoff(q)' = Cutoff(q)
                               /\ Sweeping(q)' = Sweeping(q) /\ loc'[q] = loc[q]
      BY <1>1 DEF Others, Sweeping, NextShard, Cutoff
<1>4. Expiring'
      BY <1>1, <1>3 DEF Expiring
<1>5. loc'[p].shards = loc[p].shards => NextShard(p)' = NextShard(p)
      BY DEF NextShard
<1>6. Scans'
      BY <1>1, <1>3, <1>5 DEF Scans, Mapped
<1>7. QED
      BY <1>2, <1>4, <1>6

\* The flow that expire is about to look at is in the table.
LEMMA LoadKeeps ==
  ASSUME Inv, Types', NEW p \in Proc, NEW k \in Key, ExpireLoad(p, k)
  PROVE  Ids' /\ Scans' /\ Expiring'
<1> USE DEF Inv
<1> DEFINE skip == [loc[p] EXCEPT !.keys = @ \ {k}]
           load == [loc[p] EXCEPT !.at = "expire", !.keys = @ \ {k}, !.v = m[k],
                                  !.seen = flow[m[k]].seen, !.frozen = flow[m[k]].frozen]
<1>a. loc[p] \in LocRec
      BY DEF Types
<1>1. /\ Sweeping(p) /\ loc[p].at = "scan" /\ k \in loc[p].keys /\ m[k] # NoFlow
      /\ ShardOf[k] = NextShard(p)
      BY DEF ExpireLoad, At, Sweeping, Scans
<1>2. m[k] \in Flow /\ flow[m[k]].key = k /\ m[k] <= lastID
      BY <1>1, Pointers DEF Ids
<1>3. UNCHANGED <<m, lastID, flow, locked>>
      BY DEF ExpireLoad
<1>4. Others(p) /\ (loc'[p] = skip \/ (loc'[p] = load /\ flow[m[k]].seen < Cutoff(p)))
  <2>1. flow[m[k]].seen \in Nat /\ Cutoff(p) \in Int
        BY <1>a, <1>2, FlowAssumption DEF Cutoff, LocRec, Types, FlowRec
  <2>2. Local(p, skip) \/ (Local(p, load) /\ flow[m[k]].seen < Cutoff(p))
        BY <2>1 DEF ExpireLoad
  <2>3. QED
        BY <2>2, LocalEffect
<1>5. /\ loc'[p].f = loc[p].f /\ loc'[p].todo = loc[p].todo /\ Sweeping(p)'
      /\ loc'[p].keys = loc[p].keys \ {k} /\ loc'[p].shards = loc[p].shards /\ loc'[p].t = loc[p].t
      BY <1>a, <1>1, <1>4, ZenonT(30) DEF LocRec, Sweeping
<1>6. \/ loc'[p].at = "scan" /\ loc'[p].v = loc[p].v
      \/ /\ loc'[p].at = "expire" /\ loc'[p].v = m[k] /\ flow[m[k]].seen < Cutoff(p)
         /\ loc'[p].seen = flow[m[k]].seen /\ loc'[p].frozen = flow[m[k]].frozen
      BY <1>a, <1>1, <1>4, Zenon DEF LocRec
<1> HIDE DEF skip, load
<1>7. Ids'
      BY <1>2, <1>3, <1>4, <1>5, <1>6 DEF Ids, Others
<1>8. \A q \in Proc : NextShard(q)' = NextShard(q) /\ Cutoff(q)' = Cutoff(q) /\ Sweeping(q)' = Sweeping(q)
      BY <1>1, <1>4, <1>5 DEF Others, NextShard, Cutoff, Sweeping
<1>9. Scans'
      BY <1>3, <1>4, <1>5, <1>8, SMTT(30) DEF Scans, Others
<1>10. Expiring'
      BY <1>1, <1>2, <1>3, <1>4, <1>5, <1>6, <1>8 DEF Expiring, Others
<1>11. QED
      BY <1>7, <1>9, <1>10

\* The compare-and-swap of expire, whether it succeeds or not.
LEMMA ExpireKeeps ==
  ASSUME Inv, Types', NEW p \in Proc, ExpireCAS(p)
  PROVE  Ids' /\ Scans' /\ Expiring'
<1> USE DEF Inv
<1> DEFINE v == loc[p].v
<1>a. loc[p] \in LocRec
      BY DEF Types
<1>1. Sweeping(p) /\ v \in Flow /\ flow[v].key \in Key /\ m[flow[v].key] = v
      BY Pointers DEF ExpireCAS, At, Sweeping, Expiring
<1>2. /\ UNCHANGED <<lastID, locked>> /\ Others(p)
      /\ \/ UNCHANGED <<m, flow>> /\ loc'[p] = [loc[p] EXCEPT !.at = "scan"]
         \/ /\ m' = [m EXCEPT ![flow[v].key] = NoFlow]
            /\ flow' = [flow EXCEPT ![v] = [flow[v] EXCEPT !.frozen = TRUE, !.left = "sweep"]]
            /\ loc'[p] = [loc[p] EXCEPT !.at = "scan", !.todo = Victims(p)]
  <2>1. CASE Expires(p)
    <3>1. Local(p, [loc[p] EXCEPT !.at = "scan", !.todo = Victims(p)])
          BY <2>1 DEF ExpireCAS
    <3>2. QED
          BY <2>1, <3>1, LocalEffect DEF ExpireCAS
  <2>2. CASE ~Expires(p)
    <3>1. Local(p, [loc[p] EXCEPT !.at = "scan"])
          BY <2>2 DEF ExpireCAS, Goto
    <3>2. QED
          BY <2>2, <3>1, LocalEffect DEF ExpireCAS
  <2>3. QED
        BY <2>1, <2>2
<1>3. \A g \in Flow : /\ flow'[g].key = flow[g].key /\ flow'[g].state = flow[g].state
                      /\ flow'[g].seen = flow[g].seen /\ (flow[g].frozen => flow'[g].frozen)
  <2>1. CASE UNCHANGED flow
        BY <2>1, SMTT(30)
  <2>2. CASE flow' = [flow EXCEPT ![v] = [flow[v] EXCEPT !.frozen = TRUE, !.left = "sweep"]]
    <3>1. "sweep" \in Taken
          BY DEF Taken
    <3>2. QED
          BY <1>1, <2>2, <3>1, TakeFlow, Zenon DEF Inv
  <2>3. QED
        BY <1>2, <2>1, <2>2
<1>4. \A j \in Key : m'[j] = m[j] \/ (j = flow[v].key /\ m'[j] = NoFlow)
      BY <1>1, <1>2 DEF Types
<1>5. /\ loc'[p].at = "scan" /\ loc'[p].f = loc[p].f /\ loc'[p].v = v
      /\ loc'[p].keys = loc[p].keys /\ loc'[p].shards = loc[p].shards
      /\ (loc'[p].todo = loc[p].todo \/ loc'[p].todo = loc[p].todo \cup {v})
      BY <1>a, <1>2, Zenon DEF LocRec, Victims
<1>6. v \in 1 .. lastID /\ flow[v].key \notin loc[p].keys /\ ShardOf[flow[v].key] = NextShard(p)
      BY <1>1 DEF ExpireCAS, At, Expiring, Ids, Flow, Types
<1> HIDE DEF v
<1>7. Ids'
  <2>1. \A j \in Key : m'[j] <= lastID' /\ (m'[j] # NoFlow => flow'[m'[j]].key = j)
        BY <1>2, <1>3, <1>4, Pointers DEF Ids, NoFlow, Types
  <2>2. \A q \in Proc : loc'[q].f <= lastID' /\ loc'[q].v <= lastID' /\ loc'[q].todo \subseteq 1 .. lastID'
        BY <1>2, <1>5, <1>6 DEF Ids, Others, v
  <2>3. QED
        BY <1>2, <1>3, <2>1, <2>2 DEF Ids
<1>8. \A q \in Proc : NextShard(q)' = NextShard(q) /\ Sweeping(q)' = Sweeping(q)
      BY <1>1, <1>2, <1>5 DEF Others, NextShard, Sweeping
<1>9. Scans'
  <2>1. \A q \in Proc : Sweeping(q) => \A j \in loc'[q].keys : m'[j] = m[j] /\ j \in loc[q].keys
    <3>1. \A q \in Proc : loc[q].keys \subseteq Key
          BY SMTT(30) DEF Types, LocRec
    <3>2. QED
          BY <1>1, <1>2, <1>4, <1>5, <1>6, <3>1 DEF Scans, Others
  <2>2. QED
        BY <1>2, <1>8, <2>1 DEF Scans
<1>10. Expiring'
  <2>1. SUFFICES ASSUME NEW q \in Proc, loc'[q].at = "expire"
                 PROVE  (/\ loc[q].v # NoFlow /\ m[flow[loc[q].v].key] = loc[q].v
                         /\ ShardOf[flow[loc[q].v].key] = NextShard(q) /\ flow[loc[q].v].key \notin loc[q].keys
                         /\ loc[q].seen < Cutoff(q)
                         /\ loc[q].frozen => flow[loc[q].v].frozen /\ flow[loc[q].v].seen = loc[q].seen)'
        BY DEF Expiring
  <2>2. q # p /\ loc'[q] = loc[q] /\ NextShard(q)' = NextShard(q) /\ Cutoff(q)' = Cutoff(q)
        BY <1>2, <1>5, <1>8, <2>1 DEF Others, Cutoff
  <2>3. loc[q].v \in Flow /\ flow[loc[q].v].key \in Key /\ NextShard(q) # NextShard(p)
        BY <1>1, <2>1, <2>2, Pointers DEF Expiring, Scans, Sweeping
  <2>4. m'[flow[loc[q].v].key] = m[flow[loc[q].v].key]
        BY <1>4, <1>6, <2>1, <2>2, <2>3 DEF Expiring
  <2>5. QED
        BY <1>3, <2>1, <2>2, <2>3, <2>4, SMTT(30) DEF Expiring
<1>11. QED
      BY <1>7, <1>9, <1>10

\* A step of one goroutine leaves the locals of every other alone.
LEMMA OthersKeep == ASSUME Types, NEW p \in Proc, Call(p) \/ Continue(p) PROVE Others(p)
<1> USE DEF Types, Local, Others
<1>1. ASSUME BeginClose(p) PROVE Others(p)
      BY <1>1 DEF BeginClose, Goto
<1>2. ASSUME CloseFlow(p) PROVE Others(p)
      BY <1>2 DEF CloseFlow, Goto
<1>3. ASSUME freeze(p) PROVE Others(p)
      BY <1>3 DEF freeze, Return, Resting
<1>4. ASSUME Touch(p) PROVE Others(p)
      BY <1>4 DEF Touch
<1>5. ASSUME TouchCAS(p) PROVE Others(p)
      BY <1>5 DEF TouchCAS, Return, Resting
<1>6. ASSUME NEW k \in Key, Get(p, k) PROVE Others(p)
      BY <1>6 DEF Get
<1>7. ASSUME NEW k \in Key, GetOrOpen(p, k) PROVE Others(p)
      BY <1>7 DEF GetOrOpen
<1>8. ASSUME Remove(p) PROVE Others(p)
      BY <1>8 DEF Remove
<1>9. ASSUME NEW f \in Flow, ClosedCAS(p, f) PROVE Others(p)
      BY <1>9 DEF ClosedCAS
<1>10. ASSUME ClosedFreeze(p) PROVE Others(p)
      BY <1>10 DEF ClosedFreeze, Goto
<1>11. ASSUME onClose(p) PROVE Others(p)
      BY <1>11 DEF onClose
<1>12. ASSUME ClosedAll(p) PROVE Others(p)
      BY <1>12 DEF ClosedAll, Return, Resting, Goto
<1>13. ASSUME NEW t \in Times, Sweep(p, t) PROVE Others(p)
      BY <1>13 DEF Sweep
<1>14. ASSUME SweepLock(p) PROVE Others(p)
      BY <1>14 DEF SweepLock
<1>15. ASSUME NEW k \in Key, ExpireLoad(p, k) PROVE Others(p)
      BY <1>15 DEF ExpireLoad
<1>16. ASSUME ExpireCAS(p) PROVE Others(p)
      BY <1>16 DEF ExpireCAS, Goto
<1>17. ASSUME SweepUnlock(p) PROVE Others(p)
      BY <1>17 DEF SweepUnlock
<1>18. ASSUME Close(p) PROVE Others(p)
      BY <1>18 DEF Close
<1>19. ASSUME CloseShard(p) PROVE Others(p)
      BY <1>19, SMTT(30) DEF CloseShard
<1>20. QED
      BY <1>1, <1>2, <1>3, <1>4, <1>5, <1>6, <1>7, <1>8, <1>9, <1>10, <1>11, <1>12, <1>13, <1>14,
         <1>15, <1>16, <1>17, <1>18, <1>19 DEF Call, Continue

\* Every step leaves a goroutine with the pointers its place in the code needs.
LEMMA NextPlaces == ASSUME Inv, NEW p \in Proc, Call(p) \/ Continue(p) PROVE Places'
<1> DEFINE Placed(r) == /\ r.at \in {"freeze", "touch"} => r.f # NoFlow
                        /\ r.at \in {"closedFreeze", "onClose"} => r.v \in r.todo
                        /\ r.at \in {"idle", "freeze", "touch", "close"} => r.todo = {}
<1>s. SUFFICES Placed(loc'[p])
      BY OthersKeep DEF Inv, Places, Others
<1>a. Placed(loc[p]) /\ loc[p] \in LocRec
      BY DEF Inv, Types, Places
<1>b. \A r : Local(p, r) => loc'[p] = r
      BY LocalEffect DEF Inv
<1>1. ASSUME BeginClose(p) PROVE Placed(loc'[p])
  <2>1. Local(p, [loc[p] EXCEPT !.at = "freeze"])
        BY <1>1 DEF BeginClose, Goto
  <2>2. loc'[p] = [loc[p] EXCEPT !.at = "freeze"]
        BY <2>1, <1>b
  <2>3. QED
        BY <1>1, <1>a, <2>2 DEF BeginClose, At, LocRec, Resting, NoFlow
<1>2. ASSUME CloseFlow(p) PROVE Placed(loc'[p])
  <2>1. Local(p, [loc[p] EXCEPT !.at = "freeze"])
        BY <1>2 DEF CloseFlow, Goto
  <2>2. loc'[p] = [loc[p] EXCEPT !.at = "freeze"]
        BY <2>1, <1>b
  <2>3. QED
        BY <1>2, <1>a, <2>2 DEF CloseFlow, At, LocRec, Resting, NoFlow
<1>3. ASSUME freeze(p) PROVE Placed(loc'[p])
  <2>1. Local(p, [Resting EXCEPT !.f = loc[p].f])
        BY <1>3 DEF freeze, Return
  <2>2. loc'[p] = [Resting EXCEPT !.f = loc[p].f]
        BY <2>1, <1>b
  <2>3. QED
        BY <1>3, <1>a, <2>2 DEF freeze, At, LocRec, Resting, NoFlow
<1>4. ASSUME Touch(p) PROVE Placed(loc'[p])
  <2>1. Local(p, [loc[p] EXCEPT !.at = "touch", !.t = now])
        BY <1>4 DEF Touch
  <2>2. loc'[p] = [loc[p] EXCEPT !.at = "touch", !.t = now]
        BY <2>1, <1>b
  <2>3. QED
        BY <1>4, <1>a, <2>2 DEF Touch, At, LocRec, Resting, NoFlow
<1>5. ASSUME TouchCAS(p) PROVE Placed(loc'[p])
  <2>1. Local(p, [Resting EXCEPT !.f = loc[p].f])
        BY <1>5 DEF TouchCAS, Return
  <2>2. loc'[p] = [Resting EXCEPT !.f = loc[p].f]
        BY <2>1, <1>b
  <2>3. QED
        BY <1>5, <1>a, <2>2 DEF TouchCAS, At, LocRec, Resting, NoFlow
<1>6. ASSUME NEW k \in Key, Get(p, k) PROVE Placed(loc'[p])
  <2>1. Local(p, [loc[p] EXCEPT !.f = m[k]])
        BY <1>6 DEF Get
  <2>2. loc'[p] = [loc[p] EXCEPT !.f = m[k]]
        BY <2>1, <1>b
  <2>3. QED
        BY <1>6, <1>a, <2>2 DEF Get, At, LocRec, Resting, NoFlow
<1>7. ASSUME NEW k \in Key, GetOrOpen(p, k) PROVE Placed(loc'[p])
  <2>1. Local(p, [loc[p] EXCEPT !.f = lastID + 1])
        BY <1>7 DEF GetOrOpen
  <2>2. loc'[p] = [loc[p] EXCEPT !.f = lastID + 1]
        BY <2>1, <1>b, SMTT(30)
  <2>3. QED
        BY <1>7, <1>a, <2>2 DEF GetOrOpen, At, LocRec, Resting, NoFlow
<1>8. ASSUME Remove(p) PROVE Placed(loc'[p])
  <2>1. Local(p, [loc[p] EXCEPT !.at = "closed", !.todo = {m[flow[loc[p].f].key]}])
        BY <1>8 DEF Remove
  <2>2. loc'[p] = [loc[p] EXCEPT !.at = "closed", !.todo = {m[flow[loc[p].f].key]}]
        BY <2>1, <1>b
  <2>3. QED
    <3>1. loc'[p].at = "closed"
          BY <1>a, <2>2, SMTT(30) DEF LocRec
    <3>2. QED
          BY <3>1
<1>9. ASSUME NEW f \in Flow, ClosedCAS(p, f) PROVE Placed(loc'[p])
  <2> DEFINE next == IF flow[f].state = "closed" THEN "onClose" ELSE "closedFreeze"
  <2>1. Local(p, [loc[p] EXCEPT !.v = f, !.at = next])
        BY <1>9 DEF ClosedCAS
  <2>2. loc'[p] = [loc[p] EXCEPT !.v = f, !.at = next]
        BY <2>1, <1>b
  <2>3. QED
        BY <1>9, <1>a, <2>2 DEF ClosedCAS, At, LocRec, Resting, NoFlow
<1>10. ASSUME ClosedFreeze(p) PROVE Placed(loc'[p])
  <2>1. Local(p, [loc[p] EXCEPT !.at = "onClose"])
        BY <1>10 DEF ClosedFreeze, Goto
  <2>2. loc'[p] = [loc[p] EXCEPT !.at = "onClose"]
        BY <2>1, <1>b
  <2>3. QED
        BY <1>10, <1>a, <2>2 DEF ClosedFreeze, At, LocRec, Resting, NoFlow
<1>11. ASSUME onClose(p) PROVE Placed(loc'[p])
  <2>1. Local(p, [loc[p] EXCEPT !.at = "closed", !.todo = @ \ {loc[p].v}])
        BY <1>11 DEF onClose
  <2>2. loc'[p] = [loc[p] EXCEPT !.at = "closed", !.todo = @ \ {loc[p].v}]
        BY <2>1, <1>b
  <2>3. QED
        BY <1>11, <1>a, <2>2 DEF onClose, At, LocRec, Resting, NoFlow
<1>12. ASSUME ClosedAll(p) PROVE Placed(loc'[p])
  <2>1. Local(p, [Resting EXCEPT !.f = loc[p].f]) \/ Local(p, [loc[p] EXCEPT !.at = "close"])
        BY <1>12 DEF ClosedAll, Return, Goto
  <2>2. loc'[p] = [Resting EXCEPT !.f = loc[p].f] \/ loc'[p] = [loc[p] EXCEPT !.at = "close"]
        BY <2>1, <1>b
  <2>3. QED
        BY <1>12, <1>a, <2>2 DEF ClosedAll, At, LocRec, Resting, NoFlow
<1>13. ASSUME NEW t \in Times, Sweep(p, t) PROVE Placed(loc'[p])
  <2>1. Local(p, [loc[p] EXCEPT !.at = "sweep", !.t = t, !.shards = Shard]) \/ loc' = loc
        BY <1>13 DEF Sweep
  <2>2. loc'[p] = [loc[p] EXCEPT !.at = "sweep", !.t = t, !.shards = Shard] \/ loc'[p] = loc[p]
        BY <2>1, <1>b
  <2>3. QED
        BY <1>13, <1>a, <2>2, Zenon DEF Sweep, At, LocRec, Resting, NoFlow
<1>14. ASSUME SweepLock(p) PROVE Placed(loc'[p])
  <2>1. Local(p, [loc[p] EXCEPT !.at = "scan", !.keys = Mapped(NextShard(p))])
        BY <1>14 DEF SweepLock
  <2>2. loc'[p] = [loc[p] EXCEPT !.at = "scan", !.keys = Mapped(NextShard(p))]
        BY <2>1, <1>b
  <2>3. QED
        BY <1>14, <1>a, <2>2 DEF SweepLock, At, LocRec, Resting, NoFlow
<1>15. ASSUME NEW k \in Key, ExpireLoad(p, k) PROVE Placed(loc'[p])
  <2> DEFINE load == [loc[p] EXCEPT !.at = "expire", !.keys = @ \ {k}, !.v = m[k],
                                    !.seen = flow[m[k]].seen, !.frozen = flow[m[k]].frozen]
  <2>1. Local(p, [loc[p] EXCEPT !.keys = @ \ {k}]) \/ Local(p, load)
        BY <1>15 DEF ExpireLoad
  <2>2. loc'[p] = [loc[p] EXCEPT !.keys = @ \ {k}] \/ loc'[p] = load
        BY <2>1, <1>b
  <2>3. QED
        BY <1>15, <1>a, <2>2, ZenonT(30) DEF ExpireLoad, At, LocRec, Resting, NoFlow
<1>16. ASSUME ExpireCAS(p) PROVE Placed(loc'[p])
  <2>1. Local(p, [loc[p] EXCEPT !.at = "scan"]) \/ Local(p, [loc[p] EXCEPT !.at = "scan", !.todo = Victims(p)])
        BY <1>16 DEF ExpireCAS, Goto
  <2>2. loc'[p] = [loc[p] EXCEPT !.at = "scan"] \/ loc'[p] = [loc[p] EXCEPT !.at = "scan", !.todo = Victims(p)]
        BY <2>1, <1>b
  <2>3. QED
        BY <1>16, <1>a, <2>2, Zenon DEF ExpireCAS, At, LocRec, Resting, NoFlow
<1>17. ASSUME SweepUnlock(p) PROVE Placed(loc'[p])
  <2> DEFINE next == IF Cardinality(loc[p].shards) = 1 THEN "closed" ELSE "sweep"
  <2>1. Local(p, [loc[p] EXCEPT !.at = next, !.shards = @ \ {NextShard(p)}])
        BY <1>17 DEF SweepUnlock
  <2>2. loc'[p] = [loc[p] EXCEPT !.at = next, !.shards = @ \ {NextShard(p)}]
        BY <2>1, <1>b
  <2>3. QED
        BY <1>17, <1>a, <2>2 DEF SweepUnlock, At, LocRec, Resting, NoFlow
<1>18. ASSUME Close(p) PROVE Placed(loc'[p])
  <2>1. Local(p, [loc[p] EXCEPT !.at = "close", !.shards = Shard])
        BY <1>18 DEF Close
  <2>2. loc'[p] = [loc[p] EXCEPT !.at = "close", !.shards = Shard]
        BY <2>1, <1>b
  <2>3. QED
        BY <1>18, <1>a, <2>2 DEF Close, At, LocRec, Resting, NoFlow
<1>19. ASSUME CloseShard(p) PROVE Placed(loc'[p])
  <2> DEFINE old == {m[k] : k \in Mapped(NextShard(p))}
  <2>1. Local(p, [loc[p] EXCEPT !.at = "closed", !.shards = @ \ {NextShard(p)}, !.todo = old])
        BY <1>19 DEF CloseShard
  <2>2. loc'[p] = [loc[p] EXCEPT !.at = "closed", !.shards = @ \ {NextShard(p)}, !.todo = old]
        BY <2>1, <1>b
  <2>3. QED
        BY <1>19, <1>a, <2>2 DEF CloseShard, At, LocRec, Resting, NoFlow
<1>20. QED
      BY <1>1, <1>2, <1>3, <1>4, <1>5, <1>6, <1>7, <1>8, <1>9, <1>10, <1>11, <1>12, <1>13, <1>14,
         <1>15, <1>16, <1>17, <1>18, <1>19, ZenonT(30) DEF Call, Continue

\* Every step of Next, and stuttering, keeps the invariant.
LEMMA NextInv == Inv /\ [Next]_vars => Inv'
<1> SUFFICES ASSUME Inv, [Next]_vars PROVE Inv'
    OBVIOUS
<1>1. Types'
      BY NextTypes
<1>2. ASSUME NEW p \in Proc, Call(p) \/ Continue(p) PROVE Inv'
  <2>1. Places'
        BY <1>2, NextPlaces
  <2>2. Ids' /\ Scans' /\ Expiring'
    <3>1. CASE CalmStep(p)
          BY <1>1, <3>1, CalmSteps, CalmKeeps
    <3>2. CASE \E k \in Key : GetOrOpen(p, k) \/ ExpireLoad(p, k)
          BY <1>1, <3>2, OpenKeeps, LoadKeeps
    <3>3. CASE SweepLock(p) \/ SweepUnlock(p) \/ ExpireCAS(p)
          BY <1>1, <3>3, LockKeeps, ExpireKeeps
    <3>4. QED
          BY <1>2, <3>1, <3>2, <3>3 DEF Call, Continue, CalmStep
  <2>3. QED
        BY <1>1, <2>1, <2>2 DEF Inv
<1>3. CASE UNCHANGED vars
  <2>1. /\ UNCHANGED <<m, locked, flow, lastID, loc>> /\ (\A q \in Proc : NextShard(q)' = NextShard(q))
        /\ (\A q \in Proc : Sweeping(q)' = Sweeping(q) /\ Cutoff(q)' = Cutoff(q))
        BY <1>3, SMTT(30) DEF vars, NextShard, Sweeping, Cutoff
  <2>2. Ids' /\ Places' /\ Scans' /\ Expiring'
        BY <2>1 DEF Inv, Ids, Places, Scans, Expiring
  <2>3. QED
        BY <1>1, <2>2 DEF Inv
<1>4. QED
      BY <1>2, <1>3 DEF Next

\* A flow leaves the table only by its own ID, by Close, or because a Sweep found it idle, for
\* any goroutines, keys and shards: what LeavesForCause checks on a small instance.
THEOREM FlowsLeaveForCause == Spec => LeavesForCause
<1> DEFINE Step == \A k \in Key : m[k] # NoFlow /\ m'[k] # m[k] =>
                     \E p \in Proc : \/ At(p, "close")
                                     \/ At(p, "idle") /\ loc[p].f = m[k]
                                     \/ At(p, "expire") /\ flow[m[k]].seen < Cutoff(p)
<1>1. ASSUME Inv, [Next]_vars PROVE [Step]_vars
  <2>1. SUFFICES ASSUME NEW p \in Proc, Call(p) \/ Continue(p), NEW k \in Key, m[k] # NoFlow, m'[k] # m[k]
                 PROVE  \/ At(p, "close")
                        \/ At(p, "idle") /\ loc[p].f = m[k]
                        \/ At(p, "expire") /\ flow[m[k]].seen < Cutoff(p)
        BY <1>1 DEF Next
  <2>m. m \in [Key -> Nat]
        BY <1>1 DEF Inv, Types
  <2>2. CASE Remove(p)
        BY <2>1, <2>2, <2>m, <1>1, Pointers DEF Inv, Remove, Removable
  <2>3. CASE CloseShard(p)
        BY <2>3 DEF CloseShard
  <2>4. CASE ExpireCAS(p)
    <3>1. At(p, "expire") /\ Expires(p) /\ m' = [m EXCEPT ![flow[loc[p].v].key] = NoFlow]
          BY <2>1, <2>4, SMTT(30) DEF ExpireCAS
    <3>2. m[k] = loc[p].v
          BY <2>1, <2>m, <3>1, <1>1, SMTT(30) DEF Inv, Expiring, At
    <3>3. flow[loc[p].v].seen = loc[p].seen /\ loc[p].seen < Cutoff(p)
          BY <3>1, <1>1 DEF Inv, Expiring, At, Expires
    <3>4. QED
          BY <3>1, <3>2, <3>3
  <2>5. CASE \E j \in Key : GetOrOpen(p, j)
        BY <2>1, <2>5, <2>m DEF GetOrOpen
  <2>6. ASSUME UNCHANGED m PROVE FALSE
        BY <2>1, <2>6
  <2>7. QED
        BY <2>1, <2>2, <2>3, <2>4, <2>5, <2>6, ZenonT(30)
        DEF Call, Continue, BeginClose, CloseFlow, Touch, Close, Get, Sweep, freeze, TouchCAS,
            ClosedFreeze, onClose, ClosedAll, SweepLock, SweepUnlock, ClosedCAS, ExpireLoad
<1>2. QED
      BY <1>1, InitInv, NextInv, PTL DEF Spec, LeavesForCause

-----------------------------------------------------------------------------
(* Touch and freeze *)

Ended == {"closing", "closed"}

\* p has closed f and is about to freeze it.
Freezing(p, f) ==
  \/ loc[p].at = "freeze" /\ loc[p].f = f
  \/ loc[p].at = "closedFreeze" /\ loc[p].v = f

\* What makes NoRevival hold: whatever is over has been frozen, or is about to be.
Frozen ==
  \A f \in Opened : /\ flow[f].left \in Taken => flow[f].frozen
                    /\ flow[f].state \in Ended => flow[f].frozen \/ \E p \in Proc : Freezing(p, f)

\* What a step of p may do to a flow g, and to p's promise to freeze it.
FlowEffect(p, g) ==
  /\ flow'[g].state # "none" /\ flow'[g].seen >= flow[g].seen
  /\ flow[g].frozen => flow'[g].frozen /\ flow'[g].seen = flow[g].seen
  /\ flow'[g].state \in Ended => flow[g].state \in Ended \/ Freezing(p, g)'
  /\ flow'[g].left \in Taken => flow[g].left \in Taken \/ flow'[g].frozen
  /\ Freezing(p, g) => flow'[g].frozen \/ Freezing(p, g)'

\* Every step has the effect FlowEffect on each flow, one case for each action.
LEMMA FlowSteps ==
  ASSUME Inv, NEW p \in Proc, Call(p) \/ Continue(p), NEW g \in Opened
  PROVE  FlowEffect(p, g)
<1> USE DEF At
<1>t. Types /\ loc[p] \in LocRec /\ g \in Flow /\ flow[g] \in FlowRec /\ flow[g].state # "none"
      BY SMTT(30) DEF Inv, Types, Opened
<1>b. \A r : Local(p, r) => loc'[p] = r
      BY LocalEffect, <1>t, SMTT(30)
<1>p. loc[p].f \in Flow \cup {NoFlow} /\ loc[p].v \in Flow \cup {NoFlow} /\ loc[p].todo \subseteq Flow
      BY Pointers DEF Inv
<1>s. flow[g].seen \in Nat /\ flow[g].seen >= flow[g].seen
      BY <1>t DEF FlowRec
<1>u. ASSUME UNCHANGED flow, ~Freezing(p, g) PROVE FlowEffect(p, g)
      BY <1>s, <1>t, <1>u, SMTT(30) DEF FlowEffect
<1>1. ASSUME BeginClose(p) PROVE FlowEffect(p, g)
  <2>1. Local(p, [loc[p] EXCEPT !.at = "freeze"]) /\ loc[p].f \in Flow
        BY <1>1, <1>p DEF BeginClose, Inv, Places, Goto
  <2>2. loc'[p] = [loc[p] EXCEPT !.at = "freeze"]
        BY <2>1, <1>b, SMTT(30)
  <2>3. QED
        BY <1>1, <1>s, <1>t, <2>1, <2>2, SetState DEF BeginClose, FlowEffect, Freezing, Ended,
           LocRec
<1>2. ASSUME CloseFlow(p) PROVE FlowEffect(p, g)
  <2>1. Local(p, [loc[p] EXCEPT !.at = "freeze"]) /\ loc[p].f \in Flow
        BY <1>2, <1>p, SMTT(30) DEF CloseFlow, Inv, Places, Goto
  <2>2. loc'[p] = [loc[p] EXCEPT !.at = "freeze"]
        BY <2>1, <1>b
  <2>3. QED
        BY <1>2, <1>s, <1>t, <2>1, <2>2, SetState DEF CloseFlow, FlowEffect, Freezing, Ended, LocRec
<1>3. ASSUME freeze(p) PROVE FlowEffect(p, g)
  <2>1. Local(p, [Resting EXCEPT !.f = loc[p].f]) /\ loc[p].f \in Flow
        BY <1>3, <1>p DEF freeze, Inv, Places, Return
  <2>2. loc'[p] = [Resting EXCEPT !.f = loc[p].f]
        BY <2>1, <1>b
  <2>3. /\ flow'[g].state = flow[g].state /\ flow'[g].seen = flow[g].seen
        /\ flow'[g].left = flow[g].left /\ (g = loc[p].f \/ flow[g].frozen => flow'[g].frozen)
        BY <1>3, <1>t, <2>1, SetFrozen, Zenon DEF freeze
  <2>4. Freezing(p, g) => g = loc[p].f
        BY <1>3 DEF freeze, Freezing
  <2>5. QED
        BY <1>s, <1>t, <2>3, <2>4 DEF FlowEffect
<1>4. ASSUME Touch(p) PROVE FlowEffect(p, g)
      BY <1>4, <1>u DEF Touch, Freezing
<1>5. ASSUME TouchCAS(p) PROVE FlowEffect(p, g)
  <2>1. CASE Touchable(loc[p].f, loc[p].t)
    <3>1. loc[p].f \in Flow /\ loc[p].t \in Nat /\ ~Freezing(p, g)
          BY <1>5, <1>p, <1>t DEF TouchCAS, Inv, Places, LocRec, Freezing
    <3>2. flow' = [flow EXCEPT ![loc[p].f].seen = loc[p].t]
          BY <1>5, <2>1 DEF TouchCAS
    <3>3. QED
          BY <1>s, <1>t, <2>1, <3>1, <3>2, SetSeen DEF FlowEffect, Touchable
  <2>2. CASE ~Touchable(loc[p].f, loc[p].t)
        BY <1>5, <1>u, <2>2 DEF TouchCAS, Freezing
  <2>3. QED
        BY <2>1, <2>2
<1>6. ASSUME NEW k \in Key, Get(p, k) PROVE FlowEffect(p, g)
      BY <1>6, <1>u DEF Get, Freezing
<1>7. ASSUME NEW k \in Key, GetOrOpen(p, k) PROVE FlowEffect(p, g)
  <2>1. g # lastID + 1 /\ ~Freezing(p, g)
        BY <1>7, <1>t, FlowAssumption, SMTT(30) DEF GetOrOpen, Inv, Ids, Types, Flow, Freezing
  <2>2. flow'[g] = flow[g]
        BY <1>7, <1>t, <2>1 DEF GetOrOpen, Types
  <2>3. QED
        BY <1>s, <1>t, <2>1, <2>2 DEF FlowEffect
<1>8. ASSUME Remove(p) PROVE FlowEffect(p, g)
  <2>1. loc[p].f \in Flow /\ m[flow[loc[p].f].key] = loc[p].f /\ ~Freezing(p, g)
        BY <1>8, <1>p DEF Remove, Removable, Freezing
  <2>2. flow' = [flow EXCEPT ![loc[p].f] = [flow[loc[p].f] EXCEPT !.frozen = TRUE, !.left = "remove"]]
        BY <1>8, <2>1 DEF Remove
  <2>3. "remove" \in Taken
        BY DEF Taken
  <2>4. QED
        BY <1>s, <1>t, <2>1, <2>2, <2>3, TakeFlow, ZenonT(30) DEF FlowEffect
<1>9. ASSUME NEW f \in Flow, ClosedCAS(p, f) PROVE FlowEffect(p, g)
  <2> DEFINE next == IF flow[f].state = "closed" THEN "onClose" ELSE "closedFreeze"
  <2>1. Local(p, [loc[p] EXCEPT !.v = f, !.at = next]) /\ f \in Flow
        BY <1>9, <1>p DEF ClosedCAS, Inv, Places
  <2>2. loc'[p] = [loc[p] EXCEPT !.v = f, !.at = next]
        BY <2>1, <1>b
  <2>3. QED
        BY <1>9, <1>s, <1>t, <2>1, <2>2, SetState DEF ClosedCAS, FlowEffect, Freezing, Ended, LocRec
<1>10. ASSUME ClosedFreeze(p) PROVE FlowEffect(p, g)
  <2>1. Local(p, [loc[p] EXCEPT !.at = "onClose"]) /\ loc[p].v \in Flow
        BY <1>10, <1>p DEF ClosedFreeze, Inv, Places, Goto
  <2>2. loc'[p] = [loc[p] EXCEPT !.at = "onClose"]
        BY <2>1, <1>b, SMTT(30)
  <2>3. /\ flow'[g].state = flow[g].state /\ flow'[g].seen = flow[g].seen
        /\ flow'[g].left = flow[g].left /\ (g = loc[p].v \/ flow[g].frozen => flow'[g].frozen)
        BY <1>10, <1>t, <2>1, SetFrozen, ZenonT(30) DEF ClosedFreeze
  <2>4. Freezing(p, g) => g = loc[p].v
        BY <1>10 DEF ClosedFreeze, Freezing
  <2>5. QED
        BY <1>s, <1>t, <2>3, <2>4 DEF FlowEffect
<1>11. ASSUME onClose(p) PROVE FlowEffect(p, g)
  <2>1. Local(p, [loc[p] EXCEPT !.at = "closed", !.todo = @ \ {loc[p].v}]) /\ loc[p].v \in Flow
        BY <1>11, <1>p DEF onClose, Inv, Places
  <2>2. loc'[p] = [loc[p] EXCEPT !.at = "closed", !.todo = @ \ {loc[p].v}]
        BY <2>1, <1>b
  <2>3. QED
        BY <1>11, <1>s, <1>t, <2>1, <2>2, IncOnClose DEF onClose, FlowEffect, Freezing, Ended,
           LocRec
<1>12. ASSUME ClosedAll(p) PROVE FlowEffect(p, g)
      BY <1>12, <1>u DEF ClosedAll, Freezing
<1>13. ASSUME NEW t \in Times, Sweep(p, t) PROVE FlowEffect(p, g)
      BY <1>13, <1>u DEF Sweep, Freezing
<1>14. ASSUME SweepLock(p) PROVE FlowEffect(p, g)
      BY <1>14, <1>u DEF SweepLock, Freezing
<1>15. ASSUME NEW k \in Key, ExpireLoad(p, k) PROVE FlowEffect(p, g)
      BY <1>15, <1>u DEF ExpireLoad, Freezing
<1>16. ASSUME ExpireCAS(p) PROVE FlowEffect(p, g)
  <2>1. loc[p].v \in Flow /\ ~Freezing(p, g)
        BY <1>16, <1>p, SMTT(30) DEF ExpireCAS, Inv, Expiring, Freezing
  <2>2. CASE Expires(p)
    <3>1. flow' = [flow EXCEPT ![loc[p].v] = [flow[loc[p].v] EXCEPT !.frozen = TRUE, !.left = "sweep"]]
          BY <1>16, <2>2 DEF ExpireCAS
    <3>2. "sweep" \in Taken
          BY DEF Taken
    <3>3. QED
          BY <1>s, <1>t, <2>1, <3>1, <3>2, TakeFlow, Zenon DEF FlowEffect
  <2>3. CASE ~Expires(p)
        BY <1>16, <1>u, <2>1, <2>3 DEF ExpireCAS
  <2>4. QED
        BY <2>2, <2>3
<1>17. ASSUME SweepUnlock(p) PROVE FlowEffect(p, g)
      BY <1>17, <1>u DEF SweepUnlock, Freezing
<1>18. ASSUME Close(p) PROVE FlowEffect(p, g)
      BY <1>18, <1>u DEF Close, Freezing
<1>19. ASSUME CloseShard(p) PROVE FlowEffect(p, g)
  <2>1. ~Freezing(p, g) /\ (flow'[g] = flow[g] \/ flow'[g] = [flow[g] EXCEPT !.left = "close"])
        BY <1>19, <1>t, SMTT(30) DEF CloseShard, Freezing
  <2>2. QED
        BY <1>s, <1>t, <2>1 DEF FlowEffect, FlowRec, Taken
<1>20. QED
      BY <1>1, <1>2, <1>3, <1>4, <1>5, <1>6, <1>7, <1>8, <1>9, <1>10, <1>11, <1>12, <1>13, <1>14,
         <1>15, <1>16, <1>17, <1>18, <1>19 DEF Call, Continue

\* GetOrOpen is the only step that opens a flow.
LEMMA OpensFresh ==
  ASSUME Inv, NEW p \in Proc, Call(p) \/ Continue(p), NEW g \in Flow, g \notin Opened, g \in Opened'
  PROVE  flow'[g].left = "no" /\ flow'[g].state = "open"
<1>t. g \in Flow /\ flow[g].state = "none" /\ flow'[g].state # "none" /\ Types /\ Ids
      BY DEF Opened, Inv
<1>1. CASE \E k \in Key : GetOrOpen(p, k)
  <2>1. PICK k \in Key : GetOrOpen(p, k)
        BY <1>1
  <2>2. flow'[g] = IF g = lastID + 1 THEN [Absent EXCEPT !.key = k, !.state = "open", !.seen = now] ELSE flow[g]
        BY <1>t, <2>1 DEF GetOrOpen, Types
  <2>3. QED
        BY <1>t, <2>2 DEF Absent
<1>2. CASE CalmStep(p)
      BY <1>t, <1>2, CalmSteps, SMTT(30) DEF Calm
<1>3. CASE ExpireCAS(p) /\ Expires(p)
  <2>1. loc[p].v \in Flow
        BY <1>3, Pointers DEF ExpireCAS, Inv, Expiring, At
  <2>2. flow' = [flow EXCEPT ![loc[p].v] = [flow[loc[p].v] EXCEPT !.frozen = TRUE, !.left = "sweep"]]
        BY <1>3 DEF ExpireCAS
  <2>3. "sweep" \in Taken
        BY DEF Taken
  <2>4. QED
        BY <1>t, <2>1, <2>2, <2>3, TakeFlow, Zenon
<1>4. CASE UNCHANGED flow
      BY <1>t, <1>4
<1>5. QED
      BY <1>1, <1>2, <1>3, <1>4, Zenon DEF Call, Continue, CalmStep, SweepLock, SweepUnlock, ExpireLoad,
         ExpireCAS

\* Every step keeps the link between a closed flow and the goroutine that freezes it.
LEMMA NextFrozen == Inv /\ Frozen /\ [Next]_vars => Frozen'
<1> SUFFICES ASSUME Inv, Frozen, [Next]_vars PROVE Frozen'
    OBVIOUS
<1>1. ASSUME NEW p \in Proc, Call(p) \/ Continue(p) PROVE Frozen'
  <2>1. SUFFICES ASSUME NEW g \in Opened'
                 PROVE  /\ flow'[g].left \in Taken => flow'[g].frozen
                        /\ flow'[g].state \in Ended => flow'[g].frozen \/ \E q \in Proc : Freezing(q, g)'
        BY DEF Frozen
  <2>2. CASE g \in Opened
    <3>1. FlowEffect(p, g)
          BY <1>1, <2>2, FlowSteps
    <3>2. \A q \in Proc : q # p => Freezing(q, g)' = Freezing(q, g)
          BY <1>1, OthersKeep DEF Others, Freezing, Inv
    <3>3. QED
          BY <2>2, <3>1, <3>2 DEF FlowEffect, Frozen
  <2>3. CASE g \notin Opened
        BY <1>1, <2>1, <2>3, OpensFresh DEF Opened, Taken, Ended
  <2>4. QED
        BY <2>2, <2>3
<1>2. CASE UNCHANGED vars
      BY <1>2 DEF vars, Frozen, Opened, Freezing
<1>3. QED
      BY <1>1, <1>2 DEF Next

\* LastSeen never moves back, and no Touch revives a flow that is over, for any goroutines, keys
\* and shards: what NoRevival checks on a small instance.
THEOREM NeverRevived == Spec => NoRevival
<1> DEFINE Step == \A f \in Opened : flow'[f].seen >= flow[f].seen /\ (Gone(f) => flow'[f].seen = flow[f].seen)
<1>1. Init => Frozen
      BY SMTT(30) DEF Init, Frozen, Opened, Absent
<1>2. ASSUME Inv, Frozen, [Next]_vars PROVE [Step]_vars
  <2>1. SUFFICES ASSUME NEW p \in Proc, Call(p) \/ Continue(p), NEW f \in Opened
                 PROVE  flow'[f].seen >= flow[f].seen /\ (Gone(f) => flow'[f].seen = flow[f].seen)
        BY <1>2 DEF Next
  <2>2. Gone(f) => flow[f].frozen
        BY <1>2 DEF Frozen, Gone, Freezing, Ended, Taken, At
  <2>3. QED
        BY <1>2, <2>1, <2>2, FlowSteps DEF FlowEffect
<1>3. QED
      BY <1>1, <1>2, InitInv, NextInv, NextFrozen, PTL DEF Spec, NoRevival
-----------------------------------------------------------------------------
\* What makes OnCloseOnce inductive: a flow is owed by one goroutine at most, and either it is in
\* the table, or it is owed, or OnClose has been called.
Owed ==
  /\ \A p, q \in Proc : p # q => loc[p].todo \cap loc[q].todo = {}
  /\ \A f \in Flow : f <= lastID =>
       \/ m[flow[f].key] = f /\ flow[f].onClose = 0 /\ \A p \in Proc : f \notin loc[p].todo
       \/ m[flow[f].key] # f /\ flow[f].onClose = 0 /\ \E p \in Proc : f \in loc[p].todo
       \/ m[flow[f].key] # f /\ flow[f].onClose = 1 /\ \A p \in Proc : f \notin loc[p].todo

\* p moves the flows of old from the table to its own list.
Takes(p, old) ==
  /\ UNCHANGED lastID /\ Others(p) /\ old \subseteq Flow
  /\ \A f \in old : m[flow[f].key] = f /\ m'[flow[f].key] # f
  /\ \A f \in Flow : f \notin old => (m'[flow[f].key] = f <=> m[flow[f].key] = f)
  /\ \A f \in Flow : flow'[f].key = flow[f].key /\ flow'[f].onClose = flow[f].onClose
  /\ loc'[p].todo = loc[p].todo \cup old

\* A step that takes the flows of old out of the map, and owes each one call, keeps Owed.
LEMMA TakesKeeps == ASSUME Inv, Owed, NEW p \in Proc, NEW old, Takes(p, old) PROVE Owed'
<1> USE DEF Takes, Others
<1>1. \A f \in old : f <= lastID /\ \A q \in Proc : f \notin loc[q].todo
  <2>1. \A f \in old : f <= lastID
        BY Pointers DEF Inv, Ids
  <2>2. QED
        BY <2>1 DEF Owed
<1>2. \A q, r \in Proc : q # r => loc'[q].todo \cap loc'[r].todo = {}
      BY <1>1 DEF Owed
<1>3. ASSUME NEW f \in Flow, f <= lastID'
      PROVE  \/ m'[flow'[f].key] = f /\ flow'[f].onClose = 0 /\ \A q \in Proc : f \notin loc'[q].todo
             \/ m'[flow'[f].key] # f /\ flow'[f].onClose = 0 /\ \E q \in Proc : f \in loc'[q].todo
             \/ m'[flow'[f].key] # f /\ flow'[f].onClose = 1 /\ \A q \in Proc : f \notin loc'[q].todo
  <2>1. CASE f \in old
        BY <1>1, <1>3, <2>1 DEF Owed
  <2>2. CASE f \notin old
    <3>1. \A q \in Proc : f \in loc'[q].todo <=> f \in loc[q].todo
          BY <2>2
    <3>2. QED
          BY <1>3, <2>2, <3>1 DEF Owed
  <2>3. QED
        BY <2>1, <2>2
<1>4. QED
      BY <1>2, <1>3 DEF Owed

\* The steps that take no flow out of the table and call no OnClose.
LEMMA RestTakesNone ==
  ASSUME Inv, NEW p \in Proc,
         \/ BeginClose(p) \/ CloseFlow(p) \/ freeze(p) \/ Touch(p) \/ TouchCAS(p) \/ Close(p)
         \/ ClosedFreeze(p) \/ ClosedAll(p) \/ SweepLock(p) \/ SweepUnlock(p)
         \/ (ExpireCAS(p) /\ ~Expires(p))
         \/ (\E k \in Key : Get(p, k) \/ ExpireLoad(p, k)) \/ (\E t \in Times : Sweep(p, t))
         \/ (\E f \in Flow : ClosedCAS(p, f))
  PROVE  Takes(p, {})
<1> USE DEF At
<1>t. Types /\ loc[p] \in LocRec
      BY DEF Inv, Types
<1>o. Others(p)
      BY <1>t, OthersKeep, SMTT(30) DEF Call, Continue
<1>1. UNCHANGED <<m, lastID>>
      BY ZenonT(30)
      DEF BeginClose, CloseFlow, freeze, Touch, TouchCAS, Close, ClosedFreeze, ClosedAll,
          SweepLock, SweepUnlock, ExpireCAS, Get, ExpireLoad, Sweep, ClosedCAS
<1>2. \A f \in Flow : flow'[f].key = flow[f].key /\ flow'[f].onClose = flow[f].onClose
  <2>p. loc[p].f \in Flow \cup {NoFlow} /\ loc[p].v \in Flow \cup {NoFlow} /\ loc[p].todo \subseteq Flow
        BY Pointers DEF Inv
  <2>1. CASE BeginClose(p)
        BY <1>t, <2>p, <2>1, SetState, SMTT(30) DEF BeginClose
  <2>2. CASE CloseFlow(p)
        BY <1>t, <2>p, <2>2, SetState, SMTT(30) DEF CloseFlow
  <2>3. CASE freeze(p)
        BY <1>t, <2>p, <2>3, SetFrozen, SMTT(30) DEF freeze, Inv, Places
  <2>4. CASE TouchCAS(p)
        BY <1>t, <2>p, <2>4, SetSeen, SMTT(30) DEF TouchCAS, Inv, Places
  <2>5. CASE ClosedFreeze(p)
        BY <1>t, <2>p, <2>5, SetFrozen DEF ClosedFreeze, Inv, Places
  <2>6. CASE \E f \in Flow : ClosedCAS(p, f)
    <3>1. PICK f \in Flow : flow' = [flow EXCEPT ![f].state = "closed"]
          BY <2>6, Zenon DEF ClosedCAS
    <3>2. QED
          BY <1>t, <3>1, SetState, SMTT(30)
  <2>7. CASE UNCHANGED flow
        BY <2>7
  <2>8. QED
        BY <2>1, <2>2, <2>3, <2>4, <2>5, <2>6, <2>7, ZenonT(30)
        DEF Touch, Close, ClosedAll, SweepLock, SweepUnlock, ExpireCAS, Get, ExpireLoad, Sweep
<1>3. loc'[p].todo = loc[p].todo
  <2>1. CASE freeze(p) \/ TouchCAS(p) \/ (ClosedAll(p) /\ loc[p].shards = {})
    <3>1. loc[p].todo = {} /\ Local(p, [Resting EXCEPT !.f = loc[p].f])
          BY <2>1 DEF freeze, TouchCAS, ClosedAll, Return, Inv, Places
    <3>2. loc'[p] = [Resting EXCEPT !.f = loc[p].f]
          BY <1>t, <3>1, LocalEffect, SMTT(30)
    <3>3. QED
          BY <3>1, <3>2 DEF Resting
  <2>2. CASE \/ BeginClose(p) \/ CloseFlow(p) \/ ClosedFreeze(p) \/ (ClosedAll(p) /\ loc[p].shards # {})
             \/ (ExpireCAS(p) /\ ~Expires(p))
        BY <1>t, <2>2 DEF BeginClose, CloseFlow, ClosedFreeze, ClosedAll, ExpireCAS, Goto, Local,
           LocRec, Types
  <2>3. CASE Touch(p) \/ Close(p) \/ SweepLock(p)
    <3>1. \/ Local(p, [loc[p] EXCEPT !.at = "touch", !.t = now])
          \/ Local(p, [loc[p] EXCEPT !.at = "close", !.shards = Shard])
          \/ Local(p, [loc[p] EXCEPT !.at = "scan", !.keys = Mapped(NextShard(p))])
          BY <2>3 DEF Touch, Close, SweepLock
    <3>2. \/ loc'[p] = [loc[p] EXCEPT !.at = "touch", !.t = now]
          \/ loc'[p] = [loc[p] EXCEPT !.at = "close", !.shards = Shard]
          \/ loc'[p] = [loc[p] EXCEPT !.at = "scan", !.keys = Mapped(NextShard(p))]
          BY <1>t, <3>1, LocalEffect
    <3>3. QED
          BY <1>t, <3>2, Zenon DEF LocRec
  <2>4. CASE SweepUnlock(p)
        BY <1>t, <2>4 DEF SweepUnlock, Local, LocRec, Types
  <2>5. ASSUME NEW k \in Key, Get(p, k) PROVE loc'[p].todo = loc[p].todo
        BY <1>t, <2>5 DEF Get, Local, LocRec, Types
  <2>6. ASSUME NEW k \in Key, ExpireLoad(p, k) PROVE loc'[p].todo = loc[p].todo
    <3> DEFINE skip == [loc[p] EXCEPT !.keys = @ \ {k}]
               load == [loc[p] EXCEPT !.at = "expire", !.keys = @ \ {k}, !.v = m[k],
                                      !.seen = flow[m[k]].seen, !.frozen = flow[m[k]].frozen]
    <3>1. Local(p, skip) \/ Local(p, load)
          BY <2>6, Zenon DEF ExpireLoad
    <3>2. loc'[p] = skip \/ loc'[p] = load
          BY <1>t, <3>1, LocalEffect, SMTT(30)
    <3>3. QED
          BY <1>t, <3>2, Zenon DEF LocRec
  <2>7. ASSUME NEW f \in Flow, ClosedCAS(p, f) PROVE loc'[p].todo = loc[p].todo
        BY <1>t, <2>7, Zenon DEF ClosedCAS, Local, LocRec, Types
  <2>8. ASSUME NEW t \in Times, Sweep(p, t) PROVE loc'[p].todo = loc[p].todo
    <3>1. loc' = loc \/ Local(p, [loc[p] EXCEPT !.at = "sweep", !.t = t, !.shards = Shard])
          BY <2>8, Zenon DEF Sweep
    <3>2. loc'[p] = loc[p] \/ loc'[p] = [loc[p] EXCEPT !.at = "sweep", !.t = t, !.shards = Shard]
          BY <1>t, <3>1, LocalEffect, SMTT(30)
    <3>3. QED
          BY <1>t, <3>2, Zenon DEF LocRec
  <2>9. QED
        BY <2>1, <2>2, <2>3, <2>4, <2>5, <2>6, <2>7, <2>8
<1>4. QED
      BY <1>o, <1>1, <1>2, <1>3 DEF Takes

\* Remove takes the flow it was given.
LEMMA RemoveTakesOne == ASSUME Inv, NEW p \in Proc, Remove(p) PROVE Takes(p, {loc[p].f})
<1>t. Types /\ loc[p] \in LocRec /\ Ids
      BY DEF Inv, Types
<1>1. loc[p].f \in Flow /\ flow[loc[p].f].key \in Key /\ m[flow[loc[p].f].key] = loc[p].f /\ loc[p].todo = {}
      BY Pointers DEF Remove, Removable, Inv, Places, At
<1>2. /\ m' = [m EXCEPT ![flow[loc[p].f].key] = NoFlow] /\ UNCHANGED lastID
      /\ flow' = [flow EXCEPT ![loc[p].f] = [flow[loc[p].f] EXCEPT !.frozen = TRUE, !.left = "remove"]]
      /\ Local(p, [loc[p] EXCEPT !.at = "closed", !.todo = {loc[p].f}])
      BY <1>1 DEF Remove
<1>3. loc'[p].todo = loc[p].todo \cup {loc[p].f} /\ Others(p)
  <2>1. loc'[p] = [loc[p] EXCEPT !.at = "closed", !.todo = {loc[p].f}] /\ Others(p)
        BY <1>t, <1>2, LocalEffect, SMTT(30)
  <2>2. QED
        BY <1>t, <1>1, <2>1 DEF LocRec
<1>4. \A f \in Flow : flow'[f].key = flow[f].key /\ flow'[f].onClose = flow[f].onClose
  <2>1. "remove" \in Taken
        BY DEF Taken
  <2>2. QED
        BY <1>t, <1>1, <1>2, <2>1, TakeFlow, Zenon
<1>5. /\ m'[flow[loc[p].f].key] = NoFlow
      /\ \A j \in Key : j # flow[loc[p].f].key => m'[j] = m[j]
      BY <1>t, <1>1, <1>2 DEF Types
<1>6. \A f \in Flow : f # NoFlow /\ flow[f].key \in Key
      BY <1>t, Pointers, SMTT(30) DEF Flow, NoFlow
<1>7. QED
      BY <1>1, <1>2, <1>3, <1>4, <1>5, <1>6 DEF Takes

\* A successful expire takes the flow it examined.
LEMMA ExpireTakesOne ==
  ASSUME Inv, NEW p \in Proc, ExpireCAS(p), Expires(p) PROVE Takes(p, {loc[p].v})
<1>t. Types /\ loc[p] \in LocRec /\ Ids
      BY DEF Inv, Types
<1>1. loc[p].v \in Flow /\ flow[loc[p].v].key \in Key /\ m[flow[loc[p].v].key] = loc[p].v
      BY Pointers DEF ExpireCAS, Inv, Expiring, At
<1>2. /\ m' = [m EXCEPT ![flow[loc[p].v].key] = NoFlow] /\ UNCHANGED lastID
      /\ flow' = [flow EXCEPT ![loc[p].v] = [flow[loc[p].v] EXCEPT !.frozen = TRUE, !.left = "sweep"]]
      /\ Local(p, [loc[p] EXCEPT !.at = "scan", !.todo = loc[p].todo \cup {loc[p].v}])
      BY DEF ExpireCAS, Victims
<1>3. loc'[p].todo = loc[p].todo \cup {loc[p].v} /\ Others(p)
  <2>1. loc'[p] = [loc[p] EXCEPT !.at = "scan", !.todo = loc[p].todo \cup {loc[p].v}] /\ Others(p)
        BY <1>t, <1>2, LocalEffect, SMTT(30)
  <2>2. QED
        BY <1>t, <2>1 DEF LocRec
<1>4. \A f \in Flow : flow'[f].key = flow[f].key /\ flow'[f].onClose = flow[f].onClose
  <2>1. "sweep" \in Taken
        BY DEF Taken
  <2>2. QED
        BY <1>t, <1>1, <1>2, <2>1, TakeFlow, Zenon
<1>5. /\ m'[flow[loc[p].v].key] = NoFlow
      /\ \A j \in Key : j # flow[loc[p].v].key => m'[j] = m[j]
      BY <1>t, <1>1, <1>2 DEF Types
<1>6. \A f \in Flow : f # NoFlow /\ flow[f].key \in Key
      BY <1>t, Pointers DEF Flow, NoFlow
<1>7. QED
      BY <1>1, <1>2, <1>3, <1>4, <1>5, <1>6 DEF Takes

\* Close takes every flow of one shard.
LEMMA CloseTakesShard ==
  ASSUME Inv, NEW p \in Proc, CloseShard(p) PROVE Takes(p, {m[k] : k \in Mapped(NextShard(p))})
<1> DEFINE s == NextShard(p)
           old == {m[k] : k \in Mapped(s)}
<1>t. Types /\ loc[p] \in LocRec /\ Ids /\ loc[p].todo = {}
      BY DEF Inv, Types, Places, CloseShard, At
<1>1. /\ m' = [k \in Key |-> IF ShardOf[k] = s THEN NoFlow ELSE m[k]] /\ UNCHANGED lastID
      /\ \A f \in Flow : flow'[f] = flow[f] \/ flow'[f] = [flow[f] EXCEPT !.left = "close"]
      /\ Local(p, [loc[p] EXCEPT !.at = "closed", !.shards = @ \ {s}, !.todo = old])
      BY DEF CloseShard, CloseSwaps
<1> HIDE DEF s, old
<1>2. loc'[p].todo = loc[p].todo \cup old /\ Others(p)
  <2>1. loc'[p] = [loc[p] EXCEPT !.at = "closed", !.shards = @ \ {s}, !.todo = old] /\ Others(p)
        BY <1>t, <1>1, LocalEffect
  <2>2. loc'[p].todo = old
        BY <1>t, <2>1 DEF LocRec
  <2>3. QED
        BY <1>t, <2>1, <2>2
<1>3. \A f \in Flow : flow'[f].key = flow[f].key /\ flow'[f].onClose = flow[f].onClose
  <2>1. \A f \in Flow : flow[f] \in FlowRec
        BY <1>t DEF Types
  <2>2. QED
        BY <1>1, <2>1, Zenon DEF FlowRec
<1>4. \A f \in Flow : f # NoFlow /\ flow[f].key \in Key
      BY <1>t, Pointers DEF Flow, NoFlow
<1>5. \A f \in Flow : f \in old <=> m[flow[f].key] = f /\ ShardOf[flow[f].key] = s
      BY <1>t, <1>4 DEF old, Mapped, Ids
<1>6. old \subseteq Flow
      BY <1>t, Pointers DEF old, Mapped
<1>7. /\ \A f \in old : m[flow[f].key] = f /\ m'[flow[f].key] # f
      /\ \A f \in Flow : f \notin old => (m'[flow[f].key] = f <=> m[flow[f].key] = f)
      BY <1>1, <1>4, <1>5, <1>6
<1>8. Takes(p, old)
      BY <1>1, <1>2, <1>3, <1>6, <1>7 DEF Takes
<1>9. QED
      BY <1>8 DEF old, s

\* A new flow is in the map and has had no call.
LEMMA OpenOwes ==
  ASSUME Inv, Owed, NEW p \in Proc, NEW k \in Key, GetOrOpen(p, k) PROVE Owed'
<1> DEFINE new == lastID + 1
           r == [Absent EXCEPT !.key = k, !.state = "open", !.seen = now]
<1>t. Types /\ loc[p] \in LocRec /\ Ids
      BY DEF Inv, Types
<1>1. /\ new \in Flow /\ lastID \in Nat /\ lastID' = new /\ m[k] = NoFlow /\ m' = [m EXCEPT ![k] = new]
      /\ flow' = [flow EXCEPT ![new] = r] /\ Local(p, [loc[p] EXCEPT !.f = new])
      BY <1>t, FlowAssumption DEF GetOrOpen, Types, Flow
<1>2. r.key = k /\ r.onClose = 0
      BY DEF Absent
<1>n. new = lastID + 1
      OBVIOUS
<1> HIDE DEF new, r
<1>3. \A q \in Proc : loc'[q].todo = loc[q].todo /\ new \notin loc[q].todo
  <2>1. loc'[p] = [loc[p] EXCEPT !.f = new] /\ Others(p)
        BY <1>t, <1>1, LocalEffect
  <2>2. loc'[p].todo = loc[p].todo
        BY <1>t, <2>1 DEF LocRec
  <2>3. \A q \in Proc : loc[q].todo \subseteq 1 .. lastID
        BY <1>t DEF Ids
  <2>4. new \notin 1 .. lastID
        BY <1>1, <1>n
  <2>5. QED
        BY <2>1, <2>2, <2>3, <2>4, Zenon DEF Others
<1>4. /\ flow'[new].key = k /\ flow'[new].onClose = 0 /\ m'[k] = new
      /\ \A f \in Flow : f # new => flow'[f] = flow[f]
      /\ \A j \in Key : j # k => m'[j] = m[j]
      BY <1>t, <1>1, <1>2 DEF Types
<1>5. \A f \in Flow : f # NoFlow /\ flow[f].key \in Key /\ f \in Nat
      BY <1>t, Pointers DEF Flow, NoFlow
<1>6. ASSUME NEW f \in Flow, f <= lastID'
      PROVE  \/ m'[flow'[f].key] = f /\ flow'[f].onClose = 0 /\ \A q \in Proc : f \notin loc'[q].todo
             \/ m'[flow'[f].key] # f /\ flow'[f].onClose = 0 /\ \E q \in Proc : f \in loc'[q].todo
             \/ m'[flow'[f].key] # f /\ flow'[f].onClose = 1 /\ \A q \in Proc : f \notin loc'[q].todo
  <2>1. CASE f = new
        BY <1>3, <1>4, <2>1
  <2>2. CASE f # new
    <3>1. f <= lastID /\ (m'[flow'[f].key] = f <=> m[flow[f].key] = f)
          BY <1>1, <1>n, <1>4, <1>5, <1>6, <2>2, SMTT(30)
    <3>2. QED
          BY <1>3, <1>4, <2>2, <3>1 DEF Owed
  <2>3. QED
        BY <2>1, <2>2
<1>7. QED
      BY <1>3, <1>6 DEF Owed

\* The call of onClose settles one debt and no other.
LEMMA OnCloseOwes == ASSUME Inv, Owed, NEW p \in Proc, onClose(p) PROVE Owed'
<1> DEFINE v == loc[p].v
<1>t. Types /\ loc[p] \in LocRec /\ v \in Flow /\ v \in loc[p].todo
      BY Pointers DEF Inv, Types, Places, onClose, At
<1>1. /\ UNCHANGED <<m, lastID>> /\ flow' = [flow EXCEPT ![v].onClose = @ + 1]
      /\ Local(p, [loc[p] EXCEPT !.at = "closed", !.todo = @ \ {v}])
      BY DEF onClose
<1> HIDE DEF v
<1>2. loc'[p].todo = loc[p].todo \ {v} /\ Others(p)
  <2>1. loc'[p] = [loc[p] EXCEPT !.at = "closed", !.todo = @ \ {v}] /\ Others(p)
        BY <1>t, <1>1, LocalEffect
  <2>2. QED
        BY <1>t, <2>1 DEF LocRec
<1>3. \A f \in Flow : /\ flow'[f].onClose = IF f = v THEN flow[v].onClose + 1 ELSE flow[f].onClose
                      /\ flow'[f].key = flow[f].key
      BY <1>t, <1>1, IncOnClose, Zenon
<1>4. \A q, w \in Proc : q # w => loc'[q].todo \cap loc'[w].todo = {}
      BY <1>2 DEF Owed, Others
<1>5. ASSUME NEW f \in Flow, f <= lastID'
      PROVE  \/ m'[flow'[f].key] = f /\ flow'[f].onClose = 0 /\ \A q \in Proc : f \notin loc'[q].todo
             \/ m'[flow'[f].key] # f /\ flow'[f].onClose = 0 /\ \E q \in Proc : f \in loc'[q].todo
             \/ m'[flow'[f].key] # f /\ flow'[f].onClose = 1 /\ \A q \in Proc : f \notin loc'[q].todo
  <2>1. CASE f = v
    <3>1. m[flow[v].key] # v /\ flow[v].onClose = 0
          BY <1>t, <1>1, <1>5, <2>1 DEF Owed
    <3>2. \A q \in Proc : v \notin loc'[q].todo
          BY <1>t, <1>2 DEF Owed, Others
    <3>3. QED
          BY <1>1, <1>3, <1>5, <2>1, <3>1, <3>2
  <2>2. CASE f # v
    <3>1. \A q \in Proc : f \in loc'[q].todo <=> f \in loc[q].todo
          BY <1>2, <2>2 DEF Others
    <3>2. QED
          BY <1>1, <1>3, <1>5, <2>2, <3>1 DEF Owed
  <2>3. QED
        BY <2>1, <2>2
<1>6. QED
      BY <1>4, <1>5 DEF Owed

\* Every step keeps Owed.
LEMMA NextOwed == Inv /\ Owed /\ [Next]_vars => Owed'
<1> SUFFICES ASSUME Inv, Owed, [Next]_vars PROVE Owed'
    OBVIOUS
<1>1. ASSUME NEW p \in Proc, Call(p) \/ Continue(p) PROVE Owed'
  <2>1. CASE Remove(p)
        BY <2>1, RemoveTakesOne, TakesKeeps, Zenon
  <2>2. CASE ExpireCAS(p) /\ Expires(p)
        BY <2>2, ExpireTakesOne, TakesKeeps, Zenon
  <2>3. CASE CloseShard(p)
        BY <2>3, CloseTakesShard, TakesKeeps, Zenon
  <2>4. CASE \E k \in Key : GetOrOpen(p, k)
        BY <2>4, OpenOwes
  <2>5. CASE onClose(p)
        BY <2>5, OnCloseOwes
  <2>6. ASSUME Takes(p, {}) PROVE Owed'
        BY <2>6, TakesKeeps
  <2>7. QED
        BY <1>1, <2>1, <2>2, <2>3, <2>4, <2>5, <2>6, RestTakesNone, SMTT(30) DEF Call, Continue
<1>2. CASE UNCHANGED vars
      BY <1>2 DEF vars, Owed
<1>3. QED
      BY <1>1, <1>2 DEF Next

\* OnClose is called once for every flow that leaves its table, whoever takes it out and whoever
\* closes it first: what OnCloseOnce checks on a small instance, for any goroutines, keys and shards.
THEOREM OnCloseExactlyOnce == Spec => []OnCloseOnce
<1>1. Init => Owed
      BY DEF Init, Owed, Flow, Resting
<1>2. Inv /\ Owed => OnCloseOnce
  <2>1. SUFFICES ASSUME Inv, Owed, NEW f \in Opened
                 PROVE  flow[f].onClose + Cardinality({p \in Proc : f \in loc[p].todo})
                          = (IF m[flow[f].key] = f THEN 0 ELSE 1)
        BY DEF OnCloseOnce
  <2>2. f \in Flow /\ f <= lastID
        BY <2>1 DEF Inv, Ids, Opened, Flow, Types
  <2>3. ASSUME NEW p \in Proc, f \in loc[p].todo PROVE Cardinality({q \in Proc : f \in loc[q].todo}) = 1
    <3>1. {q \in Proc : f \in loc[q].todo} = {p}
          BY <2>1, <2>3 DEF Owed
    <3>2. QED
          BY <3>1, FS_Singleton
  <2>4. ASSUME \A p \in Proc : f \notin loc[p].todo PROVE Cardinality({q \in Proc : f \in loc[q].todo}) = 0
    <3>1. {q \in Proc : f \in loc[q].todo} = {}
          BY <2>4
    <3>2. QED
          BY <3>1, FS_EmptySet, Zenon
  <2>5. QED
        BY <2>1, <2>2, <2>3, <2>4 DEF Owed
<1>3. QED
      BY <1>1, <1>2, InitInv, NextInv, NextOwed, PTL DEF Spec
=============================================================================
