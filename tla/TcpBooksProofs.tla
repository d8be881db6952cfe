--------------------------- MODULE TcpBooksProofs ----------------------------
(* The admission accounting of TcpServer: the permits, the slots per key and the *)
(* counters, for any connections, keys and callers of Shutdown and Close.       *)
EXTENDS TcpServerProofs

\* Where the loop has a connection in its hand.
Holding == {"perIP", "admit", "track", "count", "spawn"}

Counters ==
  [accepted : Int, rejected : Int, rejectedPerIP : Int, active : Int, closed : Int, acceptErrors : Int]

BookTypes ==
  /\ cnt \in Counters /\ admit \in Int /\ perIP \in [IP -> Int] /\ key \in [Conn -> IP \cup {NoKey}]

\* A connection is accepted while it is the loop's, and holds a key from the check until
\* releasePerIP; the tracked connections and the open sockets follow from the stages.
InLoop == \A c \in Conn : st[c] = "accepted" => c = loop.cur /\ loop.at \in Holding
Keyed ==
  \A c \in Conn : key[c] # NoKey =>
    /\ st[c] \in {"accepted", "handler", "release", "releasePerIP"}
    /\ st[c] = "accepted" => loop.at # "perIP"
Tracked ==
  \A c \in conns : \/ st[c] \in {"handler", "release", "releasePerIP", "untrack"}
                   \/ st[c] = "accepted" /\ loop.at \in {"count", "spawn"}
Opened == \A c \in open : c \in Conn /\ st[c] \in {"accepted", "handler"}

\* Connections that hold a slot of key k, and those that Active counts.
Slots(k) == {c \in Conn : key[c] = k}
Active == {c \in Conn : st[c] \in {"handler", "release", "releasePerIP", "untrack", "uncount"}}

Permits == admit = Cardinality(AdmitHolders)
PerKey == \A k \in IP : perIP[k] = Cardinality(Slots(k)) /\ perIP[k] <= MaxPerIP
Totals ==
  /\ cnt.active = Cardinality(Active)
  /\ cnt.accepted = cnt.closed + Cardinality(Served) + (IF loop.at = "spawn" THEN 1 ELSE 0)

Books == BookTypes /\ InLoop /\ Keyed /\ Tracked /\ Opened /\ Permits /\ PerKey /\ Totals

\* n counts S, m counts T, and T has at most one element more or less.
Tracks(S, T, n, m) ==
  \/ T = S /\ m = n
  \/ \E c \in Conn \ S : T = S \cup {c} /\ m = n + 1
  \/ \E c \in S : T = S \ {c} /\ m = n - 1

\* A counter that follows its set one element at a time stays the size of the set.
LEMMA TracksCount ==
  ASSUME NEW S \in SUBSET Conn, NEW T, NEW n, NEW m, n = Cardinality(S), Tracks(S, T, n, m)
  PROVE  m = Cardinality(T)
<1>1. IsFiniteSet(S)
      BY TcpAssumption, FS_Subset
<1>2. CASE T = S /\ m = n
      BY <1>2
<1>3. ASSUME NEW c \in Conn \ S, T = S \cup {c}, m = n + 1 PROVE m = Cardinality(T)
      BY <1>1, <1>3, FS_AddElement
<1>4. ASSUME NEW c \in S, T = S \ {c}, m = n - 1 PROVE m = Cardinality(T)
      BY <1>1, <1>4, FS_RemoveElement
<1>5. QED
      BY <1>2, <1>3, <1>4 DEF Tracks

\* The sets that the counters count consist of connections, of which there are finitely many.
LEMMA HolderSets == AdmitHolders \in SUBSET Conn /\ Active \in SUBSET Conn /\ \A k \in IP : Slots(k) \in SUBSET Conn
  BY DEF AdmitHolders, Active, Slots

\* A counter that is incremented, and the others.
LEMMA IncEffect ==
  ASSUME NEW f \in {"accepted", "rejected", "rejectedPerIP", "active", "closed", "acceptErrors"},
         cnt \in Counters, Inc(f)
  PROVE  /\ cnt' \in Counters /\ cnt'[f] = cnt[f] + 1
         /\ \A g \in {"accepted", "rejected", "rejectedPerIP", "active", "closed", "acceptErrors"} :
              g # f => cnt'[g] = cnt[g]
  BY DEF Counters, Inc

SameTotals == cnt' \in Counters /\ cnt'.active = cnt.active /\ cnt'.accepted = cnt.accepted /\ cnt'.closed = cnt.closed

\* releasePerIP gives back the slot of c, if it has one.
LEMMA ReleaseKeeps ==
  ASSUME BookTypes, PerKey, NEW c \in Conn, releasePerIP(c)
  PROVE  /\ key' \in [Conn -> IP \cup {NoKey}] /\ perIP' \in [IP -> Int] /\ PerKey'
         /\ key'[c] = NoKey /\ \A d \in Conn \ {c} : key'[d] = key[d]
<1>1. key' \in [Conn -> IP \cup {NoKey}] /\ key'[c] = NoKey /\ \A d \in Conn \ {c} : key'[d] = key[d]
      BY DEF BookTypes, releasePerIP
<1>2. perIP' \in [IP -> Int]
      BY DEF BookTypes, releasePerIP
<1>3. ASSUME NEW k \in IP PROVE perIP'[k] = Cardinality(Slots(k)') /\ perIP'[k] <= MaxPerIP
  <2>1. perIP[k] = Cardinality(Slots(k)) /\ perIP[k] <= MaxPerIP /\ perIP[k] \in Int
        BY DEF PerKey, BookTypes
  <2>2. k # NoKey
        BY TcpAssumption
  <2>3. CASE key[c] = k
    <3>1. c \in Slots(k) /\ Slots(k)' = Slots(k) \ {c}
          BY <1>1, <2>2, <2>3 DEF Slots
    <3>2. perIP'[k] = perIP[k] - 1
          BY <2>3 DEF releasePerIP, BookTypes
    <3>3. perIP'[k] = Cardinality(Slots(k)')
          BY <2>1, <3>1, <3>2, HolderSets, TracksCount, Zenon DEF Tracks
    <3>4. QED
          BY <2>1, <3>2, <3>3, TcpAssumption
  <2>4. CASE key[c] # k
    <3>1. Slots(k)' = Slots(k)
          BY <1>1, <2>2, <2>4 DEF Slots
    <3>2. perIP'[k] = perIP[k]
          BY <2>4 DEF releasePerIP, BookTypes
    <3>3. QED
          BY <2>1, <3>1, <3>2
  <2>5. QED
        BY <2>3, <2>4
<1>4. QED
      BY <1>1, <1>2, <1>3 DEF PerKey

\* A step that moves no connection.
Quiet ==
  /\ UNCHANGED <<conns, admit, perIP, st, key>> /\ open' \subseteq open /\ SameTotals
  /\ loop' = loop \/ (loop.at \notin Holding /\ loop'.at \notin Holding)

\* A quiet step keeps the books.
LEMMA QuietBooks == ASSUME Inv, Books, Quiet PROVE Books'
<1>1. BookTypes' /\ InLoop' /\ Keyed' /\ Tracked' /\ Opened'
      BY DEF Books, BookTypes, InLoop, Keyed, Tracked, Opened, Quiet, SameTotals, Holding
<1>2. AdmitHolders' = AdmitHolders
      BY DEF AdmitHolders, Quiet, Holding
<1>3. Active' = Active /\ Served' = Served /\ \A k \in IP : Slots(k)' = Slots(k)
      BY DEF Active, Served, Slots, Quiet
<1>4. Permits'
      BY <1>2 DEF Books, Permits, Quiet
<1>5. PerKey'
      BY <1>3 DEF Books, PerKey, Quiet
<1>6. Totals'
      BY <1>3 DEF Books, Totals, Quiet, SameTotals, Holding
<1>7. QED
      BY <1>1, <1>4, <1>5, <1>6 DEF Books

\* The connection in the loop's hand.
LEMMA InHand ==
  ASSUME Inv, loop.at \in Holding
  PROVE  loop.cur \in Conn /\ st[loop.cur] = "accepted"
  BY DEF Inv, Loop, Holding

\* Accept hands over a connection that holds nothing yet.
LEMMA AcceptBooks == ASSUME Inv, Books, NEW c \in Conn, AcceptConn(c) PROVE Books'
<1>1. /\ loop.at = "accept" /\ loop'.at = "perIP" /\ loop'.cur = c /\ st[c] = "new"
      /\ st'[c] = "accepted" /\ \A d \in Conn \ {c} : st'[d] = st[d]
      /\ open' = open \cup {c} /\ UNCHANGED <<conns, admit, perIP, cnt, key>>
      BY DEF AcceptConn, Inv, Types
<1>2. BookTypes'
      BY <1>1, SMTT(30) DEF Books, BookTypes
<1>3. InLoop' /\ Opened'
      BY <1>1 DEF Books, InLoop, Opened, Holding
<1>t. Keyed' /\ Tracked'
  <2>1. Keyed'
        BY <1>1 DEF Books, Keyed, InLoop, Holding
  <2>2. c \notin conns
        BY <1>1 DEF Books, Tracked
  <2>3. Tracked'
        BY <1>1, <2>2, SMTT(30) DEF Books, Tracked, Inv, Types
  <2>4. QED
        BY <2>1, <2>3
<1>4. AdmitHolders' = AdmitHolders /\ Active' = Active /\ Served' = Served /\ \A k \in IP : Slots(k)' = Slots(k)
      BY <1>1, SMTT(30) DEF AdmitHolders, Active, Served, Slots
<1>5. Permits' /\ PerKey' /\ Totals'
      BY <1>1, <1>4 DEF Books, Permits, PerKey, Totals
<1>6. QED
      BY <1>2, <1>3, <1>t, <1>5 DEF Books

\* The loop refuses its connection: per IP, by Admit, or because the server was stopped.
LEMMA RefuseBooks ==
  ASSUME Inv, Books, NEW label \in {"accept", "wait"}, Discard(label), loop.at \in {"perIP", "admit", "track"},
         releasePerIP(loop.cur), admit' = IF loop.at = "track" THEN admit - 1 ELSE admit,
         UNCHANGED conns, SameTotals
  PROVE  Books'
<1>1. loop.cur \in Conn /\ st[loop.cur] = "accepted"
      BY InHand DEF Holding
<1>2. /\ loop'.at = label /\ st'[loop.cur] = "gone" /\ \A d \in Conn \ {loop.cur} : st'[d] = st[d]
      /\ open' = open \ {loop.cur}
      BY <1>1, SMTT(30) DEF Discard, Inv, Types
<1>3. /\ key' \in [Conn -> IP \cup {NoKey}] /\ perIP' \in [IP -> Int] /\ PerKey'
      /\ key'[loop.cur] = NoKey /\ \A d \in Conn \ {loop.cur} : key'[d] = key[d]
      BY <1>1, ReleaseKeeps DEF Books
<1>4. BookTypes'
      BY <1>3, SMTT(30) DEF Books, BookTypes, SameTotals
<1>5. InLoop' /\ Opened'
      BY <1>1, <1>2 DEF Books, InLoop, Opened, Holding
<1>t. Keyed' /\ Tracked'
  <2>1. Keyed'
        BY <1>1, <1>2, <1>3 DEF Books, Keyed, InLoop
  <2>2. loop.cur \notin conns
        BY <1>1 DEF Books, Tracked
  <2>3. Tracked'
        BY <1>1, <1>2, <2>2, SMTT(30) DEF Books, Tracked, InLoop, Inv, Types
  <2>4. QED
        BY <2>1, <2>3, SMTT(30)
<1>6. Active' = Active /\ Served' = Served
      BY <1>1, <1>2, SMTT(30) DEF Active, Served
<1>7. Totals'
      BY <1>2, <1>6, SMTT(30) DEF Books, Totals, SameTotals
<1>8. CASE loop.at = "track"
  <2>1. loop.cur \in AdmitHolders /\ AdmitHolders' = AdmitHolders \ {loop.cur}
        BY <1>1, <1>2, <1>8 DEF AdmitHolders
  <2>2. Tracks(AdmitHolders, AdmitHolders', admit, admit')
        BY <1>8, <2>1 DEF Tracks
  <2>3. Permits'
        BY <2>2, HolderSets, TracksCount, SMTT(30) DEF Books, Permits
  <2>4. QED
        BY <1>3, <1>4, <1>5, <1>t, <1>7, <2>3, SMTT(30) DEF Books
<1>9. CASE loop.at # "track"
  <2>1. AdmitHolders' = AdmitHolders
        BY <1>1, <1>2, <1>9 DEF AdmitHolders
  <2>2. QED
        BY <1>3, <1>4, <1>5, <1>t, <1>7, <1>9, <2>1, SMTT(30) DEF Books, Permits
<1>10. QED
      BY <1>8, <1>9

\* The loop goes on with its connection: per-IP slot, Admit permit, track, the count.
LEMMA CheckPerIPBooks == ASSUME Inv, Books, NEW k \in IP \cup {NoKey}, CheckPerIP(k) PROVE Books'
<1>1. loop.at = "perIP" /\ loop.cur \in Conn /\ st[loop.cur] = "accepted" /\ key[loop.cur] = NoKey
      BY InHand, ZenonT(30) DEF CheckPerIP, Holding, Books, Keyed
<1>2. CASE PerIPFull(k)
  <2>1. releasePerIP(loop.cur)
        BY <1>1, <1>2, TcpAssumption DEF CheckPerIP, releasePerIP, Books, BookTypes
  <2>2. SameTotals
        BY <1>2, IncEffect, SMTT(30) DEF CheckPerIP, SameTotals, Books, BookTypes
  <2>3. Discard("accept") /\ UNCHANGED <<conns, admit>>
        BY <1>2 DEF CheckPerIP
  <2>4. QED
        BY <1>1, <2>1, <2>2, <2>3, RefuseBooks
<1>3. CASE ~PerIPFull(k)
  <2>1. /\ loop'.at = "admit" /\ loop'.cur = loop.cur /\ UNCHANGED <<conns, admit, cnt, st, open>>
        /\ key' = [key EXCEPT ![loop.cur] = k]
        /\ perIP' = IF k # NoKey THEN [perIP EXCEPT ![k] = @ + 1] ELSE perIP
        BY <1>3, Zenon DEF CheckPerIP, LoopTo, Inv, Types
  <2>2. key' \in [Conn -> IP \cup {NoKey}] /\ key'[loop.cur] = k /\ \A d \in Conn \ {loop.cur} : key'[d] = key[d]
        BY <1>1, <2>1 DEF Books, BookTypes
  <2>3. BookTypes'
        BY <2>1, <2>2, SMTT(30) DEF Books, BookTypes
  <2>4. InLoop' /\ Opened' /\ Keyed'
        BY <1>1, <2>1, <2>2, SMTT(30) DEF Books, InLoop, Opened, Keyed, Holding
  <2>5. Tracked'
        BY <1>1, <2>1, SMTT(30) DEF Books, Tracked
  <2>6. AdmitHolders' = AdmitHolders /\ Active' = Active /\ Served' = Served
        BY <1>1, <2>1, SMTT(30) DEF AdmitHolders, Active, Served
  <2>7. Permits' /\ Totals'
        BY <1>1, <2>1, <2>6 DEF Books, Permits, Totals
  <2>8. ASSUME NEW j \in IP PROVE perIP'[j] = Cardinality(Slots(j)') /\ perIP'[j] <= MaxPerIP
    <3>1. perIP[j] = Cardinality(Slots(j)) /\ perIP[j] <= MaxPerIP /\ perIP[j] \in Int /\ j # NoKey
          BY TcpAssumption, SMTT(30) DEF Books, PerKey, BookTypes
    <3>2. CASE k = j
      <4>1. loop.cur \in Conn \ Slots(j) /\ Slots(j)' = Slots(j) \cup {loop.cur}
            BY <1>1, <2>2, <3>1, <3>2, SMTT(30) DEF Slots
      <4>2. perIP'[j] = perIP[j] + 1
            BY <2>1, <3>1, <3>2, SMTT(30) DEF Books, BookTypes
      <4>3. perIP'[j] = Cardinality(Slots(j)')
            BY <3>1, <4>1, <4>2, HolderSets, TracksCount, ZenonT(30) DEF Tracks
      <4>4. perIP[j] < MaxPerIP
            BY <1>3, <3>1, <3>2, TcpAssumption DEF PerIPFull
      <4>5. QED
            BY <3>1, <4>2, <4>3, <4>4, TcpAssumption, SMTT(30)
    <3>3. CASE k # j
      <4>1. Slots(j)' = Slots(j)
            BY <1>1, <2>2, <3>1, <3>3 DEF Slots
      <4>2. perIP'[j] = perIP[j]
            BY <2>1, <3>3 DEF Books, BookTypes
      <4>3. QED
            BY <3>1, <4>1, <4>2
    <3>4. QED
          BY <3>2, <3>3
  <2>9. QED
        BY <2>3, <2>4, <2>5, <2>7, <2>8 DEF Books, PerKey
<1>4. QED
      BY <1>2, <1>3, SMTT(30)

\* Options.Admit grants its permit, or refuses and the per-IP slot goes back.
LEMMA CheckAdmitBooks == ASSUME Inv, Books, CheckAdmit PROVE Books'
<1>1. loop.at = "admit" /\ loop.cur \in Conn /\ st[loop.cur] = "accepted"
      BY InHand DEF CheckAdmit, Holding
<1>2. CASE releasePerIP(loop.cur) /\ Inc("rejected") /\ Discard("accept") /\ UNCHANGED admit
  <2>1. SameTotals
        BY <1>2, IncEffect DEF SameTotals, Books, BookTypes
  <2>2. QED
        BY <1>1, <1>2, <2>1, RefuseBooks DEF CheckAdmit
<1>3. CASE admit' = admit + 1 /\ LoopTo("track") /\ UNCHANGED <<perIP, cnt, connVars>>
  <2>1. /\ loop'.at = "track" /\ loop'.cur = loop.cur /\ admit' = admit + 1
        /\ UNCHANGED <<conns, perIP, cnt, st, key, open>>
        BY <1>3 DEF CheckAdmit, LoopTo, connVars, Inv, Types
  <2>2. BookTypes'
        BY <2>1, SMTT(30) DEF Books, BookTypes
  <2>3. InLoop' /\ Opened' /\ Keyed'
        BY <1>1, <2>1 DEF Books, InLoop, Opened, Keyed, Holding
  <2>4. Tracked'
        BY <1>1, <2>1 DEF Books, Tracked
  <2>5. Active' = Active /\ Served' = Served /\ \A k \in IP : Slots(k)' = Slots(k)
        BY <2>1 DEF Active, Served, Slots
  <2>6. PerKey' /\ Totals'
        BY <1>1, <2>1, <2>5 DEF Books, PerKey, Totals
  <2>7. loop.cur \in Conn \ AdmitHolders /\ AdmitHolders' = AdmitHolders \cup {loop.cur}
        BY <1>1, <2>1 DEF AdmitHolders
  <2>8. Tracks(AdmitHolders, AdmitHolders', admit, admit')
        BY <2>1, <2>7 DEF Tracks
  <2>9. Permits'
        BY <2>8, HolderSets, TracksCount DEF Books, Permits
  <2>10. QED
        BY <2>2, <2>3, <2>4, <2>6, <2>9 DEF Books
<1>4. QED
      BY <1>2, <1>3 DEF CheckAdmit

\* track enters the connection, or both permits go back once the server is stopped.
LEMMA TrackBooks == ASSUME Inv, Books, track PROVE Books'
<1>1. loop.at = "track" /\ loop.cur \in Conn /\ st[loop.cur] = "accepted"
      BY InHand DEF track, Holding
<1>2. CASE isStopped
  <2>1. SameTotals
        BY DEF track, SameTotals, Books, BookTypes
  <2>2. QED
        BY <1>1, <1>2, <2>1, RefuseBooks DEF track
<1>3. CASE ~isStopped
  <2>1. /\ loop'.at = "count" /\ loop'.cur = loop.cur /\ conns' = conns \cup {loop.cur}
        /\ UNCHANGED <<admit, perIP, cnt, st, key, open>>
        BY <1>3 DEF track, LoopTo, connVars, Inv, Types
  <2>2. BookTypes'
        BY <2>1, SMTT(30) DEF Books, BookTypes
  <2>3. InLoop' /\ Opened' /\ Keyed'
        BY <1>1, <2>1 DEF Books, InLoop, Opened, Keyed, Holding
  <2>4. Tracked'
        BY <1>1, <2>1 DEF Books, Tracked
  <2>5. Active' = Active /\ Served' = Served /\ \A k \in IP : Slots(k)' = Slots(k)
        BY <2>1, SMTT(30) DEF Active, Served, Slots
  <2>6. PerKey' /\ Totals'
        BY <1>1, <2>1, <2>5, SMTT(30) DEF Books, PerKey, Totals
  <2>7. AdmitHolders' = AdmitHolders
        BY <1>1, <2>1 DEF AdmitHolders
  <2>8. QED
        BY <2>1, <2>2, <2>3, <2>4, <2>6, <2>7 DEF Books, Permits
<1>4. QED
      BY <1>2, <1>3, SMTT(30)

\* The accepted counter runs ahead by the connection in the hand of the loop.
LEMMA CountAcceptedBooks == ASSUME Inv, Books, CountAccepted PROVE Books'
<1>1. loop.at = "count" /\ loop.cur \in Conn /\ st[loop.cur] = "accepted"
      BY InHand DEF CountAccepted, Holding
<1>2. /\ loop'.at = "spawn" /\ loop'.cur = loop.cur
      /\ UNCHANGED <<conns, admit, perIP, st, key, open>>
      BY DEF CountAccepted, LoopTo, connVars, Inv, Types
<1>3. cnt' \in Counters /\ cnt'.accepted = cnt.accepted + 1 /\ cnt'.active = cnt.active /\ cnt'.closed = cnt.closed
      BY IncEffect DEF CountAccepted, Books, BookTypes
<1>4. BookTypes'
      BY <1>2, <1>3, SMTT(30) DEF Books, BookTypes
<1>5. InLoop' /\ Opened' /\ Keyed'
      BY <1>1, <1>2 DEF Books, InLoop, Opened, Keyed, Holding
<1>6. Tracked'
      BY <1>1, <1>2 DEF Books, Tracked
<1>7. Active' = Active /\ Served' = Served /\ \A k \in IP : Slots(k)' = Slots(k)
      BY <1>2, SMTT(30) DEF Active, Served, Slots
<1>8. PerKey'
      BY <1>2, <1>7, SMTT(30) DEF Books, PerKey
<1>9. Totals'
      BY <1>1, <1>2, <1>3, <1>7, ServedFinite, SMTT(30) DEF Books, BookTypes, Counters, Totals
<1>10. AdmitHolders' = AdmitHolders
      BY <1>1, <1>2, SMTT(30) DEF AdmitHolders
<1>11. QED
      BY <1>2, <1>4, <1>5, <1>6, <1>8, <1>9, <1>10, SMTT(30) DEF Books, Permits

\* serveConn takes the connection over, and Active counts it.
LEMMA SpawnBooks == ASSUME Inv, Books, Spawn PROVE Books'
<1> DEFINE c == loop.cur
<1>1. loop.at = "spawn" /\ c \in Conn /\ st[c] = "accepted"
      BY InHand DEF Spawn, Holding
<1>2. /\ loop'.at = "accept" /\ st'[c] = "handler" /\ \A d \in Conn \ {c} : st'[d] = st[d]
      /\ UNCHANGED <<conns, admit, perIP, key, open>>
      BY <1>1 DEF Spawn, Inv, Types
<1>3. cnt' \in Counters /\ cnt'.active = cnt.active + 1 /\ cnt'.accepted = cnt.accepted /\ cnt'.closed = cnt.closed
      BY IncEffect DEF Spawn, Books, BookTypes
<1>4. \A d \in Conn : st[d] = "accepted" => d = c
      BY DEF Books, InLoop
<1> HIDE DEF c
<1>5. BookTypes'
      BY <1>2, <1>3, SMTT(30) DEF Books, BookTypes
<1>6. InLoop' /\ Opened' /\ Keyed'
      BY <1>1, <1>2, <1>4 DEF Books, InLoop, Opened, Keyed, Holding
<1>7. Tracked'
      BY <1>1, <1>2, <1>4 DEF Books, Tracked, Inv, Types
<1>8. \A k \in IP : Slots(k)' = Slots(k)
      BY <1>2, SMTT(30) DEF Slots
<1>9. PerKey'
      BY <1>2, <1>8 DEF Books, PerKey
<1>10. c \in Conn \ Active /\ Active' = Active \cup {c}
      BY <1>1, <1>2 DEF Active
<1>11. cnt'.active = Cardinality(Active')
      BY <1>3, <1>10, HolderSets, TracksCount DEF Books, Totals, Tracks
<1>12. c \in Conn \ Served /\ Served' = Served \cup {c}
      BY <1>1, <1>2 DEF Served
<1>13. Cardinality(Served') = Cardinality(Served) + 1
      BY <1>12, ServedFinite, FS_AddElement, SMTT(30)
<1>14. Totals'
      BY <1>1, <1>2, <1>3, <1>11, <1>13, ServedFinite, SMTT(30) DEF Books, BookTypes, Counters, Totals
<1>15. AdmitHolders' = AdmitHolders
      BY <1>1, <1>2 DEF AdmitHolders, c
<1>16. QED
      BY <1>2, <1>5, <1>6, <1>7, <1>9, <1>14, <1>15 DEF Books, Permits

\* serveConn: the end of the handler and the deferred calls.
LEMMA HandlerBooks == ASSUME Inv, Books, NEW c \in Conn, HandlerReturns(c) PROVE Books'
<1>1. /\ st[c] = "handler" /\ st'[c] = "release" /\ \A d \in Conn \ {c} : st'[d] = st[d]
      /\ open' = open \ {c} /\ UNCHANGED <<conns, admit, perIP, cnt, key, loop>>
      BY SMTT(30) DEF HandlerReturns, AfterHandler, Stage, Inv, Types
<1>2. BookTypes'
      BY <1>1, SMTT(30) DEF Books, BookTypes
<1>3. InLoop' /\ Opened' /\ Keyed'
      BY <1>1, SMTT(30) DEF Books, InLoop, Opened, Keyed
<1>4. Tracked'
      BY <1>1, SMTT(30) DEF Books, Tracked, Inv, Types
<1>5. AdmitHolders' = AdmitHolders
      BY <1>1, SMTT(30) DEF AdmitHolders
<1>6. Active' = Active /\ Served' = Served /\ \A k \in IP : Slots(k)' = Slots(k)
      BY <1>1, SMTT(30) DEF Active, Served, Slots
<1>7. Permits' /\ PerKey' /\ Totals'
      BY <1>1, <1>5, <1>6 DEF Books, Permits, PerKey, Totals
<1>8. QED
      BY <1>2, <1>3, <1>4, <1>7 DEF Books

\* release returns the Admit permit.
LEMMA ReleaseAdmitBooks == ASSUME Inv, Books, NEW c \in Conn, ReleaseAdmit(c) PROVE Books'
<1>1. /\ st[c] = "release" /\ st'[c] = "releasePerIP" /\ \A d \in Conn \ {c} : st'[d] = st[d]
      /\ admit' = admit - 1 /\ UNCHANGED <<conns, perIP, cnt, key, loop, open>>
      BY SMTT(30) DEF ReleaseAdmit, Stage, Inv, Types
<1>2. BookTypes'
      BY <1>1, SMTT(30) DEF Books, BookTypes
<1>3. InLoop' /\ Opened' /\ Keyed'
      BY <1>1, SMTT(30) DEF Books, InLoop, Opened, Keyed
<1>4. Tracked'
      BY <1>1, SMTT(30) DEF Books, Tracked, Inv, Types
<1>5. c \in AdmitHolders /\ AdmitHolders' = AdmitHolders \ {c}
      BY <1>1, InHand, SMTT(30) DEF AdmitHolders, Holding
<1>6. Tracks(AdmitHolders, AdmitHolders', admit, admit')
      BY <1>1, <1>5 DEF Tracks
<1>7. Permits'
      BY <1>6, HolderSets, TracksCount, SMTT(30) DEF Books, Permits
<1>8. Active' = Active /\ Served' = Served /\ \A k \in IP : Slots(k)' = Slots(k)
      BY <1>1, SMTT(30) DEF Active, Served, Slots
<1>9. PerKey' /\ Totals'
      BY <1>1, <1>8 DEF Books, PerKey, Totals
<1>10. QED
      BY <1>2, <1>3, <1>4, <1>7, <1>9, SMTT(30) DEF Books

\* release returns the per-IP slot.
LEMMA ReleasePerIPBooks == ASSUME Inv, Books, NEW c \in Conn, ReleasePerIP(c) PROVE Books'
<1>1. /\ st[c] = "releasePerIP" /\ st'[c] = "untrack" /\ \A d \in Conn \ {c} : st'[d] = st[d]
      /\ UNCHANGED <<conns, admit, cnt, loop, open>>
      BY SMTT(30) DEF ReleasePerIP, Stage, Inv, Types
<1>2. /\ key' \in [Conn -> IP \cup {NoKey}] /\ perIP' \in [IP -> Int] /\ PerKey'
      /\ key'[c] = NoKey /\ \A d \in Conn \ {c} : key'[d] = key[d]
      BY ReleaseKeeps, SMTT(30) DEF ReleasePerIP, Books
<1>3. BookTypes'
      BY <1>1, <1>2, SMTT(30) DEF Books, BookTypes
<1>4. InLoop' /\ Opened' /\ Keyed'
      BY <1>1, <1>2, SMTT(30) DEF Books, InLoop, Opened, Keyed
<1>5. Tracked'
      BY <1>1, SMTT(30) DEF Books, Tracked, Inv, Types
<1>6. AdmitHolders' = AdmitHolders
      BY <1>1, SMTT(30) DEF AdmitHolders
<1>7. Active' = Active /\ Served' = Served
      BY <1>1, SMTT(30) DEF Active, Served
<1>8. Permits' /\ Totals'
      BY <1>1, <1>6, <1>7, SMTT(30) DEF Books, Permits, Totals
<1>9. QED
      BY <1>2, <1>3, <1>4, <1>5, <1>8, SMTT(30) DEF Books

\* untrack forgets the connection, whose socket is closed by then.
LEMMA UntrackBooks == ASSUME Inv, Books, NEW c \in Conn, untrack(c) PROVE Books'
<1>1. /\ st[c] = "untrack" /\ st'[c] = "uncount" /\ \A d \in Conn \ {c} : st'[d] = st[d]
      /\ conns' = conns \ {c} /\ UNCHANGED <<admit, perIP, cnt, key, loop, open>>
      BY SMTT(30) DEF untrack, Stage, Inv, Types
<1>2. BookTypes'
      BY <1>1, SMTT(30) DEF Books, BookTypes
<1>3. InLoop' /\ Opened' /\ Keyed'
      BY <1>1, SMTT(30) DEF Books, InLoop, Opened, Keyed
<1>4. Tracked'
      BY <1>1, SMTT(30) DEF Books, Tracked, Inv, Types
<1>5. AdmitHolders' = AdmitHolders
      BY <1>1, SMTT(30) DEF AdmitHolders
<1>6. Active' = Active /\ Served' = Served /\ \A k \in IP : Slots(k)' = Slots(k)
      BY <1>1, SMTT(30) DEF Active, Served, Slots
<1>7. Permits' /\ PerKey' /\ Totals'
      BY <1>1, <1>5, <1>6 DEF Books, Permits, PerKey, Totals
<1>8. QED
      BY <1>2, <1>3, <1>4, <1>7 DEF Books

\* active.Dec.
LEMMA UncountBooks == ASSUME Inv, Books, NEW c \in Conn, UncountActive(c) PROVE Books'
<1>1. /\ st[c] = "uncount" /\ st'[c] = "countClosed" /\ \A d \in Conn \ {c} : st'[d] = st[d]
      /\ UNCHANGED <<conns, admit, perIP, key, loop, open>>
      BY DEF UncountActive, Stage, Inv, Types
<1>2. cnt' \in Counters /\ cnt'.active = cnt.active - 1 /\ cnt'.accepted = cnt.accepted /\ cnt'.closed = cnt.closed
      BY SMTT(30) DEF UncountActive, Books, BookTypes, Counters
<1>3. BookTypes'
      BY <1>1, <1>2, SMTT(30) DEF Books, BookTypes
<1>4. InLoop' /\ Opened' /\ Keyed'
      BY <1>1, SMTT(30) DEF Books, InLoop, Opened, Keyed
<1>5. Tracked'
      BY <1>1, SMTT(30) DEF Books, Tracked, Inv, Types
<1>6. AdmitHolders' = AdmitHolders
      BY <1>1, SMTT(30) DEF AdmitHolders
<1>7. Served' = Served /\ \A k \in IP : Slots(k)' = Slots(k)
      BY <1>1, SMTT(30) DEF Served, Slots
<1>8. Permits' /\ PerKey'
      BY <1>1, <1>6, <1>7, SMTT(30) DEF Books, Permits, PerKey
<1>9. c \in Active /\ Active' = Active \ {c}
      BY <1>1 DEF Active
<1>10. Tracks(Active, Active', cnt.active, cnt'.active)
      BY <1>2, <1>9 DEF Tracks
<1>11. cnt'.active = Cardinality(Active')
      BY <1>10, HolderSets, TracksCount, SMTT(30) DEF Books, Totals
<1>12. Totals'
      BY <1>1, <1>2, <1>7, <1>11, SMTT(30) DEF Books, Totals
<1>13. QED
      BY <1>3, <1>4, <1>5, <1>8, <1>12 DEF Books

\* closed.Inc and wg.Done.
LEMMA CountClosedBooks == ASSUME Inv, Books, NEW c \in Conn, CountClosed(c) PROVE Books'
<1>1. /\ st[c] = "countClosed" /\ st'[c] = "gone" /\ \A d \in Conn \ {c} : st'[d] = st[d]
      /\ UNCHANGED <<conns, admit, perIP, key, loop, open>>
      BY DEF CountClosed, Stage, Inv, Types
<1>2. cnt' \in Counters /\ cnt'.closed = cnt.closed + 1 /\ cnt'.active = cnt.active /\ cnt'.accepted = cnt.accepted
      BY IncEffect, SMTT(30) DEF CountClosed, Books, BookTypes
<1>3. BookTypes'
      BY <1>1, <1>2, SMTT(30) DEF Books, BookTypes
<1>4. InLoop' /\ Opened' /\ Keyed'
      BY <1>1 DEF Books, InLoop, Opened, Keyed
<1>5. Tracked'
      BY <1>1, SMTT(30) DEF Books, Tracked, Inv, Types
<1>6. AdmitHolders' = AdmitHolders
      BY <1>1, InHand, SMTT(30) DEF AdmitHolders, Holding
<1>7. Active' = Active /\ \A k \in IP : Slots(k)' = Slots(k)
      BY <1>1, SMTT(30) DEF Active, Slots
<1>8. Permits' /\ PerKey'
      BY <1>1, <1>6, <1>7 DEF Books, Permits, PerKey
<1>9. c \in Served /\ Served' = Served \ {c}
      BY <1>1 DEF Served
<1>10. Cardinality(Served') = Cardinality(Served) - 1
      BY <1>9, ServedFinite, FS_RemoveElement, SMTT(30)
<1>11. Totals'
      BY <1>1, <1>2, <1>7, <1>10, ServedFinite DEF Books, BookTypes, Counters, Totals
<1>12. QED
      BY <1>3, <1>4, <1>5, <1>8, <1>11 DEF Books

\* Every step keeps the books.
LEMMA NextBooks == Inv /\ Books /\ [Next]_vars => Books'
<1> SUFFICES ASSUME Inv, Books, [Next]_vars PROVE Books'
    OBVIOUS
<1>t. Types
      BY DEF Inv
<1>c. cnt \in Counters
      BY DEF Books, BookTypes
<1>s. UNCHANGED cnt => SameTotals
      BY <1>c DEF SameTotals
<1>1. CASE AcceptFails
  <2>1. SameTotals
        BY <1>c, <1>s, <1>1, IncEffect DEF AcceptFails, SameTotals
  <2>2. loop.at = "accept" /\ loop'.at \in {"wait", "backoff", "failing"}
        BY <1>t, <1>1, ZenonT(30) DEF AcceptFails, LoopTo, Types
  <2>3. QED
        BY <1>1, <2>1, <2>2, QuietBooks DEF AcceptFails, Quiet, connVars, Holding
<1>2. CASE BackoffOver \/ FailedAbort \/ ServeWait \/ ServeReturn \/ Serve
  <2>1. loop.at \notin Holding /\ loop'.at \notin Holding
        BY <1>t, <1>2 DEF BackoffOver, FailedAbort, ServeWait, ServeReturn, Serve, LoopTo, Types, Holding
  <2>2. UNCHANGED <<conns, admit, perIP, cnt, st, key, open>>
        BY <1>2 DEF BackoffOver, FailedAbort, ServeWait, ServeReturn, Serve, connVars
  <2>3. QED
        BY <1>s, <2>1, <2>2, QuietBooks DEF Quiet
<1>3. CASE LoopStep
      BY <1>1, <1>2, <1>3, CheckPerIPBooks, CheckAdmitBooks, TrackBooks, CountAcceptedBooks, SpawnBooks, SMTT(30)
         DEF LoopStep
<1>4. ASSUME NEW a \in Stopper, CallShutdown(a) \/ CallClose(a) \/ ShutdownExpires(a) \/ StopStep(a)
      PROVE  Books'
  <2>1. UNCHANGED <<conns, admit, perIP, cnt, loop, st, key>> /\ open' \subseteq open
        BY <1>4 DEF CallShutdown, CallClose, ShutdownExpires, StopStep, StopFirst, StopRest, StopPassed,
           ShutdownServing, ShutdownDone, abortAll, AbortClose, AbortDone, connVars
  <2>2. QED
        BY <1>s, <2>1, QuietBooks, SMTT(30) DEF Quiet
<1>5. CASE Environment
      BY <1>1, <1>2, <1>4, <1>5, AcceptBooks, HandlerBooks, SMTT(30) DEF Environment, AfterFuncRuns, Stopper
<1>6. ASSUME NEW c \in Conn, DeferStep(c) PROVE Books'
      BY <1>6, ReleaseAdmitBooks, ReleasePerIPBooks, UntrackBooks, UncountBooks, CountClosedBooks, SMTT(30)
         DEF DeferStep
<1>7. CASE UNCHANGED vars
      BY <1>s, <1>7, QuietBooks DEF vars, connVars, Quiet
<1>8. QED
      BY <1>3, <1>4, <1>5, <1>6, <1>7 DEF Next

\* A new server has nothing on its books.
LEMMA InitBooks == Init => Books
<1> SUFFICES ASSUME Init PROVE Books
    OBVIOUS
<1>1. BookTypes
      BY SMTT(30) DEF Init, BookTypes, Counters
<1>2. InLoop /\ Keyed /\ Tracked /\ Opened
      BY SMTT(30) DEF Init, InLoop, Keyed, Tracked, Opened
<1>3. AdmitHolders = {} /\ Active = {} /\ Served = {} /\ \A k \in IP : Slots(k) = {}
      BY TcpAssumption, Zenon DEF Init, AdmitHolders, Active, Served, Slots
<1>4. Cardinality({}) = 0
      BY FS_EmptySet
<1>5. Permits /\ PerKey
  <2>1. Permits
        BY <1>3, <1>4, SMTT(30) DEF Init, Permits
  <2>2. ASSUME NEW k \in IP PROVE perIP[k] = 0 /\ Slots(k) = {}
        BY <1>3, SMTT(30) DEF Init
  <2>3. QED
        BY <1>4, <2>1, <2>2, TcpAssumption, SMTT(30) DEF PerKey
<1>6. Totals
      BY <1>3, <1>4 DEF Init, Totals
<1>7. QED
      BY <1>1, <1>2, <1>5, <1>6, SMTT(30) DEF Books

\* The invariant that the accounting theorems build on.
LEMMA AlwaysBooks == Spec => [](Inv /\ Books)
  BY InitInv, NextInv, InitBooks, NextBooks, PTL DEF Spec

\* Every permit in use belongs to exactly one live connection and no key holds more than
\* MaxConnsPerIP, on every path of the accept loop and of serveConn.
THEOREM SlotsAlwaysBalance == Spec => []SlotsBalance
<1>1. Inv /\ Books => SlotsBalance
  <2> SUFFICES ASSUME Inv, Books PROVE SlotsBalance
      OBVIOUS
  <2>1. ASSUME NEW k \in IP PROVE {c \in Conn : key[c] = k /\ st[c] # "gone"} = Slots(k)
        BY TcpAssumption DEF Slots, Books, Keyed
  <2>2. QED
        BY <2>1 DEF SlotsBalance, Books, Permits, PerKey
<1>2. QED
      BY <1>1, AlwaysBooks, PTL

\* Closed never runs ahead of the slots it frees.
THEOREM ClosedIsNeverAhead == Spec => []ClosedNeverAhead
<1>1. Inv /\ Books => ClosedNeverAhead
  <2> SUFFICES ASSUME Inv, Books PROVE ClosedNeverAhead
      OBVIOUS
  <2>1. cnt.accepted \in Int /\ cnt.closed \in Int /\ Cardinality(Served) \in Nat /\ IsFiniteSet(Served)
        BY ServedFinite DEF Books, BookTypes, Counters
  <2>2. CASE loop.at \in {"track", "count", "spawn"}
    <3>1. loop.cur \in Conn /\ loop.cur \notin Served
          BY <2>2, InHand, SMTT(30) DEF Holding, Served
    <3>2. Cardinality(Served \cup {loop.cur}) = Cardinality(Served) + 1 /\ IsFiniteSet(Served \cup {loop.cur})
          BY <2>1, <3>1, FS_AddElement, SMTT(30)
    <3>3. AdmitHolders \subseteq Served \cup {loop.cur}
          BY DEF AdmitHolders, Served
    <3>4. Cardinality(AdmitHolders) <= Cardinality(Served) + 1
          BY <3>2, <3>3, FS_Subset
    <3>5. Cardinality(AdmitHolders) \in Nat
          BY <3>2, <3>3, FS_Subset, FS_CardinalityType
    <3>6. QED
          BY <2>1, <2>2, <3>4, <3>5 DEF Books, Permits, Totals, ClosedNeverAhead
  <2>3. CASE loop.at \notin {"track", "count", "spawn"}
    <3>1. AdmitHolders \subseteq Served
          BY <2>3 DEF AdmitHolders, Served
    <3>2. Cardinality(AdmitHolders) <= Cardinality(Served) /\ Cardinality(AdmitHolders) \in Nat
          BY <2>1, <3>1, FS_Subset, FS_CardinalityType, SMTT(30)
    <3>3. QED
          BY <2>1, <2>3, <3>2, SMTT(30) DEF Books, Permits, Totals, ClosedNeverAhead
  <2>4. QED
        BY <2>2, <2>3
<1>2. QED
      BY <1>1, AlwaysBooks, PTL

\* When Serve has returned after serving no handler runs, every accepted socket is closed,
\* every slot is back and the counters agree.
THEOREM NothingLeft == Spec => []ServeLeavesNothing
<1>1. Inv /\ Books => ServeLeavesNothing
  <2> SUFFICES ASSUME Inv, Books, srv.done
               PROVE  /\ Served = {} /\ conns = {} /\ open = {}
                      /\ admit = 0 /\ \A k \in IP : perIP[k] = 0
                      /\ cnt.active = 0 /\ cnt.accepted = cnt.closed
      BY DEF ServeLeavesNothing
  <2>1. loop.at = "returned" /\ Served = {}
        BY DEF Inv, Loop
  <2>2. \A c \in Conn : st[c] \in {"new", "gone"}
        BY <2>1 DEF Served, Books, InLoop, Holding, Inv, Types
  <2>3. conns = {} /\ open = {}
        BY <2>2 DEF Books, Tracked, Opened, Inv, Types
  <2>4. AdmitHolders = {} /\ Active = {}
        BY <2>1, <2>2, SMTT(30) DEF AdmitHolders, Active
  <2>5. ASSUME NEW k \in IP PROVE Slots(k) = {}
        BY <2>2, TcpAssumption DEF Slots, Books, Keyed
  <2>6. Cardinality({}) = 0
        BY FS_EmptySet
  <2>7. admit = 0 /\ cnt.active = 0 /\ \A k \in IP : perIP[k] = 0
        BY <2>4, <2>5, <2>6 DEF Books, Permits, PerKey, Totals
  <2>8. cnt.accepted = cnt.closed
        BY <2>1, <2>6, SMTT(30) DEF Books, BookTypes, Counters, Totals
  <2>9. QED
        BY <2>1, <2>3, <2>7, <2>8, SMTT(30)
<1>2. QED
      BY <1>1, AlwaysBooks, PTL
=============================================================================
