------------------------- MODULE LibraryScanProofs -------------------------
(***************************************************************************)
(* Proofs about LibraryScan, for any paths, contents, workers and bounds:  *)
(* type correctness; that what record has read under dbMu holds when it    *)
(* writes; that a scan in which nothing happened leaves the rows in        *)
(* agreement with the folder; and that a renamed file keeps its row.       *)
(***************************************************************************)
EXTENDS LibraryScan, WellFoundedInduction, TLAPS

-----------------------------------------------------------------------------
(* What a goroutine has in hand at each of its steps.                      *)

InHand ==
  \A a \in Agents :
    /\ agent[a].pc # "idle" => agent[a].path \in Paths
    /\ agent[a].pc \in {"path", "hash", "move", "upsert"} => agent[a].look \in Contents
    /\ agent[a].pc \in {"move", "upsert", "flag"} => agent[a].id \in Ids

PlaceInWalk == scan.pc = "walk" => scan.at \in 1 .. Len(Order)

RowsTyped == rows \in [Ids -> Row \cup {None}]
AgentsTyped == agent \in [Agents -> AgentType] /\ InHand
ScanTyped ==
  /\ scan \in [pc : {"idle", "walk", "work", "end"}, at : 1 .. Len(Order) + 1,
               seen : SUBSET Paths, lost : SUBSET Ids]
  /\ PlaceInWalk
OthersTyped ==
  /\ disk \in [Paths -> Looks]
  /\ watching \in BOOLEAN /\ armed \subseteq Paths
  /\ convertSeen \in [Paths -> Looks] /\ handed \in [Paths -> SUBSET Looks]
  /\ changes \in 0 .. MaxChanges /\ calm \in {"no", "scan", "yes"}
  /\ owed \in [Paths -> Ids \cup {None}]

Typed == RowsTyped /\ AgentsTyped /\ ScanTyped /\ OthersTyped

LEMMA TypedIsTypeOK == Typed => TypeOK
BY DEF Typed, TypeOK, RowsTyped, AgentsTyped, ScanTyped, OthersTyped

\* An order has a first path, and what it lists are paths.
LEMMA OrderFacts ==
  /\ Len(Order) \in Nat /\ 1 \in 1 .. Len(Order)
  /\ \A n \in 1 .. Len(Order) : Order[n] \in Paths
BY LibraryScanAssumption DEF LibraryScanAssumption, Paths

LEMMA MaxChangesFact == MaxChanges \in Nat
BY LibraryScanAssumption DEF LibraryScanAssumption

\* A choice of an unused id is one, when there is one.
LEMMA NewIDFact == (\E i \in Ids : Unused(i)) => NewID \in Ids /\ Unused(NewID)
BY DEF NewID

LEMMA InitTyped == Init => Typed
<1> SUFFICES ASSUME Init PROVE Typed OBVIOUS
<1> USE DEF Init, Idle, NewScan
<1>1. disk \in [Paths -> Looks] /\ rows \in [Ids -> Row \cup {None}]
  OBVIOUS
<1>2. agent \in [Agents -> AgentType]
  BY DEF AgentType, Looks
<1>3. scan \in [pc : {"idle", "walk", "work", "end"}, at : 1 .. Len(Order) + 1,
                seen : SUBSET Paths, lost : SUBSET Ids]
  BY OrderFacts
<1>4. convertSeen \in [Paths -> Looks] /\ handed \in [Paths -> SUBSET Looks]
  BY DEF Looks
<1>5. watching \in BOOLEAN
  OBVIOUS
<1>6. /\ armed \subseteq Paths
      /\ changes \in 0 .. MaxChanges /\ calm \in {"no", "scan", "yes"}
      /\ owed \in [Paths -> Ids \cup {None}]
  BY MaxChangesFact
<1>7. InHand
  BY DEF InHand
<1>8. PlaceInWalk
  BY OrderFacts DEF PlaceInWalk
<1> QED
  BY <1>1, <1>2, <1>3, <1>4, <1>5, <1>6, <1>7, <1>8
  DEF Typed, TypeOK, RowsTyped, AgentsTyped, ScanTyped, OthersTyped

-----------------------------------------------------------------------------
(* The steps of a goroutine at a file.                                     *)

\* What a goroutine takes up, or its rest, is well typed.
AgentOK(g) ==
  /\ g \in AgentType
  /\ g.pc # "idle" => g.path \in Paths
  /\ g.pc \in {"path", "hash", "move", "upsert"} => g.look \in Contents
  /\ g.pc \in {"move", "upsert", "flag"} => g.id \in Ids

\* A step that gives one goroutine a well-typed state keeps the others'.
LEMMA OneAgent ==
  ASSUME Typed, NEW a \in Agents, NEW g, AgentOK(g), agent' = [agent EXCEPT ![a] = g]
  PROVE  AgentsTyped'
<1>1. agent \in [Agents -> AgentType] /\ InHand
  BY DEF Typed, AgentsTyped
<1>2. g \in AgentType
  BY DEF AgentOK
<1>3. agent' \in [Agents -> AgentType]
  BY <1>1, <1>2
<1>4. \A b \in Agents : agent'[b] = IF b = a THEN g ELSE agent[b]
  BY <1>1
<1>5. InHand'
  BY <1>1, <1>4 DEF InHand, AgentOK
<1> QED BY <1>3, <1>5 DEF AgentsTyped

LEMMA IdleOK == AgentOK(Idle)
BY DEF AgentOK, Idle, AgentType, Looks

\* What holds of the goroutine itself.
LEMMA AgentFacts ==
  ASSUME Typed, NEW a \in Agents
  PROVE  AgentOK(agent[a]) /\ agent[a] \in AgentType
BY DEF Typed, AgentsTyped, InHand, AgentOK

LEMMA RestsTyped ==
  ASSUME Typed, NEW a \in Agents, Rests(a)
  PROVE  AgentsTyped'
BY OneAgent, IdleOK DEF Rests

LEMMA ReadsTyped ==
  ASSUME Typed, NEW a \in Agents, NEW p \in Paths, Reads(a, p)
  PROVE  AgentsTyped'
<1> DEFINE g == IF disk[p] \in Contents
                THEN [pc |-> "path", path |-> p, look |-> disk[p], id |-> None] ELSE Idle
<1>1. AgentOK(g)
  BY IdleOK DEF AgentOK, AgentType, Looks
<1>2. agent' = [agent EXCEPT ![a] = g]
  BY DEF Reads
<1> QED BY <1>1, <1>2, OneAgent

LEMMA StatsTyped ==
  ASSUME Typed, NEW a \in Agents, NEW p \in Paths, Stats(a, p)
  PROVE  AgentsTyped'
<1> DEFINE g == IF disk[p] # None
                THEN [pc |-> "handoff", path |-> p, look |-> disk[p], id |-> None] ELSE Idle
<1>1. disk[p] \in Looks
  BY DEF Typed, OthersTyped
<1>2. AgentOK(g)
  BY <1>1, IdleOK DEF AgentOK, AgentType
<1>3. agent' = [agent EXCEPT ![a] = g]
  BY DEF Stats
<1> QED BY <1>2, <1>3, OneAgent

-----------------------------------------------------------------------------
(* One step of the system.                                                 *)

LEMMA UnsettlesCalm ==
  ASSUME Typed, NEW a, Unsettles(a)
  PROVE  calm' \in {"no", "scan", "yes"}
BY DEF Typed, OthersTyped, Unsettles

LEMMA FlaggedTyped ==
  ASSUME Typed, NEW i \in Ids, rows' = FlaggedMissing(i)
  PROVE  RowsTyped'
BY DEF Typed, RowsTyped, FlaggedMissing, Row

\* record and what leads to it.
LEMMA RecordingTyped ==
  ASSUME Typed, NEW a \in Agents, Recording(a)
  PROVE  Typed'
<1>1. AgentOK(agent[a])
  BY AgentFacts
<1>2. CASE Opens(a)
  <2>1. AgentsTyped'
    BY <1>1, <1>2, ReadsTyped DEF Opens, AgentOK
  <2> QED BY <1>2, <2>1
    DEF Opens, Typed, RowsTyped, ScanTyped, PlaceInWalk, OthersTyped, watch, hand, history
<1>3. CASE FindsPath(a)
  <2>1. CASE Goes(a, "hash")
    <3>1. AgentOK([agent[a] EXCEPT !.pc = "hash"])
      BY <1>1, <1>3 DEF FindsPath, AgentOK, AgentType
    <3>2. agent' = [agent EXCEPT ![a] = [agent[a] EXCEPT !.pc = "hash"]]
      BY <2>1 DEF Goes
    <3> QED BY <1>3, <3>1, <3>2, OneAgent
        DEF FindsPath, Typed, RowsTyped, ScanTyped, PlaceInWalk, OthersTyped, watch, hand, history
  <2>2. CASE Rests(a)
    BY <1>3, <2>2, RestsTyped
    DEF FindsPath, Typed, RowsTyped, ScanTyped, PlaceInWalk, OthersTyped, watch, hand, history
  <2>3. ASSUME NEW i \in Ids, agent' = [agent EXCEPT ![a].pc = "upsert", ![a].id = i]
        PROVE  Typed'
    <3>1. AgentOK([agent[a] EXCEPT !.pc = "upsert", !.id = i])
      BY <1>1, <1>3 DEF FindsPath, AgentOK, AgentType
    <3>2. agent' = [agent EXCEPT ![a] = [agent[a] EXCEPT !.pc = "upsert", !.id = i]]
      BY <2>3
    <3> QED BY <1>3, <3>1, <3>2, OneAgent
        DEF FindsPath, Typed, RowsTyped, ScanTyped, PlaceInWalk, OthersTyped, watch, hand, history
  <2> QED BY <1>3, <2>1, <2>2, <2>3 DEF FindsPath, At
<1>4. CASE FindsContent(a)
  <2>1. ASSUME NEW i \in Ids, NEW pc \in {"move", "upsert"},
               agent' = [agent EXCEPT ![a].pc = pc, ![a].id = i]
        PROVE  Typed'
    <3>1. AgentOK([agent[a] EXCEPT !.pc = pc, !.id = i])
      BY <1>1, <1>4 DEF FindsContent, AgentOK, AgentType
    <3>2. agent' = [agent EXCEPT ![a] = [agent[a] EXCEPT !.pc = pc, !.id = i]]
      BY <2>1
    <3> QED BY <1>4, <3>1, <3>2, OneAgent
        DEF FindsContent, Typed, RowsTyped, ScanTyped, PlaceInWalk, OthersTyped, watch, hand, history
  <2> QED BY <1>4, <2>1, NewIDFact DEF FindsContent, OfContent
<1>5. CASE Moves(a)
  <2>1. /\ agent[a].id \in Ids /\ agent[a].path \in Paths /\ agent[a].look \in Contents
    BY <1>1, <1>5 DEF Moves, AgentOK
  <2>2. RowsTyped'
    <3>1. rows[agent[a].id] # None =>
            [rows[agent[a].id] EXCEPT !.path = agent[a].path, !.missing = FALSE] \in Row
      BY <2>1 DEF Typed, RowsTyped, Row
    <3> QED BY <1>5, <2>1, <3>1 DEF Moves, Typed, RowsTyped
  <2>3. AgentOK([agent[a] EXCEPT !.pc = "upsert"])
    BY <1>1, <1>5 DEF Moves, AgentOK, AgentType
  <2>4. Rests(a) \/ agent' = [agent EXCEPT ![a] = [agent[a] EXCEPT !.pc = "upsert"]]
    BY <1>5 DEF Moves, Goes
  <2>5. AgentsTyped'
    BY <2>3, <2>4, RestsTyped, OneAgent
  <2>6. calm' \in {"no", "scan", "yes"}
    BY <1>5, UnsettlesCalm DEF Moves
  <2> QED BY <1>5, <2>2, <2>5, <2>6
      DEF Moves, Typed, ScanTyped, PlaceInWalk, OthersTyped, watch, hand, history
<1>6. CASE Upserts(a)
  <2>1. /\ agent[a].id \in Ids /\ agent[a].path \in Paths /\ agent[a].look \in Contents
    BY <1>1, <1>6 DEF Upserts, AgentOK
  <2>2. \A j \in At(agent[a].path) : Refreshed(rows[j], agent[a].look) \in Row
    BY <2>1 DEF At, Refreshed, Typed, RowsTyped, Row
  <2>3. [path |-> agent[a].path, hash |-> agent[a].look, missing |-> FALSE,
         source |-> "library"] \in Row
    BY <2>1 DEF Row
  <2>4. RowsTyped'
    BY <1>6, <2>1, <2>2, <2>3 DEF Upserts, Typed, RowsTyped
  <2>5. calm' \in {"no", "scan", "yes"}
    BY <1>6, UnsettlesCalm DEF Upserts
  <2> QED BY <1>6, <2>4, <2>5, RestsTyped
      DEF Upserts, Typed, ScanTyped, PlaceInWalk, OthersTyped, watch, hand, history
<1> QED BY <1>2, <1>3, <1>4, <1>5, <1>6 DEF Recording

\* handleConvert.
LEMMA HandsOffTyped ==
  ASSUME Typed, NEW a \in Agents, HandsOff(a)
  PROVE  Typed'
<1>1. agent[a].path \in Paths /\ agent[a].look \in Looks
  BY AgentFacts DEF HandsOff, AgentOK, AgentType
<1>2. convertSeen' \in [Paths -> Looks] /\ handed' \in [Paths -> SUBSET Looks]
  BY <1>1 DEF HandsOff, Typed, OthersTyped, hand
<1> QED BY <1>2, RestsTyped
    DEF HandsOff, Typed, RowsTyped, ScanTyped, PlaceInWalk, OthersTyped, watch, history

\* The watcher.
LEMMA WatchingTyped ==
  ASSUME Typed, Watching
  PROVE  Typed'
<1>1. Watcher \in Agents /\ AgentOK(agent[Watcher])
  BY AgentFacts DEF Agents
<1>2. CASE Handles
  <2> PICK p \in armed :
        /\ armed' = armed \ {p}
        /\ agent' = [agent EXCEPT ![Watcher] =
             [pc |-> IF disk[p] = None THEN "gone" ELSE "settle",
              path |-> p, look |-> disk[p], id |-> None]]
    BY <1>2 DEF Handles
  <2>1. p \in Paths /\ disk[p] \in Looks /\ armed' \subseteq Paths
    BY DEF Typed, OthersTyped
  <2>2. AgentOK([pc |-> IF disk[p] = None THEN "gone" ELSE "settle",
                 path |-> p, look |-> disk[p], id |-> None])
    BY <2>1 DEF AgentOK, AgentType
  <2>3. AgentsTyped'
    BY <1>1, <2>2, OneAgent
  <2> QED BY <1>2, <2>1, <2>3
      DEF Handles, Typed, RowsTyped, ScanTyped, PlaceInWalk, OthersTyped, hand, history
<1>3. CASE Settles
  <2>1. agent[Watcher].path \in Paths
    BY <1>1, <1>3 DEF Settles, AgentOK
  <2>2. AgentsTyped' /\ armed' \subseteq Paths
    BY <1>1, <1>3, <2>1, RestsTyped, ReadsTyped, StatsTyped DEF Settles, Typed, OthersTyped
  <2> QED BY <1>3, <2>2
      DEF Settles, Typed, RowsTyped, ScanTyped, PlaceInWalk, OthersTyped, hand, history
<1>4. CASE FindsGone
  <2>1. ASSUME NEW i \in Ids, agent' = [agent EXCEPT ![Watcher].pc = "flag", ![Watcher].id = i]
        PROVE  AgentsTyped'
    <3>1. AgentOK([agent[Watcher] EXCEPT !.pc = "flag", !.id = i])
      BY <1>1, <1>4 DEF FindsGone, AgentOK, AgentType
    <3>2. agent' = [agent EXCEPT ![Watcher] = [agent[Watcher] EXCEPT !.pc = "flag", !.id = i]]
      BY <2>1
    <3> QED BY <1>1, <3>1, <3>2, OneAgent
  <2>2. AgentsTyped'
    BY <1>1, <1>4, <2>1, RestsTyped DEF FindsGone, At
  <2> QED BY <1>4, <2>2
      DEF FindsGone, Typed, RowsTyped, ScanTyped, PlaceInWalk, OthersTyped, watch, hand, history
<1>5. CASE Flags
  <2>1. RowsTyped'
    BY <1>1, <1>5, FlaggedTyped DEF Flags, AgentOK
  <2>2. AgentsTyped' /\ calm' \in {"no", "scan", "yes"}
    BY <1>1, <1>5, RestsTyped, UnsettlesCalm DEF Flags
  <2> QED BY <1>5, <2>1, <2>2
      DEF Flags, Typed, ScanTyped, PlaceInWalk, OthersTyped, watch, hand
<1> QED BY <1>2, <1>3, <1>4, <1>5 DEF Watching

\* A place the walk moves on from is within the order.
LEMMA WalksOnTyped ==
  ASSUME Typed, scan.pc = "walk", NEW found \in SUBSET Paths, WalksOn(found)
  PROVE  ScanTyped'
<1>1. /\ scan.at \in 1 .. Len(Order) /\ Len(Order) \in Nat
      /\ scan.seen \subseteq Paths /\ scan.lost \subseteq Ids
  BY OrderFacts DEF Typed, ScanTyped, PlaceInWalk
<1>2. scan' = [pc |-> IF scan.at = Len(Order) THEN "work" ELSE scan.pc,
               at |-> IF scan.at = Len(Order) THEN 1 ELSE scan.at + 1,
               seen |-> scan.seen \cup found, lost |-> scan.lost]
  BY <1>1 DEF WalksOn, Typed, ScanTyped
<1>3. CASE scan.at = Len(Order)
  BY <1>1, <1>2, <1>3, OrderFacts DEF ScanTyped, PlaceInWalk
<1>4. CASE scan.at # Len(Order)
  <2>1. scan.at + 1 \in 1 .. Len(Order)
    BY <1>1, <1>4
  <2> QED BY <1>1, <1>2, <1>4, <2>1 DEF ScanTyped, PlaceInWalk
<1> QED BY <1>3, <1>4

\* Scan itself.
LEMMA ScanningTyped ==
  ASSUME Typed, Scanning
  PROVE  Typed'
<1>1. Scanner \in Agents
  BY DEF Agents
<1>2. /\ Len(Order) \in Nat /\ scan.at \in 1 .. Len(Order) + 1
      /\ scan.seen \subseteq Paths /\ scan.lost \subseteq Ids
  BY OrderFacts DEF Typed, ScanTyped
<1>3. CASE Walks
  <2>1. Order[scan.at] \in Paths
    BY <1>3, OrderFacts DEF Walks, Typed, ScanTyped, PlaceInWalk
  <2>2. ScanTyped'
    BY <1>3, <2>1, WalksOnTyped DEF Walks
  <2> QED BY <1>3, <2>2
      DEF Walks, Typed, RowsTyped, AgentsTyped, InHand, OthersTyped, watch, hand, history
<1>4. CASE Lists
  <2>1. Unseen \subseteq Ids
    BY DEF Unseen
  <2>2. ScanTyped'
    <3>1. scan' = [pc |-> "end", at |-> 1, seen |-> scan.seen, lost |-> Unseen]
      BY <1>4 DEF Lists, Typed, ScanTyped
    <3> QED BY <1>2, <2>1, <3>1, OrderFacts DEF ScanTyped, PlaceInWalk
  <2> QED BY <1>4, <2>2
      DEF Lists, Typed, RowsTyped, AgentsTyped, InHand, OthersTyped, watch, hand, history
<1>5. CASE Marks
  <2>1. RowsTyped'
    BY <1>2, <1>5, FlaggedTyped DEF Marks
  <2>2. ScanTyped'
    BY <1>2, <1>5 DEF Marks, Typed, ScanTyped, PlaceInWalk
  <2> QED BY <1>5, <2>1, <2>2
      DEF Marks, Typed, AgentsTyped, InHand, OthersTyped, watch, hand, history
<1>6. CASE Converts
  <2> PICK n \in Upcoming(Convertible) :
        scan' = [scan EXCEPT !.at = n + 1] /\ Stats(Scanner, Order[n])
    BY <1>6 DEF Converts
  <2>1. n \in 1 .. Len(Order) /\ n + 1 \in 1 .. Len(Order) + 1
    BY <1>2 DEF Upcoming
  <2>2. AgentsTyped'
    BY <1>1, <2>1, OrderFacts, StatsTyped
  <2>3. ScanTyped'
    BY <1>2, <1>6, <2>1 DEF Converts, Typed, ScanTyped, PlaceInWalk
  <2> QED BY <1>6, <2>2, <2>3
      DEF Converts, Typed, RowsTyped, OthersTyped, watch, hand, history
<1>7. CASE ScanEnds
  <2>1. ScanTyped'
    BY <1>7, OrderFacts DEF ScanEnds, NewScan, ScanTyped, PlaceInWalk
  <2>2. watching' \in BOOLEAN
    BY <1>7 DEF ScanEnds
  <2>3. calm' \in {"no", "scan", "yes"}
    BY <1>7 DEF ScanEnds, Typed, OthersTyped
  <2> QED BY <1>7, <2>1, <2>2, <2>3
      DEF ScanEnds, Typed, RowsTyped, AgentsTyped, InHand, OthersTyped, hand
<1> QED BY <1>3, <1>4, <1>5, <1>6, <1>7 DEF Scanning

\* A scan's start and its pool.
LEMMA PoolTyped ==
  ASSUME Typed, ScanStarts \/ \E w \in Workers : Assigns(w)
  PROVE  Typed'
<1>1. CASE ScanStarts
  <2>1. ScanTyped'
    BY <1>1, OrderFacts DEF ScanStarts, NewScan, ScanTyped, PlaceInWalk
  <2>2. calm' \in {"no", "scan", "yes"}
    BY <1>1 DEF ScanStarts
  <2> QED BY <1>1, <2>1, <2>2
      DEF ScanStarts, Typed, RowsTyped, AgentsTyped, InHand, OthersTyped, watch, hand
<1>2. ASSUME NEW w \in Workers, Assigns(w) PROVE Typed'
  <2> PICK n \in Upcoming(Paths \ Convertible) :
        /\ scan' = [scan EXCEPT !.at = n + 1]
        /\ agent' = [agent EXCEPT ![w] = [Idle EXCEPT !.pc = "open", !.path = Order[n]]]
    BY <1>2 DEF Assigns
  <2>1. /\ Len(Order) \in Nat /\ scan.at \in 1 .. Len(Order) + 1
    BY OrderFacts DEF Typed, ScanTyped
  <2>2. n \in 1 .. Len(Order) /\ n + 1 \in 1 .. Len(Order) + 1
    BY <2>1 DEF Upcoming
  <2>3. AgentOK([Idle EXCEPT !.pc = "open", !.path = Order[n]])
    BY <2>2, OrderFacts DEF Idle, AgentOK, AgentType, Looks
  <2>4. w \in Agents
    BY DEF Agents
  <2>5. AgentsTyped'
    BY <2>3, <2>4, OneAgent
  <2>6. ScanTyped'
    BY <1>2, <2>2 DEF Assigns, Typed, ScanTyped, PlaceInWalk
  <2> QED BY <1>2, <2>5, <2>6 DEF Assigns, Typed, RowsTyped, OthersTyped, watch, hand, history
<1> QED BY <1>1, <1>2

-----------------------------------------------------------------------------
(* The folder and what else happens.                                       *)

LEMMA CountTyped ==
  ASSUME Typed, changes < MaxChanges, changes' = changes + 1
  PROVE  changes' \in 0 .. MaxChanges
BY MaxChangesFact DEF Typed, OthersTyped

LEMMA NoticesTyped ==
  ASSUME Typed, NEW ps \in SUBSET Paths, Notices(ps)
  PROVE  armed' \subseteq Paths
BY DEF Typed, OthersTyped, Notices

LEMMA ForgivesTyped ==
  ASSUME Typed, NEW spoiled, Forgives(spoiled)
  PROVE  owed' \in [Paths -> Ids \cup {None}]
BY DEF Typed, OthersTyped, Forgives

\* The folder's user.
LEMMA ChangingTyped ==
  ASSUME Typed, Changing
  PROVE  Typed'
<1>1. ASSUME NEW p \in Paths, Removes(p) PROVE Typed'
  <2>1. changes' \in 0 .. MaxChanges /\ armed' \subseteq Paths
    BY <1>1, CountTyped, NoticesTyped DEF Removes, Happens
  <2>2. owed' \in [Paths -> Ids \cup {None}]
    BY <1>1, ForgivesTyped DEF Removes
  <2>3. disk' \in [Paths -> Looks] /\ calm' \in {"no", "scan", "yes"}
    BY <1>1 DEF Removes, Typed, OthersTyped, Looks
  <2> QED BY <1>1, <2>1, <2>2, <2>3
      DEF Removes, Typed, RowsTyped, AgentsTyped, InHand, ScanTyped, PlaceInWalk, OthersTyped, hand
<1>2. ASSUME NEW p \in Paths, NEW c \in Contents \cup {Unreadable}, Puts(p, c) PROVE Typed'
  <2>1. changes' \in 0 .. MaxChanges /\ armed' \subseteq Paths
    BY <1>2, CountTyped, NoticesTyped DEF Puts, Happens
  <2>2. owed' \in [Paths -> Ids \cup {None}]
    BY <1>2, ForgivesTyped DEF Puts
  <2>3. disk' \in [Paths -> Looks] /\ calm' \in {"no", "scan", "yes"}
    BY <1>2 DEF Puts, Typed, OthersTyped, Looks
  <2> QED BY <1>2, <2>1, <2>2, <2>3
      DEF Puts, Typed, RowsTyped, AgentsTyped, InHand, ScanTyped, PlaceInWalk, OthersTyped, hand
<1>3. ASSUME NEW p \in Paths, NEW q \in Paths, Renames(p, q) PROVE Typed'
  <2>1. changes' \in 0 .. MaxChanges /\ armed' \subseteq Paths
    BY <1>3, CountTyped, NoticesTyped DEF Renames, Happens
  <2>2. owed' \in [Paths -> Ids \cup {None}]
    <3> DEFINE known == {i \in Ids : p \notin Convertible /\ q \notin Convertible
                                       /\ Recognisable(i, p, q)}
    <3>1. known # {} => (CHOOSE i \in known : TRUE) \in Ids
      OBVIOUS
    <3>2. owed' = [o \in Paths |->
            IF o = q /\ known # {} THEN CHOOSE i \in known : TRUE
            ELSE IF o \in {p, q} \cup OwedFrom(q) THEN None ELSE owed[o]]
      BY <1>3 DEF Renames
    <3> HIDE DEF known
    <3> QED BY <3>1, <3>2 DEF Typed, OthersTyped
  <2>3. disk' \in [Paths -> Looks] /\ calm' \in {"no", "scan", "yes"}
    BY <1>3 DEF Renames, Typed, OthersTyped, Looks
  <2> QED BY <1>3, <2>1, <2>2, <2>3
      DEF Renames, Typed, RowsTyped, AgentsTyped, InHand, ScanTyped, PlaceInWalk, OthersTyped, hand
<1> QED BY <1>1, <1>2, <1>3 DEF Changing

\* The rest of the world.
LEMMA HappeningTyped ==
  ASSUME Typed, Happening
  PROVE  Typed'
<1>1. CASE WalksPast
  <2>1. ScanTyped'
    BY <1>1, WalksOnTyped DEF WalksPast
  <2>2. changes' \in 0 .. MaxChanges /\ calm' \in {"no", "scan", "yes"}
    BY <1>1, CountTyped DEF WalksPast
  <2> QED BY <1>1, <2>1, <2>2
      DEF WalksPast, Typed, RowsTyped, AgentsTyped, InHand, OthersTyped, watch, hand
<1>2. CASE Restarts
  <2>1. AgentsTyped'
    <3>1. agent' = [a \in Agents |-> Idle]
      BY <1>2 DEF Restarts
    <3>2. Idle \in AgentType /\ Idle.pc = "idle"
      BY DEF Idle, AgentType, Looks
    <3> QED BY <3>1, <3>2 DEF AgentsTyped, InHand
  <2>2. ScanTyped'
    BY <1>2, OrderFacts DEF Restarts, NewScan, ScanTyped, PlaceInWalk
  <2>3. /\ changes' \in 0 .. MaxChanges /\ calm' \in {"no", "scan", "yes"}
        /\ armed' \subseteq Paths
    BY <1>2, CountTyped DEF Restarts, Happens
  <2>4. watching' \in BOOLEAN
    BY <1>2 DEF Restarts
  <2>5. convertSeen' \in [Paths -> Looks] /\ handed' \in [Paths -> SUBSET Looks]
    BY <1>2 DEF Restarts, Looks
  <2> QED BY <1>2, <2>1, <2>2, <2>3, <2>4, <2>5 DEF Restarts, Typed, RowsTyped, OthersTyped
<1>3. ASSUME NEW i \in Ids, NEW from, NEW to \in {"library", "claimed"}, Claims(i, from, to)
      PROVE  Typed'
  <2>1. RowsTyped'
    <3>1. [rows[i] EXCEPT !.source = to] \in Row
      BY <1>3 DEF Claims, Typed, RowsTyped, Row
    <3> QED BY <1>3, <3>1 DEF Claims, Typed, RowsTyped
  <2>2. changes' \in 0 .. MaxChanges
    BY <1>3, CountTyped DEF Claims, Happens
  <2> QED BY <1>3, <2>1, <2>2
      DEF Claims, Typed, AgentsTyped, InHand, ScanTyped, PlaceInWalk, OthersTyped, watch, hand
<1>4. ASSUME NEW i \in Ids, Deletes(i) PROVE Typed'
  <2>1. RowsTyped'
    BY <1>4 DEF Deletes, Typed, RowsTyped
  <2>2. changes' \in 0 .. MaxChanges /\ owed' \in [Paths -> Ids \cup {None}]
    BY <1>4, CountTyped, ForgivesTyped DEF Deletes, Happens
  <2>3. calm' \in {"no", "scan", "yes"}
    BY <1>4 DEF Deletes
  <2> QED BY <1>4, <2>1, <2>2, <2>3
      DEF Deletes, Typed, AgentsTyped, InHand, ScanTyped, PlaceInWalk, OthersTyped, watch, hand
<1>5. ASSUME NEW h \in Contents, NEW source \in {"upload", "converted"}, Files(h, source)
      PROVE  Typed'
  <2>1. RowsTyped'
    <3>1. [path |-> Filed, hash |-> h, missing |-> FALSE, source |-> source] \in Row
      BY DEF Row
    <3> QED BY <1>5, <3>1 DEF Files, Typed, RowsTyped
  <2>2. changes' \in 0 .. MaxChanges /\ owed' \in [Paths -> Ids \cup {None}]
    BY <1>5, CountTyped, ForgivesTyped DEF Files, Happens
  <2> QED BY <1>5, <2>1, <2>2
      DEF Files, Typed, AgentsTyped, InHand, ScanTyped, PlaceInWalk, OthersTyped, watch, hand
<1> QED BY <1>1, <1>2, <1>3, <1>4, <1>5 DEF Happening

LEMMA StepTyped == Typed /\ [Next]_vars => Typed'
<1> SUFFICES ASSUME Typed, [Next]_vars PROVE Typed' OBVIOUS
<1>1. CASE UNCHANGED vars
  BY <1>1 DEF vars, watch, hand, history, Typed, RowsTyped, AgentsTyped, InHand, ScanTyped,
              PlaceInWalk, OthersTyped
<1> QED
  BY <1>1, RecordingTyped, HandsOffTyped, WatchingTyped, ScanningTyped, PoolTyped,
     ChangingTyped, HappeningTyped
  DEF Next

\* Rows, goroutines, scans and watches keep their parts: what a goroutine
\* carries into record is a comic at a path of the library, and a row it is
\* about to write is one it has found or a new one (scan.go: reconcileFile).
THEOREM LibraryTypeCorrect == Spec => []TypeOK
<1>1. Spec => []Typed
  BY InitTyped, StepTyped, PTL DEF Spec
<1> QED BY <1>1, TypedIsTypeOK, PTL

-----------------------------------------------------------------------------
(* Writes that do not collide.  The invariant says who may be between his  *)
(* reads and his write, what he has read and that it still holds; and that *)
(* no path has two rows, which is what makes the row he has found the one. *)

Locked(a) == agent[a].pc \in {"hash", "move", "upsert", "flag"}

OneWriter == \A a, b \in Agents : Locked(a) /\ Locked(b) => a = b

OneRow == \A p \in Paths : \A i, j \in At(p) : i = j

ReadHolds ==
  \A a \in Agents :
    /\ agent[a].pc \in {"hash", "move"} => At(agent[a].path) = {}
    /\ agent[a].pc = "upsert" =>
         /\ At(agent[a].path) \subseteq {agent[a].id}
         /\ rows[agent[a].id] # None => agent[a].id \in At(agent[a].path)

Safe == Typed /\ OneWriter /\ OneRow /\ ReadHolds

LEMMA SafeIsCollisionFree == Safe => WritesDoNotCollide
BY DEF Safe, ReadHolds, WritesDoNotCollide

LEMMA InitSafe == Init => Safe
<1>1. Init => OneWriter /\ OneRow /\ ReadHolds
  BY DEF Init, Idle, OneWriter, Locked, OneRow, ReadHolds, At
<1> QED BY <1>1, InitTyped DEF Safe

\* A row that stays keeps its path, or a new one of no goroutine's is filed.
PathsKept ==
  \A i \in Ids : rows'[i] # None =>
    \/ rows[i] # None /\ rows'[i].path = rows[i].path
    \/ rows'[i].path = Filed /\ \A a \in Agents : agent[a].id # i

\* Nobody takes the lock, or moves on while holding it.
LocksKept == \A a \in Agents : Locked(a)' => agent'[a] = agent[a]

LEMMA FiledFact == Filed \notin Paths
BY LibraryScanAssumption DEF LibraryScanAssumption

\* The rows of a path after a step.
AtNext(p) == {i \in Ids : rows'[i] # None /\ rows'[i].path = p}

\* The reads of a goroutine hold after a step.
HoldsNext(g) ==
  /\ g.pc \in {"hash", "move"} => AtNext(g.path) = {}
  /\ g.pc = "upsert" =>
       /\ AtNext(g.path) \subseteq {g.id}
       /\ rows'[g.id] # None => g.id \in AtNext(g.path)

LEMMA ReadHoldsNext == (\A a \in Agents : HoldsNext(agent'[a])) => ReadHolds'
BY DEF ReadHolds, HoldsNext, At, AtNext

LEMMA OneRowNext == (\A p \in Paths : \A i, j \in AtNext(p) : i = j) => OneRow'
BY DEF OneRow, At, AtNext

LEMMA Apart ==
  ASSUME Safe, Typed', PathsKept, LocksKept
  PROVE  Safe'
<1>1. \A p \in Paths : AtNext(p) \subseteq At(p)
  BY FiledFact DEF At, AtNext, PathsKept
<1>2. OneWriter'
  BY DEF Safe, OneWriter, Locked, LocksKept
<1>3. OneRow'
  BY <1>1, OneRowNext DEF Safe, OneRow
<1>4. ASSUME NEW a \in Agents, Locked(a)' PROVE HoldsNext(agent'[a])
  <2> DEFINE p == agent[a].path
             i == agent[a].id
  <2>1. agent'[a] = agent[a] /\ Locked(a)
    BY <1>4 DEF LocksKept, Locked
  <2>2. p \in Paths /\ (agent[a].pc = "upsert" => i \in Ids)
    BY <2>1, AgentFacts DEF Safe, Locked, AgentOK
  <2>3. /\ agent[a].pc \in {"hash", "move"} => At(p) = {}
        /\ agent[a].pc = "upsert" => At(p) \subseteq {i} /\ (rows[i] # None => i \in At(p))
    BY DEF Safe, ReadHolds
  <2>4. ASSUME agent[a].pc = "upsert", rows'[i] # None PROVE i \in AtNext(p)
    <3>1. rows[i] # None /\ rows'[i].path = rows[i].path
      BY <2>2, <2>4 DEF PathsKept
    <3>2. rows[i].path = p
      BY <2>3, <2>4, <3>1 DEF At
    <3> QED BY <2>2, <2>4, <3>1, <3>2 DEF AtNext
  <2> HIDE DEF p, i
  <2>5. HoldsNext(agent[a])
    BY <1>1, <2>2, <2>3, <2>4 DEF HoldsNext, p, i
  <2> QED BY <2>1, <2>5
<1>5. ASSUME NEW a \in Agents, ~Locked(a)' PROVE HoldsNext(agent'[a])
  BY <1>5 DEF Locked, HoldsNext
<1>6. ReadHolds'
  BY <1>4, <1>5, ReadHoldsNext
<1> QED BY <1>2, <1>3, <1>6 DEF Safe

\* What follows when one goroutine alone changes its place.
LEMMA OneMoves ==
  ASSUME Typed, NEW a \in Agents, NEW g, agent' = [agent EXCEPT ![a] = g]
  PROVE  agent'[a] = g /\ \A b \in Agents \ {a} : agent'[b] = agent[b]
BY DEF Typed, AgentsTyped

\* A goroutine without the lock that goes on without it.
LEMMA Unheld ==
  ASSUME Safe, NEW a \in Agents, NEW g, g.pc \notin {"hash", "move", "upsert", "flag"},
         agent' = [agent EXCEPT ![a] = g]
  PROVE  LocksKept
BY OneMoves DEF Safe, LocksKept, Locked

LEMMA IdleUnheld ==
  ASSUME Safe, NEW a \in Agents, Rests(a)
  PROVE  LocksKept
BY Unheld DEF Rests, Idle

LEMMA ReadsUnheld ==
  ASSUME Safe, NEW a \in Agents, NEW p, Reads(a, p) \/ Stats(a, p)
  PROVE  LocksKept
<1>1. CASE Reads(a, p)
  <2> DEFINE r == IF disk[p] \in Contents
                  THEN [pc |-> "path", path |-> p, look |-> disk[p], id |-> None] ELSE Idle
  <2>1. r.pc \notin {"hash", "move", "upsert", "flag"} /\ agent' = [agent EXCEPT ![a] = r]
    BY <1>1 DEF Reads, Idle
  <2> HIDE DEF r
  <2> QED BY <2>1, Unheld
<1>2. CASE Stats(a, p)
  <2> DEFINE r == IF disk[p] # None
                  THEN [pc |-> "handoff", path |-> p, look |-> disk[p], id |-> None] ELSE Idle
  <2>1. r.pc \notin {"hash", "move", "upsert", "flag"} /\ agent' = [agent EXCEPT ![a] = r]
    BY <1>2 DEF Stats, Idle
  <2> HIDE DEF r
  <2> QED BY <2>1, Unheld
<1> QED BY <1>1, <1>2

LEMMA FlaggedKeeps ==
  ASSUME Safe, NEW i \in Ids, rows' = FlaggedMissing(i)
  PROVE  PathsKept
<1>1. rows \in [Ids -> Row \cup {None}]
  BY DEF Safe, Typed, RowsTyped
<1>2. \A j \in Ids : rows'[j] # None => rows[j] # None /\ rows'[j].path = rows[j].path
  BY <1>1 DEF FlaggedMissing, Row
<1> QED BY <1>2 DEF PathsKept

\* A goroutine that comes to hold the lock alone, by rows nobody changes.
LEMMA Takes ==
  ASSUME Safe, Typed', NEW a \in Agents, NEW g,
         \A b \in Agents \ {a} : ~Locked(b),
         agent' = [agent EXCEPT ![a] = g], HoldsNext(g), OneRow'
  PROVE  Safe'
<1>1. agent'[a] = g /\ \A b \in Agents \ {a} : agent'[b] = agent[b]
  BY OneMoves DEF Safe
<1>2. OneWriter'
  BY <1>1 DEF OneWriter, Locked
<1>3. \A b \in Agents : HoldsNext(agent'[b])
  BY <1>1 DEF HoldsNext, Locked
<1> QED BY <1>2, <1>3, ReadHoldsNext DEF Safe

\* Under dbMu there is nobody else.
LEMMA Alone ==
  ASSUME Safe, NEW a \in Agents, Locked(a)
  PROVE  \A b \in Agents \ {a} : ~Locked(b)
BY DEF Safe, OneWriter

LEMMA RowsStay ==
  ASSUME Safe, UNCHANGED rows
  PROVE  OneRow' /\ PathsKept /\ \A p : AtNext(p) = At(p)
BY DEF Safe, OneRow, At, AtNext, PathsKept

\* The steps of record under the lock.
LEMMA RecordingSafe ==
  ASSUME Safe, Typed', NEW a \in Agents, Recording(a)
  PROVE  Safe'
<1>1. AgentOK(agent[a]) /\ rows \in [Ids -> Row \cup {None}]
  BY AgentFacts DEF Safe, Typed, RowsTyped
<1>2. CASE Opens(a)
  BY <1>2, ReadsUnheld, RowsStay, Apart DEF Opens
<1>3. CASE FindsPath(a)
  <2>1. \A b \in Agents \ {a} : ~Locked(b)
    BY <1>3 DEF FindsPath, Unlocked, Locked
  <2>2. UNCHANGED rows /\ agent[a].path \in Paths
    BY <1>1, <1>3 DEF FindsPath, AgentOK
  <2>3. CASE At(agent[a].path) = {} /\ Goes(a, "hash")
    <3> DEFINE g == [agent[a] EXCEPT !.pc = "hash"]
    <3>1. agent' = [agent EXCEPT ![a] = g]
      BY <2>3 DEF Goes
    <3>2. HoldsNext(g)
      BY <1>1, <2>2, <2>3, RowsStay DEF HoldsNext, AgentOK, AgentType
    <3> QED BY <2>1, <2>2, <3>1, <3>2, RowsStay, Takes
  <2>4. CASE Rests(a)
    BY <2>2, <2>4, IdleUnheld, RowsStay, Apart
  <2>5. ASSUME NEW i \in At(agent[a].path),
               agent' = [agent EXCEPT ![a].pc = "upsert", ![a].id = i]
        PROVE  Safe'
    <3> DEFINE g == [agent[a] EXCEPT !.pc = "upsert", !.id = i]
    <3>1. agent' = [agent EXCEPT ![a] = g]
      BY <2>5
    <3>2. At(agent[a].path) \subseteq {i}
      BY <2>2 DEF Safe, OneRow
    <3>3. HoldsNext(g)
      BY <1>1, <2>2, <3>2, RowsStay DEF HoldsNext, AgentOK, AgentType
    <3> QED BY <2>1, <2>2, <3>1, <3>3, RowsStay, Takes
  <2> QED BY <1>3, <2>3, <2>4, <2>5 DEF FindsPath
<1>4. CASE FindsContent(a)
  <2>1. \A b \in Agents \ {a} : ~Locked(b)
    BY <1>4, Alone DEF FindsContent, Locked
  <2>2. UNCHANGED rows /\ At(agent[a].path) = {}
    BY <1>4 DEF FindsContent, Safe, ReadHolds
  <2>3. ASSUME NEW i \in Ids, NEW pc \in {"move", "upsert"}, pc = "upsert" => rows[i] = None,
               agent' = [agent EXCEPT ![a].pc = pc, ![a].id = i]
        PROVE  Safe'
    <3> DEFINE g == [agent[a] EXCEPT !.pc = pc, !.id = i]
    <3>1. agent' = [agent EXCEPT ![a] = g]
      BY <2>3
    <3>2. HoldsNext(g)
      BY <1>1, <2>2, <2>3, RowsStay DEF HoldsNext, AgentOK, AgentType
    <3> QED BY <2>1, <2>2, <3>1, <3>2, RowsStay, Takes
  <2>4. (\E i \in Ids : Unused(i)) => NewID \in Ids /\ rows[NewID] = None
    BY NewIDFact DEF Unused
  <2> QED BY <1>4, <2>3, <2>4 DEF FindsContent, OfContent
<1>5. CASE Moves(a)
  <2> DEFINE i == agent[a].id
             p == agent[a].path
             g == [agent[a] EXCEPT !.pc = "upsert"]
  <2>1. \A b \in Agents \ {a} : ~Locked(b)
    BY <1>5, Alone DEF Moves, Locked
  <2>2. i \in Ids /\ p \in Paths /\ At(p) = {}
    BY <1>1, <1>5 DEF Moves, AgentOK, Safe, ReadHolds
  <2>3. /\ rows' = [rows EXCEPT ![i] =
             IF @ = None THEN None ELSE [@ EXCEPT !.path = p, !.missing = FALSE]]
        /\ agent' = [agent EXCEPT ![a] = g]
    BY <1>5, <2>2 DEF Moves, Goes
  <2>4. \A j \in Ids : rows'[j] # None =>
          \/ j # i /\ rows[j] # None /\ rows'[j].path = rows[j].path
          \/ j = i /\ rows'[j].path = p
    BY <1>1, <2>2, <2>3 DEF Row
  <2>5. AtNext(p) \subseteq {i} /\ (rows'[i] # None => i \in AtNext(p))
    BY <2>2, <2>4 DEF At, AtNext
  <2>6. \A q \in Paths \ {p} : AtNext(q) \subseteq At(q)
    BY <2>4 DEF At, AtNext
  <2>7. OneRow'
    BY <2>5, <2>6, OneRowNext DEF Safe, OneRow
  <2>8. HoldsNext(g)
    BY <1>1, <2>5 DEF HoldsNext, AgentOK, AgentType
  <2> HIDE DEF g
  <2> QED BY <2>1, <2>3, <2>7, <2>8, Takes
<1>6. CASE Upserts(a)
  <2> DEFINE i == agent[a].id
             p == agent[a].path
             h == agent[a].look
  <2>1. \A b \in Agents \ {a} : ~Locked(b)
    BY <1>6, Alone DEF Upserts, Locked
  <2>2. i \in Ids /\ p \in Paths /\ Rests(a)
    BY <1>1, <1>6 DEF Upserts, AgentOK
  <2>3. CASE At(p) # {}
    <3>1. rows' = [j \in Ids |-> IF j \in At(p) THEN Refreshed(rows[j], h) ELSE rows[j]]
      BY <1>6, <2>3 DEF Upserts
    <3>2. \A j \in Ids : rows[j] # None => Refreshed(rows[j], h).path = rows[j].path
      BY <1>1 DEF Refreshed, Row
    <3>3. PathsKept
      BY <3>1, <3>2 DEF PathsKept, At
    <3> QED BY <2>2, <3>3, IdleUnheld, Apart
  <2>4. CASE At(p) = {} /\ rows[i] # None
    BY <1>6, <2>2, <2>4, IdleUnheld, RowsStay, Apart DEF Upserts
  <2>5. CASE At(p) = {} /\ rows[i] = None
    <3>1. rows' = [rows EXCEPT ![i] =
             [path |-> p, hash |-> h, missing |-> FALSE, source |-> "library"]]
      BY <1>6, <2>5 DEF Upserts
    <3>2. AtNext(p) \subseteq {i} /\ \A q \in Paths \ {p} : AtNext(q) \subseteq At(q)
      BY <1>1, <2>2, <2>5, <3>1 DEF At, AtNext
    <3>3. OneRow'
      BY <3>2, OneRowNext DEF Safe, OneRow
    <3>4. agent' = [agent EXCEPT ![a] = Idle] /\ HoldsNext(Idle)
      BY <2>2 DEF Rests, Idle, HoldsNext
    <3> QED BY <2>1, <3>3, <3>4, Takes
  <2> QED BY <2>3, <2>4, <2>5
<1> QED BY <1>2, <1>3, <1>4, <1>5, <1>6 DEF Recording

\* The watcher.
LEMMA WatchingSafe ==
  ASSUME Safe, Typed', Watching
  PROVE  Safe'
<1>1. Watcher \in Agents /\ AgentOK(agent[Watcher])
  BY AgentFacts DEF Agents, Safe
<1>2. CASE Handles
  <2> PICK p \in armed :
        agent' = [agent EXCEPT ![Watcher] =
             [pc |-> IF disk[p] = None THEN "gone" ELSE "settle",
              path |-> p, look |-> disk[p], id |-> None]]
    BY <1>2 DEF Handles
  <2> DEFINE g == [pc |-> IF disk[p] = None THEN "gone" ELSE "settle",
                   path |-> p, look |-> disk[p], id |-> None]
  <2>1. g.pc \notin {"hash", "move", "upsert", "flag"} /\ agent' = [agent EXCEPT ![Watcher] = g]
    OBVIOUS
  <2> HIDE DEF g
  <2> QED BY <1>1, <1>2, <2>1, Unheld, RowsStay, Apart DEF Handles
<1>3. CASE Settles
  BY <1>1, <1>3, IdleUnheld, ReadsUnheld, RowsStay, Apart DEF Settles
<1>4. CASE FindsGone
  <2>1. UNCHANGED rows /\ \A b \in Agents \ {Watcher} : ~Locked(b)
    BY <1>4 DEF FindsGone, Unlocked, Locked
  <2>2. CASE Rests(Watcher)
    BY <1>1, <2>1, <2>2, IdleUnheld, RowsStay, Apart
  <2>3. ASSUME NEW i \in Ids, agent' = [agent EXCEPT ![Watcher].pc = "flag", ![Watcher].id = i]
        PROVE  Safe'
    <3> DEFINE g == [agent[Watcher] EXCEPT !.pc = "flag", !.id = i]
    <3>1. agent' = [agent EXCEPT ![Watcher] = g] /\ HoldsNext(g)
      BY <1>1, <2>3 DEF HoldsNext, AgentOK, AgentType
    <3> HIDE DEF g
    <3> QED BY <1>1, <2>1, <3>1, RowsStay, Takes
  <2> QED BY <1>4, <2>2, <2>3 DEF FindsGone, At
<1>5. CASE Flags
  <2>1. agent[Watcher].id \in Ids
    BY <1>1, <1>5 DEF Flags, AgentOK
  <2> QED BY <1>1, <1>5, <2>1, FlaggedKeeps, IdleUnheld, Apart DEF Flags
<1> QED BY <1>2, <1>3, <1>4, <1>5 DEF Watching

\* The scan, and hand-offs: they take no lock, and its flags keep the paths.
LEMMA ScanSafe ==
  ASSUME Safe, Typed',
         Scanning \/ ScanStarts \/ (\E w \in Workers : Assigns(w)) \/ (\E a \in Agents : HandsOff(a))
  PROVE  Safe'
<1>1. Scanner \in Agents /\ Workers \subseteq Agents
  BY DEF Agents
<1>2. CASE Walks \/ Lists \/ ScanEnds \/ ScanStarts
  <2>1. UNCHANGED <<rows, agent>>
    BY <1>2 DEF Walks, Lists, ScanEnds, ScanStarts
  <2> QED BY <2>1, RowsStay, Apart DEF LocksKept
<1>3. CASE Marks
  <2>1. UNCHANGED agent /\ \E i \in Ids : rows' = FlaggedMissing(i)
    BY <1>3 DEF Marks, Safe, Typed, ScanTyped
  <2> QED BY <2>1, FlaggedKeeps, Apart DEF LocksKept
<1>4. CASE Converts
  BY <1>1, <1>4, ReadsUnheld, RowsStay, Apart DEF Converts
<1>5. ASSUME NEW w \in Workers, Assigns(w) PROVE Safe'
  <2> PICK n \in Upcoming(Paths \ Convertible) :
        agent' = [agent EXCEPT ![w] = [Idle EXCEPT !.pc = "open", !.path = Order[n]]]
    BY <1>5 DEF Assigns
  <2> DEFINE g == [Idle EXCEPT !.pc = "open", !.path = Order[n]]
  <2>1. g.pc \notin {"hash", "move", "upsert", "flag"} /\ agent' = [agent EXCEPT ![w] = g]
    BY DEF Idle
  <2> HIDE DEF g
  <2> QED BY <1>1, <1>5, <2>1, Unheld, RowsStay, Apart DEF Assigns
<1>6. ASSUME NEW a \in Agents, HandsOff(a) PROVE Safe'
  BY <1>6, IdleUnheld, RowsStay, Apart DEF HandsOff
<1> QED BY <1>2, <1>3, <1>4, <1>5, <1>6 DEF Scanning

\* The user, the other handlers, the queue, and a restart.
LEMMA WorldSafe ==
  ASSUME Safe, Typed', Changing \/ Happening
  PROVE  Safe'
<1>1. rows \in [Ids -> Row \cup {None}]
  BY DEF Safe, Typed, RowsTyped
<1>2. CASE Changing \/ WalksPast
  <2>1. UNCHANGED <<rows, agent>>
    BY <1>2 DEF Changing, Puts, Removes, Renames, WalksPast
  <2> QED BY <2>1, RowsStay, Apart DEF LocksKept
<1>3. CASE Restarts
  <2>1. UNCHANGED rows /\ \A a \in Agents : ~Locked(a)'
    BY <1>3 DEF Restarts, Idle, Locked
  <2> QED BY <2>1, RowsStay, Apart DEF LocksKept
<1>4. ASSUME NEW i \in Ids, NEW from, NEW to, Claims(i, from, to) PROVE Safe'
  <2>1. [rows[i] EXCEPT !.source = to].path = rows[i].path
    BY <1>1, <1>4 DEF Claims, Row
  <2>2. PathsKept /\ UNCHANGED agent
    BY <1>1, <1>4, <2>1 DEF Claims, PathsKept
  <2> QED BY <2>2, Apart DEF LocksKept
<1>5. ASSUME NEW i \in Ids, Deletes(i) PROVE Safe'
  <2>1. PathsKept /\ UNCHANGED agent
    BY <1>1, <1>5 DEF Deletes, PathsKept
  <2> QED BY <2>1, Apart DEF LocksKept
<1>6. ASSUME NEW h, NEW source, Files(h, source) PROVE Safe'
  <2>1. NewID \in Ids /\ Unused(NewID)
    BY <1>6, NewIDFact DEF Files
  <2>2. PathsKept /\ UNCHANGED agent
    BY <1>1, <1>6, <2>1 DEF Files, Unused, PathsKept
  <2> QED BY <2>2, Apart DEF LocksKept
<1> QED BY <1>2, <1>3, <1>4, <1>5, <1>6 DEF Happening

LEMMA StepSafe == Safe /\ [Next]_vars => Safe'
<1> SUFFICES ASSUME Safe, [Next]_vars PROVE Safe' OBVIOUS
<1>1. Typed'
  BY StepTyped DEF Safe
<1>2. CASE UNCHANGED vars
  BY <1>1, <1>2, RowsStay, Apart DEF vars, LocksKept
<1> QED
  BY <1>1, <1>2, RecordingSafe, WatchingSafe, ScanSafe, WorldSafe DEF Next

\* What record has read under dbMu holds when it writes: a path it inserts is
\* free, and a row it repoints or refreshes is the only one of its path,
\* whatever users, the queue and the scan's own flags do meanwhile.
THEOREM LibraryWritesDoNotCollide == Spec => []WritesDoNotCollide
<1>1. Spec => []Safe
  BY InitSafe, StepSafe, PTL DEF Spec
<1> QED BY <1>1, SafeIsCollisionFree, PTL

-----------------------------------------------------------------------------
(* A calm scan.  First what holds whether or not anything happens: which   *)
(* goroutine does what and when, what is known of the row it has found,    *)
(* where rows of each source are, and that a version seen was handed off.  *)

Taking == {"open", "path", "hash", "move", "upsert"}

\* What a goroutine does, by what it is.
RoleOf(g, r) ==
  /\ r.pc \in Taking => g # Scanner /\ r.path \notin Convertible
  /\ g \in Workers => r.pc \in {"idle"} \cup Taking
  /\ g = Scanner => r.pc \in {"idle", "handoff"}
  /\ r.pc = "handoff" => r.path \in Convertible /\ r.look # None
  /\ r.pc \in {"gone", "flag"} => r.look = None

Roles == \A g \in Agents : RoleOf(g, agent[g])

Turns ==
  /\ \A w \in Workers : agent[w].pc # "idle" => scan.pc = "work"
  /\ agent[Scanner].pc # "idle" => scan.pc = "end"

\* The row it is about to flag is of its path, that it is about to move no upload.
HoldsRow(r) ==
  rows[r.id] # None =>
    /\ r.pc = "flag" => rows[r.id].path = r.path
    /\ r.pc = "move" => rows[r.id].source # "upload"
RowsHeld == \A g \in Agents : HoldsRow(agent[g])

Placed ==
  \A i \in Ids : rows[i] # None =>
    /\ rows[i].source \in OwnSources => rows[i].path \in Paths
    /\ rows[i].source = "upload" => rows[i].path = Filed

SeenIsHanded == \A p \in Paths : convertSeen[p] # None => convertSeen[p] \in handed[p]

Phases ==
  /\ calm = "yes" => scan.pc = "idle"
  /\ calm = "scan" => scan.pc # "idle"
  /\ scan.pc # "end" => scan.lost = {}

Ground == Safe /\ Roles /\ Turns /\ RowsHeld /\ Placed /\ SeenIsHanded /\ Phases

\* What goroutines there are.
LEMMA AgentKinds ==
  /\ Watcher \in Agents /\ Scanner \in Agents /\ Workers \subseteq Agents
  /\ Watcher \notin Workers /\ Scanner \notin Workers /\ Watcher # Scanner
BY LibraryScanAssumption DEF LibraryScanAssumption, Agents

LEMMA ConvertiblePaths ==
  /\ Convertible \subseteq Paths /\ None \notin Contents /\ Filed \notin Paths
  /\ \A p \in Paths : \E n \in 1 .. Len(Order) : Order[n] = p
BY LibraryScanAssumption DEF LibraryScanAssumption, Paths

LEMMA InitGround == Init => Ground
<1> SUFFICES ASSUME Init PROVE Ground
  OBVIOUS
<1>1. Safe
  BY InitSafe
<1>2. \A g \in Agents : agent[g] = Idle
  BY DEF Init
<1>3. Roles
  BY <1>2 DEF Roles, RoleOf, Idle, Taking
<1>4. Turns /\ RowsHeld
  BY <1>2, AgentKinds DEF Turns, RowsHeld, HoldsRow, Idle
<1>5. Placed /\ SeenIsHanded /\ Phases
  BY DEF Init, NewScan, Placed, SeenIsHanded, Phases
<1> QED BY <1>1, <1>3, <1>4, <1>5 DEF Ground

-----------------------------------------------------------------------------
(* How a goroutine goes on.                                                *)

\* Step of goroutine a alone, to r.
Becomes(a, r) == agent'[a] = r /\ \A b \in Agents \ {a} : agent'[b] = agent[b]

LEMMA Becoming ==
  ASSUME Safe, NEW a \in Agents
  PROVE  /\ \A r : agent' = [agent EXCEPT ![a] = r] => Becomes(a, r)
         /\ Rests(a) => Becomes(a, Idle)
BY OneMoves DEF Safe, Becomes, Rests

\* It reads its path, or goes on with it.
OpensAs(a, r) ==
  \/ r = Idle /\ disk[agent[a].path] \notin Contents
  \/ r.pc = "path" /\ r.path = agent[a].path /\ r.look = disk[r.path]
GoesAs(a, r) ==
  r.pc \in {"hash", "move", "upsert"} /\ r.path = agent[a].path /\ r.look = agent[a].look

LEMMA ReadsAs ==
  ASSUME Safe, NEW a \in Agents, NEW p, Reads(a, p)
  PROVE  \E r : Becomes(a, r) /\ \/ r = Idle /\ disk[p] \notin Contents
                                 \/ r.pc = "path" /\ r.path = p /\ r.look = disk[p]
<1> DEFINE r == IF disk[p] \in Contents
                THEN [pc |-> "path", path |-> p, look |-> disk[p], id |-> None] ELSE Idle
<1>1. Becomes(a, r)
  BY Becoming DEF Reads
<1>2. \/ r = Idle /\ disk[p] \notin Contents
      \/ r.pc = "path" /\ r.path = p /\ r.look = disk[p]
  OBVIOUS
<1> HIDE DEF r
<1> QED BY <1>1, <1>2

LEMMA StatsAs ==
  ASSUME Safe, NEW a \in Agents, NEW p, Stats(a, p)
  PROVE  \E r : Becomes(a, r) /\ \/ r = Idle /\ disk[p] = None
                                 \/ r.pc = "handoff" /\ r.path = p /\ r.look = disk[p] /\ disk[p] # None
<1> DEFINE r == IF disk[p] # None
                THEN [pc |-> "handoff", path |-> p, look |-> disk[p], id |-> None] ELSE Idle
<1>1. Becomes(a, r)
  BY Becoming DEF Stats
<1>2. \/ r = Idle /\ disk[p] = None
      \/ r.pc = "handoff" /\ r.path = p /\ r.look = disk[p] /\ disk[p] # None
  OBVIOUS
<1> HIDE DEF r
<1> QED BY <1>1, <1>2

\* Under the lock nothing but an upload's row, or a row in the way, ends a
\* record before its upsert, and there are no such rows.
LEMMA RecordsOn ==
  ASSUME Ground, NEW a \in Agents, Recording(a)
  PROVE  /\ agent[a].pc \in Taking /\ agent[a].path \in Paths \ Convertible
         /\ UNCHANGED <<disk, scan, watch, hand>>
         /\ \E r : Becomes(a, r) /\
              \/ Opens(a) /\ OpensAs(a, r) /\ UNCHANGED <<rows, calm>>
              \/ FindsPath(a) /\ GoesAs(a, r) /\ r.pc # "move" /\ UNCHANGED <<rows, calm>>
              \/ FindsContent(a) /\ GoesAs(a, r) /\ r.id \in Ids /\ UNCHANGED <<rows, calm>>
                 /\ (r.pc = "move" => rows[r.id] # None /\ Moved(a, r.id))
              \/ Moves(a) /\ GoesAs(a, r) /\ r.pc = "upsert"
              \/ Upserts(a) /\ r = Idle
<1>0. AgentOK(agent[a]) /\ agent[a] \in AgentType
  BY AgentFacts DEF Ground, Safe
<1>1. /\ agent[a].pc \in Taking
      /\ UNCHANGED <<disk, scan, watch, hand>>
  BY DEF Recording, Opens, FindsPath, FindsContent, Moves, Upserts, Taking
<1>2. agent[a].path \in Paths \ Convertible
  BY <1>0, <1>1 DEF Ground, Roles, RoleOf, AgentOK, Taking
<1>3. CASE Opens(a)
  <2>1. UNCHANGED <<rows, calm>> /\ Reads(a, agent[a].path)
    BY <1>3 DEF Opens, history
  <2>2. PICK r : Becomes(a, r) /\ \/ r = Idle /\ disk[agent[a].path] \notin Contents
                                  \/ /\ r.pc = "path" /\ r.path = agent[a].path
                                     /\ r.look = disk[agent[a].path]
    BY <2>1, ReadsAs DEF Ground
  <2>3. OpensAs(a, r)
    BY <2>2 DEF OpensAs
  <2> QED BY <1>1, <1>2, <1>3, <2>1, <2>2, <2>3
<1>4. CASE FindsPath(a)
  <2>1. UNCHANGED <<rows, calm>>
    BY <1>4 DEF FindsPath, history
  <2>2. CASE Goes(a, "hash")
    <3> DEFINE r == [agent[a] EXCEPT !.pc = "hash"]
    <3>1. Becomes(a, r)
      BY <2>2, Becoming DEF Goes, Ground
    <3>2. GoesAs(a, r) /\ r.pc # "move"
      BY <1>0 DEF GoesAs, AgentType
    <3> HIDE DEF r
    <3> QED BY <1>1, <1>2, <1>4, <2>1, <3>1, <3>2
  <2>3. ASSUME NEW i \in Ids, agent' = [agent EXCEPT ![a].pc = "upsert", ![a].id = i]
        PROVE  \E r : Becomes(a, r) /\ GoesAs(a, r) /\ r.pc # "move"
    <3> DEFINE r == [agent[a] EXCEPT !.pc = "upsert", !.id = i]
    <3>1. Becomes(a, r)
      BY <2>3, Becoming DEF Ground
    <3>2. GoesAs(a, r) /\ r.pc # "move"
      BY <1>0 DEF GoesAs, AgentType
    <3> HIDE DEF r
    <3> QED BY <3>1, <3>2
  <2>4. \A i \in At(agent[a].path) : i \in Ids /\ rows[i].source # "upload"
    BY <1>2, ConvertiblePaths DEF At, Ground, Placed
  <2> QED BY <1>1, <1>2, <1>4, <2>1, <2>2, <2>3, <2>4 DEF FindsPath
<1>5. CASE FindsContent(a)
  <2>1. UNCHANGED <<rows, calm>>
    BY <1>5 DEF FindsContent, history
  <2>2. ASSUME NEW i \in Ids, NEW pc \in {"move", "upsert"},
               agent' = [agent EXCEPT ![a].pc = pc, ![a].id = i]
        PROVE  \E r : Becomes(a, r) /\ GoesAs(a, r) /\ r.id = i /\ r.pc = pc
    <3> DEFINE r == [agent[a] EXCEPT !.pc = pc, !.id = i]
    <3>1. Becomes(a, r)
      BY <2>2, Becoming DEF Ground
    <3>2. GoesAs(a, r) /\ r.id = i /\ r.pc = pc
      BY <1>0 DEF GoesAs, AgentType
    <3> HIDE DEF r
    <3> QED BY <3>1, <3>2
  <2>3. ASSUME NEW i \in OfContent(agent[a].look), Moved(a, i),
               agent' = [agent EXCEPT ![a].pc = "move", ![a].id = i]
        PROVE  \E r : Becomes(a, r) /\ GoesAs(a, r) /\ r.id \in Ids
                      /\ (r.pc = "move" => rows[r.id] # None /\ Moved(a, r.id))
    <3>1. i \in Ids /\ rows[i] # None
      BY DEF OfContent
    <3>2. PICK r : Becomes(a, r) /\ GoesAs(a, r) /\ r.id = i /\ r.pc = "move"
      BY <2>2, <2>3, <3>1
    <3>3. Moved(a, r.id)
      BY <2>3, <3>2
    <3> QED BY <3>1, <3>2, <3>3
  <2>4. (\E i \in Ids : Unused(i)) => NewID \in Ids
    BY NewIDFact
  <2>5. ASSUME \E i \in Ids : Unused(i), agent' = [agent EXCEPT ![a].pc = "upsert", ![a].id = NewID]
        PROVE  \E r : Becomes(a, r) /\ GoesAs(a, r) /\ r.id \in Ids /\ r.pc = "upsert"
    <3>1. NewID \in Ids
      BY <2>4, <2>5
    <3> HIDE DEF NewID
    <3>2. PICK r : Becomes(a, r) /\ GoesAs(a, r) /\ r.id = NewID /\ r.pc = "upsert"
      BY <2>2, <2>5, <3>1
    <3> QED BY <3>1, <3>2
  <2>6. \E r : Becomes(a, r) /\ GoesAs(a, r) /\ r.id \in Ids
               /\ (r.pc = "move" => rows[r.id] # None /\ Moved(a, r.id))
    BY <1>5, <2>3, <2>5 DEF FindsContent
  <2> QED BY <1>1, <1>2, <1>5, <2>1, <2>6
<1>6. CASE Moves(a)
  <2> DEFINE r == [agent[a] EXCEPT !.pc = "upsert"]
  <2>1. At(agent[a].path) = {}
    BY <1>6 DEF Moves, Ground, Safe, ReadHolds
  <2>2. Goes(a, "upsert")
    BY <1>6, <2>1 DEF Moves
  <2>3. Becomes(a, r)
    BY <2>2, Becoming DEF Goes, Ground
  <2>4. GoesAs(a, r) /\ r.pc = "upsert"
    BY <1>0 DEF GoesAs, AgentType
  <2> HIDE DEF r
  <2> QED BY <1>1, <1>2, <1>6, <2>3, <2>4
<1>7. CASE Upserts(a)
  BY <1>1, <1>2, <1>7, Becoming DEF Upserts, Ground
<1> QED BY <1>3, <1>4, <1>5, <1>6, <1>7 DEF Recording

-----------------------------------------------------------------------------
(* The ground is kept.                                                     *)

\* Rows that stay do so at their path, on their shelf or the other one; a new
\* one is filed, and nobody has it in hand.
RowsFollow ==
  \A i \in Ids : rows'[i] # None =>
    \/ /\ rows[i] # None /\ rows'[i].path = rows[i].path
       /\ \/ rows'[i].source = rows[i].source
          \/ rows'[i].source \in OwnSources /\ rows[i].source \in OwnSources
    \/ /\ rows'[i].path = Filed /\ rows'[i].source \notin OwnSources
       /\ \A a \in Agents : agent[a].id # i

\* Nobody finds a row to move or to flag.
FindsNoRow == \A g \in Agents : agent'[g].pc \in {"move", "flag"} => agent'[g] = agent[g]

LEMMA RowsFollowOn ==
  ASSUME Ground, RowsFollow
  PROVE  Placed' /\ (FindsNoRow => RowsHeld')
<1>1. Placed'
  <2> SUFFICES ASSUME NEW i \in Ids, rows'[i] # None
               PROVE  /\ rows'[i].source \in OwnSources => rows'[i].path \in Paths
                      /\ rows'[i].source = "upload" => rows'[i].path = Filed
    BY DEF Placed
  <2> QED BY DEF RowsFollow, Ground, Placed, OwnSources
<1>2. ASSUME FindsNoRow PROVE RowsHeld'
  <2> SUFFICES ASSUME NEW g \in Agents, agent'[g].pc \in {"move", "flag"}, rows'[agent'[g].id] # None
               PROVE  /\ agent'[g].pc = "flag" => rows'[agent'[g].id].path = agent'[g].path
                      /\ agent'[g].pc = "move" => rows'[agent'[g].id].source # "upload"
    BY DEF RowsHeld, HoldsRow
  <2>1. agent'[g] = agent[g] /\ agent[g].id \in Ids
    BY <1>2, AgentFacts DEF FindsNoRow, Ground, Safe, AgentOK
  <2>2. PICK i \in Ids : i = agent[g].id
    BY <2>1
  <2>3. /\ rows[i] # None /\ rows'[i].path = rows[i].path
        /\ \/ rows'[i].source = rows[i].source
           \/ rows'[i].source \in OwnSources
    BY <2>1, <2>2 DEF RowsFollow
  <2>4. /\ agent[g].pc = "flag" => rows[i].path = agent[g].path
        /\ agent[g].pc = "move" => rows[i].source # "upload"
    BY <2>2, <2>3 DEF Ground, RowsHeld, HoldsRow
  <2> QED BY <2>1, <2>2, <2>3, <2>4 DEF OwnSources
<1> QED BY <1>1, <1>2

LEMMA SameRowsFollow == UNCHANGED rows => RowsFollow
BY DEF RowsFollow

LEMMA FlaggedFollow ==
  ASSUME Ground, NEW i \in Ids, rows' = FlaggedMissing(i)
  PROVE  RowsFollow
<1>1. rows \in [Ids -> Row \cup {None}]
  BY DEF Ground, Safe, Typed, RowsTyped
<1>2. \A j \in Ids : rows'[j] # None =>
        rows[j] # None /\ rows'[j].path = rows[j].path /\ rows'[j].source = rows[j].source
  BY <1>1 DEF FlaggedMissing, Row
<1> QED BY <1>2 DEF RowsFollow

\* What a goroutine writes of its row, and that it changes no other.
LEMMA MovesRow ==
  ASSUME Ground, NEW a \in Agents, Moves(a)
  PROVE  /\ agent[a].id \in Ids /\ agent[a].path \in Paths
         /\ At(agent[a].path) = {} /\ Goes(a, "upsert")
         /\ \A j \in Ids \ {agent[a].id} : rows'[j] = rows[j]
         /\ rows[agent[a].id] = None => rows'[agent[a].id] = None
         /\ rows[agent[a].id] # None =>
              /\ rows'[agent[a].id] # None
              /\ rows'[agent[a].id].path = agent[a].path
              /\ rows'[agent[a].id].source = rows[agent[a].id].source
              /\ rows[agent[a].id].source # "upload"
<1> DEFINE i == agent[a].id
           p == agent[a].path
<1>1. rows \in [Ids -> Row \cup {None}] /\ AgentOK(agent[a])
  BY AgentFacts DEF Ground, Safe, Typed, RowsTyped
<1>2. i \in Ids /\ p \in Paths /\ At(p) = {}
  BY <1>1 DEF Moves, AgentOK, Ground, Safe, ReadHolds
<1>3. /\ rows' = [rows EXCEPT ![i] =
             IF @ = None THEN None ELSE [@ EXCEPT !.path = p, !.missing = FALSE]]
      /\ Goes(a, "upsert")
  BY <1>2 DEF Moves
<1>4. (\A j \in Ids \ {i} : rows'[j] = rows[j]) /\ (rows[i] = None => rows'[i] = None)
  BY <1>1, <1>2, <1>3
<1>5. ASSUME rows[i] # None
      PROVE  rows'[i] # None /\ rows'[i].path = p /\ rows'[i].source = rows[i].source
  <2>1. rows[i] \in Row /\ rows'[i] = [rows[i] EXCEPT !.path = p, !.missing = FALSE]
    BY <1>1, <1>2, <1>3, <1>5
  <2>2. rows'[i] \in Row
    BY <1>2, <2>1 DEF Row
  <2> QED BY <2>1, <2>2, LibraryScanAssumption DEF Row, LibraryScanAssumption
<1>6. rows[i] # None => rows[i].source # "upload"
  BY DEF Moves, Ground, RowsHeld, HoldsRow
<1> QED BY <1>2, <1>3, <1>4, <1>5, <1>6

LEMMA UpsertsRow ==
  ASSUME Ground, NEW a \in Agents, Upserts(a)
  PROVE  /\ agent[a].path \in Paths /\ agent[a].look \in Contents /\ Rests(a)
         /\ \A j \in Ids : \/ /\ rows'[j] = rows[j]
                              /\ rows[j] # None => rows[j].path # agent[a].path
                           \/ /\ rows[j] # None /\ rows[j].path = agent[a].path
                              /\ rows'[j] = Refreshed(rows[j], agent[a].look)
                           \/ /\ rows[j] = None /\ At(agent[a].path) = {}
                              /\ rows'[j] = [path |-> agent[a].path, hash |-> agent[a].look,
                                             missing |-> FALSE, source |-> "library"]
         /\ \E j \in AtNext(agent[a].path) :
              rows'[j].hash = agent[a].look /\ ~rows'[j].missing
<1> DEFINE i == agent[a].id
           p == agent[a].path
           h == agent[a].look
<1>1. rows \in [Ids -> Row \cup {None}] /\ AgentOK(agent[a])
  BY AgentFacts DEF Ground, Safe, Typed, RowsTyped
<1>2. i \in Ids /\ p \in Paths /\ h \in Contents /\ Rests(a)
  BY <1>1 DEF Upserts, AgentOK
<1>3. At(p) \subseteq {i} /\ (rows[i] # None => i \in At(p))
  BY DEF Upserts, Ground, Safe, ReadHolds
<1>4. CASE At(p) # {}
  <2>1. rows' = [j \in Ids |-> IF j \in At(p) THEN Refreshed(rows[j], h) ELSE rows[j]]
    BY <1>4 DEF Upserts
  <2>2. \A j \in Ids : j \in At(p) => rows'[j] = Refreshed(rows[j], h)
    BY <2>1
  <2>3. \A j \in Ids : j \notin At(p) => rows'[j] = rows[j]
    BY <2>1
  <2>4. PICK j \in At(p) : j \in Ids /\ rows[j] \in Row /\ rows[j].path = p
    BY <1>1, <1>4 DEF At
  <2>5. Refreshed(rows[j], h) \in Row /\ Refreshed(rows[j], h).path = p
        /\ Refreshed(rows[j], h).hash = h /\ ~Refreshed(rows[j], h).missing
    BY <1>2, <2>4 DEF Refreshed, Row
  <2>6. rows'[j] # None
    BY <2>2, <2>4, <2>5, LibraryScanAssumption DEF LibraryScanAssumption
  <2>7. j \in AtNext(p) /\ rows'[j].hash = h /\ ~rows'[j].missing
    BY <2>2, <2>4, <2>5, <2>6 DEF AtNext
  <2>8. \A k \in Ids : k \in At(p) <=> rows[k] # None /\ rows[k].path = p
    BY DEF At
  <2>9. \A k \in Ids : \/ /\ rows'[k] = rows[k]
                          /\ rows[k] # None => rows[k].path # p
                       \/ /\ rows[k] # None /\ rows[k].path = p
                          /\ rows'[k] = Refreshed(rows[k], h)
    BY <2>2, <2>3, <2>8
  <2> QED BY <1>2, <2>7, <2>9
<1>5. CASE At(p) = {}
  <2>1. rows[i] = None
    BY <1>3, <1>5
  <2>2. rows' = [rows EXCEPT ![i] =
          [path |-> p, hash |-> h, missing |-> FALSE, source |-> "library"]]
    BY <1>5, <2>1 DEF Upserts
  <2>3. \A j \in Ids \ {i} : rows'[j] = rows[j]
    BY <2>2
  <2>4. rows'[i] = [path |-> p, hash |-> h, missing |-> FALSE, source |-> "library"]
    BY <1>1, <1>2, <2>2
  <2>5. rows'[i] # None
    <3>1. rows'[i] \in Row
      BY <1>2, <2>4 DEF Row
    <3> QED BY <3>1, LibraryScanAssumption DEF LibraryScanAssumption
  <2>6. i \in AtNext(p) /\ rows'[i].hash = h /\ ~rows'[i].missing
    BY <1>2, <2>4, <2>5 DEF AtNext
  <2>7. \A j \in Ids : rows[j] # None => rows[j].path # p
    BY <1>5 DEF At
  <2>8. \A j \in Ids : j # i =>
          rows'[j] = rows[j] /\ (rows[j] # None => rows[j].path # p)
    BY <2>3, <2>7
  <2> QED BY <1>2, <1>5, <2>1, <2>4, <2>6, <2>8
<1> QED BY <1>4, <1>5

\* Placed rows stay so: a row that is moved or inserted is of the library.
LEMMA WrittenPlaced ==
  ASSUME Ground, NEW a \in Agents, Moves(a) \/ Upserts(a)
  PROVE  Placed'
<1> SUFFICES ASSUME NEW i \in Ids, rows'[i] # None
             PROVE  /\ rows'[i].source \in OwnSources => rows'[i].path \in Paths
                    /\ rows'[i].source = "upload" => rows'[i].path = Filed
  BY DEF Placed
<1>0. rows[i] # None =>
        /\ rows[i] \in Row
        /\ rows[i].source \in OwnSources => rows[i].path \in Paths
        /\ rows[i].source = "upload" => rows[i].path = Filed
  BY DEF Ground, Placed, Safe, Typed, RowsTyped
<1>1. CASE Moves(a)
  <2>1. CASE i = agent[a].id
    BY <1>1, <2>1, MovesRow
  <2>2. CASE i # agent[a].id
    <3>1. rows'[i] = rows[i]
      BY <1>1, <2>2, MovesRow
    <3> QED BY <1>0, <3>1
  <2> QED BY <2>1, <2>2
<1>2. CASE Upserts(a)
  <2>1. agent[a].path \in Paths
    BY <1>2, UpsertsRow
  <2>2. \/ rows'[i] = rows[i]
        \/ rows[i] # None /\ rows'[i] = Refreshed(rows[i], agent[a].look)
        \/ rows'[i] = [path |-> agent[a].path, hash |-> agent[a].look,
                       missing |-> FALSE, source |-> "library"]
    BY <1>2, UpsertsRow
  <2>3. CASE rows'[i] = rows[i]
    BY <1>0, <2>3
  <2>4. CASE rows[i] # None /\ rows'[i] = Refreshed(rows[i], agent[a].look)
    <3>1. rows'[i].path = rows[i].path /\ rows'[i].source = rows[i].source
      BY <1>0, <2>4 DEF Refreshed, Row
    <3> QED BY <1>0, <2>4, <3>1
  <2>5. CASE rows'[i] = [path |-> agent[a].path, hash |-> agent[a].look,
                         missing |-> FALSE, source |-> "library"]
    BY <2>1, <2>5
  <2> QED BY <2>2, <2>3, <2>4, <2>5
<1> QED BY <1>1, <1>2

\* When one goroutine goes on to r, and the scan stays where it is.
LEMMA OneGoesOn ==
  ASSUME Ground, NEW a \in Agents, NEW r, Becomes(a, r), RoleOf(a, r), UNCHANGED scan,
         r.pc # "idle" => agent[a].pc # "idle" \/ a = Watcher
  PROVE  Roles' /\ Turns'
<1>1. Roles'
  <2> SUFFICES ASSUME NEW g \in Agents PROVE RoleOf(g, agent'[g])
    BY DEF Roles
  <2> QED BY DEF Ground, Roles, Becomes
<1>2. Turns'
  <2>1. (\A w \in Workers : agent[w].pc # "idle" => scan.pc = "work")
        /\ (agent[Scanner].pc # "idle" => scan.pc = "end")
    BY DEF Ground, Turns
  <2>2. \A g \in Agents \ {Watcher} : agent'[g].pc # "idle" => agent[g].pc # "idle"
    BY DEF Becomes
  <2> QED BY <2>1, <2>2, AgentKinds DEF Turns
<1> QED BY <1>1, <1>2

LEMMA IdleRole == \A g : RoleOf(g, Idle)
BY DEF RoleOf, Idle, Taking

LEMMA CalmerPhases ==
  ASSUME Ground, UNCHANGED scan, calm' = calm \/ calm' = "no"
  PROVE  Phases'
BY DEF Ground, Phases

LEMMA HandKept == Ground /\ UNCHANGED hand => SeenIsHanded'
BY DEF Ground, SeenIsHanded, hand

LEMMA RecordingGround ==
  ASSUME Ground, NEW a \in Agents, Recording(a)
  PROVE  Roles' /\ Turns' /\ RowsHeld' /\ Placed' /\ SeenIsHanded' /\ Phases'
<1>1. /\ agent[a].pc \in Taking /\ agent[a].path \in Paths \ Convertible
      /\ UNCHANGED <<disk, scan, watch, hand>>
  BY RecordsOn
<1>2. PICK r : Becomes(a, r) /\
              \/ Opens(a) /\ OpensAs(a, r) /\ UNCHANGED <<rows, calm>>
              \/ FindsPath(a) /\ GoesAs(a, r) /\ r.pc # "move" /\ UNCHANGED <<rows, calm>>
              \/ FindsContent(a) /\ GoesAs(a, r) /\ r.id \in Ids /\ UNCHANGED <<rows, calm>>
                 /\ (r.pc = "move" => rows[r.id] # None /\ Moved(a, r.id))
              \/ Moves(a) /\ GoesAs(a, r) /\ r.pc = "upsert"
              \/ Upserts(a) /\ r = Idle
  BY RecordsOn
<1>3. r = Idle \/ (r.pc \in {"path", "hash", "move", "upsert"} /\ r.path = agent[a].path)
  BY <1>2 DEF OpensAs, GoesAs
<1>4. RoleOf(a, r)
  <2>1. RoleOf(a, agent[a])
    BY DEF Ground, Roles
  <2> QED BY <1>1, <1>3, <2>1, IdleRole DEF RoleOf, Taking
<1>5. Roles' /\ Turns'
  BY <1>1, <1>2, <1>4, OneGoesOn DEF Taking
<1>6. SeenIsHanded'
  BY <1>1, HandKept
<1>7. Phases'
  <2>1. calm' = calm \/ calm' = "no"
    BY <1>2 DEF Moves, Upserts, Unsettles
  <2> QED BY <1>1, <2>1, CalmerPhases
<1>8. CASE UNCHANGED rows /\ (r.pc = "move" => rows[r.id] # None /\ Moved(a, r.id))
  <2>1. Placed'
    BY <1>8, SameRowsFollow, RowsFollowOn
  <2>2. ASSUME NEW g \in Agents PROVE HoldsRow(agent'[g])
    <3>1. CASE g = a
      BY <1>2, <1>3, <1>8, <3>1 DEF Becomes, HoldsRow, Idle, Moved
    <3>2. CASE g # a
      BY <1>2, <3>2 DEF Becomes, Ground, RowsHeld
    <3> QED BY <3>1, <3>2
  <2>3. RowsHeld'
    BY <1>8, <2>2 DEF RowsHeld, HoldsRow
  <2> QED BY <1>5, <1>6, <1>7, <2>1, <2>3
<1>9. CASE (Moves(a) /\ r.pc = "upsert") \/ (Upserts(a) /\ r = Idle)
  <2>1. Placed'
    BY <1>9, WrittenPlaced
  <2>2. \A b \in Agents \ {a} : ~Locked(b)
    BY <1>9, Alone DEF Moves, Upserts, Locked, Ground
  <2>3. \A g \in Agents : agent'[g].pc \notin {"move", "flag"}
    BY <1>2, <1>9, <2>2 DEF Becomes, Locked, Idle
  <2>4. RowsHeld'
    BY <2>3 DEF RowsHeld, HoldsRow
  <2> QED BY <1>5, <1>6, <1>7, <2>1, <2>4
<1>10. OpensAs(a, r) => r.pc # "move"
  BY DEF OpensAs, Idle
<1> QED BY <1>2, <1>8, <1>9, <1>10

LEMMA HandsOffGround ==
  ASSUME Ground, NEW a \in Agents, HandsOff(a)
  PROVE  Roles' /\ Turns' /\ RowsHeld' /\ Placed' /\ SeenIsHanded' /\ Phases'
<1>1. Becomes(a, Idle) /\ UNCHANGED <<disk, rows, scan, watch, history>>
  BY Becoming DEF HandsOff, Ground
<1>2. Roles' /\ Turns'
  BY <1>1, IdleRole, OneGoesOn DEF Idle
<1>3. Placed' /\ RowsHeld'
  <2>1. FindsNoRow
    BY <1>1 DEF FindsNoRow, Becomes, Idle
  <2> QED BY <1>1, <2>1, SameRowsFollow, RowsFollowOn
<1>4. SeenIsHanded'
  <2>1. agent[a].path \in Paths /\ agent[a].look \in Looks
    BY AgentFacts DEF HandsOff, AgentOK, AgentType, Ground, Safe
  <2>2. convertSeen \in [Paths -> Looks] /\ handed \in [Paths -> SUBSET Looks]
    BY DEF Ground, Safe, Typed, OthersTyped
  <2>3. CASE UNCHANGED hand
    BY <2>3, HandKept
  <2>4. CASE /\ convertSeen' = [convertSeen EXCEPT ![agent[a].path] = agent[a].look]
             /\ handed' = [handed EXCEPT ![agent[a].path] = @ \cup {agent[a].look}]
    <3>1. \A p \in Paths : p # agent[a].path =>
            convertSeen'[p] = convertSeen[p] /\ handed'[p] = handed[p]
      BY <2>1, <2>2, <2>4
    <3>2. convertSeen'[agent[a].path] = agent[a].look /\ agent[a].look \in handed'[agent[a].path]
      BY <2>1, <2>2, <2>4
    <3> QED BY <3>1, <3>2 DEF Ground, SeenIsHanded
  <2> QED BY <2>3, <2>4 DEF HandsOff
<1>5. Phases'
  BY <1>1, CalmerPhases DEF history
<1> QED BY <1>2, <1>3, <1>4, <1>5

\* What the watcher takes up.
LEMMA WatchesOn ==
  ASSUME Ground, Watching
  PROVE  /\ UNCHANGED <<disk, scan, hand>>
         /\ \E r : Becomes(Watcher, r) /\
              \/ Handles /\ UNCHANGED <<rows, calm>>
                 /\ r.pc \in {"gone", "settle"} /\ (r.pc = "gone" => r.look = None)
              \/ Settles /\ UNCHANGED <<rows, calm>>
                 /\ \/ r = Idle
                    \/ r.pc = "path" /\ r.path \notin Convertible
                    \/ r.pc = "handoff" /\ r.path \in Convertible /\ r.look # None
              \/ FindsGone /\ UNCHANGED <<rows, calm>>
                 /\ \/ r = Idle
                    \/ r.pc = "flag" /\ r.look = None /\ rows[r.id] # None
                       /\ rows[r.id].path = r.path
              \/ Flags /\ r = Idle
<1>0. Watcher \in Agents /\ AgentOK(agent[Watcher]) /\ agent[Watcher] \in AgentType
  BY AgentKinds, AgentFacts DEF Ground, Safe
<1>1. UNCHANGED <<disk, scan, hand>>
  BY DEF Watching, Handles, Settles, FindsGone, Flags
<1>2. CASE Handles
  <2>1. PICK p \in armed : agent' = [agent EXCEPT ![Watcher] =
             [pc |-> IF disk[p] = None THEN "gone" ELSE "settle",
              path |-> p, look |-> disk[p], id |-> None]]
    BY <1>2 DEF Handles
  <2> DEFINE r == [pc |-> IF disk[p] = None THEN "gone" ELSE "settle",
                   path |-> p, look |-> disk[p], id |-> None]
  <2>2. Becomes(Watcher, r)
    BY <1>0, <2>1, Becoming DEF Ground
  <2>3. r.pc \in {"gone", "settle"} /\ (r.pc = "gone" => r.look = None)
    OBVIOUS
  <2>4. UNCHANGED <<rows, calm>>
    BY <1>2 DEF Handles, history
  <2> HIDE DEF r
  <2> QED BY <1>1, <1>2, <2>2, <2>3, <2>4
<1>3. CASE Settles
  <2> DEFINE p == agent[Watcher].path
  <2>1. UNCHANGED <<rows, calm>>
    BY <1>3 DEF Settles, history
  <2>2. CASE p \in Convertible /\ Stats(Watcher, p)
    <3>1. PICK r : /\ Becomes(Watcher, r)
                   /\ \/ r = Idle /\ disk[p] = None
                      \/ r.pc = "handoff" /\ r.path = p /\ r.look = disk[p] /\ disk[p] # None
      BY <1>0, <2>2, StatsAs DEF Ground
    <3>2. r = Idle \/ (r.pc = "handoff" /\ r.path \in Convertible /\ r.look # None)
      BY <2>2, <3>1
    <3> QED BY <1>1, <1>3, <2>1, <3>1, <3>2
  <2>3. CASE p \notin Convertible /\ Reads(Watcher, p)
    <3>1. PICK r : /\ Becomes(Watcher, r)
                   /\ \/ r = Idle /\ disk[p] \notin Contents
                      \/ r.pc = "path" /\ r.path = p /\ r.look = disk[p]
      BY <1>0, <2>3, ReadsAs DEF Ground
    <3>2. r = Idle \/ (r.pc = "path" /\ r.path \notin Convertible)
      BY <2>3, <3>1
    <3> QED BY <1>1, <1>3, <2>1, <3>1, <3>2
  <2>4. CASE Rests(Watcher)
    BY <1>0, <1>1, <1>3, <2>1, <2>4, Becoming DEF Ground
  <2> QED BY <1>3, <2>2, <2>3, <2>4 DEF Settles
<1>4. CASE FindsGone
  <2>1. UNCHANGED <<rows, calm>>
    BY <1>4 DEF FindsGone, history
  <2>2. CASE Rests(Watcher)
    BY <1>0, <1>1, <1>4, <2>1, <2>2, Becoming DEF Ground
  <2>3. ASSUME NEW i \in At(agent[Watcher].path),
               agent' = [agent EXCEPT ![Watcher].pc = "flag", ![Watcher].id = i]
        PROVE  \E r : /\ Becomes(Watcher, r)
                      /\ r.pc = "flag" /\ r.look = None /\ rows[r.id] # None
                      /\ rows[r.id].path = r.path
    <3> DEFINE r == [agent[Watcher] EXCEPT !.pc = "flag", !.id = i]
    <3>1. Becomes(Watcher, r)
      BY <1>0, <2>3, Becoming DEF Ground
    <3>2. agent[Watcher].look = None
      BY <1>0, <1>4 DEF FindsGone, Ground, Roles, RoleOf
    <3>3. r.pc = "flag" /\ r.look = None /\ r.id = i /\ r.path = agent[Watcher].path
      BY <1>0, <3>2 DEF AgentType
    <3>4. rows[i] # None /\ rows[i].path = agent[Watcher].path
      BY DEF At
    <3> HIDE DEF r
    <3> QED BY <3>1, <3>3, <3>4
  <2> QED BY <1>1, <1>4, <2>1, <2>2, <2>3 DEF FindsGone
<1>5. CASE Flags
  BY <1>0, <1>1, <1>5, Becoming DEF Flags, Ground
<1> QED BY <1>2, <1>3, <1>4, <1>5 DEF Watching

LEMMA WatchingGround ==
  ASSUME Ground, Watching
  PROVE  Roles' /\ Turns' /\ RowsHeld' /\ Placed' /\ SeenIsHanded' /\ Phases'
<1>0. Watcher \in Agents /\ AgentOK(agent[Watcher])
  BY AgentKinds, AgentFacts DEF Ground, Safe
<1>1. UNCHANGED <<disk, scan, hand>>
  BY WatchesOn
<1>2. PICK r : Becomes(Watcher, r) /\
              \/ Handles /\ UNCHANGED <<rows, calm>>
                 /\ r.pc \in {"gone", "settle"} /\ (r.pc = "gone" => r.look = None)
              \/ Settles /\ UNCHANGED <<rows, calm>>
                 /\ \/ r = Idle
                    \/ r.pc = "path" /\ r.path \notin Convertible
                    \/ r.pc = "handoff" /\ r.path \in Convertible /\ r.look # None
              \/ FindsGone /\ UNCHANGED <<rows, calm>>
                 /\ \/ r = Idle
                    \/ r.pc = "flag" /\ r.look = None /\ rows[r.id] # None
                       /\ rows[r.id].path = r.path
              \/ Flags /\ r = Idle
  BY WatchesOn
<1>3. RoleOf(Watcher, r)
  <2>1. \/ r = Idle
        \/ r.pc \in {"gone", "settle"} /\ (r.pc = "gone" => r.look = None)
        \/ r.pc = "path" /\ r.path \notin Convertible
        \/ r.pc = "handoff" /\ r.path \in Convertible /\ r.look # None
        \/ r.pc = "flag" /\ r.look = None
    BY <1>2
  <2> QED BY <2>1, AgentKinds, IdleRole DEF RoleOf, Taking
<1>4. Roles' /\ Turns'
  BY <1>0, <1>1, <1>2, <1>3, OneGoesOn
<1>5. SeenIsHanded'
  BY <1>1, HandKept
<1>6. Phases'
  <2>1. calm' = calm \/ calm' = "no"
    BY <1>2 DEF Flags, Unsettles
  <2> QED BY <1>1, <2>1, CalmerPhases
<1>7. CASE UNCHANGED rows
  <2>1. Placed'
    BY <1>7, SameRowsFollow, RowsFollowOn
  <2>2. ASSUME NEW g \in Agents PROVE HoldsRow(agent'[g])
    <3>1. CASE g = Watcher
      <4>1. r.pc # "move" /\ (r.pc = "flag" => rows[r.id].path = r.path)
        BY <1>2 DEF Idle
      <4> QED BY <1>2, <3>1, <4>1 DEF Becomes, HoldsRow
    <3>2. CASE g # Watcher
      BY <1>2, <3>2 DEF Becomes, Ground, RowsHeld
    <3> QED BY <3>1, <3>2
  <2>3. RowsHeld'
    BY <1>7, <2>2 DEF RowsHeld, HoldsRow
  <2> QED BY <1>4, <1>5, <1>6, <2>1, <2>3
<1>8. CASE Flags /\ r = Idle
  <2>1. RowsFollow
    BY <1>0, <1>8, FlaggedFollow DEF Flags, AgentOK
  <2>2. FindsNoRow
    BY <1>2, <1>8 DEF FindsNoRow, Becomes, Idle
  <2> QED BY <1>4, <1>5, <1>6, <2>1, <2>2, RowsFollowOn
<1> QED BY <1>2, <1>7, <1>8

\* Where a step of the walk leaves the scan.
LEMMA WalksOnTo ==
  ASSUME Typed, NEW found, WalksOn(found)
  PROVE  /\ scan'.pc = IF scan.at = Len(Order) THEN "work" ELSE scan.pc
         /\ scan'.at = IF scan.at = Len(Order) THEN 1 ELSE scan.at + 1
         /\ scan'.seen = scan.seen \cup found /\ scan'.lost = scan.lost
BY DEF WalksOn, Typed, ScanTyped

\* The place alone changes.
LEMMA PlaceMoves ==
  ASSUME Typed, NEW n \in Int, scan' = [scan EXCEPT !.at = n + 1]
  PROVE  scan'.pc = scan.pc /\ scan'.at = n + 1 /\ scan'.seen = scan.seen /\ scan'.lost = scan.lost
BY DEF Typed, ScanTyped

\* A scan moves on while every goroutine that may be in its way rests.
LEMMA ScanMovesOn ==
  ASSUME Ground, UNCHANGED agent,
         (scan.pc = "work" /\ scan'.pc # "work") => \A w \in Workers : Resting(w),
         (scan.pc = "end" /\ scan'.pc # "end") => Resting(Scanner)
  PROVE  Roles' /\ Turns'
<1>1. Roles'
  BY DEF Ground, Roles
<1>2. Turns'
  BY DEF Ground, Turns, Resting
<1> QED BY <1>1, <1>2

LEMMA StillGround ==
  ASSUME Ground, UNCHANGED <<rows, agent>>
  PROVE  RowsHeld' /\ Placed'
<1>1. FindsNoRow
  BY DEF FindsNoRow
<1> QED BY <1>1, SameRowsFollow, RowsFollowOn

LEMMA ScanningGround ==
  ASSUME Ground, Scanning
  PROVE  Roles' /\ Turns' /\ RowsHeld' /\ Placed' /\ SeenIsHanded' /\ Phases'
<1>1. UNCHANGED <<disk, hand>>
  BY DEF Scanning, Walks, Lists, Marks, Converts, ScanEnds
<1>2. SeenIsHanded'
  BY <1>1, HandKept
<1>3. scan.lost = {} \/ scan.pc = "end"
  BY DEF Ground, Phases
<1>4. scan \in [pc : {"idle", "walk", "work", "end"}, at : 1 .. Len(Order) + 1,
                seen : SUBSET Paths, lost : SUBSET Ids]
  BY DEF Ground, Safe, Typed, ScanTyped
<1>5. CASE Walks
  <2>1. /\ scan'.pc = IF scan.at = Len(Order) THEN "work" ELSE scan.pc
        /\ scan'.lost = scan.lost /\ scan.pc = "walk"
    BY <1>5, WalksOnTo DEF Walks, Ground, Safe
  <2>2. UNCHANGED <<rows, agent, calm>>
    BY <1>5 DEF Walks, history
  <2>3. Roles' /\ Turns' /\ RowsHeld' /\ Placed'
    BY <2>1, <2>2, ScanMovesOn, StillGround
  <2>4. Phases'
    BY <1>3, <2>1, <2>2 DEF Ground, Phases
  <2> QED BY <1>2, <2>3, <2>4
<1>6. CASE Lists
  <2>1. scan'.pc = "end" /\ scan.pc = "work" /\ \A w \in Workers : Resting(w)
    BY <1>4, <1>6 DEF Lists
  <2>2. UNCHANGED <<rows, agent, calm>>
    BY <1>6 DEF Lists, history
  <2>3. Roles' /\ Turns' /\ RowsHeld' /\ Placed'
    BY <2>1, <2>2, ScanMovesOn, StillGround
  <2>4. Phases'
    BY <2>1, <2>2 DEF Ground, Phases
  <2> QED BY <1>2, <2>3, <2>4
<1>7. CASE Marks
  <2>1. PICK i \in scan.lost : scan' = [scan EXCEPT !.lost = @ \ {i}] /\ rows' = FlaggedMissing(i)
    BY <1>7 DEF Marks
  <2>2. scan'.pc = scan.pc /\ scan.pc = "end" /\ i \in Ids
    BY <1>4, <1>7, <2>1 DEF Marks
  <2>3. UNCHANGED <<agent, calm>>
    BY <1>7 DEF Marks, history
  <2>4. Roles' /\ Turns'
    BY <2>2, <2>3, ScanMovesOn
  <2>5. RowsHeld' /\ Placed'
    BY <2>1, <2>2, <2>3, FlaggedFollow, RowsFollowOn DEF FindsNoRow
  <2>6. Phases'
    BY <2>2, <2>3 DEF Ground, Phases
  <2> QED BY <1>2, <2>4, <2>5, <2>6
<1>8. CASE Converts
  <2>1. PICK n \in Upcoming(Convertible) :
          scan' = [scan EXCEPT !.at = n + 1] /\ Stats(Scanner, Order[n])
    BY <1>8 DEF Converts
  <2>2. PICK r : /\ Becomes(Scanner, r)
                 /\ \/ r = Idle /\ disk[Order[n]] = None
                    \/ r.pc = "handoff" /\ r.path = Order[n] /\ r.look = disk[Order[n]]
                       /\ disk[Order[n]] # None
    BY <2>1, AgentKinds, StatsAs DEF Ground
  <2>3. Order[n] \in Convertible
    BY <2>1 DEF Upcoming
  <2>4. RoleOf(Scanner, r)
    BY <2>2, <2>3, AgentKinds, IdleRole DEF RoleOf, Taking
  <2>5. scan'.pc = "end" /\ scan.pc = "end"
    BY <1>4, <1>8, <2>1 DEF Converts
  <2>6. Roles'
    <3> SUFFICES ASSUME NEW g \in Agents PROVE RoleOf(g, agent'[g])
      BY DEF Roles
    <3> QED BY <2>2, <2>4 DEF Ground, Roles, Becomes
  <2>7. Turns'
    BY <2>2, <2>5, AgentKinds DEF Ground, Turns, Becomes
  <2>8. UNCHANGED <<rows, calm>>
    BY <1>8 DEF Converts, history
  <2>9. FindsNoRow
    BY <2>2 DEF FindsNoRow, Becomes, Idle
  <2>10. RowsHeld' /\ Placed'
    BY <2>8, <2>9, SameRowsFollow, RowsFollowOn
  <2>11. Phases'
    BY <2>5, <2>8 DEF Ground, Phases
  <2> QED BY <1>2, <2>6, <2>7, <2>10, <2>11
<1>9. CASE ScanEnds
  <2>1. scan'.pc = "idle" /\ scan'.lost = {} /\ scan.pc = "end" /\ Resting(Scanner)
    BY <1>9 DEF ScanEnds, NewScan
  <2>2. UNCHANGED <<rows, agent>> /\ calm' = IF calm = "scan" THEN "yes" ELSE calm
    BY <1>9 DEF ScanEnds
  <2>3. Roles' /\ Turns' /\ RowsHeld' /\ Placed'
    BY <2>1, <2>2, ScanMovesOn, StillGround
  <2>4. Phases'
    BY <2>1, <2>2 DEF Phases
  <2> QED BY <1>2, <2>3, <2>4
<1> QED BY <1>5, <1>6, <1>7, <1>8, <1>9 DEF Scanning

LEMMA PoolGround ==
  ASSUME Ground, ScanStarts \/ \E w \in Workers : Assigns(w)
  PROVE  Roles' /\ Turns' /\ RowsHeld' /\ Placed' /\ SeenIsHanded' /\ Phases'
<1>1. CASE ScanStarts
  <2>1. scan'.pc = "walk" /\ scan'.lost = {} /\ scan.pc = "idle" /\ calm' = "scan"
    BY <1>1 DEF ScanStarts, NewScan
  <2>2. UNCHANGED <<rows, agent, hand>>
    BY <1>1 DEF ScanStarts
  <2>3. Roles' /\ Turns' /\ RowsHeld' /\ Placed'
    BY <2>1, <2>2, ScanMovesOn, StillGround
  <2>4. SeenIsHanded' /\ Phases'
    BY <2>1, <2>2, HandKept DEF Phases
  <2> QED BY <2>3, <2>4
<1>2. ASSUME NEW w \in Workers, Assigns(w)
      PROVE  Roles' /\ Turns' /\ RowsHeld' /\ Placed' /\ SeenIsHanded' /\ Phases'
  <2>1. PICK n \in Upcoming(Paths \ Convertible) :
          /\ scan' = [scan EXCEPT !.at = n + 1]
          /\ agent' = [agent EXCEPT ![w] = [Idle EXCEPT !.pc = "open", !.path = Order[n]]]
    BY <1>2, Zenon DEF Assigns
  <2> DEFINE r == [Idle EXCEPT !.pc = "open", !.path = Order[n]]
  <2>2. w \in Agents /\ w # Scanner
    BY AgentKinds
  <2>3. Becomes(w, r)
    BY <2>1, <2>2, Becoming DEF Ground
  <2>4. r.pc = "open" /\ r.path = Order[n] /\ Order[n] \notin Convertible
    BY <2>1 DEF Idle, Upcoming
  <2> HIDE DEF r
  <2>5. RoleOf(w, r)
    BY <2>2, <2>4 DEF RoleOf, Taking
  <2>6. scan'.pc = "work" /\ scan.pc = "work" /\ scan'.lost = scan.lost
    <3>1. n \in Int
      BY <2>1, OrderFacts DEF Upcoming, Ground, Safe, Typed, ScanTyped
    <3>2. scan'.pc = scan.pc /\ scan'.lost = scan.lost
      BY <2>1, <3>1, PlaceMoves DEF Ground, Safe
    <3>3. scan.pc = "work"
      BY <1>2, Zenon DEF Assigns
    <3> QED BY <3>2, <3>3
  <2>7. Roles'
    <3> SUFFICES ASSUME NEW g \in Agents PROVE RoleOf(g, agent'[g])
      BY DEF Roles
    <3> QED BY <2>3, <2>5 DEF Ground, Roles, Becomes
  <2>8. Turns'
    BY <2>2, <2>3, <2>6, AgentKinds DEF Ground, Turns, Becomes
  <2>9. UNCHANGED <<rows, calm, hand>>
    BY <1>2, Zenon DEF Assigns, history
  <2>10. RowsHeld' /\ Placed'
    BY <2>3, <2>4, <2>9, SameRowsFollow, RowsFollowOn DEF FindsNoRow, Becomes
  <2>11. SeenIsHanded' /\ Phases'
    BY <2>6, <2>9, HandKept DEF Ground, Phases
  <2> QED BY <2>7, <2>8, <2>10, <2>11
<1> QED BY <1>1, <1>2

\* The user, the other handlers, the queue, and a restart.
LEMMA WorldGround ==
  ASSUME Ground, Changing \/ Happening
  PROVE  Roles' /\ Turns' /\ RowsHeld' /\ Placed' /\ SeenIsHanded' /\ Phases'
<1>1. rows \in [Ids -> Row \cup {None}]
  BY DEF Ground, Safe, Typed, RowsTyped
<1>2. ASSUME RowsFollow, UNCHANGED <<agent, scan, hand>>, calm' = calm \/ calm' = "no"
      PROVE  Roles' /\ Turns' /\ RowsHeld' /\ Placed' /\ SeenIsHanded' /\ Phases'
  <2>1. Roles' /\ Turns'
    BY <1>2, ScanMovesOn
  <2>2. RowsHeld' /\ Placed'
    BY <1>2, RowsFollowOn DEF FindsNoRow
  <2>3. SeenIsHanded' /\ Phases'
    BY <1>2, HandKept, CalmerPhases
  <2> QED BY <2>1, <2>2, <2>3
<1>3. CASE Changing
  <2>1. UNCHANGED <<rows, agent, scan, hand>> /\ calm' = "no"
    BY <1>3 DEF Changing, Puts, Removes, Renames
  <2> QED BY <1>2, <2>1, SameRowsFollow
<1>4. CASE WalksPast
  <2>1. /\ scan'.pc = IF scan.at = Len(Order) THEN "work" ELSE scan.pc
        /\ scan'.lost = scan.lost /\ scan.pc = "walk"
    BY <1>4, WalksOnTo DEF WalksPast, Ground, Safe
  <2>2. UNCHANGED <<rows, agent, hand>> /\ calm' = "no"
    BY <1>4 DEF WalksPast
  <2>3. Roles' /\ Turns' /\ RowsHeld' /\ Placed'
    BY <2>1, <2>2, ScanMovesOn, StillGround
  <2>4. SeenIsHanded' /\ Phases'
    BY <2>1, <2>2, HandKept DEF Ground, Phases
  <2> QED BY <2>3, <2>4
<1>5. CASE Restarts
  <2>1. \A g \in Agents : agent'[g] = Idle
    BY <1>5 DEF Restarts
  <2>2. UNCHANGED rows /\ scan'.pc = "walk" /\ scan'.lost = {} /\ calm' = "scan"
    BY <1>5 DEF Restarts, NewScan
  <2>3. Roles' /\ Turns'
    BY <2>1, AgentKinds, IdleRole DEF Roles, Turns, Idle
  <2>4. RowsHeld' /\ Placed'
    BY <2>1, <2>2, SameRowsFollow, RowsFollowOn DEF FindsNoRow, Idle
  <2>5. SeenIsHanded' /\ Phases'
    BY <1>5, <2>2 DEF Restarts, SeenIsHanded, Phases
  <2> QED BY <2>3, <2>4, <2>5
<1>6. ASSUME NEW i \in Ids, NEW from \in OwnSources, NEW to \in OwnSources, Claims(i, from, to)
      PROVE  RowsFollow /\ UNCHANGED <<agent, scan, hand, calm>>
  <2>1. /\ \A j \in Ids \ {i} : rows'[j] = rows[j]
        /\ rows[i] \in Row /\ rows[i].source = from /\ rows'[i] = [rows[i] EXCEPT !.source = to]
    BY <1>1, <1>6 DEF Claims
  <2>2. rows'[i].path = rows[i].path /\ rows'[i].source = to /\ rows[i] # None
    BY <1>6, <2>1 DEF Row, Claims
  <2> QED BY <1>6, <2>1, <2>2 DEF Claims, RowsFollow
<1>7. ASSUME NEW i \in Ids, Deletes(i)
      PROVE  RowsFollow /\ UNCHANGED <<agent, scan, hand>> /\ calm' = "no"
  BY <1>1, <1>7 DEF Deletes, RowsFollow
<1>8. ASSUME NEW h, NEW source \in {"upload", "converted"}, Files(h, source)
      PROVE  RowsFollow /\ UNCHANGED <<agent, scan, hand, calm>>
  <2>1. NewID \in Ids /\ Unused(NewID)
    BY <1>8, NewIDFact DEF Files
  <2>2. /\ \A j \in Ids : j # NewID => rows'[j] = rows[j]
        /\ rows'[NewID].path = Filed /\ rows'[NewID].source = source
    BY <1>1, <1>8, <2>1 DEF Files
  <2> HIDE DEF NewID
  <2>3. source \notin OwnSources
    BY DEF OwnSources
  <2> QED BY <1>8, <2>1, <2>2, <2>3 DEF Files, Unused, RowsFollow
<1>9. \A i \in Ids : Claims(i, "library", "claimed") \/ Claims(i, "claimed", "library") =>
        RowsFollow /\ UNCHANGED <<agent, scan, hand, calm>>
  BY <1>6 DEF OwnSources
<1> QED BY <1>2, <1>3, <1>4, <1>5, <1>7, <1>8, <1>9 DEF Happening

LEMMA StepGround == Ground /\ [Next]_vars => Ground'
<1> SUFFICES ASSUME Ground, [Next]_vars PROVE Ground' OBVIOUS
<1>1. Safe'
  BY StepSafe DEF Ground
<1>2. CASE UNCHANGED vars
  BY <1>2 DEF vars, watch, hand, history, Ground, Safe, Typed, RowsTyped, AgentsTyped, InHand,
     ScanTyped, PlaceInWalk, OthersTyped, OneWriter, Locked, OneRow, At, ReadHolds, Roles, Turns,
     RowsHeld, HoldsRow, Placed, SeenIsHanded, Phases
<1>3. CASE Next
  <2>1. Roles' /\ Turns' /\ RowsHeld' /\ Placed' /\ SeenIsHanded' /\ Phases'
    BY <1>3, RecordingGround, HandsOffGround, WatchingGround, ScanningGround, PoolGround,
       WorldGround DEF Next
  <2> QED BY <1>1, <2>1 DEF Ground
<1> QED BY <1>2, <1>3

-----------------------------------------------------------------------------
(* The calm scan itself: what it has seen, what the pool has in hand or    *)
(* done, and what is left to flag and to hand off.                         *)

Passed(p) == \E n \in 1 .. scan.at - 1 : Order[n] = p
ToCome(p) == \E n \in scan.at .. Len(Order) : Order[n] = p

Seen ==
  /\ scan.pc = "walk" => \A p \in Paths : p \in scan.seen <=> disk[p] # None /\ Passed(p)
  /\ scan.pc \in {"work", "end"} => \A p \in Paths : p \in scan.seen <=> disk[p] # None

\* Nobody but the watcher carries an old look.
Looked ==
  \A g \in Agents \ {Watcher} :
    agent[g].pc \in {"path", "hash", "move", "upsert", "handoff"} => agent[g].look = disk[agent[g].path]

BeingRead(p) == \E w \in Workers : agent[w].pc \in Taking /\ agent[w].path = p

\* A row that nobody is about to flag or to move elsewhere.
Kept(i) ==
  /\ rows[i] # None /\ i \notin scan.lost /\ ~rows[i].missing
  /\ \A g \in Agents : ~(agent[g].pc = "move" /\ agent[g].id = i)
Recorded(p) == \E i \in Ids : Kept(i) /\ rows[i].path = p /\ rows[i].hash = disk[p]

Comics ==
  scan.pc # "walk" => \A p \in Paths \ Convertible : disk[p] \in Contents =>
    (scan.pc = "work" /\ ToCome(p)) \/ BeingRead(p) \/ Recorded(p)

Lost ==
  scan.pc \in {"end", "idle"} =>
    \A i \in Ids : rows[i] # None /\ rows[i].source \in OwnSources /\ disk[rows[i].path] = None =>
      rows[i].missing \/ i \in scan.lost

HandedOff ==
  scan.pc \in {"end", "idle"} => \A p \in Convertible : disk[p] # None =>
    \/ scan.pc = "end" /\ ToCome(p)
    \/ agent[Scanner].pc = "handoff" /\ agent[Scanner].path = p
    \/ disk[p] \in handed[p]

Agreeing == Seen /\ Looked /\ Comics /\ Lost /\ HandedOff
CalmInv == Ground /\ (calm # "no" => Agreeing)

LEMMA InitAgreeing == Init => Agreeing
<1> SUFFICES ASSUME Init PROVE Agreeing
  OBVIOUS
<1>1. scan.pc = "walk" /\ scan.at = 1 /\ scan.seen = {}
  BY DEF Init, NewScan
<1>2. \A g \in Agents : agent[g].pc = "idle"
  BY DEF Init, Idle
<1> QED BY <1>1, <1>2 DEF Agreeing, Seen, Passed, Looked, Comics, Lost, HandedOff

\* What a calm scan is over with when it stops.
LEMMA CalmInvAgrees == CalmInv => CalmScanAgrees
<1> SUFFICES ASSUME CalmInv, calm = "yes" PROVE RowsAgree
  BY DEF CalmScanAgrees
<1>1. Ground /\ Comics /\ Lost /\ HandedOff
  BY DEF CalmInv, Agreeing
<1>2. scan.pc = "idle" /\ scan.lost = {}
  BY <1>1 DEF Ground, Phases
<1>3. (\A w \in Workers : agent[w].pc = "idle") /\ agent[Scanner].pc = "idle"
  BY <1>1, <1>2 DEF Ground, Turns
<1>4. ASSUME NEW p \in Paths \ Convertible, disk[p] \in Contents
      PROVE  \E i \in At(p) : rows[i].hash = disk[p] /\ ~rows[i].missing
  <2>1. ~BeingRead(p)
    BY <1>3 DEF BeingRead, Taking
  <2>2. PICK i \in Ids : Kept(i) /\ rows[i].path = p /\ rows[i].hash = disk[p]
    BY <1>1, <1>2, <1>4, <2>1 DEF Comics, Recorded
  <2> QED BY <2>2 DEF Kept, At
<1>5. \A i \in Ids : rows[i] # None /\ rows[i].source \in OwnSources /\ disk[rows[i].path] = None =>
        rows[i].missing
  BY <1>1, <1>2 DEF Lost
<1>6. \A p \in Convertible : disk[p] # None => disk[p] \in handed[p]
  BY <1>1, <1>2, <1>3 DEF HandedOff
<1> QED BY <1>4, <1>5, <1>6 DEF RowsAgree

-----------------------------------------------------------------------------
(* What keeps each part of it.                                             *)

SameScan == scan'.pc = scan.pc /\ scan'.at = scan.at /\ scan'.seen = scan.seen

LEMMA SeenStays == Seen /\ SameScan /\ UNCHANGED disk => Seen'
BY DEF Seen, SameScan, Passed

LEMMA LookedStays ==
  ASSUME Ground, Looked, UNCHANGED disk, NEW a \in Agents, NEW r, Becomes(a, r),
         a # Watcher /\ r.pc \in {"path", "hash", "move", "upsert", "handoff"} =>
           r.look = disk[r.path]
  PROVE  Looked'
<1> SUFFICES ASSUME NEW g \in Agents \ {Watcher},
                    agent'[g].pc \in {"path", "hash", "move", "upsert", "handoff"}
             PROVE  agent'[g].look = disk[agent'[g].path]
  BY DEF Looked
<1> QED BY DEF Looked, Becomes

\* A row that is kept remains so.
Remains(i) ==
  /\ rows'[i] # None /\ rows'[i].path = rows[i].path /\ rows'[i].hash = rows[i].hash
  /\ ~rows'[i].missing
  /\ \A g \in Agents : ~(agent'[g].pc = "move" /\ agent'[g].id = i)

LEMMA ComicsStay ==
  ASSUME Comics, UNCHANGED disk, scan'.pc = scan.pc, scan'.at = scan.at,
         scan'.lost \subseteq scan.lost,
         \A w \in Workers : agent[w].pc \in Taking /\ disk[agent[w].path] \in Contents =>
           agent'[w].pc \in Taking /\ agent'[w].path = agent[w].path,
         \A i \in Ids : Kept(i) /\ disk[rows[i].path] \in Contents /\ rows[i].path \in Paths
           => Remains(i)
  PROVE  Comics'
<1> SUFFICES ASSUME scan.pc # "walk", NEW p \in Paths \ Convertible, disk[p] \in Contents
             PROVE  ((scan.pc = "work" /\ ToCome(p)) \/ BeingRead(p) \/ Recorded(p))'
  BY DEF Comics
<1>1. CASE scan.pc = "work" /\ ToCome(p)
  BY <1>1 DEF ToCome
<1>2. CASE BeingRead(p)
  BY <1>2 DEF BeingRead
<1>3. CASE Recorded(p)
  <2>1. PICK i \in Ids : Kept(i) /\ rows[i].path = p /\ rows[i].hash = disk[p]
    BY <1>3 DEF Recorded
  <2>2. Remains(i)
    BY <2>1
  <2> QED BY <2>1, <2>2 DEF Recorded, Kept, Remains
<1> QED BY <1>1, <1>2, <1>3 DEF Comics

\* A row that has no file, and did not have one or is flagged.
LEMMA LostStays ==
  ASSUME Lost, UNCHANGED disk, scan'.pc = scan.pc,
         \A i \in Ids : rows'[i] # None /\ rows'[i].source \in OwnSources =>
           \/ disk[rows'[i].path] # None \/ rows'[i].missing
           \/ /\ rows[i] # None /\ rows[i].source \in OwnSources
              /\ rows'[i].path = rows[i].path /\ rows'[i].missing = rows[i].missing
              /\ i \in scan.lost => i \in scan'.lost
  PROVE  Lost'
<1> SUFFICES ASSUME scan.pc \in {"end", "idle"}, NEW i \in Ids,
                    rows'[i] # None, rows'[i].source \in OwnSources, disk[rows'[i].path] = None
             PROVE  rows'[i].missing \/ i \in scan'.lost
  BY DEF Lost
<1>1. CASE rows'[i].missing
  BY <1>1
<1>2. CASE /\ rows[i] # None /\ rows[i].source \in OwnSources
           /\ rows'[i].path = rows[i].path /\ rows'[i].missing = rows[i].missing
           /\ i \in scan.lost => i \in scan'.lost
  <2>1. rows[i].missing \/ i \in scan.lost
    BY <1>2 DEF Lost
  <2> QED BY <1>2, <2>1
<1> QED BY <1>1, <1>2

LEMMA HandedStays ==
  ASSUME HandedOff, UNCHANGED <<disk, hand>>, scan'.pc = scan.pc, scan'.at = scan.at,
         agent'[Scanner] = agent[Scanner]
  PROVE  HandedOff'
BY DEF HandedOff, ToCome, hand

LEMMA SameRowsRemain ==
  ASSUME UNCHANGED rows, NEW i \in Ids, Kept(i),
         \A g \in Agents : agent'[g] = agent[g] \/ agent'[g].pc # "move" \/ agent'[g].id # i
  PROVE  Remains(i)
BY DEF Kept, Remains

LEMMA SameRowsLost == Lost /\ UNCHANGED <<disk, rows, scan>> => Lost'
BY DEF Lost

-----------------------------------------------------------------------------
(* The steps of a calm time.                                               *)

\* A row that a goroutine takes for a moved one has no file.
LEMMA MoverFindsNoFile ==
  ASSUME Ground, Seen, NEW a \in Agents, agent[a].pc \in Taking,
         NEW i \in Ids, rows[i].path \in Paths, Moved(a, i)
  PROVE  disk[rows[i].path] = None
<1>1. CASE a = Watcher
  BY <1>1 DEF Moved, OnDisk
<1>2. CASE a # Watcher
  <2>1. a \in Workers
    BY <1>2, AgentKinds DEF Agents, Ground, Roles, RoleOf
  <2>2. scan.pc = "work"
    BY <2>1 DEF Ground, Turns, Taking
  <2> QED BY <1>2, <2>2 DEF Moved, OnDisk, Seen
<1> QED BY <1>1, <1>2

\* A comic of which a row is written before the walk is over, or which has one.
LEMMA UpsertsComics ==
  ASSUME Ground, Agreeing, NEW a \in Agents, Upserts(a), Becomes(a, Idle),
         UNCHANGED <<disk, scan>>, agent[a].look = disk[agent[a].path]
  PROVE  Comics'
<1> DEFINE q == agent[a].path
           h == agent[a].look
<1>0. \A b \in Agents : agent'[b].pc # "move"
  <2>1. \A b \in Agents \ {a} : ~Locked(b)
    BY Alone DEF Upserts, Locked, Ground
  <2> QED BY <2>1 DEF Becomes, Locked, Idle
<1>1. /\ h \in Contents /\ q \in Paths \ Convertible
      /\ \A j \in Ids : \/ /\ rows'[j] = rows[j]
                           /\ rows[j] # None => rows[j].path # q
                        \/ /\ rows[j] # None /\ rows[j].path = q
                           /\ rows'[j] = Refreshed(rows[j], h)
                        \/ /\ rows[j] = None /\ At(q) = {}
                           /\ rows'[j] = [path |-> q, hash |-> h,
                                          missing |-> FALSE, source |-> "library"]
  BY UpsertsRow DEF Upserts, Ground, Roles, RoleOf, Taking
<1>2. ASSUME NEW i \in Ids, Kept(i), rows[i].path = q
      PROVE  rows'[i] # None /\ rows'[i].path = q /\ rows'[i].hash = h /\ ~rows'[i].missing
  <2>1. rows[i] \in Row /\ rows'[i] = Refreshed(rows[i], h)
    BY <1>1, <1>2 DEF Kept, Ground, Safe, Typed, RowsTyped
  <2> PICK c \in Contents : c = h
    BY <1>1
  <2>2. Refreshed(rows[i], c) \in Row /\ Refreshed(rows[i], c).path = rows[i].path
        /\ Refreshed(rows[i], c).hash = c /\ ~Refreshed(rows[i], c).missing
    BY <2>1 DEF Refreshed, Row
  <2> QED BY <1>2, <2>1, <2>2, LibraryScanAssumption DEF LibraryScanAssumption
<1>3. ASSUME NEW i \in Ids, Kept(i), rows[i].path # q
      PROVE  rows'[i] = rows[i]
  BY <1>1, <1>3 DEF Kept
<1> SUFFICES ASSUME scan.pc # "walk", NEW p \in Paths \ Convertible, disk[p] \in Contents
             PROVE  ((scan.pc = "work" /\ ToCome(p)) \/ BeingRead(p) \/ Recorded(p))'
  BY DEF Comics
<1>4. (scan.pc = "work" /\ ToCome(p)) \/ BeingRead(p) \/ Recorded(p)
  BY DEF Agreeing, Comics
<1>5. CASE scan.pc = "work" /\ p = q
  <2>1. PICK j \in AtNext(q) : rows'[j].hash = h /\ ~rows'[j].missing
    BY UpsertsRow
  <2>2. j \in Ids /\ rows'[j] # None /\ rows'[j].path = q
    BY <2>1 DEF AtNext
  <2>3. scan'.lost = {}
    BY <1>5 DEF Ground, Phases
  <2>4. rows'[j].hash = disk'[p] /\ rows'[j].path = p
    BY <1>5, <2>1, <2>2
  <2> QED BY <1>0, <2>1, <2>2, <2>3, <2>4 DEF Recorded, Kept
<1>6. CASE Recorded(p)
  <2>1. PICK i \in Ids : Kept(i) /\ rows[i].path = p /\ rows[i].hash = disk[p]
    BY <1>6 DEF Recorded
  <2>2. rows'[i] # None /\ rows'[i].path = p /\ rows'[i].hash = disk[p] /\ ~rows'[i].missing
    <3>1. CASE p = q
      BY <1>2, <2>1, <3>1
    <3>2. CASE p # q
      <4>1. rows'[i] = rows[i]
        BY <1>3, <2>1, <3>2
      <4> QED BY <2>1, <4>1 DEF Kept
    <3> QED BY <3>1, <3>2
  <2>3. i \notin scan'.lost
    BY <2>1 DEF Kept
  <2> QED BY <1>0, <2>1, <2>2, <2>3 DEF Recorded, Kept
<1>7. CASE scan.pc = "work" /\ ToCome(p)
  BY <1>7 DEF ToCome
<1>8. CASE BeingRead(p) /\ p # q
  <2>1. PICK w \in Workers : agent[w].pc \in Taking /\ agent[w].path = p
    BY <1>8 DEF BeingRead
  <2>2. agent'[w] = agent[w]
    BY <1>8, <2>1, AgentKinds DEF Becomes
  <2> QED BY <2>1, <2>2 DEF BeingRead
<1>9. BeingRead(p) => scan.pc = "work"
  BY DEF BeingRead, Ground, Turns, Taking
<1> QED BY <1>4, <1>5, <1>6, <1>7, <1>8, <1>9

\* A write of a row whose file is there leaves the rows without one alone.
LEMMA WrittenLost ==
  ASSUME Ground, Lost, NEW a \in Agents, Moves(a) \/ Upserts(a), UNCHANGED <<disk, scan>>,
         agent[a].look = disk[agent[a].path]
  PROVE  Lost'
<1>1. disk[agent[a].path] # None
  BY AgentFacts, ConvertiblePaths DEF Ground, Safe, AgentOK, Moves, Upserts
<1>2. ASSUME NEW i \in Ids, rows'[i] # None PROVE rows'[i] = rows[i] \/ rows'[i].path = agent[a].path
  <2>1. CASE Moves(a)
    BY <1>2, <2>1, MovesRow
  <2>2. CASE Upserts(a)
    <3>1. \/ rows'[i] = rows[i]
          \/ /\ rows[i] # None /\ rows[i].path = agent[a].path
             /\ rows'[i] = Refreshed(rows[i], agent[a].look)
          \/ rows'[i] = [path |-> agent[a].path, hash |-> agent[a].look,
                         missing |-> FALSE, source |-> "library"]
      BY <2>2, UpsertsRow
    <3>2. rows[i] # None => Refreshed(rows[i], agent[a].look).path = rows[i].path
      BY DEF Refreshed, Ground, Safe, Typed, RowsTyped, Row
    <3> QED BY <3>1, <3>2
  <2> QED BY <2>1, <2>2
<1>3. \A i \in Ids : rows'[i] # None /\ rows'[i].source \in OwnSources =>
           \/ disk[rows'[i].path] # None \/ rows'[i].missing
           \/ /\ rows[i] # None /\ rows[i].source \in OwnSources
              /\ rows'[i].path = rows[i].path /\ rows'[i].missing = rows[i].missing
              /\ i \in scan.lost => i \in scan'.lost
  BY <1>1, <1>2
<1> QED BY <1>3, LostStays

LEMMA RecordingAgrees ==
  ASSUME Ground, Agreeing, NEW a \in Agents, Recording(a), calm # "no", calm' # "no"
  PROVE  Agreeing'
<1>1. /\ agent[a].pc \in Taking /\ agent[a].path \in Paths \ Convertible
      /\ UNCHANGED <<disk, scan, watch, hand>>
  BY RecordsOn
<1>2. PICK r : Becomes(a, r) /\
              \/ Opens(a) /\ OpensAs(a, r) /\ UNCHANGED <<rows, calm>>
              \/ FindsPath(a) /\ GoesAs(a, r) /\ r.pc # "move" /\ UNCHANGED <<rows, calm>>
              \/ FindsContent(a) /\ GoesAs(a, r) /\ r.id \in Ids /\ UNCHANGED <<rows, calm>>
                 /\ (r.pc = "move" => rows[r.id] # None /\ Moved(a, r.id))
              \/ Moves(a) /\ GoesAs(a, r) /\ r.pc = "upsert"
              \/ Upserts(a) /\ r = Idle
  BY RecordsOn
<1>3. Seen' /\ HandedOff'
  <2>1. a # Scanner
    BY <1>1 DEF Ground, Roles, RoleOf
  <2>2. agent'[Scanner] = agent[Scanner]
    BY <1>2, <2>1, AgentKinds DEF Becomes
  <2> QED BY <1>1, <2>2, SeenStays, HandedStays DEF Agreeing, SameScan
<1>4. Looked'
  <2>1. ASSUME a # Watcher, GoesAs(a, r), FindsPath(a) \/ FindsContent(a) \/ Moves(a)
        PROVE  r.look = disk[r.path]
    BY <2>1 DEF GoesAs, FindsPath, FindsContent, Moves, Agreeing, Looked
  <2>2. OpensAs(a, r) => r = Idle \/ r.look = disk[r.path]
    BY DEF OpensAs
  <2>3. a # Watcher /\ r.pc \in {"path", "hash", "move", "upsert", "handoff"} => r.look = disk[r.path]
    BY <1>2, <2>1, <2>2 DEF Idle
  <2> QED BY <1>1, <1>2, <2>3, LookedStays DEF Agreeing
<1>5. (Moves(a) \/ Upserts(a)) => agent[a].look = disk[agent[a].path]
  BY DEF Moves, Upserts, Unsettles
<1>6. CASE Upserts(a) /\ r = Idle
  <2>1. Comics'
    BY <1>1, <1>2, <1>5, <1>6, UpsertsComics
  <2>2. Lost'
    BY <1>1, <1>5, <1>6, WrittenLost DEF Agreeing
  <2> QED BY <1>3, <1>4, <2>1, <2>2 DEF Agreeing
<1>7. ASSUME \A w \in Workers : agent[w].pc \in Taking /\ disk[agent[w].path] \in Contents =>
               agent'[w].pc \in Taking /\ agent'[w].path = agent[w].path,
             \A i \in Ids : Kept(i) /\ disk[rows[i].path] \in Contents /\ rows[i].path \in Paths
               => Remains(i)
      PROVE  Comics'
  BY <1>1, <1>7, ComicsStay DEF Agreeing
<1>8. ASSUME OpensAs(a, r) \/ GoesAs(a, r)
      PROVE  \A w \in Workers : agent[w].pc \in Taking /\ disk[agent[w].path] \in Contents =>
               agent'[w].pc \in Taking /\ agent'[w].path = agent[w].path
  <2>1. disk[agent[a].path] \in Contents => r.pc \in Taking /\ r.path = agent[a].path
    BY <1>8 DEF OpensAs, GoesAs, Taking
  <2> QED BY <1>2, <2>1, AgentKinds DEF Becomes
<1>9. CASE /\ UNCHANGED rows /\ (OpensAs(a, r) \/ GoesAs(a, r))
           /\ r.pc = "move" => r.id \in Ids /\ rows[r.id] # None /\ Moved(a, r.id)
  <2>1. ASSUME NEW i \in Ids, Kept(i), disk[rows[i].path] \in Contents, rows[i].path \in Paths
        PROVE  Remains(i)
    <3>1. r.pc = "move" => r.id # i
      BY <1>1, <1>9, <2>1, MoverFindsNoFile, ConvertiblePaths DEF Agreeing
    <3>2. \A g \in Agents : agent'[g] = agent[g] \/ agent'[g].pc # "move" \/ agent'[g].id # i
      BY <1>2, <3>1 DEF Becomes
    <3> QED BY <1>9, <2>1, <3>2, SameRowsRemain
  <2>2. Comics'
    BY <1>7, <1>8, <1>9, <2>1
  <2>3. Lost'
    BY <1>1, <1>9, SameRowsLost DEF Agreeing
  <2> QED BY <1>3, <1>4, <2>2, <2>3 DEF Agreeing
<1>10. CASE Moves(a) /\ GoesAs(a, r) /\ r.pc = "upsert"
  <2>1. ASSUME NEW i \in Ids, Kept(i) PROVE Remains(i)
    <3>1. i # agent[a].id
      BY <1>10, <2>1 DEF Kept, Moves
    <3>2. rows'[i] = rows[i]
      BY <1>10, <3>1, MovesRow
    <3>3. \A g \in Agents : agent'[g] = agent[g] \/ agent'[g].pc # "move"
      BY <1>2, <1>10 DEF Becomes
    <3> QED BY <2>1, <3>2, <3>3 DEF Kept, Remains
  <2>2. Comics'
    BY <1>7, <1>8, <1>10, <2>1
  <2>3. Lost'
    BY <1>1, <1>5, <1>10, WrittenLost DEF Agreeing
  <2> QED BY <1>3, <1>4, <2>2, <2>3 DEF Agreeing
<1>11. OpensAs(a, r) => r.pc # "move"
  BY DEF OpensAs, Idle
<1> QED BY <1>2, <1>6, <1>9, <1>10, <1>11

LEMMA HandsOffAgrees ==
  ASSUME Ground, Agreeing, NEW a \in Agents, HandsOff(a)
  PROVE  Agreeing'
<1>1. Becomes(a, Idle) /\ UNCHANGED <<disk, rows, scan, watch, history>>
  BY Becoming DEF HandsOff, Ground
<1>2. a \notin Workers /\ agent[a].path \in Paths /\ agent[a].look \in Looks
  BY AgentFacts DEF HandsOff, AgentOK, AgentType, Ground, Safe, Roles, RoleOf, Taking
<1>3. Seen' /\ Lost'
  BY <1>1, SeenStays, SameRowsLost DEF Agreeing, SameScan
<1>4. Looked'
  BY <1>1, LookedStays DEF Agreeing, Idle
<1>5. Comics'
  <2>1. \A i \in Ids : Kept(i) => Remains(i)
    <3>1. \A g \in Agents : agent'[g] = agent[g] \/ agent'[g].pc # "move"
      BY <1>1 DEF Becomes, Idle
    <3> QED BY <1>1, <3>1, SameRowsRemain
  <2>2. \A w \in Workers : agent'[w] = agent[w]
    BY <1>1, <1>2, AgentKinds DEF Becomes
  <2> QED BY <1>1, <2>1, <2>2, ComicsStay DEF Agreeing
<1>6. HandedOff'
  <2>1. convertSeen \in [Paths -> Looks] /\ handed \in [Paths -> SUBSET Looks]
    BY DEF Ground, Safe, Typed, OthersTyped
  <2>2. \A p \in Paths : handed[p] \subseteq handed'[p]
    BY <1>2, <2>1 DEF HandsOff, hand
  <2>3. agent[a].look \in handed'[agent[a].path]
    <3>1. CASE SeenVersion(agent[a].path, agent[a].look)
      <4>1. agent[a].look # None
        BY DEF HandsOff, Ground, Roles, RoleOf
      <4>2. agent[a].look \in handed[agent[a].path]
        BY <1>2, <3>1, <4>1 DEF SeenVersion, Ground, SeenIsHanded
      <4> QED BY <1>2, <2>2, <4>2
    <3>2. CASE ~SeenVersion(agent[a].path, agent[a].look)
      BY <1>2, <2>1, <3>2 DEF HandsOff
    <3> QED BY <3>1, <3>2
  <2>4. a = Scanner => agent[a].look = disk[agent[a].path]
    BY AgentKinds DEF HandsOff, Agreeing, Looked
  <2>5. a # Scanner => agent'[Scanner] = agent[Scanner]
    BY <1>1, AgentKinds DEF Becomes
  <2> SUFFICES ASSUME scan.pc \in {"end", "idle"}, NEW p \in Convertible, disk[p] # None
               PROVE  \/ scan'.pc = "end" /\ ToCome(p)'
                      \/ agent'[Scanner].pc = "handoff" /\ agent'[Scanner].path = p
                      \/ disk'[p] \in handed'[p]
    BY <1>1 DEF HandedOff
  <2>6. \/ scan.pc = "end" /\ ToCome(p)
        \/ agent[Scanner].pc = "handoff" /\ agent[Scanner].path = p
        \/ disk[p] \in handed[p]
    BY DEF Agreeing, HandedOff
  <2>7. CASE scan.pc = "end" /\ ToCome(p)
    BY <1>1, <2>7 DEF ToCome
  <2>8. CASE agent[Scanner].pc = "handoff" /\ agent[Scanner].path = p
    BY <1>1, <2>3, <2>4, <2>5, <2>8
  <2>9. CASE disk[p] \in handed[p]
    BY <1>1, <2>2, <2>9, ConvertiblePaths
  <2> QED BY <2>6, <2>7, <2>8, <2>9
<1> QED BY <1>3, <1>4, <1>5, <1>6 DEF Agreeing

LEMMA WatchingAgrees ==
  ASSUME Ground, Agreeing, Watching, calm # "no", calm' # "no"
  PROVE  Agreeing'
<1>0. Watcher \in Agents /\ AgentOK(agent[Watcher])
  BY AgentKinds, AgentFacts DEF Ground, Safe
<1>1. UNCHANGED <<disk, scan, hand>>
  BY WatchesOn
<1>2. PICK r : Becomes(Watcher, r) /\
              \/ Handles /\ UNCHANGED <<rows, calm>>
                 /\ r.pc \in {"gone", "settle"} /\ (r.pc = "gone" => r.look = None)
              \/ Settles /\ UNCHANGED <<rows, calm>>
                 /\ \/ r = Idle
                    \/ r.pc = "path" /\ r.path \notin Convertible
                    \/ r.pc = "handoff" /\ r.path \in Convertible /\ r.look # None
              \/ FindsGone /\ UNCHANGED <<rows, calm>>
                 /\ \/ r = Idle
                    \/ r.pc = "flag" /\ r.look = None /\ rows[r.id] # None
                       /\ rows[r.id].path = r.path
              \/ Flags /\ r = Idle
  BY WatchesOn
<1>3. r.pc # "move"
  BY <1>2 DEF Idle
<1>4. \A g \in Agents : agent'[g] = agent[g] \/ agent'[g].pc # "move"
  BY <1>2, <1>3 DEF Becomes
<1>5. Seen'
  BY <1>1, SeenStays DEF Agreeing, SameScan
<1>6. Looked'
  BY <1>0, <1>1, <1>2, LookedStays DEF Agreeing
<1>7. HandedOff'
  BY <1>1, <1>2, AgentKinds, HandedStays DEF Agreeing, Becomes
<1>8. \A w \in Workers : agent'[w] = agent[w]
  BY <1>2, AgentKinds DEF Becomes
<1>9. CASE UNCHANGED rows
  <2>1. \A i \in Ids : Kept(i) => Remains(i)
    BY <1>4, <1>9, SameRowsRemain
  <2>2. Comics'
    BY <1>1, <1>8, <2>1, ComicsStay DEF Agreeing
  <2>3. Lost'
    BY <1>1, <1>9, SameRowsLost DEF Agreeing
  <2> QED BY <1>5, <1>6, <1>7, <2>2, <2>3 DEF Agreeing
<1>10. CASE Flags
  <2>1. PICK k \in Ids : k = agent[Watcher].id
    BY <1>0, <1>10 DEF Flags, AgentOK
  <2>2. rows' = FlaggedMissing(k) /\ disk[agent[Watcher].path] = None
    <3>1. agent[Watcher].look = None
      BY <1>0, <1>10 DEF Flags, Ground, Roles, RoleOf
    <3>2. rows' = FlaggedMissing(k)
      BY <1>10, <2>1 DEF Flags
    <3>3. agent[Watcher].look = disk[agent[Watcher].path]
      BY <1>10 DEF Flags, Unsettles
    <3> QED BY <3>1, <3>2, <3>3
  <2>3. rows[k] # None => rows[k].path = agent[Watcher].path
    BY <1>0, <1>10, <2>1 DEF Flags, Ground, RowsHeld, HoldsRow
  <2>4. rows \in [Ids -> Row \cup {None}]
    BY DEF Ground, Safe, Typed, RowsTyped
  <2>5. /\ \A i \in Ids \ {k} : rows'[i] = rows[i]
        /\ rows'[k] # None => rows'[k].missing
    BY <2>1, <2>2, <2>4 DEF FlaggedMissing, Row
  <2>6. ASSUME NEW i \in Ids, Kept(i), disk[rows[i].path] \in Contents PROVE Remains(i)
    <3>1. i # k
      BY <2>2, <2>3, <2>6, ConvertiblePaths DEF Kept
    <3> QED BY <1>4, <2>5, <2>6, <3>1 DEF Kept, Remains
  <2>7. Comics'
    BY <1>1, <1>8, <2>6, ComicsStay DEF Agreeing
  <2>8. Lost'
    BY <1>1, <2>5, LostStays DEF Agreeing
  <2> QED BY <1>5, <1>6, <1>7, <2>7, <2>8 DEF Agreeing
<1> QED BY <1>2, <1>9, <1>10

\* Every value below the first of a kind is none of it.
LEMMA Least ==
  ASSUME NEW T \in SUBSET Nat, T # {}
  PROVE  \E x \in T : \A y \in T : x <= y
<1>1. PICK R : IsWellFoundedOn(R, Nat) /\ \A x, y \in Nat : y < x => <<y, x>> \in R
  <2>1. \A x, y \in Nat : y < x => <<y, x>> \in OpToRel(<, Nat)
    BY DEF OpToRel
  <2> QED BY <2>1, NatLessThanWellFounded, Zenon
<1>2. PICK x \in T : \A y \in T : ~(<<y, x>> \in R)
  BY <1>1, WFMin, Zenon
<1>3. \A y \in T : ~(y < x)
  BY <1>1, <1>2
<1> QED BY <1>3

\* Where the walk is, as numbers.
LEMMA PlaceFacts ==
  ASSUME Ground
  PROVE  /\ Len(Order) \in Nat /\ scan.at \in 1 .. Len(Order) + 1
         /\ scan.pc = "walk" => scan.at \in 1 .. Len(Order)
         /\ scan.pc \in {"idle", "walk", "work", "end"}
BY OrderFacts DEF Ground, Safe, Typed, ScanTyped, PlaceInWalk

\* With nothing upcoming, no path of the kind that was seen is to come.
LEMMA NothingUpcoming ==
  ASSUME Ground, NEW kind, Upcoming(kind) = {}, NEW p \in kind, p \in scan.seen
  PROVE  ~ToCome(p)
<1> DEFINE T == {n \in scan.at .. Len(Order) : Order[n] \in scan.seen \cap kind}
<1>1. T \in SUBSET Nat
  BY PlaceFacts
<1>2. T = {}
  <2> SUFFICES ASSUME T # {} PROVE FALSE
    OBVIOUS
  <2>1. PICK n \in T : \A m \in T : n <= m
    <3> HIDE DEF T
    <3> QED BY <1>1, Least
  <2>2. \A m \in scan.at .. n - 1 : Order[m] \notin scan.seen \cap kind
    BY <2>1, PlaceFacts
  <2>3. n \in Upcoming(kind)
    BY <2>1, <2>2 DEF Upcoming
  <2> QED BY <2>3
<1> QED BY <1>2 DEF ToCome

\* Taking up the next of a kind, the others to come are still to come.
LEMMA NextUpcoming ==
  ASSUME Ground, NEW kind, NEW n \in Upcoming(kind), scan'.at = n + 1,
         NEW p \in kind, p \in scan.seen, ToCome(p), Order[n] # p
  PROVE  ToCome(p)'
<1>1. PICK m \in scan.at .. Len(Order) : Order[m] = p
  BY DEF ToCome
<1>2. n \in scan.at .. Len(Order) /\ m \notin scan.at .. n - 1
  BY <1>1 DEF Upcoming
<1>3. m \in n + 1 .. Len(Order)
  BY <1>1, <1>2, PlaceFacts
<1> QED BY <1>1, <1>3 DEF ToCome

\* At its start, a part of the scan has all paths to come.
LEMMA AllToCome ==
  ASSUME NEW p \in Paths, scan'.at = 1
  PROVE  ToCome(p)'
BY ConvertiblePaths DEF ToCome

LEMMA WalksAgrees ==
  ASSUME Ground, Agreeing, Walks
  PROVE  Agreeing'
<1> DEFINE q == Order[scan.at]
<1>1. UNCHANGED <<disk, rows, agent>> /\ scan.pc = "walk" /\ scan.at \in 1 .. Len(Order)
  BY PlaceFacts DEF Walks
<1>2. /\ scan'.pc = IF scan.at = Len(Order) THEN "work" ELSE "walk"
      /\ scan'.at = IF scan.at = Len(Order) THEN 1 ELSE scan.at + 1
      /\ scan'.seen = scan.seen \cup (IF disk[q] = None THEN {} ELSE {q})
  BY <1>1, WalksOnTo DEF Walks, Ground, Safe
<1>3. \A p \in Paths : p \in scan'.seen <=> disk[p] # None /\ (Passed(p) \/ p = q)
  BY <1>1, <1>2 DEF Agreeing, Seen
<1>4. Seen'
  <2>1. CASE scan.at = Len(Order)
    <3>1. \A p \in Paths : Passed(p) \/ p = q
      <4> SUFFICES ASSUME NEW p \in Paths PROVE Passed(p) \/ p = q
        OBVIOUS
      <4>1. PICK n \in 1 .. Len(Order) : Order[n] = p
        BY ConvertiblePaths
      <4>2. n \in 1 .. scan.at - 1 \/ n = scan.at
        BY <2>1, <4>1, PlaceFacts
      <4> QED BY <4>1, <4>2 DEF Passed
    <3> QED BY <1>1, <1>2, <1>3, <2>1, <3>1 DEF Seen
  <2>2. CASE scan.at # Len(Order)
    <3>1. \A p \in Paths : (Passed(p) \/ p = q) <=> Passed(p)'
      <4> SUFFICES ASSUME NEW p \in Paths PROVE (Passed(p) \/ p = q) <=> Passed(p)'
        OBVIOUS
      <4>1. \A n : n \in 1 .. scan'.at - 1 <=> n \in 1 .. scan.at - 1 \/ n = scan.at
        BY <1>1, <1>2, <2>2, PlaceFacts
      <4> QED BY <4>1 DEF Passed
    <3> QED BY <1>1, <1>2, <1>3, <2>2, <3>1 DEF Seen
  <2> QED BY <2>1, <2>2
<1>5. Looked'
  BY <1>1 DEF Agreeing, Looked
<1>6. Comics'
  <2>1. scan'.pc = "work" => scan'.at = 1
    BY <1>2
  <2> QED BY <1>2, <2>1, AllToCome DEF Comics
<1>7. Lost' /\ HandedOff'
  BY <1>2 DEF Lost, HandedOff
<1> QED BY <1>4, <1>5, <1>6, <1>7 DEF Agreeing

LEMMA ListsAgrees ==
  ASSUME Ground, Agreeing, Lists
  PROVE  Agreeing'
<1>1. /\ UNCHANGED <<disk, rows, agent>>
      /\ scan.pc = "work" /\ \A w \in Workers : Resting(w)
      /\ Upcoming(Paths \ Convertible) = {}
  BY DEF Lists
<1>2. scan'.pc = "end" /\ scan'.at = 1 /\ scan'.lost = Unseen /\ scan'.seen = scan.seen
  BY DEF Lists, Ground, Safe, Typed, ScanTyped
<1>3. \A p \in Paths : p \in scan.seen <=> disk[p] # None
  BY <1>1 DEF Agreeing, Seen
<1>4. Seen'
  BY <1>1, <1>2, <1>3 DEF Seen
<1>5. Looked'
  BY <1>1 DEF Agreeing, Looked
<1>6. Comics'
  <2> SUFFICES ASSUME NEW p \in Paths \ Convertible, disk[p] \in Contents
               PROVE  Recorded(p)'
    BY <1>1 DEF Comics
  <2>1. p \in scan.seen
    BY <1>3, ConvertiblePaths
  <2>2. ~ToCome(p)
    BY <1>1, <2>1, NothingUpcoming
  <2>3. ~BeingRead(p)
    BY <1>1 DEF BeingRead, Resting, Taking
  <2>4. PICK i \in Ids : Kept(i) /\ rows[i].path = p /\ rows[i].hash = disk[p]
    BY <1>1, <2>2, <2>3 DEF Agreeing, Comics, Recorded
  <2>5. i \notin scan'.lost
    BY <1>2, <2>1, <2>4 DEF Unseen
  <2> QED BY <1>1, <2>4, <2>5 DEF Recorded, Kept
<1>7. Lost'
  <2> SUFFICES ASSUME NEW i \in Ids, rows[i] # None, rows[i].source \in OwnSources,
                      disk[rows[i].path] = None
               PROVE  i \in scan'.lost
    BY <1>1 DEF Lost
  <2>1. rows[i].path \in Paths
    BY DEF Ground, Placed
  <2> QED BY <1>2, <1>3, <2>1 DEF Unseen
<1>8. HandedOff'
  BY <1>2, AllToCome, ConvertiblePaths DEF HandedOff
<1> QED BY <1>4, <1>5, <1>6, <1>7, <1>8 DEF Agreeing

LEMMA MarksAgrees ==
  ASSUME Ground, Agreeing, Marks
  PROVE  Agreeing'
<1>1. PICK k \in scan.lost : scan' = [scan EXCEPT !.lost = @ \ {k}] /\ rows' = FlaggedMissing(k)
  BY DEF Marks
<1>2. /\ SameScan /\ scan'.lost = scan.lost \ {k} /\ k \in Ids
      /\ rows \in [Ids -> Row \cup {None}]
  BY <1>1 DEF Ground, Safe, Typed, ScanTyped, RowsTyped, SameScan
<1>3. UNCHANGED <<disk, agent, hand>>
  BY DEF Marks
<1>4. /\ \A i \in Ids \ {k} : rows'[i] = rows[i]
      /\ rows'[k] # None => rows'[k].missing
  BY <1>1, <1>2 DEF FlaggedMissing, Row
<1>5. Seen'
  BY <1>2, <1>3, SeenStays DEF Agreeing
<1>6. Looked'
  BY <1>3 DEF Agreeing, Looked
<1>7. Comics'
  <2>1. \A i \in Ids : Kept(i) => Remains(i)
    BY <1>3, <1>4 DEF Kept, Remains
  <2> QED BY <1>2, <1>3, <2>1, ComicsStay DEF Agreeing, SameScan
<1>8. Lost'
  BY <1>2, <1>3, <1>4, LostStays DEF Agreeing, SameScan
<1>9. HandedOff'
  BY <1>2, <1>3, HandedStays DEF Agreeing, SameScan
<1> QED BY <1>5, <1>6, <1>7, <1>8, <1>9 DEF Agreeing

LEMMA ConvertsAgrees ==
  ASSUME Ground, Agreeing, Converts
  PROVE  Agreeing'
<1>1. PICK n \in Upcoming(Convertible) :
        scan' = [scan EXCEPT !.at = n + 1] /\ Stats(Scanner, Order[n])
  BY DEF Converts
<1>2. PICK r : /\ Becomes(Scanner, r)
               /\ \/ r = Idle /\ disk[Order[n]] = None
                  \/ r.pc = "handoff" /\ r.path = Order[n] /\ r.look = disk[Order[n]]
                     /\ disk[Order[n]] # None
  BY <1>1, AgentKinds, StatsAs DEF Ground
<1>3. scan.pc = "end" /\ Resting(Scanner) /\ UNCHANGED <<disk, rows, hand>>
  BY DEF Converts
<1>4. n \in Int
  BY PlaceFacts DEF Upcoming
<1>5. /\ scan'.pc = scan.pc /\ scan'.at = n + 1
      /\ scan'.seen = scan.seen /\ scan'.lost = scan.lost
  BY <1>1, <1>4, PlaceMoves DEF Ground, Safe
<1>6. Seen'
  BY <1>3, <1>5 DEF Agreeing, Seen
<1>7. Looked'
  BY <1>2, <1>3, AgentKinds, LookedStays DEF Agreeing, Idle
<1>8. Comics'
  <2> SUFFICES ASSUME NEW p \in Paths \ Convertible, disk[p] \in Contents
               PROVE  Recorded(p)'
    BY <1>3 DEF Comics
  <2>1. ~BeingRead(p)
    BY <1>3 DEF BeingRead, Ground, Turns, Taking
  <2>2. PICK i \in Ids : Kept(i) /\ rows[i].path = p /\ rows[i].hash = disk[p]
    BY <1>3, <2>1 DEF Agreeing, Comics, Recorded
  <2>3. \A g \in Agents : agent'[g] = agent[g] \/ agent'[g].pc # "move"
    BY <1>2 DEF Becomes, Idle
  <2> QED BY <1>3, <1>5, <2>2, <2>3 DEF Recorded, Kept
<1>9. Lost'
  BY <1>3, <1>5 DEF Agreeing, Lost
<1>10. HandedOff'
  <2> SUFFICES ASSUME NEW p \in Convertible, disk[p] # None
               PROVE  \/ ToCome(p)'
                      \/ agent'[Scanner].pc = "handoff" /\ agent'[Scanner].path = p
                      \/ disk[p] \in handed[p]
    BY <1>3, <1>5 DEF HandedOff, hand
  <2>1. ToCome(p) \/ disk[p] \in handed[p]
    BY <1>3 DEF Agreeing, HandedOff, Resting
  <2>2. p \in scan.seen
    BY <1>3, ConvertiblePaths DEF Agreeing, Seen
  <2>3. CASE ToCome(p) /\ Order[n] # p
    BY <1>5, <2>2, <2>3, NextUpcoming
  <2>4. CASE Order[n] = p
    BY <1>2, <2>4 DEF Becomes
  <2> QED BY <2>1, <2>3, <2>4
<1> QED BY <1>6, <1>7, <1>8, <1>9, <1>10 DEF Agreeing

LEMMA ScanEndsAgrees ==
  ASSUME Ground, Agreeing, ScanEnds
  PROVE  Agreeing'
<1>1. /\ scan.pc = "end" /\ scan.lost = {} /\ Resting(Scanner) /\ Upcoming(Convertible) = {}
      /\ scan'.pc = "idle" /\ scan'.lost = {} /\ UNCHANGED <<disk, rows, agent, hand>>
  BY DEF ScanEnds, NewScan
<1>2. Seen' /\ Looked'
  BY <1>1 DEF Agreeing, Seen, Looked
<1>3. Comics'
  <2> SUFFICES ASSUME NEW p \in Paths \ Convertible, disk[p] \in Contents
               PROVE  Recorded(p)'
    BY <1>1 DEF Comics
  <2>1. ~BeingRead(p)
    BY <1>1 DEF BeingRead, Ground, Turns, Taking
  <2> QED BY <1>1, <2>1 DEF Agreeing, Comics, Recorded, Kept
<1>4. Lost'
  BY <1>1 DEF Agreeing, Lost
<1>5. HandedOff'
  <2> SUFFICES ASSUME NEW p \in Convertible, disk[p] # None PROVE disk[p] \in handed[p]
    BY <1>1 DEF HandedOff, hand
  <2>1. p \in scan.seen
    BY <1>1, ConvertiblePaths DEF Agreeing, Seen
  <2>2. ~ToCome(p)
    BY <1>1, <2>1, NothingUpcoming
  <2> QED BY <1>1, <2>2 DEF Agreeing, HandedOff, Resting
<1> QED BY <1>2, <1>3, <1>4, <1>5 DEF Agreeing

LEMMA AssignsAgrees ==
  ASSUME Ground, Agreeing, NEW w \in Workers, Assigns(w)
  PROVE  Agreeing'
<1>1. PICK n \in Upcoming(Paths \ Convertible) :
        /\ scan' = [scan EXCEPT !.at = n + 1]
        /\ agent' = [agent EXCEPT ![w] = [Idle EXCEPT !.pc = "open", !.path = Order[n]]]
  BY Zenon DEF Assigns
<1> DEFINE r == [Idle EXCEPT !.pc = "open", !.path = Order[n]]
<1>2. w \in Agents /\ Becomes(w, r)
  BY <1>1, AgentKinds, Becoming DEF Ground
<1>3. r.pc = "open" /\ r.path = Order[n]
  BY DEF Idle
<1> HIDE DEF r
<1>4. scan.pc = "work" /\ Resting(w) /\ UNCHANGED <<disk, rows, hand>>
  BY Zenon DEF Assigns
<1>5. n \in Int
  BY PlaceFacts DEF Upcoming
<1>6. /\ scan'.pc = scan.pc /\ scan'.at = n + 1
      /\ scan'.seen = scan.seen /\ scan'.lost = scan.lost
  BY <1>1, <1>5, PlaceMoves DEF Ground, Safe
<1>7. Seen'
  BY <1>4, <1>6 DEF Agreeing, Seen
<1>8. Looked'
  BY <1>2, <1>3, <1>4, LookedStays DEF Agreeing
<1>9. Comics'
  <2> SUFFICES ASSUME NEW p \in Paths \ Convertible, disk[p] \in Contents
               PROVE  ToCome(p)' \/ BeingRead(p)' \/ Recorded(p)'
    BY <1>4, <1>6 DEF Comics
  <2>1. ToCome(p) \/ BeingRead(p) \/ Recorded(p)
    BY <1>4 DEF Agreeing, Comics
  <2>2. p \in scan.seen
    BY <1>4, ConvertiblePaths DEF Agreeing, Seen
  <2>3. CASE ToCome(p) /\ Order[n] # p
    BY <1>6, <2>2, <2>3, NextUpcoming
  <2>4. CASE Order[n] = p
    BY <1>2, <1>3, <2>4 DEF Becomes, BeingRead, Taking
  <2>5. CASE BeingRead(p)
    <3>1. PICK v \in Workers : agent[v].pc \in Taking /\ agent[v].path = p
      BY <2>5 DEF BeingRead
    <3>2. v # w
      BY <1>4, <3>1 DEF Resting, Taking
    <3>3. agent'[v] = agent[v]
      BY <1>2, <3>2, AgentKinds DEF Becomes
    <3> QED BY <3>1, <3>3 DEF BeingRead
  <2>6. CASE Recorded(p)
    <3>1. PICK i \in Ids : Kept(i) /\ rows[i].path = p /\ rows[i].hash = disk[p]
      BY <2>6 DEF Recorded
    <3>2. \A g \in Agents : agent'[g] = agent[g] \/ agent'[g].pc # "move"
      BY <1>2, <1>3 DEF Becomes
    <3> QED BY <1>4, <1>6, <3>1, <3>2 DEF Recorded, Kept
  <2> QED BY <2>1, <2>3, <2>4, <2>5, <2>6
<1>10. Lost' /\ HandedOff'
  BY <1>4, <1>6 DEF Lost, HandedOff
<1> QED BY <1>7, <1>8, <1>9, <1>10 DEF Agreeing

\* A scan that begins, with the process or without, has all before it.
LEMMA StartAgrees ==
  ASSUME Ground, ScanStarts \/ Restarts
  PROVE  Agreeing'
<1>1. scan'.pc = "walk" /\ scan'.at = 1 /\ scan'.seen = {}
  BY DEF ScanStarts, Restarts, NewScan
<1>2. \A g \in Agents \ {Watcher} : agent'[g].pc = "idle"
  <2>1. CASE ScanStarts
    <3>1. agent' = agent /\ scan.pc = "idle"
      BY <2>1 DEF ScanStarts
    <3> QED BY <3>1 DEF Ground, Turns, Agents
  <2>2. CASE Restarts
    BY <2>2 DEF Restarts, Idle
  <2> QED BY <2>1, <2>2
<1>3. Seen'
  BY <1>1 DEF Seen, Passed
<1> QED BY <1>1, <1>2, <1>3 DEF Agreeing, Looked, Comics, Lost, HandedOff

\* The other handlers and the queue, which leave a calm time calm.
LEMMA RowsChangeAgrees ==
  ASSUME Ground, Agreeing,
         \/ \E i \in Ids : Claims(i, "library", "claimed") \/ Claims(i, "claimed", "library")
         \/ \E h \in Contents : \E source \in {"upload", "converted"} : Files(h, source)
  PROVE  Agreeing'
<1>0. rows \in [Ids -> Row \cup {None}]
  BY DEF Ground, Safe, Typed, RowsTyped
<1>1. UNCHANGED <<disk, agent, scan, hand>>
  BY DEF Claims, Files
<1>2. Seen' /\ Looked' /\ HandedOff'
  BY <1>1, SeenStays, HandedStays DEF Agreeing, SameScan, Looked
<1>3. ASSUME \A i \in Ids :
               \/ /\ rows[i] # None /\ rows'[i] # None
                  /\ rows'[i].path = rows[i].path /\ rows'[i].hash = rows[i].hash
                  /\ rows'[i].missing = rows[i].missing
                  /\ rows'[i].source \in OwnSources => rows[i].source \in OwnSources
               \/ rows[i] = None /\ (rows'[i] # None => rows'[i].source \notin OwnSources)
      PROVE  Agreeing'
  <2>1. \A i \in Ids : Kept(i) => Remains(i)
    BY <1>1, <1>3 DEF Kept, Remains
  <2>2. Comics'
    BY <1>1, <2>1, ComicsStay DEF Agreeing
  <2>3. Lost'
    BY <1>1, <1>3, LostStays DEF Agreeing
  <2> QED BY <1>2, <2>2, <2>3 DEF Agreeing
<1>4. ASSUME NEW i \in Ids, NEW from \in OwnSources, NEW to \in OwnSources, Claims(i, from, to)
      PROVE  Agreeing'
  <2>1. /\ \A j \in Ids \ {i} : rows'[j] = rows[j]
        /\ rows[i] \in Row /\ rows[i].source = from /\ rows'[i] = [rows[i] EXCEPT !.source = to]
    BY <1>0, <1>4 DEF Claims
  <2>2. rows'[i] \in Row /\ rows'[i].path = rows[i].path /\ rows'[i].hash = rows[i].hash
        /\ rows'[i].missing = rows[i].missing
    BY <2>1 DEF Row, OwnSources
  <2>3. rows[i] # None /\ rows'[i] # None
    BY <2>1, <2>2, LibraryScanAssumption DEF LibraryScanAssumption
  <2> QED BY <1>3, <2>1, <2>2, <2>3
<1>5. ASSUME NEW h, NEW source \in {"upload", "converted"}, Files(h, source)
      PROVE  Agreeing'
  <2>1. NewID \in Ids /\ rows[NewID] = None
    BY <1>5, NewIDFact DEF Files, Unused
  <2>2. /\ \A j \in Ids : j # NewID => rows'[j] = rows[j]
        /\ rows'[NewID].source = source
    BY <1>0, <1>5, <2>1 DEF Files
  <2> HIDE DEF NewID
  <2>3. source \notin OwnSources
    BY DEF OwnSources
  <2> QED BY <1>3, <2>1, <2>2, <2>3
<1> QED BY <1>4, <1>5 DEF OwnSources

LEMMA StepCalm == CalmInv /\ [Next]_vars => CalmInv'
<1> SUFFICES ASSUME CalmInv, [Next]_vars PROVE CalmInv' OBVIOUS
<1>1. Ground /\ Ground'
  BY StepGround DEF CalmInv
<1> SUFFICES ASSUME calm' # "no" PROVE Agreeing'
  BY <1>1 DEF CalmInv
<1>2. CASE UNCHANGED vars
  BY <1>2 DEF CalmInv, vars, watch, hand, history, Agreeing, Seen, Passed, Looked, Comics, ToCome,
     BeingRead, Recorded, Kept, Lost, HandedOff
<1>3. CASE ScanStarts \/ Restarts
  BY <1>1, <1>3, StartAgrees
<1>4. CASE \E a \in Agents : Recording(a)
  <2>1. PICK a \in Agents : Recording(a)
    BY <1>4
  <2>2. calm # "no"
    BY <2>1 DEF Recording, Opens, FindsPath, FindsContent, Moves, Upserts, Unsettles, history
  <2> QED BY <1>1, <2>1, <2>2, RecordingAgrees DEF CalmInv
<1>5. CASE \E a \in Agents : HandsOff(a)
  BY <1>1, <1>5, HandsOffAgrees DEF CalmInv, HandsOff, history
<1>6. CASE Watching
  <2>1. calm # "no"
    BY <1>6 DEF Watching, Handles, Settles, FindsGone, Flags, Unsettles, history
  <2> QED BY <1>1, <1>6, <2>1, WatchingAgrees DEF CalmInv
<1>7. CASE Scanning
  <2>1. calm # "no"
    BY <1>7 DEF Scanning, Walks, Lists, Marks, Converts, ScanEnds, history
  <2> QED BY <1>1, <1>7, <2>1, WalksAgrees, ListsAgrees, MarksAgrees, ConvertsAgrees, ScanEndsAgrees
      DEF CalmInv, Scanning
<1>8. CASE \E w \in Workers : Assigns(w)
  <2>1. PICK w \in Workers : Assigns(w)
    BY <1>8
  <2>2. calm # "no"
    BY <2>1, Zenon DEF Assigns, history
  <2> QED BY <1>1, <2>1, <2>2, AssignsAgrees DEF CalmInv
<1>9. CASE Changing \/ Happening
  <2>1. ~Changing /\ ~WalksPast /\ \A i \in Ids : ~Deletes(i)
    BY DEF Changing, Puts, Removes, Renames, WalksPast, Deletes
  <2>2. CASE Restarts
    BY <1>1, <2>2, StartAgrees
  <2>3. CASE \/ \E i \in Ids : Claims(i, "library", "claimed") \/ Claims(i, "claimed", "library")
             \/ \E h \in Contents : \E source \in {"upload", "converted"} : Files(h, source)
    <3>1. calm # "no"
      BY <2>3 DEF Claims, Files
    <3> QED BY <1>1, <2>3, <3>1, RowsChangeAgrees DEF CalmInv
  <2> QED BY <1>9, <2>1, <2>2, <2>3 DEF Happening
<1> QED BY <1>2, <1>3, <1>4, <1>5, <1>6, <1>7, <1>8, <1>9 DEF Next

\* A scan in which nothing happened leaves the rows in agreement with the
\* folder and they stay so, whatever earlier scans, watchers and crashes left
\* behind, however the pool and the watcher's goroutine interleave with it
\* (scan.go: Scan, "the sweep retries this one").
THEOREM CalmScansAgree == Spec => []CalmScanAgrees
<1>1. Spec => []CalmInv
  <2>1. Init => CalmInv
    BY InitGround, InitAgreeing DEF CalmInv
  <2> QED BY <2>1, StepCalm, PTL DEF Spec
<1> QED BY <1>1, CalmInvAgrees, PTL

-----------------------------------------------------------------------------
(* A renamed file keeps its row.  Of the row a file is owed this holds at  *)
(* every step until the file, its content or the row is disturbed: it is   *)
(* the one row of the content, at a place that has no file, and whoever    *)
(* carries the content into record is at the new place.                    *)

InRecord == {"path", "hash", "move", "upsert"}

\* Row i is the one of the content at p, and no other row is at p.
KnownBy(p, i) ==
  /\ p \in Paths \ Convertible /\ disk[p] \in Contents
  /\ i \in Ids /\ rows[i] # None /\ OfContent(disk[p]) = {i} /\ At(p) \subseteq {i}

Sole(p) == \A o \in Paths \ {p} : disk[o] # disk[p]

\* Where the row is, if not at p, there is no file.
LeftBehind(p, i) == rows[i].path \in Paths /\ (rows[i].path # p => disk[rows[i].path] = None)

\* A goroutine in record with the content is at p and has the row in hand.
Bears(r, p, i) ==
  r.pc \in InRecord =>
    /\ r.path = p <=> r.look = disk[p]
    /\ r.path = rows[i].path => rows[i].path = p
    /\ r.pc \in {"move", "upsert"} /\ r.path = p => r.id = i
Borne(p, i) == \A g \in Agents : Bears(agent[g], p, i)

\* A scan that has seen the old name has not seen the new one, and will not.
SeenOnce(p, i) ==
  rows[i].path # p /\ scan.pc \in {"walk", "work"} /\ rows[i].path \in scan.seen =>
    p \notin scan.seen \cup Ahead

Followed(p, i) ==
  KnownBy(p, i) /\ Sole(p) /\ LeftBehind(p, i) /\ Borne(p, i) /\ SeenOnce(p, i)
OwedFollowed == \A p \in Paths : \A i \in Ids : owed[p] = i => Followed(p, i)

\* The row a goroutine is about to move is of the content it has found, and a
\* worker is at a path the walk has seen.
ContentHeld(r) == r.pc = "move" /\ rows[r.id] # None => rows[r.id].hash = r.look
ContentsHeld == \A g \in Agents : ContentHeld(agent[g])
WorksOnSeen == \A w \in Workers : agent[w].pc # "idle" => agent[w].path \in scan.seen

Following == Ground /\ ContentsHeld /\ WorksOnSeen /\ OwedFollowed

LEMMA InitFollowing == Init => Following
<1> SUFFICES ASSUME Init PROVE Following
  OBVIOUS
<1>1. \A g \in Agents : agent[g] = Idle
  BY DEF Init
<1>2. ContentsHeld /\ WorksOnSeen
  BY <1>1, AgentKinds DEF ContentsHeld, ContentHeld, WorksOnSeen, Idle
<1>3. OwedFollowed
  BY LibraryScanAssumption DEF LibraryScanAssumption, Init, OwedFollowed
<1> QED BY <1>2, <1>3, InitGround DEF Following

\* After a calm scan the row of the content at the file is the one it is owed.
LEMMA FollowingKeepsRow == Following /\ CalmScanAgrees => RenameKeepsRow
<1> SUFFICES ASSUME Following, CalmScanAgrees, calm = "yes", NEW p \in Paths, owed[p] # None
             PROVE  rows[owed[p]].path = p /\ ~rows[owed[p]].missing
  BY DEF RenameKeepsRow
<1>1. KnownBy(p, owed[p])
  BY DEF Following, OwedFollowed, Followed, Ground, Safe, Typed, OthersTyped
<1>2. PICK i \in At(p) : rows[i].hash = disk[p] /\ ~rows[i].missing
  BY <1>1 DEF KnownBy, CalmScanAgrees, RowsAgree
<1>3. i = owed[p]
  BY <1>1, <1>2 DEF KnownBy
<1> QED BY <1>2, <1>3 DEF At

\* The rows change, if at all, in a way the file at p does not mind.
RowsSpare(p, i) ==
  /\ rows'[i] # None /\ rows'[i].hash = rows[i].hash /\ rows'[i].path \in {rows[i].path, p}
  /\ \A j \in Ids \ {i} : rows'[j] # None =>
       \/ rows[j] # None /\ rows'[j].path = rows[j].path /\ rows'[j].hash = rows[j].hash
       \/ rows'[j].path # p /\ rows'[j].hash # disk[p]

LEMMA FollowsOn ==
  ASSUME NEW p \in Paths, NEW i, Followed(p, i), RowsSpare(p, i), UNCHANGED disk,
         \A g \in Agents : agent'[g] = agent[g] \/ Bears(agent'[g], p, i),
         rows[i].path # p /\ scan'.pc \in {"walk", "work"} /\ rows[i].path \in scan'.seen =>
           p \notin scan'.seen \cup Ahead'
  PROVE  Followed(p, i)'
<1>1. /\ i \in Ids /\ p \in Paths \ Convertible /\ disk[p] \in Contents
      /\ OfContent(disk[p]) = {i} /\ At(p) \subseteq {i}
  BY DEF Followed, KnownBy
<1>2. rows'[i] # None /\ rows'[i].hash = disk[p]
  BY <1>1 DEF RowsSpare, OfContent
<1>3. KnownBy(p, i)'
  <2>1. \A j \in Ids : rows'[j] # None /\ rows'[j].hash = disk[p] => j = i
    BY <1>1 DEF RowsSpare, OfContent
  <2>2. \A j \in Ids : rows'[j] # None /\ rows'[j].path = p => j = i
    BY <1>1 DEF RowsSpare, At
  <2>3. OfContent(disk[p])' = {i}
    BY <1>1, <1>2, <2>1 DEF OfContent
  <2>4. At(p)' \subseteq {i}
    BY <2>2 DEF At
  <2> QED BY <1>1, <1>2, <2>3, <2>4 DEF KnownBy
<1>4. Sole(p)'
  BY DEF Followed, Sole
<1>5. LeftBehind(p, i)'
  BY DEF Followed, LeftBehind, RowsSpare
<1>6. Borne(p, i)'
  <2> SUFFICES ASSUME NEW g \in Agents PROVE Bears(agent[g], p, i)'
    BY DEF Borne
  <2>1. Bears(agent'[g], p, i)
    BY DEF Followed, Borne
  <2> QED BY <2>1 DEF Bears, RowsSpare
<1>7. SeenOnce(p, i)'
  BY DEF SeenOnce, RowsSpare
<1> QED BY <1>3, <1>4, <1>5, <1>6, <1>7 DEF Followed

\* What a step must do for the file at p, when it leaves the folder alone.
BearersSpare(p, i) == \A g \in Agents : agent'[g] = agent[g] \/ Bears(agent'[g], p, i)
ScanSpares(p, i) ==
  rows[i].path # p /\ scan'.pc \in {"walk", "work"} /\ rows[i].path \in scan'.seen =>
    p \notin scan'.seen \cup Ahead'
Spared(p, i) == RowsSpare(p, i) /\ BearersSpare(p, i) /\ ScanSpares(p, i)

LEMMA Carried ==
  ASSUME Following, UNCHANGED <<disk, owed>>,
         \A p \in Paths : \A i \in Ids : Followed(p, i) => Spared(p, i)
  PROVE  OwedFollowed'
<1> SUFFICES ASSUME NEW p \in Paths, NEW i \in Ids, owed'[p] = i PROVE Followed(p, i)'
  BY DEF OwedFollowed
<1>1. Followed(p, i)
  BY DEF Following, OwedFollowed
<1>2. Spared(p, i)
  BY <1>1
<1> QED BY <1>1, <1>2, FollowsOn DEF Spared, BearersSpare, ScanSpares

LEMMA SameScanSpares ==
  ASSUME UNCHANGED scan, NEW p, NEW i, Followed(p, i)
  PROVE  ScanSpares(p, i)
BY DEF ScanSpares, Followed, SeenOnce, Ahead

\* Rows that keep their places and contents.
RowsInPlace ==
  /\ \A j \in Ids : rows[j] # None <=> rows'[j] # None
  /\ \A j \in Ids : rows'[j] # None => rows'[j].path = rows[j].path /\ rows'[j].hash = rows[j].hash

LEMMA InPlaceSpares ==
  ASSUME RowsInPlace, NEW p, NEW i, Followed(p, i)
  PROVE  RowsSpare(p, i)
BY DEF RowsInPlace, RowsSpare, Followed, KnownBy

LEMMA FlaggedInPlace ==
  ASSUME Ground, NEW i \in Ids, rows' = FlaggedMissing(i)
  PROVE  RowsInPlace
<1>1. rows \in [Ids -> Row \cup {None}]
  BY DEF Ground, Safe, Typed, RowsTyped
<1>2. \A j \in Ids \ {i} : rows'[j] = rows[j]
  BY <1>1 DEF FlaggedMissing
<1>3. rows[i] = None => rows'[i] = None
  BY <1>1 DEF FlaggedMissing
<1>4. ASSUME rows[i] # None
      PROVE  rows'[i] # None /\ rows'[i].path = rows[i].path /\ rows'[i].hash = rows[i].hash
  <2>1. rows[i] \in Row /\ rows'[i] = [rows[i] EXCEPT !.missing = TRUE]
    BY <1>1, <1>4 DEF FlaggedMissing
  <2>2. rows'[i] \in Row
    BY <2>1 DEF Row
  <2> QED BY <2>1, <2>2, LibraryScanAssumption DEF Row, LibraryScanAssumption
<1> QED BY <1>2, <1>3, <1>4 DEF RowsInPlace

LEMMA SameInPlace == UNCHANGED rows => RowsInPlace
BY DEF RowsInPlace

LEMMA IdleBears == \A p, i : Bears(Idle, p, i)
BY DEF Bears, Idle, InRecord

\* What a goroutine in hand of a content has hold of, when it alone goes on.
LEMMA OneHolds ==
  ASSUME Following, NEW a \in Agents, NEW r, Becomes(a, r), RowsInPlace,
         r.pc = "move" => rows[r.id] # None /\ rows[r.id].hash = r.look /\ r.id \in Ids
  PROVE  ContentsHeld'
<1> SUFFICES ASSUME NEW g \in Agents, agent'[g].pc = "move", rows'[agent'[g].id] # None
             PROVE  rows'[agent'[g].id].hash = agent'[g].look
  BY DEF ContentsHeld, ContentHeld
<1>1. CASE g = a
  <2>1. agent'[g] = r
    BY <1>1 DEF Becomes
  <2> QED BY <2>1 DEF RowsInPlace
<1>2. CASE g # a
  <2>1. agent'[g] = agent[g]
    BY <1>2 DEF Becomes
  <2>2. PICK i \in Ids : i = agent[g].id
    BY <2>1, AgentFacts DEF Following, Ground, Safe, AgentOK
  <2>3. rows[i] # None => rows[i].hash = agent[g].look
    BY <2>1, <2>2 DEF Following, ContentsHeld, ContentHeld
  <2> QED BY <2>1, <2>2, <2>3 DEF RowsInPlace
<1> QED BY <1>1, <1>2

\* Rows that stay do so in their place; a new one is in nobody's hand.
LEMMA HoldingStays ==
  ASSUME Following, \A g \in Agents : agent'[g].pc = "move" => agent'[g] = agent[g],
         \A j \in Ids : rows'[j] # None =>
           \/ rows[j] # None /\ rows'[j].hash = rows[j].hash
           \/ \A g \in Agents : agent[g].id # j
  PROVE  ContentsHeld'
<1> SUFFICES ASSUME NEW g \in Agents, agent'[g].pc = "move", rows'[agent'[g].id] # None
             PROVE  rows'[agent'[g].id].hash = agent'[g].look
  BY DEF ContentsHeld, ContentHeld
<1>1. agent'[g] = agent[g]
  OBVIOUS
<1>2. PICK i \in Ids : i = agent[g].id
  BY <1>1, AgentFacts DEF Following, Ground, Safe, AgentOK
<1>3. rows[i] # None /\ rows'[i].hash = rows[i].hash
  BY <1>1, <1>2
<1> QED BY <1>1, <1>2, <1>3 DEF Following, ContentsHeld, ContentHeld

-----------------------------------------------------------------------------
(* record.                                                                 *)

\* A goroutine that looks the path up finds the owed row there, or nothing.
LEMMA PathBears ==
  ASSUME Ground, NEW p \in Paths, NEW i \in Ids, Followed(p, i), NEW a \in Agents, FindsPath(a)
  PROVE  Bears(agent'[a], p, i)
<1>1. agent[a] \in AgentType /\ agent[a].pc = "path" /\ Bears(agent[a], p, i)
  BY AgentFacts DEF Ground, Safe, FindsPath, Followed, Borne
<1>2. /\ agent[a].path = p <=> agent[a].look = disk[p]
      /\ agent[a].path = rows[i].path => rows[i].path = p
  BY <1>1 DEF Bears, InRecord
<1>3. CASE Goes(a, "hash")
  <2> DEFINE r == [agent[a] EXCEPT !.pc = "hash"]
  <2>1. Becomes(a, r)
    BY <1>3, Becoming DEF Goes, Ground
  <2>2. r.pc = "hash" /\ r.path = agent[a].path /\ r.look = agent[a].look
    BY <1>1 DEF AgentType
  <2> HIDE DEF r
  <2> QED BY <1>2, <2>1, <2>2 DEF Bears, Becomes
<1>4. CASE Rests(a)
  BY <1>4, Becoming, IdleBears DEF Becomes, Ground
<1>5. ASSUME NEW j \in At(agent[a].path),
             agent' = [agent EXCEPT ![a].pc = "upsert", ![a].id = j]
      PROVE  Bears(agent'[a], p, i)
  <2> DEFINE r == [agent[a] EXCEPT !.pc = "upsert", !.id = j]
  <2>1. Becomes(a, r)
    BY <1>5, Becoming DEF Ground
  <2>2. r.path = agent[a].path /\ r.look = agent[a].look /\ r.id = j
    BY <1>1 DEF AgentType
  <2>3. agent[a].path = p => j = i
    BY DEF Followed, KnownBy
  <2> HIDE DEF r
  <2> QED BY <1>2, <2>1, <2>2, <2>3 DEF Bears, Becomes
<1> QED BY <1>3, <1>4, <1>5 DEF FindsPath

\* At p, the owed row has moved: the watcher finds no file at its place, a scan
\* has not seen one, and it is no upload's.
LEMMA OwedHasMoved ==
  ASSUME Following, NEW p \in Paths, NEW i \in Ids, Followed(p, i),
         NEW a \in Agents, agent[a].pc = "hash", agent[a].path = p
  PROVE  Moved(a, i)
<1>1. Ground /\ a # Scanner
  BY DEF Following, Ground, Roles, RoleOf
<1>2. At(p) = {}
  BY <1>1 DEF Ground, Safe, ReadHolds
<1>3. /\ rows[i] # None /\ rows[i].path \in Paths /\ rows[i].path # p
      /\ disk[rows[i].path] = None
  BY <1>2 DEF Followed, KnownBy, LeftBehind, At
<1>4. rows[i].source # "upload"
  BY <1>1, <1>3, FiledFact DEF Ground, Placed
<1>5. CASE a = Watcher
  BY <1>3, <1>4, <1>5 DEF Moved, OnDisk
<1>6. CASE a \in Workers
  <2>1. scan.pc = "work" /\ p \in scan.seen
    BY <1>1, <1>6 DEF Ground, Turns, Following, WorksOnSeen
  <2>2. rows[i].path \notin scan.seen
    BY <1>3, <2>1 DEF Followed, SeenOnce
  <2> QED BY <1>4, <1>6, <2>2, AgentKinds DEF Moved, OnDisk
<1> QED BY <1>1, <1>5, <1>6 DEF Agents

LEMMA ContentBears ==
  ASSUME Following, NEW p \in Paths, NEW i \in Ids, Followed(p, i),
         NEW a \in Agents, FindsContent(a)
  PROVE  Bears(agent'[a], p, i)
<1>1. agent[a] \in AgentType /\ agent[a].pc = "hash" /\ Bears(agent[a], p, i) /\ Ground
  BY AgentFacts DEF Following, Ground, Safe, FindsContent, Followed, Borne
<1>2. /\ agent[a].path = p <=> agent[a].look = disk[p]
      /\ agent[a].path = rows[i].path => rows[i].path = p
  BY <1>1 DEF Bears, InRecord
<1>3. ASSUME NEW pc \in {"move", "upsert"}, NEW j \in Ids, agent[a].path = p => j = i,
             agent' = [agent EXCEPT ![a].pc = pc, ![a].id = j]
      PROVE  Bears(agent'[a], p, i)
  <2> DEFINE r == [agent[a] EXCEPT !.pc = pc, !.id = j]
  <2>1. Becomes(a, r)
    BY <1>1, <1>3, Becoming DEF Ground
  <2>2. r.path = agent[a].path /\ r.look = agent[a].look /\ r.id = j
    BY <1>1 DEF AgentType
  <2> HIDE DEF r
  <2> QED BY <1>2, <1>3, <2>1, <2>2 DEF Bears, Becomes
<1>4. agent[a].path = p => OfContent(agent[a].look) = {i} /\ Moved(a, i)
  BY <1>1, <1>2, OwedHasMoved DEF Followed, KnownBy
<1>5. ASSUME NEW j \in OfContent(agent[a].look),
             agent' = [agent EXCEPT ![a].pc = "move", ![a].id = j]
      PROVE  Bears(agent'[a], p, i)
  <2>1. j \in Ids /\ (agent[a].path = p => j = i)
    BY <1>4 DEF OfContent
  <2> QED BY <1>3, <1>5, <2>1
<1>6. ASSUME \/ OfContent(agent[a].look) = {}
             \/ \E j \in OfContent(agent[a].look) : ~Moved(a, j),
             \E j \in Ids : Unused(j),
             agent' = [agent EXCEPT ![a].pc = "upsert", ![a].id = NewID]
      PROVE  Bears(agent'[a], p, i)
  <2>1. agent[a].path # p
    BY <1>4, <1>6
  <2>2. NewID \in Ids
    BY <1>6, NewIDFact
  <2> QED BY <1>3, <1>6, <2>1, <2>2
<1> QED BY <1>5, <1>6 DEF FindsContent

\* A row moved is the owed one, to p, or another, of another content.
LEMMA MovesSpares ==
  ASSUME Following, NEW p \in Paths, NEW i \in Ids, Followed(p, i), NEW a \in Agents, Moves(a)
  PROVE  RowsSpare(p, i)
<1> DEFINE k == agent[a].id
<1>0. Ground /\ rows \in [Ids -> Row \cup {None}] /\ agent[a].pc = "move" /\ k \in Ids
  BY MovesRow DEF Following, Ground, Safe, Typed, RowsTyped, Moves
<1>1. /\ \A j \in Ids \ {k} : rows'[j] = rows[j]
      /\ rows[k] = None => rows'[k] = None
      /\ rows[k] # None => rows'[k] # None /\ rows'[k].path = agent[a].path
  BY <1>0, MovesRow
<1>2. rows[k] # None => rows'[k].hash = rows[k].hash /\ rows[k].hash = agent[a].look
  <2> SUFFICES ASSUME rows[k] # None
               PROVE  rows'[k].hash = rows[k].hash /\ rows[k].hash = agent[a].look
    OBVIOUS
  <2>1. rows[k] \in Row /\ agent[a].path \in Paths /\ At(agent[a].path) = {}
    BY <1>0, MovesRow
  <2>2. rows'[k] = [rows[k] EXCEPT !.path = agent[a].path, !.missing = FALSE]
    BY <1>0, <2>1 DEF Moves
  <2>3. rows'[k].hash = rows[k].hash
    BY <2>1, <2>2 DEF Row
  <2> QED BY <1>0, <2>3 DEF Following, ContentsHeld, ContentHeld
<1>3. /\ agent[a].path = p <=> agent[a].look = disk[p]
      /\ agent[a].path = p => k = i
  BY <1>0 DEF Followed, Borne, Bears, InRecord
<1>4. rows[i] # None /\ rows[i].hash = disk[p]
  BY DEF Followed, KnownBy, OfContent
<1> HIDE DEF k
<1>5. CASE k = i
  BY <1>1, <1>2, <1>3, <1>4, <1>5 DEF RowsSpare
<1>6. CASE k # i
  <2>1. rows[k] # None => rows'[k].path # p /\ rows'[k].hash # disk[p]
    BY <1>1, <1>2, <1>3, <1>6
  <2> QED BY <1>1, <1>4, <1>6, <2>1 DEF RowsSpare
<1> QED BY <1>5, <1>6

\* A row written is the owed one's, of its content, or another's, of another.
LEMMA UpsertsSpares ==
  ASSUME Following, NEW p \in Paths, NEW i \in Ids, Followed(p, i), NEW a \in Agents, Upserts(a)
  PROVE  RowsSpare(p, i)
<1> DEFINE q == agent[a].path
           h == agent[a].look
<1>0. Ground /\ rows \in [Ids -> Row \cup {None}] /\ agent[a].pc = "upsert"
  BY DEF Following, Ground, Safe, Typed, RowsTyped, Upserts
<1>1. \A j \in Ids : \/ /\ rows'[j] = rows[j]
                        /\ rows[j] # None => rows[j].path # q
                     \/ /\ rows[j] # None /\ rows[j].path = q
                        /\ rows'[j] = Refreshed(rows[j], h)
                     \/ /\ rows[j] = None /\ At(q) = {}
                        /\ rows'[j] = [path |-> q, hash |-> h, missing |-> FALSE,
                                       source |-> "library"]
  BY <1>0, UpsertsRow
<1>2. /\ q = p <=> h = disk[p]
      /\ q = rows[i].path => rows[i].path = p
      /\ q = p => agent[a].id = i
  BY <1>0 DEF Followed, Borne, Bears, InRecord
<1>3. rows[i] # None /\ rows[i].hash = disk[p] /\ At(p) \subseteq {i}
  BY DEF Followed, KnownBy, OfContent
<1>4. q = p => rows[i].path = p
  BY <1>0, <1>2, <1>3 DEF Ground, Safe, ReadHolds, At
<1>5. h \in Contents /\ q \in Paths
  BY <1>0, UpsertsRow
<1> HIDE DEF q, h
<1>6. \A j \in Ids : rows[j] # None =>
        LET new == Refreshed(rows[j], h)
        IN  new # None /\ new.path = rows[j].path /\ new.hash = h
  <2> SUFFICES ASSUME NEW j \in Ids, rows[j] # None
               PROVE  /\ Refreshed(rows[j], h) # None
                      /\ Refreshed(rows[j], h).path = rows[j].path
                      /\ Refreshed(rows[j], h).hash = h
    OBVIOUS
  <2>1. rows[j] \in Row
    BY <1>0
  <2>2. Refreshed(rows[j], h) \in Row
    BY <1>5, <2>1 DEF Refreshed, Row
  <2>3. None \notin Row
    BY LibraryScanAssumption DEF LibraryScanAssumption
  <2> QED BY <2>1, <2>2, <2>3 DEF Refreshed, Row
<1>7. rows'[i] # None /\ rows'[i].path = rows[i].path /\ rows'[i].hash = rows[i].hash
  <2>1. CASE rows'[i] = rows[i]
    BY <1>3, <2>1
  <2>2. CASE rows[i].path = q /\ rows'[i] = Refreshed(rows[i], h)
    BY <1>2, <1>3, <1>6, <2>2
  <2> QED BY <1>1, <1>3, <2>1, <2>2
<1>8. ASSUME NEW j \in Ids \ {i}, rows'[j] # None
      PROVE  \/ rows[j] # None /\ rows'[j].path = rows[j].path /\ rows'[j].hash = rows[j].hash
             \/ rows'[j].path # p /\ rows'[j].hash # disk[p]
  <2>1. CASE rows'[j] = rows[j]
    BY <1>8, <2>1
  <2>2. CASE rows[j] # None /\ rows[j].path = q /\ rows'[j] = Refreshed(rows[j], h)
    <3>1. q # p
      BY <1>3, <1>8, <2>2 DEF At
    <3> QED BY <1>2, <1>6, <2>2, <3>1
  <2>3. CASE /\ rows[j] = None /\ At(q) = {}
             /\ rows'[j] = [path |-> q, hash |-> h, missing |-> FALSE, source |-> "library"]
    <3>1. q # p
      BY <1>3, <1>4, <2>3 DEF At
    <3> QED BY <1>2, <2>3, <3>1
  <2> QED BY <1>1, <2>1, <2>2, <2>3
<1> QED BY <1>7, <1>8 DEF RowsSpare

\* A goroutine that alone goes on, from where it was or to rest, or that is no
\* worker, leaves the workers at what the walk has seen.
LEMMA OneSeen ==
  ASSUME Following, NEW a \in Agents, NEW r, Becomes(a, r), UNCHANGED scan,
         a \in Workers => r.pc = "idle" \/ (agent[a].pc # "idle" /\ r.path = agent[a].path)
  PROVE  WorksOnSeen'
BY AgentKinds DEF Following, WorksOnSeen, Becomes

\* The one goroutine that goes on minds the file at p.
LEMMA OneBears ==
  ASSUME NEW a \in Agents, NEW r, Becomes(a, r), NEW p, NEW i, Bears(r, p, i)
  PROVE  BearersSpare(p, i)
BY DEF BearersSpare, Becomes

LEMMA RecordingFollows ==
  ASSUME Following, NEW a \in Agents, Recording(a)
  PROVE  OwedFollowed' /\ ContentsHeld' /\ WorksOnSeen'
<1>0. Ground
  BY DEF Following
<1>1. /\ agent[a].pc \in Taking /\ agent[a].path \in Paths \ Convertible
      /\ UNCHANGED <<disk, scan, watch, hand>>
  BY <1>0, RecordsOn
<1>2. PICK r : Becomes(a, r) /\
              \/ Opens(a) /\ OpensAs(a, r) /\ UNCHANGED <<rows, calm>>
              \/ FindsPath(a) /\ GoesAs(a, r) /\ r.pc # "move" /\ UNCHANGED <<rows, calm>>
              \/ FindsContent(a) /\ GoesAs(a, r) /\ r.id \in Ids /\ UNCHANGED <<rows, calm>>
                 /\ (r.pc = "move" => rows[r.id] # None /\ Moved(a, r.id))
              \/ Moves(a) /\ GoesAs(a, r) /\ r.pc = "upsert"
              \/ Upserts(a) /\ r = Idle
  BY <1>0, RecordsOn
<1>3. agent'[a] = r
  BY <1>2 DEF Becomes
<1>4. r = Idle \/ (r.pc \in {"path", "hash", "move", "upsert"} /\ r.path = agent[a].path)
  BY <1>2 DEF OpensAs, GoesAs
<1>5. WorksOnSeen'
  BY <1>1, <1>2, <1>4, OneSeen DEF Idle, Taking
<1>6. UNCHANGED owed
  BY <1>2 DEF Opens, FindsPath, FindsContent, Moves, Upserts, history
<1>7. ASSUME NEW p \in Paths, NEW i \in Ids, Followed(p, i)
      PROVE  Spared(p, i)
  <2>1. ScanSpares(p, i)
    BY <1>1, <1>7, SameScanSpares
  <2>2. UNCHANGED rows => RowsSpare(p, i)
    BY <1>7, SameInPlace, InPlaceSpares
  <2>3. RowsSpare(p, i)
    BY <1>2, <1>7, <2>2, MovesSpares, UpsertsSpares
  <2>4. /\ Sole(p) /\ LeftBehind(p, i) /\ disk[p] \in Contents /\ Bears(agent[a], p, i)
    BY <1>7 DEF Followed, KnownBy, Borne
  <2>5. Bears(r, p, i)
    <3>1. CASE Opens(a) /\ OpensAs(a, r)
      <4>1. CASE r = Idle
        BY <4>1, IdleBears
      <4>2. CASE r.pc = "path" /\ r.path = agent[a].path /\ r.look = disk[r.path]
        <5>1. r.look \in Contents
          <6>1. Typed'
            BY <1>0, RecordingTyped DEF Ground, Safe
          <6>2. r.pc = "path" => r.look \in Contents
            BY <1>3, <6>1 DEF Typed, AgentsTyped, InHand
          <6> QED BY <4>2, <6>2
        <5>2. r.path = p <=> r.look = disk[p]
          BY <1>1, <2>4, <4>2 DEF Sole
        <5>3. r.path = rows[i].path => rows[i].path = p
          BY <2>4, <4>2, <5>1, ConvertiblePaths DEF LeftBehind
        <5> QED BY <4>2, <5>2, <5>3 DEF Bears
      <4> QED BY <3>1, <4>1, <4>2 DEF OpensAs
    <3>2. CASE FindsPath(a)
      BY <1>0, <1>3, <1>7, <3>2, PathBears
    <3>3. CASE FindsContent(a)
      BY <1>3, <1>7, <3>3, ContentBears
    <3>4. CASE Moves(a) /\ GoesAs(a, r) /\ r.pc = "upsert"
      <4>1. agent[a].pc = "move" /\ r.path = agent[a].path /\ r.look = agent[a].look
        BY <3>4 DEF Moves, GoesAs
      <4>2. r.id = agent[a].id
        BY <1>3, <3>4, <1>0, MovesRow, AgentFacts DEF Goes, Ground, Safe, AgentType, Typed, AgentsTyped
      <4> QED BY <2>4, <3>4, <4>1, <4>2 DEF Bears, InRecord
    <3>5. CASE r = Idle
      BY <3>5, IdleBears
    <3> QED BY <1>2, <3>1, <3>2, <3>3, <3>4, <3>5
  <2> QED BY <1>2, <2>1, <2>3, <2>5, OneBears DEF Spared
<1>8. OwedFollowed'
  BY <1>1, <1>6, <1>7, Carried
<1>9. ContentsHeld'
  <2>1. CASE FindsContent(a) /\ UNCHANGED rows
    <3>1. r.pc = "move" => rows[r.id] # None /\ rows[r.id].hash = r.look /\ r.id \in Ids
      <4>1. CASE \E j \in Ids : agent' = [agent EXCEPT ![a].pc = "upsert", ![a].id = j]
        <5>1. agent'[a].pc = "upsert"
          BY <1>0, <4>1, AgentFacts DEF Ground, Safe, Typed, AgentsTyped, AgentType
        <5> QED BY <1>3, <5>1
      <4>2. ASSUME NEW j \in OfContent(agent[a].look),
                   agent' = [agent EXCEPT ![a].pc = "move", ![a].id = j]
            PROVE  rows[r.id] # None /\ rows[r.id].hash = r.look /\ r.id \in Ids
        <5>1. agent'[a].id = j /\ agent'[a].look = agent[a].look
          BY <1>0, <4>2 DEF Ground, Safe, Typed, AgentsTyped, AgentType
        <5> QED BY <1>3, <5>1 DEF OfContent
      <4>3. (\E j \in Ids : Unused(j)) => NewID \in Ids
        BY NewIDFact
      <4> QED BY <2>1, <4>1, <4>2, <4>3 DEF FindsContent
    <3> QED BY <1>2, <2>1, <3>1, SameInPlace, OneHolds
  <2>2. CASE r.pc # "move" /\ UNCHANGED rows
    BY <1>2, <2>2, SameInPlace, OneHolds
  <2>3. CASE (Moves(a) /\ r.pc = "upsert") \/ (Upserts(a) /\ r = Idle)
    <3>1. \A b \in Agents \ {a} : ~Locked(b)
      BY <1>0, <2>3, Alone DEF Moves, Upserts, Locked, Ground
    <3>2. \A g \in Agents : agent'[g].pc # "move"
      BY <1>2, <2>3, <3>1 DEF Becomes, Locked, Idle
    <3> QED BY <3>2 DEF ContentsHeld, ContentHeld
  <2>4. OpensAs(a, r) => r.pc # "move"
    BY DEF OpensAs, Idle
  <2> QED BY <1>2, <2>1, <2>2, <2>3, <2>4
<1> QED BY <1>5, <1>8, <1>9

-----------------------------------------------------------------------------
(* The hand-off, the watcher and the scan.                                 *)

LEMMA OutsideBears == \A r, p, i : r.pc \notin InRecord => Bears(r, p, i)
BY DEF Bears

\* A goroutine that goes on outside record, or reads its path, while the rows
\* keep their places and the scan does too.
LEMMA OneFollows ==
  ASSUME Following, NEW a \in Agents, NEW r, Becomes(a, r), RowsInPlace,
         UNCHANGED <<disk, owed, scan>>,
         r.pc \notin InRecord \/ (r.pc = "path" /\ r.path \in Paths /\ r.look = disk[r.path]
                                  /\ disk[r.path] \in Contents)
  PROVE  OwedFollowed' /\ ContentsHeld'
<1>1. ASSUME NEW p \in Paths, NEW i \in Ids, Followed(p, i)
      PROVE  Spared(p, i)
  <2>1. Bears(r, p, i)
    <3>1. CASE r.pc \notin InRecord
      BY <3>1, OutsideBears
    <3>2. CASE r.pc = "path" /\ r.path \in Paths /\ r.look = disk[r.path] /\ disk[r.path] \in Contents
      <4>1. Sole(p) /\ LeftBehind(p, i)
        BY <1>1 DEF Followed
      <4>2. r.path = p <=> r.look = disk[p]
        BY <3>2, <4>1 DEF Sole
      <4>3. r.path = rows[i].path => rows[i].path = p
        BY <3>2, <4>1, ConvertiblePaths DEF LeftBehind
      <4> QED BY <3>2, <4>2, <4>3 DEF Bears
    <3> QED BY <3>1, <3>2
  <2>2. RowsSpare(p, i) /\ ScanSpares(p, i)
    BY <1>1, InPlaceSpares, SameScanSpares
  <2> QED BY <2>1, <2>2, OneBears DEF Spared
<1>2. OwedFollowed'
  BY <1>1, Carried
<1>3. ContentsHeld'
  <2>1. r.pc # "move"
    BY DEF InRecord
  <2> QED BY <2>1, OneHolds
<1> QED BY <1>2, <1>3

LEMMA HandsOffFollows ==
  ASSUME Following, NEW a \in Agents, HandsOff(a)
  PROVE  OwedFollowed' /\ ContentsHeld' /\ WorksOnSeen'
<1>1. Becomes(a, Idle) /\ Idle.pc \notin InRecord /\ Idle.pc = "idle"
  BY Becoming DEF HandsOff, Following, Ground, Idle, InRecord
<1>2. UNCHANGED <<disk, rows, scan, owed>>
  BY DEF HandsOff, history
<1> HIDE DEF Idle
<1> QED BY <1>1, <1>2, SameInPlace, OneFollows, OneSeen

LEMMA WatchingFollows ==
  ASSUME Following, Watching
  PROVE  OwedFollowed' /\ ContentsHeld' /\ WorksOnSeen'
<1>0. /\ Watcher \in Agents /\ Watcher \notin Workers /\ Ground /\ Safe /\ Typed
      /\ AgentOK(agent[Watcher])
  BY AgentKinds, AgentFacts DEF Following, Ground, Safe
<1>1. UNCHANGED <<disk, scan, owed>>
  BY DEF Watching, Handles, Settles, FindsGone, Flags, history
<1>2. ASSUME NEW r, Becomes(Watcher, r), RowsInPlace,
             r.pc \notin InRecord \/ (r.pc = "path" /\ r.path \in Paths /\ r.look = disk[r.path]
                                      /\ disk[r.path] \in Contents)
      PROVE  OwedFollowed' /\ ContentsHeld' /\ WorksOnSeen'
  BY <1>0, <1>1, <1>2, OneFollows, OneSeen
<1>3. Idle.pc \notin InRecord
  BY DEF Idle, InRecord
<1>4. CASE Handles
  <2>1. PICK p \in armed :
          agent' = [agent EXCEPT ![Watcher] =
             [pc |-> IF disk[p] = None THEN "gone" ELSE "settle",
              path |-> p, look |-> disk[p], id |-> None]]
    BY <1>4 DEF Handles
  <2> DEFINE r == [pc |-> IF disk[p] = None THEN "gone" ELSE "settle",
                   path |-> p, look |-> disk[p], id |-> None]
  <2>2. Becomes(Watcher, r)
    BY <1>0, <2>1, Becoming
  <2>3. r.pc \notin InRecord
    BY DEF InRecord
  <2>4. RowsInPlace
    BY <1>4, SameInPlace DEF Handles
  <2> HIDE DEF r
  <2> QED BY <1>2, <2>2, <2>3, <2>4
<1>5. CASE Settles
  <2> DEFINE p == agent[Watcher].path
  <2>0. p \in Paths /\ RowsInPlace
    BY <1>0, <1>5, SameInPlace DEF Settles, AgentOK
  <2>1. CASE Reads(Watcher, p)
    <3> DEFINE r == IF disk[p] \in Contents
                    THEN [pc |-> "path", path |-> p, look |-> disk[p], id |-> None] ELSE Idle
    <3>1. Becomes(Watcher, r)
      BY <1>0, <2>1, Becoming DEF Reads
    <3>2. r.pc \notin InRecord \/ (r.pc = "path" /\ r.path \in Paths /\ r.look = disk[r.path]
                                   /\ disk[r.path] \in Contents)
      BY <1>3, <2>0
    <3> HIDE DEF r, p
    <3> QED BY <1>2, <2>0, <3>1, <3>2
  <2>2. CASE Stats(Watcher, p)
    <3> DEFINE r == IF disk[p] # None
                    THEN [pc |-> "handoff", path |-> p, look |-> disk[p], id |-> None] ELSE Idle
    <3>1. Becomes(Watcher, r)
      BY <1>0, <2>2, Becoming DEF Stats
    <3>2. r.pc \notin InRecord
      BY <1>3 DEF InRecord
    <3> HIDE DEF r, p
    <3> QED BY <1>2, <2>0, <3>1, <3>2
  <2>3. CASE Rests(Watcher)
    BY <1>0, <1>2, <1>3, <2>0, <2>3, Becoming
  <2> QED BY <1>5, <2>1, <2>2, <2>3 DEF Settles
<1>6. CASE FindsGone
  <2>0. RowsInPlace
    BY <1>6, SameInPlace DEF FindsGone
  <2>1. CASE Rests(Watcher)
    BY <1>0, <1>2, <1>3, <2>0, <2>1, Becoming
  <2>2. ASSUME NEW i, agent' = [agent EXCEPT ![Watcher].pc = "flag", ![Watcher].id = i]
        PROVE  OwedFollowed' /\ ContentsHeld' /\ WorksOnSeen'
    <3> DEFINE r == [agent[Watcher] EXCEPT !.pc = "flag", !.id = i]
    <3>1. Becomes(Watcher, r)
      BY <1>0, <2>2, Becoming
    <3>2. r.pc \notin InRecord
      BY <1>0 DEF InRecord, AgentOK, AgentType
    <3> HIDE DEF r
    <3> QED BY <1>2, <2>0, <3>1, <3>2
  <2> QED BY <1>6, <2>1, <2>2 DEF FindsGone
<1>7. CASE Flags
  <2>1. agent[Watcher].id \in Ids
    BY <1>0, <1>7 DEF Flags, AgentOK
  <2>2. RowsInPlace
    BY <1>0, <1>7, <2>1, FlaggedInPlace DEF Flags
  <2>3. Becomes(Watcher, Idle)
    BY <1>0, <1>7, Becoming DEF Flags
  <2> QED BY <1>2, <1>3, <2>2, <2>3
<1> QED BY <1>4, <1>5, <1>6, <1>7 DEF Watching

\* The scan goes on, and goroutines outside record with it.
LEMMA ScanFollows ==
  ASSUME Following, RowsInPlace, UNCHANGED <<disk, owed>>,
         \A g \in Agents : agent'[g] = agent[g] \/ agent'[g].pc \notin InRecord,
         \A p \in Paths : \A i \in Ids : Followed(p, i) => ScanSpares(p, i)
  PROVE  OwedFollowed' /\ ContentsHeld'
<1>1. ASSUME NEW p \in Paths, NEW i \in Ids, Followed(p, i)
      PROVE  Spared(p, i)
  BY <1>1, OutsideBears, InPlaceSpares DEF Spared, BearersSpare
<1>2. OwedFollowed'
  BY <1>1, Carried
<1>3. ContentsHeld'
  <2>1. \A g \in Agents : agent'[g].pc = "move" => agent'[g] = agent[g]
    BY DEF InRecord
  <2>2. \A j \in Ids : rows'[j] # None => rows[j] # None /\ rows'[j].hash = rows[j].hash
    BY DEF RowsInPlace
  <2> QED BY <2>1, <2>2, HoldingStays
<1> QED BY <1>2, <1>3

\* A walk that goes on past a path takes it from those ahead, and sees no file
\* where there is none.
LEMMA WalkSpares ==
  ASSUME Following, scan.pc = "walk", NEW found, WalksOn(found),
         found \subseteq {Order[scan.at]}, \A o \in found : disk[o] # None,
         NEW p \in Paths, NEW i \in Ids, Followed(p, i)
  PROVE  ScanSpares(p, i)
<1>1. /\ scan'.pc = IF scan.at = Len(Order) THEN "work" ELSE scan.pc
      /\ scan'.at = IF scan.at = Len(Order) THEN 1 ELSE scan.at + 1
      /\ scan'.seen = scan.seen \cup found
  BY WalksOnTo DEF Following, Ground, Safe
<1>2. scan.at \in 1 .. Len(Order) /\ Len(Order) \in Nat
  BY OrderFacts DEF Following, Ground, Safe, Typed, ScanTyped, PlaceInWalk
<1>3. Order[scan.at] \in Ahead
  BY <1>2 DEF Ahead
<1>4. Ahead' \subseteq Ahead
  <2>1. CASE scan.at = Len(Order)
    BY <1>1, <2>1 DEF Ahead
  <2>2. CASE scan.at # Len(Order)
    <3>1. Ahead' = {Order[n] : n \in scan.at + 1 .. Len(Order)}
      BY <1>1, <2>2 DEF Ahead
    <3>2. \A n \in scan.at + 1 .. Len(Order) : n \in scan.at .. Len(Order)
      BY <1>2
    <3>3. Ahead = {Order[n] : n \in scan.at .. Len(Order)}
      BY DEF Ahead
    <3> QED BY <3>1, <3>2, <3>3
  <2> QED BY <2>1, <2>2
<1> SUFFICES ASSUME rows[i].path # p, rows[i].path \in scan'.seen
             PROVE  p \notin scan'.seen \cup Ahead'
  BY DEF ScanSpares
<1>5. rows[i].path \in scan.seen
  BY <1>1 DEF Followed, LeftBehind
<1>6. p \notin scan.seen \cup Ahead
  BY <1>5 DEF Followed, SeenOnce
<1> QED BY <1>1, <1>3, <1>4, <1>6

\* A walk that has not begun has seen nothing, and one that is over is for the
\* pool, and then for nobody in record.
LEMMA OtherScanSpares ==
  ASSUME NEW p, NEW i, Followed(p, i),
         \/ scan'.pc \notin {"walk", "work"} \/ scan'.seen = {}
         \/ scan'.pc = "work" /\ scan.pc = "work" /\ scan'.seen = scan.seen
  PROVE  ScanSpares(p, i)
BY DEF ScanSpares, Followed, SeenOnce, Ahead

\* While the scan is not at work its pool rests.
LEMMA PoolRests ==
  ASSUME Following, scan.pc # "work", NEW w \in Workers
  PROVE  agent[w].pc = "idle"
BY DEF Following, Ground, Turns

LEMMA ScanningFollows ==
  ASSUME Following, Scanning \/ WalksPast \/ ScanStarts
  PROVE  OwedFollowed' /\ ContentsHeld' /\ WorksOnSeen'
<1>0. Ground /\ Typed /\ Safe
  BY DEF Following, Ground, Safe
<1>1. UNCHANGED <<disk, owed>>
  BY DEF Scanning, WalksPast, ScanStarts, Walks, Lists, Marks, Converts, ScanEnds, history
<1>2. CASE Walks \/ WalksPast
  <2>1. PICK found : /\ WalksOn(found) /\ found \subseteq {Order[scan.at]}
                     /\ \A o \in found : disk[o] # None
    <3>1. CASE Walks
      <4> DEFINE found == IF disk[Order[scan.at]] = None THEN {} ELSE {Order[scan.at]}
      <4>1. WalksOn(found)
        BY <3>1 DEF Walks
      <4>2. found \subseteq {Order[scan.at]} /\ \A o \in found : disk[o] # None
        OBVIOUS
      <4> HIDE DEF found
      <4> QED BY <4>1, <4>2
    <3>2. CASE WalksPast
      BY <3>2 DEF WalksPast
    <3> QED BY <1>2, <3>1, <3>2
  <2>2. scan.pc = "walk" /\ UNCHANGED agent /\ RowsInPlace
    BY <1>2, SameInPlace DEF Walks, WalksPast
  <2>3. OwedFollowed' /\ ContentsHeld'
    BY <1>1, <2>1, <2>2, WalkSpares, ScanFollows
  <2>4. WorksOnSeen'
    BY <2>2, PoolRests DEF WorksOnSeen
  <2> QED BY <2>3, <2>4
<1>3. CASE ScanStarts
  <2>1. scan'.seen = {} /\ scan.pc # "work" /\ UNCHANGED agent /\ RowsInPlace
    BY <1>3, SameInPlace DEF ScanStarts, NewScan
  <2>2. OwedFollowed' /\ ContentsHeld'
    BY <1>1, <2>1, OtherScanSpares, ScanFollows
  <2> QED BY <2>1, <2>2, PoolRests DEF WorksOnSeen
<1>4. CASE Lists
  <2>1. UNCHANGED agent /\ RowsInPlace /\ \A w \in Workers : Resting(w)
    BY <1>4, SameInPlace DEF Lists
  <2>2. scan'.pc = "end"
    BY <1>0, <1>4 DEF Lists, Typed, ScanTyped
  <2>3. OwedFollowed' /\ ContentsHeld'
    BY <1>1, <2>1, <2>2, OtherScanSpares, ScanFollows
  <2> QED BY <2>1, <2>3 DEF WorksOnSeen, Resting
<1>5. CASE Marks
  <2>1. UNCHANGED agent /\ scan.pc = "end" /\ scan'.pc = "end"
    BY <1>0, <1>5 DEF Marks, Typed, ScanTyped
  <2>2. RowsInPlace
    BY <1>0, <1>5, FlaggedInPlace DEF Marks, Typed, ScanTyped
  <2>3. OwedFollowed' /\ ContentsHeld'
    BY <1>1, <2>1, <2>2, OtherScanSpares, ScanFollows
  <2> QED BY <2>1, <2>3, PoolRests DEF WorksOnSeen
<1>6. CASE Converts
  <2>1. PICK n \in Upcoming(Convertible) :
          scan' = [scan EXCEPT !.at = n + 1] /\ Stats(Scanner, Order[n])
    BY <1>6 DEF Converts
  <2>2. scan.pc = "end" /\ scan'.pc = "end" /\ RowsInPlace
    BY <1>0, <1>6, <2>1, SameInPlace DEF Converts, Typed, ScanTyped
  <2>3. PICK r : Becomes(Scanner, r) /\ (r = Idle \/ r.pc = "handoff")
    BY <1>0, <2>1, AgentKinds, StatsAs
  <2>4. r.pc \notin InRecord
    BY <2>3 DEF Idle, InRecord
  <2>5. \A g \in Agents : agent'[g] = agent[g] \/ agent'[g].pc \notin InRecord
    BY <2>3, <2>4 DEF Becomes
  <2>6. OwedFollowed' /\ ContentsHeld'
    BY <1>1, <2>2, <2>5, OtherScanSpares, ScanFollows
  <2>7. WorksOnSeen'
    BY <2>2, <2>3, PoolRests, AgentKinds DEF WorksOnSeen, Becomes
  <2> QED BY <2>6, <2>7
<1>7. CASE ScanEnds
  <2>1. scan.pc = "end" /\ scan'.pc = "idle" /\ UNCHANGED agent /\ RowsInPlace
    BY <1>7, SameInPlace DEF ScanEnds, NewScan
  <2>2. OwedFollowed' /\ ContentsHeld'
    BY <1>1, <2>1, OtherScanSpares, ScanFollows
  <2> QED BY <2>1, <2>2, PoolRests DEF WorksOnSeen
<1> QED BY <1>2, <1>3, <1>4, <1>5, <1>6, <1>7 DEF Scanning

LEMMA AssignsFollows ==
  ASSUME Following, NEW w \in Workers, Assigns(w)
  PROVE  OwedFollowed' /\ ContentsHeld' /\ WorksOnSeen'
<1>0. Ground /\ Typed /\ Safe /\ w \in Agents
  BY AgentKinds DEF Following, Ground, Safe
<1>1. PICK n \in Upcoming(Paths \ Convertible) :
        /\ scan' = [scan EXCEPT !.at = n + 1]
        /\ agent' = [agent EXCEPT ![w] = [Idle EXCEPT !.pc = "open", !.path = Order[n]]]
  BY Zenon DEF Assigns
<1> DEFINE r == [Idle EXCEPT !.pc = "open", !.path = Order[n]]
<1>2. Becomes(w, r)
  BY <1>0, <1>1, Becoming
<1>3. r.pc \notin InRecord /\ r.path \in scan.seen
  BY <1>1 DEF Idle, Upcoming, InRecord
<1> HIDE DEF r
<1>4. scan.pc = "work" /\ UNCHANGED <<disk, rows, owed>>
  BY Zenon DEF Assigns, history
<1>5. scan'.pc = "work" /\ scan'.seen = scan.seen
  BY <1>0, <1>1, <1>4 DEF Typed, ScanTyped
<1>6. \A g \in Agents : agent'[g] = agent[g] \/ agent'[g].pc \notin InRecord
  BY <1>2, <1>3 DEF Becomes
<1>7. OwedFollowed' /\ ContentsHeld'
  BY <1>4, <1>5, <1>6, OtherScanSpares, SameInPlace, ScanFollows
<1>8. WorksOnSeen'
  <2> SUFFICES ASSUME NEW v \in Workers, agent'[v].pc # "idle" PROVE agent'[v].path \in scan.seen
    BY <1>5 DEF WorksOnSeen
  <2>1. CASE v = w
    BY <1>2, <1>3, <2>1 DEF Becomes
  <2>2. CASE v # w
    BY <1>2, <2>2, AgentKinds DEF Becomes, Following, WorksOnSeen
  <2> QED BY <2>1, <2>2
<1> QED BY <1>7, <1>8

-----------------------------------------------------------------------------
(* The folder and what else happens.                                       *)

\* A folder that changes without disturbing the file at p.
LEMMA FolderFollows ==
  ASSUME NEW p \in Paths, NEW i \in Ids, Followed(p, i), UNCHANGED <<rows, agent, scan>>,
         disk'[p] = disk[p], \A o \in Paths \ {p} : disk'[o] # disk[p],
         rows[i].path # p => disk'[rows[i].path] = None
  PROVE  Followed(p, i)'
<1>1. KnownBy(p, i)'
  BY DEF Followed, KnownBy, OfContent, At
<1>2. Sole(p)' /\ LeftBehind(p, i)'
  BY DEF Followed, Sole, LeftBehind
<1>3. Borne(p, i)'
  BY DEF Followed, Borne, Bears
<1>4. SeenOnce(p, i)'
  BY DEF Followed, SeenOnce, Ahead
<1> QED BY <1>1, <1>2, <1>3, <1>4 DEF Followed

\* While rows, goroutines and scan stay, so does what they have in hand.
LEMMA StillHolding ==
  ASSUME Following, UNCHANGED <<rows, agent, scan>>
  PROVE  ContentsHeld' /\ WorksOnSeen'
BY DEF Following, ContentsHeld, ContentHeld, WorksOnSeen

\* What is forgiven is owed no more, and the rest stays.
LEMMA StillOwed ==
  ASSUME Following, NEW spoiled, Forgives(spoiled), NEW p \in Paths, NEW i \in Ids, owed'[p] = i
  PROVE  p \notin spoiled /\ owed[p] = i /\ Followed(p, i)
<1>1. i # None
  BY LibraryScanAssumption DEF LibraryScanAssumption
<1>2. p \notin spoiled /\ owed[p] = i
  BY <1>1 DEF Forgives
<1> QED BY <1>2 DEF Following, OwedFollowed

LEMMA PutsFollows ==
  ASSUME Following, NEW q \in Paths, NEW c \in Contents \cup {Unreadable}, Puts(q, c)
  PROVE  OwedFollowed'
<1> SUFFICES ASSUME NEW p \in Paths, NEW i \in Ids, owed'[p] = i PROVE Followed(p, i)'
  BY DEF OwedFollowed
<1>1. /\ p \notin {q} \cup OwedFrom(q) \cup {o \in Paths : disk[o] = c}
      /\ owed[p] = i /\ Followed(p, i)
  BY StillOwed DEF Puts
<1>2. disk \in [Paths -> Looks] /\ disk' = [disk EXCEPT ![q] = c] /\ UNCHANGED <<rows, agent, scan>>
  BY DEF Following, Ground, Safe, Typed, OthersTyped, Puts
<1>3. rows[i] # None /\ rows[i].path \in Paths /\ Sole(p)
      /\ (rows[i].path # p => disk[rows[i].path] = None)
  BY <1>1 DEF Followed, KnownBy, LeftBehind
<1>4. i # None
  BY LibraryScanAssumption DEF LibraryScanAssumption
<1>5. rows[i].path # q
  BY <1>1, <1>3, <1>4 DEF OwedFrom
<1>6. disk'[p] = disk[p] /\ \A o \in Paths \ {p} : disk'[o] # disk[p]
  BY <1>1, <1>2, <1>3 DEF Sole
<1> QED BY <1>1, <1>2, <1>3, <1>5, <1>6, FolderFollows

LEMMA RemovesFollows ==
  ASSUME Following, NEW q \in Paths, Removes(q)
  PROVE  OwedFollowed'
<1> SUFFICES ASSUME NEW p \in Paths, NEW i \in Ids, owed'[p] = i PROVE Followed(p, i)'
  BY DEF OwedFollowed
<1>1. p # q /\ Followed(p, i)
  BY StillOwed DEF Removes
<1>2. disk \in [Paths -> Looks] /\ disk' = [disk EXCEPT ![q] = None] /\ UNCHANGED <<rows, agent, scan>>
  BY DEF Following, Ground, Safe, Typed, OthersTyped, Removes
<1>3. /\ rows[i].path \in Paths /\ Sole(p) /\ disk[p] # None
      /\ rows[i].path # p => disk[rows[i].path] = None
  BY <1>1, ConvertiblePaths DEF Followed, KnownBy, LeftBehind
<1>4. disk'[p] = disk[p] /\ \A o \in Paths \ {p} : disk'[o] # disk[p]
  BY <1>1, <1>2, <1>3 DEF Sole
<1>5. rows[i].path # p => disk'[rows[i].path] = None
  BY <1>2, <1>3
<1> QED BY <1>1, <1>2, <1>4, <1>5, FolderFollows

\* The new name of a recognisable file is followed.
LEMMA RecognisedFollows ==
  ASSUME Following, NEW p \in Paths \ Convertible, NEW q \in Paths \ Convertible, p # q,
         NEW i \in Ids, Recognisable(i, p, q),
         disk' = [disk EXCEPT ![q] = disk[p], ![p] = None], UNCHANGED <<rows, agent, scan>>
  PROVE  Followed(q, i)'
<1>1. /\ disk \in [Paths -> Looks] /\ rows \in [Ids -> Row \cup {None}]
      /\ rows[i] # None /\ rows[i].hash = disk[p] /\ OfContent(disk[p]) = {i}
      /\ rows[i].path = p \/ owed[p] = i
      /\ \A o \in Paths \ {p} : disk[o] # disk[p]
      /\ At(q) \subseteq {i}
      /\ \A a \in Agents : agent[a].path \notin {p, q, rows[i].path} /\ agent[a].look # disk[p]
      /\ scan.pc \in {"walk", "work"} /\ rows[i].path \in scan.seen => q \notin scan.seen \cup Ahead
  BY DEF Recognisable, Following, Ground, Safe, Typed, OthersTyped, RowsTyped
<1>2. disk[p] \in Contents
  BY <1>1 DEF Row
<1>3. rows[i].path \in Paths /\ (rows[i].path # p => disk[rows[i].path] = None)
  <2>1. CASE rows[i].path = p
    BY <2>1
  <2>2. CASE owed[p] = i
    BY <2>2 DEF Following, OwedFollowed, Followed, LeftBehind
  <2> QED BY <1>1, <2>1, <2>2
<1>4. /\ disk'[q] = disk[p] /\ disk'[p] = None
      /\ \A o \in Paths \ {p, q} : disk'[o] = disk[o]
  BY <1>1
<1>5. KnownBy(q, i)'
  BY <1>1, <1>2, <1>4 DEF KnownBy, OfContent, At
<1>6. Sole(q)'
  <2> SUFFICES ASSUME NEW o \in Paths \ {q} PROVE disk'[o] # disk[p]
    BY <1>4 DEF Sole
  <2>1. CASE o = p
    BY <1>2, <1>4, <2>1, ConvertiblePaths
  <2>2. CASE o # p
    BY <1>1, <1>4, <2>2
  <2> QED BY <2>1, <2>2
<1>7. LeftBehind(q, i)'
  <2>1. rows[i].path # q => disk'[rows[i].path] = None
    BY <1>3, <1>4
  <2> QED BY <1>3, <2>1 DEF LeftBehind
<1>8. Borne(q, i)'
  BY <1>1, <1>4 DEF Borne, Bears
<1>9. SeenOnce(q, i)'
  BY <1>1 DEF SeenOnce, Ahead
<1> QED BY <1>5, <1>6, <1>7, <1>8, <1>9 DEF Followed

LEMMA RenamesFollows ==
  ASSUME Following, NEW from \in Paths, NEW to \in Paths, Renames(from, to)
  PROVE  OwedFollowed'
<1> DEFINE known == {i \in Ids : from \notin Convertible /\ to \notin Convertible
                                 /\ Recognisable(i, from, to)}
           spoiled == {from, to} \cup OwedFrom(to)
<1> SUFFICES ASSUME NEW p \in Paths, NEW i \in Ids, owed'[p] = i PROVE Followed(p, i)'
  BY DEF OwedFollowed
<1>1. /\ disk \in [Paths -> Looks] /\ from # to
      /\ disk' = [disk EXCEPT ![to] = disk[from], ![from] = None]
      /\ UNCHANGED <<rows, agent, scan>>
  BY DEF Following, Ground, Safe, Typed, OthersTyped, Renames
<1>2. owed' = [o \in Paths |->
         IF o = to /\ known # {} THEN CHOOSE j \in known : TRUE
         ELSE IF o \in spoiled THEN None ELSE owed[o]]
  BY DEF Renames
<1>3. i # None
  BY LibraryScanAssumption DEF LibraryScanAssumption
<1> HIDE DEF known, spoiled
<1>4. CASE p = to /\ known # {}
  <2>1. i \in known
    BY <1>2, <1>4
  <2> QED BY <1>1, <1>4, <2>1, RecognisedFollows DEF known
<1>5. CASE ~(p = to /\ known # {})
  <2>1. p \notin spoiled /\ owed[p] = i
    BY <1>2, <1>3, <1>5
  <2>2. Followed(p, i) /\ p # from /\ p # to
    BY <2>1 DEF Following, OwedFollowed, spoiled
  <2>3. /\ rows[i] # None /\ rows[i].path \in Paths /\ Sole(p) /\ disk[p] # None
        /\ rows[i].path # p => disk[rows[i].path] = None
    BY <2>2, ConvertiblePaths DEF Followed, KnownBy, LeftBehind
  <2>4. rows[i].path # to
    BY <1>3, <2>1, <2>3 DEF OwedFrom, spoiled
  <2>5. /\ disk'[to] = disk[from] /\ disk'[from] = None
        /\ \A o \in Paths \ {from, to} : disk'[o] = disk[o]
    BY <1>1
  <2>6. disk'[p] = disk[p] /\ \A o \in Paths \ {p} : disk'[o] # disk[p]
    BY <2>2, <2>3, <2>5 DEF Sole
  <2>7. rows[i].path # p => disk'[rows[i].path] = None
    BY <2>3, <2>4, <2>5
  <2> QED BY <1>1, <2>2, <2>6, <2>7, FolderFollows
<1> QED BY <1>4, <1>5

LEMMA ChangingFollows ==
  ASSUME Following, Changing
  PROVE  OwedFollowed' /\ ContentsHeld' /\ WorksOnSeen'
<1>1. UNCHANGED <<rows, agent, scan>>
  BY DEF Changing, Puts, Removes, Renames
<1> QED BY <1>1, StillHolding, PutsFollows, RemovesFollows, RenamesFollows DEF Changing

LEMMA HappeningFollows ==
  ASSUME Following, Happening
  PROVE  OwedFollowed' /\ ContentsHeld' /\ WorksOnSeen'
<1>0. Ground /\ rows \in [Ids -> Row \cup {None}]
  BY DEF Following, Ground, Safe, Typed, RowsTyped
<1>1. CASE WalksPast
  BY <1>1, ScanningFollows
<1>2. CASE Restarts
  <2>1. /\ \A g \in Agents : agent'[g] = Idle
        /\ scan'.seen = {} /\ RowsInPlace /\ UNCHANGED <<disk, owed>>
    BY <1>2, SameInPlace DEF Restarts, NewScan
  <2>2. Idle.pc \notin InRecord /\ Idle.pc = "idle"
    BY DEF Idle, InRecord
  <2>3. OwedFollowed' /\ ContentsHeld'
    BY <2>1, <2>2, OtherScanSpares, ScanFollows
  <2> QED BY <2>1, <2>2, <2>3, AgentKinds DEF WorksOnSeen
<1>3. ASSUME NEW k \in Ids, NEW source \in OwnSources, NEW to \in OwnSources, Claims(k, source, to)
      PROVE  OwedFollowed' /\ ContentsHeld' /\ WorksOnSeen'
  <2>1. UNCHANGED <<disk, agent, scan, owed>>
    BY <1>3 DEF Claims
  <2>2. RowsInPlace
    <3>1. /\ \A j \in Ids \ {k} : rows'[j] = rows[j]
          /\ rows[k] # None /\ rows[k] \in Row /\ rows'[k] = [rows[k] EXCEPT !.source = to]
      BY <1>0, <1>3 DEF Claims
    <3>2. rows'[k] \in Row
      BY <3>1 DEF Row, OwnSources
    <3>3. rows'[k] # None /\ rows'[k].path = rows[k].path /\ rows'[k].hash = rows[k].hash
      BY <3>1, <3>2, LibraryScanAssumption DEF Row, LibraryScanAssumption
    <3> QED BY <3>1, <3>3 DEF RowsInPlace
  <2>3. OwedFollowed' /\ ContentsHeld'
    BY <2>1, <2>2, SameScanSpares, ScanFollows
  <2> QED BY <2>1, <2>3 DEF Following, WorksOnSeen
<1>4. ASSUME NEW k \in Ids, Deletes(k)
      PROVE  OwedFollowed' /\ ContentsHeld' /\ WorksOnSeen'
  <2>1. /\ UNCHANGED <<disk, agent, scan>> /\ rows'[k] = None
        /\ \A j \in Ids \ {k} : rows'[j] = rows[j]
    BY <1>0, <1>4 DEF Deletes
  <2>2. OwedFollowed'
    <3> SUFFICES ASSUME NEW p \in Paths, NEW i \in Ids, owed'[p] = i PROVE Followed(p, i)'
      BY DEF OwedFollowed
    <3>1. i # k /\ Followed(p, i)
      BY <1>4, StillOwed DEF Deletes
    <3>2. RowsSpare(p, i)
      BY <2>1, <3>1 DEF RowsSpare, Followed, KnownBy
    <3>3. ScanSpares(p, i)
      BY <2>1, <3>1, SameScanSpares
    <3> QED BY <2>1, <3>1, <3>2, <3>3, FollowsOn DEF ScanSpares
  <2>3. ContentsHeld'
    BY <2>1, HoldingStays
  <2> QED BY <2>1, <2>2, <2>3 DEF Following, WorksOnSeen
<1>5. ASSUME NEW h, NEW source \in {"upload", "converted"}, Files(h, source)
      PROVE  OwedFollowed' /\ ContentsHeld' /\ WorksOnSeen'
  <2>1. NewID \in Ids /\ Unused(NewID)
    BY <1>5, NewIDFact DEF Files
  <2>2. /\ UNCHANGED <<disk, agent, scan>>
        /\ \A j \in Ids : j # NewID => rows'[j] = rows[j]
        /\ rows'[NewID].path = Filed /\ rows'[NewID].hash = h
    BY <1>0, <1>5, <2>1 DEF Files
  <2>3. rows[NewID] = None /\ \A g \in Agents : agent[g].id # NewID
    BY <2>1 DEF Unused
  <2> HIDE DEF NewID
  <2>4. OwedFollowed'
    <3> SUFFICES ASSUME NEW p \in Paths, NEW i \in Ids, owed'[p] = i PROVE Followed(p, i)'
      BY DEF OwedFollowed
    <3>1. disk[p] # h /\ Followed(p, i)
      BY <1>5, StillOwed DEF Files
    <3>2. RowsSpare(p, i)
      BY <2>2, <2>3, <3>1, FiledFact DEF RowsSpare, Followed, KnownBy
    <3>3. ScanSpares(p, i)
      BY <2>2, <3>1, SameScanSpares
    <3> QED BY <2>2, <3>1, <3>2, <3>3, FollowsOn DEF ScanSpares
  <2>5. ContentsHeld'
    BY <2>2, <2>3, HoldingStays
  <2> QED BY <2>2, <2>4, <2>5 DEF Following, WorksOnSeen
<1> QED BY <1>1, <1>2, <1>3, <1>4, <1>5 DEF Happening, OwnSources

LEMMA StepFollowing == Following /\ [Next]_vars => Following'
<1> SUFFICES ASSUME Following, [Next]_vars PROVE Following' OBVIOUS
<1>1. Ground'
  BY StepGround DEF Following
<1>2. CASE UNCHANGED vars
  <2>1. UNCHANGED <<disk, rows, agent, scan, owed>>
    BY <1>2 DEF vars, history
  <2>2. ContentsHeld' /\ WorksOnSeen'
    BY <2>1, StillHolding
  <2>3. OwedFollowed'
    BY <2>1, SameInPlace, SameScanSpares, ScanFollows
  <2> QED BY <1>1, <2>2, <2>3 DEF Following
<1>3. CASE Next
  <2>1. OwedFollowed' /\ ContentsHeld' /\ WorksOnSeen'
    BY <1>3, RecordingFollows, HandsOffFollows, WatchingFollows, ScanningFollows, AssignsFollows,
       ChangingFollows, HappeningFollows
    DEF Next
  <2> QED BY <1>1, <2>1 DEF Following
<1> QED BY <1>2, <1>3

\* A file renamed keeps its row, and so its tags and everyone's place in it,
\* through lost events, a watcher and a scan that come to its two names in any
\* order, further renames and restarts: the watcher and the scan recognise the
\* row by the file's content before either inserts another (scan.go: record,
\* "a rename or a move, which is the case the content hash exists for").
THEOREM RenamesKeepTheirRow == Spec => []RenameKeepsRow
<1>1. Spec => []Following
  BY InitFollowing, StepFollowing, PTL DEF Spec
<1> QED BY <1>1, CalmScansAgree, FollowingKeepsRow, PTL
=============================================================================
