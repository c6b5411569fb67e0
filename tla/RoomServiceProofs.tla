------------------------- MODULE RoomServiceProofs -------------------------
(***************************************************************************)
(* For every number of players, handlers, ticks and restarts: the types of *)
(* RoomService, and the inductive invariant RoomInv, from which the stored *)
(* room is well formed whatever handlers interleave.  With one handler at  *)
(* a time, what the listeners heard is what is stored, but for the flag of *)
(* a host found after a restart, and nobody loses a seat to another.       *)
(***************************************************************************)
EXTENDS RoomService, FiniteSetTheorems, WellFoundedInduction, TLAPS

Array == [Player -> Member \cup {None}]

-----------------------------------------------------------------------------
(* Arrays of players.                                                      *)

\* A set of naturals that is not empty has a least one.
LEMMA SmallestNat ==
  ASSUME NEW S \in SUBSET Nat, S # {}
  PROVE  \E m \in S : \A n \in S : m <= n
<1>1. PICK m \in S : \A n \in S : ~ (<<n, m>> \in OpToRel(<, Nat))
  BY NatLessThanWellFounded, WFMin
<1>2. \A n \in S : ~ (n < m)
  BY <1>1 DEF OpToRel
<1>3. m \in Nat /\ \A n \in S : n \in Nat
  OBVIOUS
<1>4. \A n \in S : m <= n
  BY <1>2, <1>3, SMT
<1> QED BY <1>4

\* Who is in an array, and who of them is connected, can be counted.
LEMMA InIsFinite ==
  ASSUME NEW ps \in Array
  PROVE  /\ In(ps) \subseteq Player
         /\ IsFiniteSet(In(ps))
         /\ Cardinality(In(ps)) \in Nat
         /\ Connected(ps) \subseteq In(ps)
         /\ IsFiniteSet(Connected(ps))
         /\ Cardinality(Connected(ps)) \in Nat
         /\ Cardinality(Connected(ps)) <= Cardinality(In(ps))
         /\ \A p \in In(ps) : ps[p] \in Member
<1>1. In(ps) \subseteq Player /\ Connected(ps) \subseteq In(ps)
  BY DEF In, Connected
<1>2. IsFiniteSet(In(ps)) /\ IsFiniteSet(Connected(ps))
  BY <1>1, ConstantsAssumption, FS_Subset
<1>3. \A p \in In(ps) : ps[p] \in Member
  BY DEF In, Array
<1> QED BY <1>1, <1>2, <1>3, FS_Subset, FS_CardinalityType

\* Array.filter keeps an array an array, of exactly the players kept, as they were.
LEMMA KeepType ==
  ASSUME NEW ps \in Array, NEW S \in SUBSET In(ps)
  PROVE  /\ Keep(ps, S) \in Array
         /\ In(Keep(ps, S)) = S
         /\ \A p \in S : /\ Keep(ps, S)[p].is_host = ps[p].is_host
                         /\ Keep(ps, S)[p].connection = ps[p].connection
                         /\ Keep(ps, S)[p].deadline = ps[p].deadline
<1>1. ASSUME NEW p \in S
      PROVE  /\ Keep(ps, S)[p] \in Member
             /\ Keep(ps, S)[p].is_host = ps[p].is_host
             /\ Keep(ps, S)[p].connection = ps[p].connection
             /\ Keep(ps, S)[p].deadline = ps[p].deadline
  <2> DEFINE below == {q \in S : ps[q].seat <= ps[p].seat}
  <2>1. Cardinality(below) \in Nat
    BY InIsFinite, FS_Subset, FS_CardinalityType
  <2>2. p \in Player /\ ps[p] \in Member
    BY InIsFinite
  <2>3. Keep(ps, S)[p] = [ps[p] EXCEPT !.seat = Cardinality(below)]
    BY <2>2 DEF Keep
  <2> QED BY <2>1, <2>2, <2>3 DEF Member
<1>2. \A p \in Player \ S : Keep(ps, S)[p] = None
  BY DEF Keep
<1>3. Keep(ps, S) \in Array
  BY <1>1, <1>2, InIsFinite DEF Keep, Array
<1>4. In(Keep(ps, S)) = S
  BY <1>1, <1>2, InIsFinite, ConstantsAssumption DEF In
<1> QED BY <1>1, <1>3, <1>4

\* In what order the players of an array are: each seat counts those up to it.
Counted(ps) ==
  \A p \in In(ps) : ps[p].seat = Cardinality({q \in In(ps) : ps[q].seat <= ps[p].seat})

\* Array.filter counts the seats of the players it keeps anew.
LEMMA KeepCounted ==
  ASSUME NEW ps \in Array, NEW S \in SUBSET In(ps)
  PROVE  Counted(Keep(ps, S))
<1> DEFINE upTo(p) == {q \in S : ps[q].seat <= ps[p].seat}
           ks == Keep(ps, S)
<1>1. \A p \in S : p \in Player /\ ps[p] \in Member /\ ps[p].seat \in Nat
  BY InIsFinite DEF Member
<1>2. \A p \in S : /\ IsFiniteSet(upTo(p))
                   /\ Cardinality(upTo(p)) \in Nat
  BY InIsFinite, FS_Subset, FS_CardinalityType
<1>3. ASSUME NEW p \in S
      PROVE  ks[p].seat = Cardinality(upTo(p))
  <2>1. PICK n : n = Cardinality(upTo(p))
    OBVIOUS
  <2>2. ks[p] = [ps[p] EXCEPT !.seat = n]
    BY <1>1, <2>1 DEF Keep
  <2> QED BY <1>1, <2>1, <2>2 DEF Member
<1>4. In(ks) = S
  BY KeepType
<1> HIDE DEF ks
<1>5. ASSUME NEW p \in S
      PROVE  {q \in S : ks[q].seat <= ks[p].seat} = upTo(p)
  <2>1. ASSUME NEW q \in S, ps[q].seat <= ps[p].seat
        PROVE  ks[q].seat <= ks[p].seat
    <3>1. upTo(q) \subseteq upTo(p)
      BY <1>1, <2>1
    <3>2. Cardinality(upTo(q)) <= Cardinality(upTo(p))
      BY <1>2, <3>1, FS_Subset
    <3> QED BY <1>3, <3>2
  <2>2. ASSUME NEW q \in S, ~(ps[q].seat <= ps[p].seat)
        PROVE  ~(ks[q].seat <= ks[p].seat)
    <3>1. upTo(p) \subseteq upTo(q) /\ q \in upTo(q) /\ q \notin upTo(p)
      BY <1>1, <2>2
    <3>2. /\ Cardinality(upTo(p)) <= Cardinality(upTo(q))
          /\ Cardinality(upTo(p)) # Cardinality(upTo(q))
      BY <1>2, <3>1, FS_Subset
    <3> HIDE DEF upTo
    <3> QED BY <1>2, <1>3, <3>2
  <2> QED BY <2>1, <2>2
<1> HIDE DEF upTo
<1> QED BY <1>3, <1>4, <1>5 DEF Counted, ks

\* Nobody's seat changes when everybody is kept.
LEMMA KeepEverybody ==
  ASSUME NEW ps \in Array, Counted(ps)
  PROVE  Keep(ps, In(ps)) = ps
<1>1. ASSUME NEW p \in Player
      PROVE  Keep(ps, In(ps))[p] = ps[p]
  <2>1. CASE p \in In(ps)
    <3>1. PICK n : n = Cardinality({q \in In(ps) : ps[q].seat <= ps[p].seat})
      OBVIOUS
    <3>2. n = ps[p].seat
      BY <2>1, <3>1 DEF Counted
    <3>3. Keep(ps, In(ps))[p] = [ps[p] EXCEPT !.seat = n]
      BY <2>1, <3>1 DEF Keep
    <3>4. ps[p] \in Member
      BY <2>1, InIsFinite
    <3> QED BY <3>2, <3>3, <3>4 DEF Member
  <2>2. CASE p \notin In(ps)
    BY <2>2 DEF Keep, In
  <2> QED BY <2>1, <2>2
<1> QED BY <1>1 DEF Keep, Array

\* Arrays of the same players in the same order.
LEMMA SameSeats ==
  ASSUME NEW ps, NEW qs, In(qs) = In(ps), \A p \in In(ps) : qs[p].seat = ps[p].seat, Counted(ps)
  PROVE  Counted(qs)
<1>1. ASSUME NEW p \in In(ps)
      PROVE  qs[p].seat = Cardinality({q \in In(qs) : qs[q].seat <= qs[p].seat})
  <2>1. {q \in In(qs) : qs[q].seat <= qs[p].seat} = {q \in In(ps) : ps[q].seat <= ps[p].seat}
    OBVIOUS
  <2> QED BY <2>1 DEF Counted
<1> QED BY <1>1 DEF Counted

\* The first of the players that remain, whom leaveRoom and cleanupRoom make host.
LEMMA FirstIsIn ==
  ASSUME NEW ps \in Array, In(ps) # {}
  PROVE  First(ps) \in In(ps)
<1> DEFINE seats == {ps[p].seat : p \in In(ps)}
<1>1. seats \in SUBSET Nat /\ seats # {}
  BY InIsFinite DEF Member
<1>2. PICK m \in seats : \A n \in seats : m <= n
  BY <1>1, SmallestNat
<1>3. PICK p \in In(ps) : ps[p].seat = m
  BY <1>2
<1>4. \A q \in In(ps) : ps[p].seat <= ps[q].seat
  BY <1>2, <1>3
<1> QED BY <1>3, <1>4 DEF First

\* Making one player host changes nothing but the host flags.
LEMMA CrownType ==
  ASSUME NEW ps \in Array, NEW h
  PROVE  /\ Crown(ps, h) \in Array
         /\ In(Crown(ps, h)) = In(ps)
         /\ Connected(Crown(ps, h)) = Connected(ps)
         /\ \A p \in In(ps) : /\ Crown(ps, h)[p].is_host = (p = h)
                              /\ Crown(ps, h)[p].seat = ps[p].seat
                              /\ Crown(ps, h)[p].connection = ps[p].connection
                              /\ Crown(ps, h)[p].deadline = ps[p].deadline
<1>1. ASSUME NEW p \in In(ps)
      PROVE  /\ Crown(ps, h)[p] \in Member
             /\ Crown(ps, h)[p].seat = ps[p].seat
             /\ Crown(ps, h)[p].is_host = (p = h)
             /\ Crown(ps, h)[p].connection = ps[p].connection
             /\ Crown(ps, h)[p].deadline = ps[p].deadline
  <2>1. p \in Player /\ ps[p] \in Member
    BY InIsFinite
  <2>2. Crown(ps, h)[p] = [ps[p] EXCEPT !.is_host = (p = h)]
    BY <2>1 DEF Crown
  <2> QED BY <2>1, <2>2 DEF Member
<1>2. \A p \in Player \ In(ps) : Crown(ps, h)[p] = None
  BY DEF Crown
<1>3. Crown(ps, h) \in Array
  BY <1>1, <1>2, InIsFinite DEF Crown, Array
<1>4. In(Crown(ps, h)) = In(ps)
  BY <1>1, <1>2, InIsFinite, ConstantsAssumption DEF In
<1>5. Connected(Crown(ps, h)) = Connected(ps)
  BY <1>1, <1>4 DEF Connected
<1> QED BY <1>1, <1>3, <1>4, <1>5

-----------------------------------------------------------------------------
(* The documents handlers write.                                           *)

Good(r) == r \in Room /\ WellFormed(r)

Deadlines(ps) ==
  \A p \in In(ps) : ps[p].connection = "connected" <=> ps[p].deadline = None

\* What a well-formed document gives its reader.
LEMMA GoodHas ==
  ASSUME NEW r, Good(r)
  PROVE  /\ r \in Room /\ r # None
         /\ r.players \in Array /\ r.host \in Player
         /\ Hosts(r) \subseteq {r.host}
         /\ Cardinality(In(r.players)) <= MaxPlayers
         /\ r.status = "ready" => Cardinality(Connected(r.players)) >= 2
         /\ Deadlines(r.players)
         /\ Counted(r.players)
<1>1. r \in Room /\ r # None
  BY ConstantsAssumption DEF Good
<1> QED
  BY <1>1 DEF Good, WellFormed, HostFlagsAgree, WithinCapacity, ReadyHasTwo,
              DeadlineIffOffline, Deadlines, SeatsAreCounted, Counted, Room, Array

\* What makes a record of an array, a host, a status and an age a good document.
LEMMA GoodIf ==
  ASSUME NEW ps \in Array, NEW h \in Player, NEW a \in Age,
         NEW st \in {"waiting", "ready", "abandoned"},
         \A p \in In(ps) : ps[p].is_host => p = h,
         Cardinality(In(ps)) <= MaxPlayers,
         st = "ready" => Cardinality(Connected(ps)) >= 2,
         Deadlines(ps), Counted(ps)
  PROVE  Good([players |-> ps, host |-> h, status |-> st, age |-> a])
<1> DEFINE d == [players |-> ps, host |-> h, status |-> st, age |-> a]
<1>1. d \in Room
  BY DEF Room, Array
<1>2. d.players = ps /\ d.host = h /\ d.status = st
  OBVIOUS
<1> HIDE DEF d
<1>3. HostFlagsAgree(d)
  BY <1>2 DEF HostFlagsAgree, Hosts
<1>4. WithinCapacity(d) /\ ReadyHasTwo(d) /\ DeadlineIffOffline(d) /\ SeatsAreCounted(d)
  BY <1>2 DEF WithinCapacity, ReadyHasTwo, DeadlineIffOffline, Deadlines, SeatsAreCounted, Counted
<1>5. Good(d)
  BY <1>1, <1>3, <1>4 DEF Good, WellFormed
<1> QED BY <1>5 DEF d

\* deriveRoomStatus says ready only of two connected players.
LEMMA DeriveType ==
  ASSUME NEW ps, NEW b \in BOOLEAN
  PROVE  /\ Derive(ps, b) \in {"waiting", "ready", "abandoned"}
         /\ Derive(ps, b) = "ready" => Cardinality(Connected(ps)) >= 2
BY DEF Derive

\* When a document built from its parts is well formed.
LEMMA GoodDocument ==
  ASSUME NEW ps \in Array, NEW h \in Player,
         NEW st \in {"waiting", "ready", "abandoned"},
         \A p \in In(ps) : ps[p].is_host => p = h,
         Cardinality(In(ps)) <= MaxPlayers,
         st = "ready" => Cardinality(Connected(ps)) >= 2,
         Deadlines(ps), Counted(ps)
  PROVE  Good(Document(ps, h, st))
<1>1. 0 \in Age
  BY ConstantsAssumption DEF Age
<1>2. Good([players |-> ps, host |-> h, status |-> st, age |-> 0])
  BY <1>1, GoodIf
<1> QED BY <1>2 DEF Document

\* leaveRoom and cleanupRoom: some players are kept and a host is crowned.
LEMMA KeptAndCrowned ==
  ASSUME NEW r, Good(r), NEW S \in SUBSET In(r.players), NEW h \in Player,
         NEW b \in BOOLEAN
  PROVE  LET ps == Keep(r.players, S)
         IN Good(Document(Crown(ps, h), h, Derive(ps, b)))
<1> DEFINE ps == Keep(r.players, S)
           qs == Crown(ps, h)
<1>1. r.players \in Array /\ Cardinality(In(r.players)) <= MaxPlayers /\ Deadlines(r.players)
  BY GoodHas
<1>2. ps \in Array /\ In(ps) = S /\ Deadlines(ps) /\ Counted(ps)
  BY <1>1, KeepType, KeepCounted DEF Deadlines
<1>3. Cardinality(In(ps)) <= MaxPlayers
  <2>1. Cardinality(S) \in Nat /\ Cardinality(S) <= Cardinality(In(r.players))
    BY <1>1, InIsFinite, FS_Subset, FS_CardinalityType
  <2> QED BY <1>1, <1>2, <2>1, InIsFinite, ConstantsAssumption
<1> HIDE DEF ps
<1>4. /\ qs \in Array /\ In(qs) = In(ps) /\ Connected(qs) = Connected(ps)
      /\ \A p \in In(ps) : /\ qs[p].is_host = (p = h)
                           /\ qs[p].seat = ps[p].seat
                           /\ qs[p].connection = ps[p].connection
                           /\ qs[p].deadline = ps[p].deadline
  BY <1>2, CrownType
<1> HIDE DEF qs
<1>5. Deadlines(qs) /\ \A p \in In(qs) : qs[p].is_host => p = h
  BY <1>2, <1>4 DEF Deadlines
<1>6. Counted(qs)
  BY <1>2, <1>4, SameSeats
<1>7. Good(Document(qs, h, Derive(ps, b)))
  BY <1>3, <1>4, <1>5, <1>6, DeriveType, GoodDocument
<1> QED BY <1>7 DEF ps, qs

\* setReady, reconnect and disconnect: members keep their seat and their flag.
LEMMA Touched ==
  ASSUME NEW r, Good(r), NEW ps \in Array, NEW b \in BOOLEAN,
         In(ps) = In(r.players),
         \A p \in In(ps) : /\ ps[p].is_host = r.players[p].is_host
                           /\ ps[p].seat = r.players[p].seat,
         Deadlines(ps)
  PROVE  Good(Document(ps, r.host, Derive(ps, b)))
<1>1. /\ r.host \in Player /\ Cardinality(In(ps)) <= MaxPlayers
      /\ \A p \in In(ps) : ps[p].is_host => p = r.host
  BY GoodHas DEF Hosts
<1>2. Counted(ps)
  BY GoodHas, SameSeats
<1> QED BY <1>1, <1>2, DeriveType, GoodDocument

\* createPlayer makes a connected player without a deadline.
LEMMA EntryType ==
  ASSUME NEW n \in Nat, NEW z \in Session, NEW b \in BOOLEAN
  PROVE  /\ Entry(n, z, b) \in Member
         /\ Entry(n, z, b).is_host = b
         /\ Entry(n, z, b).seat = n
         /\ Entry(n, z, b).connection = "connected"
         /\ Entry(n, z, b).deadline = None
BY DEF Entry, Member

\* createRoom builds a well-formed document.
LEMMA NewRoomGood ==
  ASSUME NEW p \in Player, NEW z \in Session
  PROVE  Good(NewRoom(p, z))
<1> DEFINE e  == Entry(1, z, TRUE)
           ps == [q \in Player |-> IF q = p THEN e ELSE None]
<1>1. e \in Member /\ e.connection = "connected" /\ e.deadline = None /\ e.seat = 1
  BY EntryType
<1> HIDE DEF e
<1>2. ps \in Array /\ In(ps) = {p}
  BY <1>1, ConstantsAssumption DEF Array, In
<1>3. Deadlines(ps) /\ \A q \in In(ps) : ps[q].is_host => q = p
  BY <1>1, <1>2 DEF Deadlines
<1>4. Cardinality(In(ps)) <= MaxPlayers
  BY <1>2, FS_Singleton, ConstantsAssumption
<1>5. Counted(ps)
  <2>1. ps[p].seat = 1
    BY <1>1
  <2> HIDE DEF ps
  <2>2. {q \in In(ps) : ps[q].seat <= ps[p].seat} = {p}
    BY <1>2, <2>1
  <2> QED BY <1>2, <2>1, <2>2, FS_Singleton DEF Counted
<1> HIDE DEF ps
<1>6. Good(Document(ps, p, "waiting"))
  BY <1>2, <1>3, <1>4, <1>5, GoodDocument
<1> QED BY <1>6 DEF NewRoom, ps, e

\* joinRoom does, when it found a free seat.
LEMMA JoinedGood ==
  ASSUME NEW r, Good(r), NEW p \in Player, NEW z \in Session,
         p \notin In(r.players), Cardinality(In(r.players)) < MaxPlayers
  PROVE  Good(Joined(r, p, z))
<1> DEFINE e  == Entry(Cardinality(In(r.players)) + 1, z, FALSE)
           ps == [r.players EXCEPT ![p] = e]
<1>1. r \in Room /\ r.players \in Array /\ r.host \in Player
  BY GoodHas
<1>2. Cardinality(In(r.players)) \in Nat /\ IsFiniteSet(In(r.players))
  BY <1>1, InIsFinite
<1>3. /\ e \in Member /\ e.is_host = FALSE /\ e.connection = "connected" /\ e.deadline = None
      /\ e.seat = Cardinality(In(r.players)) + 1
  <2>1. Cardinality(In(r.players)) + 1 \in Nat
    BY <1>2
  <2> QED BY <2>1, EntryType
<1> HIDE DEF e
<1>4. ps \in Array /\ In(ps) = In(r.players) \cup {p}
  BY <1>1, <1>3, ConstantsAssumption DEF Array, In
<1>5. ps[p] = e /\ \A q \in In(r.players) : ps[q] = r.players[q]
  BY <1>1 DEF Array
<1> HIDE DEF ps
<1>6. Deadlines(ps) /\ \A q \in In(ps) : ps[q].is_host => q = r.host
  BY <1>3, <1>4, <1>5, GoodHas DEF Deadlines, Hosts
<1>7. Cardinality(In(ps)) <= MaxPlayers
  <2>1. Cardinality(In(ps)) = Cardinality(In(r.players)) + 1
    BY <1>2, <1>4, FS_AddElement
  <2> QED BY <1>2, <2>1, ConstantsAssumption
<1>8. r.status = "ready" => Cardinality(Connected(ps)) >= 2
  <2>1. Connected(r.players) \subseteq Connected(ps)
    BY <1>4, <1>5 DEF Connected
  <2>2. IsFiniteSet(Connected(ps)) /\ Cardinality(Connected(ps)) \in Nat
    BY <1>4, InIsFinite
  <2>3. /\ Cardinality(Connected(r.players)) \in Nat
        /\ Cardinality(Connected(r.players)) <= Cardinality(Connected(ps))
    BY <1>1, <2>1, <2>2, InIsFinite, FS_Subset
  <2> QED BY <2>2, <2>3, GoodHas
<1>9. r.status \in {"waiting", "ready", "abandoned"}
  BY <1>1 DEF Room
<1>10. Counted(ps)
  <2> DEFINE n == Cardinality(In(r.players))
             upTo(q) == {u \in In(ps) : ps[u].seat <= ps[q].seat}
  <2>1. \A q \in In(r.players) : r.players[q].seat \in Nat /\ r.players[q].seat <= n
    <3>1. ASSUME NEW q \in In(r.players)
          PROVE  r.players[q].seat \in Nat /\ r.players[q].seat <= n
      <4>1. PICK below : below = {u \in In(r.players) : r.players[u].seat <= r.players[q].seat}
        OBVIOUS
      <4>2. below \subseteq In(r.players) /\ r.players[q].seat = Cardinality(below)
        BY <4>1, GoodHas DEF Counted
      <4> QED BY <1>2, <4>2, FS_Subset, FS_CardinalityType
    <3> QED BY <3>1
  <2>2. n \in Nat /\ ps[p].seat = n + 1
    BY <1>2, <1>3, <1>5
  <2> HIDE DEF n
  <2>3. ASSUME NEW q \in In(r.players)
        PROVE  ps[q].seat = Cardinality(upTo(q))
    <3>1. upTo(q) = {u \in In(r.players) : r.players[u].seat <= r.players[q].seat}
      BY <1>4, <1>5, <2>1, <2>2
    <3>2. PICK below : below = {u \in In(r.players) : r.players[u].seat <= r.players[q].seat}
      OBVIOUS
    <3>3. r.players[q].seat = Cardinality(below)
      BY <3>2, GoodHas DEF Counted
    <3> QED BY <1>5, <3>1, <3>2, <3>3
  <2>4. ps[p].seat = Cardinality(upTo(p))
    <3>1. upTo(p) = In(r.players) \cup {p}
      BY <1>4, <1>5, <2>1, <2>2
    <3>2. Cardinality(In(r.players) \cup {p}) = n + 1
      BY <1>2, FS_AddElement DEF n
    <3> QED BY <2>2, <3>1, <3>2
  <2> QED BY <1>4, <2>3, <2>4 DEF Counted
<1>11. Good(Document(ps, r.host, r.status))
  BY <1>1, <1>4, <1>6, <1>7, <1>8, <1>9, <1>10, GoodDocument
<1>12. Joined(r, p, z) = Document(ps, r.host, r.status)
  BY DEF Joined, ps, e
<1> QED BY <1>11, <1>12

\* leaveRoom does, also when the host or the last player leaves.
LEMMA LeftGood ==
  ASSUME NEW r, Good(r), NEW p \in Player
  PROVE  Good(Left(r, p))
<1> DEFINE S    == In(r.players) \ {p}
           rest == Keep(r.players, S)
           next == IF In(rest) = {} THEN r.host ELSE First(rest)
<1>1. r.players \in Array /\ r.host \in Player
  BY GoodHas
<1>2. rest \in Array
  BY <1>1, KeepType
<1>3. next \in Player
  BY <1>1, <1>2, FirstIsIn, InIsFinite
<1>4. ConnectedReady(rest) \in BOOLEAN
  BY DEF ConnectedReady
<1> HIDE DEF next
<1>5. Good(Document(Crown(rest, next), next, Derive(rest, ConnectedReady(rest))))
  BY <1>3, <1>4, KeptAndCrowned
<1> QED BY <1>5 DEF Left, next

\* cleanupRoom does, whoever it removes.
LEMMA CleanedGood ==
  ASSUME NEW r, Good(r), Cleaned(r) # None
  PROVE  Good(Cleaned(r))
<1> DEFINE ps    == Keep(r.players, Active(r))
           hosts == {p \in In(ps) : ps[p].is_host}
           next  == IF hosts = {} THEN First(ps) ELSE CHOOSE p \in hosts : TRUE
<1>1. Active(r) \subseteq In(r.players) /\ Active(r) # {} /\ ~IsStaleWaiting(r)
  BY DEF Active, Cleaned
<1>2. ps \in Array /\ In(ps) = Active(r)
  BY <1>1, GoodHas, KeepType
<1>3. next \in Player
  BY <1>1, <1>2, FirstIsIn, InIsFinite
<1>4. ConnectedReady(ps) \in BOOLEAN
  BY DEF ConnectedReady
<1> HIDE DEF next
<1>5. Good(Document(Crown(ps, next), next, Derive(ps, ConnectedReady(ps))))
  BY <1>1, <1>3, <1>4, KeptAndCrowned
<1>6. Cleaned(r) = Document(Crown(ps, next), next, Derive(ps, ConnectedReady(ps)))
  BY <1>1 DEF Cleaned, next
<1> QED BY <1>5, <1>6

\* A member's entry after its connection changed, as reconnect and disconnect do it.
LEMMA Connection ==
  ASSUME NEW m \in Member, NEW c \in {"connected", "disconnected"},
         NEW d \in TimeLeft \cup {None}
  PROVE  LET n == [m EXCEPT !.connection = c, !.deadline = d]
         IN /\ n \in Member
            /\ n.is_host = m.is_host /\ n.connection = c /\ n.deadline = d
            /\ n.seat = m.seat
<1> DEFINE k == [m EXCEPT !.connection = c]
           n == [k EXCEPT !.deadline = d]
<1>1. k \in Member /\ k.is_host = m.is_host /\ k.connection = c /\ k.seat = m.seat
  BY DEF Member
<1> HIDE DEF k
<1>2. /\ n \in Member /\ n.is_host = k.is_host /\ n.connection = k.connection
      /\ n.deadline = d /\ n.seat = k.seat
  BY <1>1 DEF Member
<1>3. n = [m EXCEPT !.connection = c, !.deadline = d]
  BY DEF k
<1> QED BY <1>1, <1>2, <1>3

\* One entry of a good document is replaced, its host flag and its seat kept.
LEMMA Replaced ==
  ASSUME NEW r, Good(r), NEW p \in In(r.players), NEW n \in Member,
         n.is_host = r.players[p].is_host, n.seat = r.players[p].seat,
         n.connection = "connected" <=> n.deadline = None,
         NEW b \in BOOLEAN
  PROVE  LET ps == [r.players EXCEPT ![p] = n]
         IN Good(Document(ps, r.host, Derive(ps, b)))
<1> DEFINE ps == [r.players EXCEPT ![p] = n]
<1>1. r.players \in Array /\ p \in Player /\ Deadlines(r.players)
  BY GoodHas, InIsFinite
<1>2. ps \in Array /\ In(ps) = In(r.players)
  BY <1>1, ConstantsAssumption DEF Array, In
<1>3. ps[p] = n /\ \A q \in In(r.players) \ {p} : ps[q] = r.players[q]
  BY <1>1 DEF Array
<1> HIDE DEF ps
<1>4. Deadlines(ps) /\ \A q \in In(ps) : /\ ps[q].is_host = r.players[q].is_host
                                         /\ ps[q].seat = r.players[q].seat
  BY <1>1, <1>2, <1>3 DEF Deadlines
<1>5. Good(Document(ps, r.host, Derive(ps, b)))
  BY <1>2, <1>4, Touched
<1> QED BY <1>5 DEF ps

\* setReady does.
LEMMA ReadiedGood ==
  ASSUME NEW r, Good(r), NEW p \in In(r.players), NEW b \in BOOLEAN
  PROVE  Good(Readied(r, p, b))
<1> DEFINE m  == r.players[p]
           n  == [m EXCEPT !.ready = b]
           ps == [r.players EXCEPT ![p] = n]
<1>1. m \in Member /\ (m.connection = "connected" <=> m.deadline = None)
  BY GoodHas, InIsFinite DEF Deadlines
<1>2. /\ n \in Member /\ n.is_host = m.is_host /\ n.seat = m.seat
      /\ n.connection = m.connection /\ n.deadline = m.deadline
  BY <1>1 DEF Member
<1>3. n = [m EXCEPT !.ready = b]
  OBVIOUS
<1> HIDE DEF n
<1>4. AllReady(ps) \in BOOLEAN
  BY DEF AllReady
<1>5. Good(Document(ps, r.host, Derive(ps, AllReady(ps))))
  BY <1>1, <1>2, <1>4, Replaced
<1> QED BY <1>3, <1>5 DEF Readied

\* reconnect does, of a player in the room.
LEMMA ReconnectedGood ==
  ASSUME NEW r, Good(r), NEW p \in In(r.players), NEW z \in Session
  PROVE  Good(Reconnected(r, p, z))
<1> DEFINE m  == r.players[p]
           k  == [m EXCEPT !.session = z]
           n  == [k EXCEPT !.connection = "connected", !.deadline = None]
           ps == [r.players EXCEPT ![p] = n]
<1>1. m \in Member
  BY GoodHas, InIsFinite
<1>2. k \in Member /\ k.is_host = m.is_host /\ k.seat = m.seat
  BY <1>1 DEF Member
<1> HIDE DEF k
<1>3. /\ n \in Member /\ n.is_host = m.is_host /\ n.seat = m.seat
      /\ n.connection = "connected" /\ n.deadline = None
  <2>1. /\ n \in Member /\ n.is_host = k.is_host /\ n.seat = k.seat
        /\ n.connection = "connected" /\ n.deadline = None
    BY <1>2, Connection, ZenonT(30)
  <2> QED BY <1>2, <2>1
<1>4. n = [m EXCEPT !.session = z, !.connection = "connected", !.deadline = None]
  BY DEF k
<1> HIDE DEF n
<1>5. ConnectedReady(ps) \in BOOLEAN
  BY DEF ConnectedReady
<1>6. Good(Document(ps, r.host, Derive(ps, ConnectedReady(ps))))
  BY <1>3, <1>5, Replaced
<1> QED BY <1>4, <1>6 DEF Reconnected

\* disconnect does, of a player in the room.
LEMMA DisconnectedGood ==
  ASSUME NEW r, Good(r), NEW p \in Player
  PROVE  Good(Disconnected(r, p))
<1>1. CASE p \in In(r.players)
  <2> DEFINE n  == [r.players[p] EXCEPT !.connection = "disconnected", !.deadline = Window]
             ps == [r.players EXCEPT ![p] = n]
  <2>1. r.players[p] \in Member /\ Window \in TimeLeft /\ Window # None
    BY <1>1, GoodHas, InIsFinite, ConstantsAssumption DEF TimeLeft
  <2>2. /\ n \in Member /\ n.is_host = r.players[p].is_host /\ n.seat = r.players[p].seat
        /\ n.connection = "disconnected" /\ n.deadline = Window
    BY <2>1, Connection
  <2> HIDE DEF n
  <2>3. ConnectedReady(ps) \in BOOLEAN
    BY DEF ConnectedReady
  <2>4. Good(Document(ps, r.host, Derive(ps, ConnectedReady(ps))))
    BY <1>1, <2>1, <2>2, <2>3, Replaced
  <2> QED BY <1>1, <2>4 DEF Disconnected, n
<1>2. CASE p \notin In(r.players)
  <2>1. ConnectedReady(r.players) \in BOOLEAN
    BY DEF ConnectedReady
  <2>2. Good(Document(r.players, r.host, Derive(r.players, ConnectedReady(r.players))))
    BY <2>1, GoodHas, Touched
  <2> QED BY <1>2, <2>2 DEF Disconnected
<1> QED BY <1>1, <1>2

\* Time passing changes a player's deadline only, and never sets or clears it.
LEMMA OlderMemberType ==
  ASSUME NEW m \in Member
  PROVE  /\ OlderMember(m) \in Member
         /\ OlderMember(m).is_host = m.is_host
         /\ OlderMember(m).seat = m.seat
         /\ OlderMember(m).connection = m.connection
         /\ OlderMember(m).deadline = None <=> m.deadline = None
<1>0. m # None
  BY ConstantsAssumption
<1>1. CASE m.deadline = None \/ m.deadline < 0
  <2>1. OlderMember(m) = m
    BY <1>1 DEF OlderMember
  <2> QED BY <2>1
<1>2. CASE m.deadline # None /\ ~(m.deadline < 0)
  <2> DEFINE d == m.deadline - 1
  <2>1. OlderMember(m) = [m EXCEPT !.deadline = d]
    BY <1>0, <1>2 DEF OlderMember
  <2>2. m.deadline \in TimeLeft
    BY <1>2 DEF Member
  <2>3. d \in TimeLeft /\ d # None
    BY <1>2, <2>2, ConstantsAssumption DEF TimeLeft
  <2> HIDE DEF d
  <2>4. /\ [m EXCEPT !.deadline = d] \in Member
        /\ [m EXCEPT !.deadline = d].is_host = m.is_host
        /\ [m EXCEPT !.deadline = d].seat = m.seat
        /\ [m EXCEPT !.deadline = d].connection = m.connection
        /\ [m EXCEPT !.deadline = d].deadline = d
    BY <2>3 DEF Member
  <2> QED BY <1>2, <2>1, <2>3, <2>4
<1> QED BY <1>1, <1>2

\* For every player, too.
LEMMA OlderPlayersType ==
  ASSUME NEW ps \in Array
  PROVE  /\ OlderPlayers(ps) \in Array
         /\ In(OlderPlayers(ps)) = In(ps)
         /\ \A p \in In(ps) :
              /\ OlderPlayers(ps)[p] \in Member
              /\ OlderPlayers(ps)[p].is_host = ps[p].is_host
              /\ OlderPlayers(ps)[p].seat = ps[p].seat
              /\ OlderPlayers(ps)[p].connection = ps[p].connection
              /\ OlderPlayers(ps)[p].deadline = None <=> ps[p].deadline = None
<1> DEFINE qs == OlderPlayers(ps)
<1>1. qs = [p \in Player |-> OlderMember(ps[p])]
  BY DEF OlderPlayers
<1>2. \A p \in In(ps) : /\ p \in Player /\ ps[p] \in Member
                        /\ qs[p] = OlderMember(ps[p])
  BY <1>1, InIsFinite
<1>3. \A p \in Player \ In(ps) : qs[p] = None
  BY <1>1 DEF In, OlderMember
<1> HIDE DEF qs
<1>4. \A p \in In(ps) :
        /\ qs[p] \in Member
        /\ qs[p].is_host = ps[p].is_host
        /\ qs[p].seat = ps[p].seat
        /\ qs[p].connection = ps[p].connection
        /\ qs[p].deadline = None <=> ps[p].deadline = None
  BY <1>2, OlderMemberType
<1>5. qs \in Array
  <2>1. \A p \in Player : qs[p] \in Member \cup {None}
    BY <1>3, <1>4
  <2> QED BY <1>1, <2>1 DEF Array
<1>6. In(qs) = In(ps)
  BY <1>2, <1>3, <1>4, ConstantsAssumption DEF In
<1> QED BY <1>4, <1>5, <1>6 DEF qs

\* Time passing keeps a document well formed.
LEMMA OlderGood ==
  ASSUME NEW r, Good(r)
  PROVE  Good(Older(r))
<1> DEFINE ps == OlderPlayers(r.players)
           a  == IF r.age > StaleAfter THEN r.age ELSE r.age + 1
<1>1. /\ r \in Room /\ r # None /\ r.players \in Array /\ r.host \in Player
      /\ Deadlines(r.players)
  BY GoodHas
<1>2. /\ ps \in Array /\ In(ps) = In(r.players)
      /\ \A p \in In(r.players) :
           /\ ps[p].is_host = r.players[p].is_host
           /\ ps[p].seat = r.players[p].seat
           /\ ps[p].connection = r.players[p].connection
           /\ ps[p].deadline = None <=> r.players[p].deadline = None
  BY <1>1, OlderPlayersType
<1> HIDE DEF ps
<1>3. Counted(ps)
  BY <1>2, GoodHas, SameSeats
<1>6. Connected(ps) = Connected(r.players)
  BY <1>2 DEF Connected
<1>7. Deadlines(ps) /\ \A p \in In(ps) : ps[p].is_host => p = r.host
  BY <1>1, <1>2, GoodHas DEF Deadlines, Hosts
<1>8. a \in Age
  <2>1. r.age \in Age
    BY <1>1 DEF Room
  <2> QED BY <2>1, ConstantsAssumption DEF Age
<1>9. r.status \in {"waiting", "ready", "abandoned"}
  BY <1>1 DEF Room
<1> HIDE DEF a
<1>10. Good([players |-> ps, host |-> r.host, status |-> r.status, age |-> a])
  BY <1>1, <1>2, <1>3, <1>6, <1>7, <1>8, <1>9, GoodHas, GoodIf
<1> QED BY <1>1, <1>10 DEF Older, ps, a

-----------------------------------------------------------------------------
(* Handlers.                                                               *)

OrNone(r) == r = None \/ Good(r)

GoodSlot(c) == c \in SlotState /\ HoldsWellFormed(c)

\* The inductive invariant, one conjunct per variable.
IInv ==
  /\ OrNone(room)
  /\ slots \in [Handler -> SlotState] /\ \A s \in Handler : GoodSlot(slots[s])
  /\ created \in BOOLEAN
  /\ sweepDue \in BOOLEAN
  /\ published \in Shown \cup {None}
  /\ restarts \in Nat

\* No document, or a well-formed one.
LEMMA OrNoneType ==
  ASSUME NEW r
  PROVE  OrNone(r) <=> r \in Room \cup {None} /\ WellFormed(r)
BY DEF OrNone, Good, WellFormed

\* The inductive invariant implies the invariant the runs check.
LEMMA IInvImpliesRoomInv == IInv => RoomInv
BY OrNoneType DEF IInv, RoomInv, TypeOK, GoodSlot

\* What an event tells of a document, or of its deletion.
LEMMA ViewType ==
  ASSUME NEW r, OrNone(r)
  PROVE  View(r) \in Shown /\ View(r) # None
<1>1. View(r) \in Shown
  <2>1. CASE r = None
    BY <2>1 DEF View, Shown
  <2>2. CASE r # None
    <3>1. r \in Room
      BY <2>2 DEF OrNone, Good
    <3> QED BY <2>2, <3>1 DEF View, Shown, Room
  <2> QED BY <2>1, <2>2
<1> QED BY <1>1, ConstantsAssumption

\* Time passing keeps what the listeners hold of that type.
LEMMA OlderViewType ==
  ASSUME NEW v \in Shown
  PROVE  OlderView(v) \in Shown /\ OlderView(v) # None
<1>1. v # None /\ v.players \in Array
  BY ConstantsAssumption DEF Shown, Array
<1>2. OlderPlayers(v.players) \in Array
  BY <1>1, OlderPlayersType
<1>3. PICK qs \in Array : qs = OlderPlayers(v.players)
  BY <1>2
<1>4. OlderView(v) = [v EXCEPT !.players = qs]
  BY <1>1, <1>3 DEF OlderView
<1>5. OlderView(v) \in Shown
  BY <1>4 DEF Shown, Array
<1> QED BY <1>5, ConstantsAssumption

\* A slot where nothing runs fits the invariant.
LEMMA IdleGood == GoodSlot(Idle)
BY DEF GoodSlot, Idle, SlotState, Op, HoldsWellFormed, WellFormed

\* A handler that starts has its type and what its request names.
LEMMA StartType ==
  ASSUME NEW op \in Op, NEW p \in Player \cup {None}, NEW z \in Session \cup {None}
  PROVE  /\ Start(op, p, z) \in SlotState
         /\ Start(op, p, z).op = op
         /\ Start(op, p, z).who = p
         /\ Start(op, p, z).session = z
BY DEF Start, SlotState

\* A handler that starts holds nothing yet and fits the invariant.
LEMMA StartGood ==
  ASSUME NEW op \in Op, NEW p \in Player \cup {None}, NEW z \in Session \cup {None},
         op # "join", op = "invite" => p # None /\ z # None
  PROVE  GoodSlot(Start(op, p, z))
<1>1. Start(op, p, z).pc = "cleanup" /\ Start(op, p, z).copy = None /\ Start(op, p, z).next = None
  BY DEF Start
<1> QED BY <1>1, StartType DEF GoodSlot, HoldsWellFormed, WellFormed

\* A handler that goes on fits the invariant when what it holds is well formed.
LEMMA AtGood ==
  ASSUME NEW c \in SlotState, c.op \in {"join", "invite"} => c.who # None /\ c.session # None,
         NEW pc \in {"idle", "get", "cleanup", "cleanupWrite", "write", "delete"},
         NEW copy, OrNone(copy), NEW next, OrNone(next), NEW emits \in BOOLEAN,
         pc \in {"write", "delete"} => next # None,
         pc = "get" => c.op \in {"get", "invite"},
         c.op = "join" /\ pc \in {"cleanup", "cleanupWrite"} => copy # None
  PROVE  GoodSlot(At(c, pc, copy, next, emits))
<1> DEFINE d == At(c, pc, copy, next, emits)
<1>1. /\ d.op = c.op /\ d.who = c.who /\ d.session = c.session
      /\ d.pc = pc /\ d.copy = copy /\ d.next = next
  BY DEF At
<1>2. d \in SlotState
  BY OrNoneType DEF At, SlotState
<1> HIDE DEF d
<1>3. HoldsWellFormed(d)
  BY <1>1, OrNoneType DEF HoldsWellFormed
<1> QED BY <1>2, <1>3 DEF d, GoodSlot

\* What a fitting slot gives the next step of its handler.
LEMMA GoodSlotHas ==
  ASSUME NEW c, GoodSlot(c)
  PROVE  /\ c \in SlotState /\ OrNone(c.copy) /\ OrNone(c.next) /\ c.emits \in BOOLEAN
         /\ c.op \in {"join", "invite"} => c.who \in Player /\ c.session \in Session
         /\ c.pc \in {"write", "delete"} => Good(c.next)
         /\ c.pc = "get" => c.op \in {"get", "invite"}
         /\ c.op = "join" /\ c.pc \in {"cleanup", "cleanupWrite"} => Good(c.copy)
<1>1. /\ c \in SlotState /\ c.copy \in Room \cup {None} /\ c.next \in Room \cup {None}
      /\ c.emits \in BOOLEAN /\ c.who \in Player \cup {None} /\ c.session \in Session \cup {None}
  BY DEF GoodSlot, SlotState
<1>2. OrNone(c.copy) /\ OrNone(c.next)
  BY <1>1, OrNoneType DEF GoodSlot, HoldsWellFormed
<1> QED BY <1>1, <1>2 DEF GoodSlot, HoldsWellFormed, OrNone

\* What follows a cleanup: joinRoom writes, its caller reads again, or it is done.
LEMMA AfterCleanupGood ==
  ASSUME NEW c, GoodSlot(c), c.pc \in {"cleanup", "cleanupWrite"}
  PROVE  GoodSlot(AfterCleanup(c))
<1>1. CASE c.op = "join" /\ Admitted(c)
  <2>1. Good(c.copy) /\ c.who \in Player /\ c.session \in Session
    BY <1>1, GoodSlotHas
  <2>2. Good(Joined(c.copy, c.who, c.session))
    BY <1>1, <2>1, JoinedGood DEF Admitted
  <2>3. Joined(c.copy, c.who, c.session) # None
    BY <2>2, GoodHas
  <2>4. c \in SlotState /\ c.who # None /\ c.session # None
    BY <2>1, GoodSlotHas, ConstantsAssumption
  <2>5. GoodSlot(At(c, "write", None, Joined(c.copy, c.who, c.session), TRUE))
    BY <2>2, <2>3, <2>4, AtGood DEF OrNone
  <2> QED BY <1>1, <2>5 DEF AfterCleanup
<1>2. CASE c.op \in {"get", "invite"}
  <2>1. /\ c \in SlotState
        /\ c.op \in {"join", "invite"} => c.who # None /\ c.session # None
    BY GoodSlotHas, ConstantsAssumption
  <2>2. GoodSlot(At(c, "get", None, None, FALSE))
    BY <1>2, <2>1, AtGood DEF OrNone
  <2> QED BY <1>2, <2>2 DEF AfterCleanup
<1>3. CASE ~(c.op = "join" /\ Admitted(c)) /\ c.op \notin {"get", "invite"}
  BY <1>3, IdleGood DEF AfterCleanup
<1> QED BY <1>1, <1>2, <1>3

-----------------------------------------------------------------------------
(* Every step keeps the invariant.                                         *)

\* Changing one handler's slot to a fitting one leaves all slots fitting.
LEMMA SetGood ==
  ASSUME IInv, NEW s \in Handler, NEW c, GoodSlot(c), Set(s, c)
  PROVE  slots' \in [Handler -> SlotState] /\ \A h \in Handler : GoodSlot(slots'[h])
BY DEF IInv, Set, GoodSlot

\* A request that reads the room, checks and computes the document to write.
LEMMA ReadThenWriteStep ==
  ASSUME IInv, NEW s \in Slot, NEW op \in Op \ {"join", "invite"}, NEW permitted, NEW doc,
         ReadThenWrite(s, op, permitted, doc),
         room # None /\ permitted => Good(doc)
  PROVE  IInv'
<1>1. Good(doc) /\ doc # None
  BY GoodHas DEF ReadThenWrite
<1>2. Start(op, None, None) \in SlotState /\ Start(op, None, None).op = op
  BY StartType
<1>3. GoodSlot(At(Start(op, None, None), "write", None, doc, TRUE))
  BY <1>1, <1>2, AtGood DEF OrNone
<1>4. slots' \in [Handler -> SlotState] /\ \A h \in Handler : GoodSlot(slots'[h])
  BY <1>3, SetGood DEF ReadThenWrite, Handler
<1> QED BY <1>4 DEF ReadThenWrite, IInv

\* The requests that await the store before they write.
LEMMA RequestStep ==
  ASSUME IInv, NEW s \in Slot, Request(s)
  PROVE  IInv'
<1>1. room # None => Good(room)
  BY DEF IInv, OrNone
<1>2. ASSUME NEW p \in Player, LeaveRoom(s, p)
      PROVE  IInv'
  <2>1. room # None => Good(Left(room, p))
    BY <1>1, LeftGood
  <2> QED BY <1>2, <2>1, ReadThenWriteStep DEF LeaveRoom, Op
<1>3. ASSUME NEW p \in Player, SetReady(s, p)
      PROVE  IInv'
  <2>1. room # None /\ p \in In(room.players) => Good(Readied(room, p, TRUE))
    BY <1>1, ReadiedGood
  <2> QED BY <1>3, <2>1, ReadThenWriteStep DEF SetReady, Op
<1>4. ASSUME NEW p \in Player, SetUnready(s, p)
      PROVE  IInv'
  <2>1. room # None /\ p \in In(room.players) => Good(Readied(room, p, FALSE))
    BY <1>1, ReadiedGood
  <2> QED BY <1>4, <2>1, ReadThenWriteStep DEF SetUnready, Op
<1>5. ASSUME NEW p \in Player, Disconnect(s, p)
      PROVE  IInv'
  <2>1. room # None => Good(Disconnected(room, p))
    BY <1>1, DisconnectedGood
  <2> QED BY <1>5, <2>1, ReadThenWriteStep DEF Disconnect, Op
<1>6. ASSUME NEW p \in Player, NEW z \in Session, Reconnect(s, p, z)
      PROVE  IInv'
  <2>1. room # None /\ p \in In(room.players) => Good(Reconnected(room, p, z))
    BY <1>1, ReconnectedGood
  <2> QED BY <1>6, <2>1, ReadThenWriteStep DEF Reconnect, Op
<1>7. ASSUME NEW p \in Player, NEW z \in Session, JoinRoom(s, p, z)
      PROVE  IInv'
  <2>1. Good(room) /\ room # None /\ p # None /\ z # None
    BY <1>1, <1>7, ConstantsAssumption DEF JoinRoom
  <2>2. /\ Start("join", p, z) \in SlotState
        /\ Start("join", p, z).who # None /\ Start("join", p, z).session # None
    BY <2>1, StartType DEF Op
  <2>3. GoodSlot(At(Start("join", p, z), "cleanup", room, None, FALSE))
    BY <2>1, <2>2, AtGood DEF OrNone
  <2>4. slots' \in [Handler -> SlotState] /\ \A h \in Handler : GoodSlot(slots'[h])
    BY <1>7, <2>3, SetGood DEF JoinRoom, Handler
  <2> QED BY <1>7, <2>4 DEF JoinRoom, IInv
<1>8. ASSUME NEW p \in Player, NEW z \in Session, JoinRoomByInvite(s, p, z)
      PROVE  IInv'
  <2>1. GoodSlot(Start("invite", p, z))
    BY ConstantsAssumption, StartGood DEF Op
  <2>2. slots' \in [Handler -> SlotState] /\ \A h \in Handler : GoodSlot(slots'[h])
    BY <1>8, <2>1, SetGood DEF JoinRoomByInvite, Handler
  <2> QED BY <1>8, <2>2 DEF JoinRoomByInvite, IInv
<1>9. ASSUME GetRoom(s)
      PROVE  IInv'
  <2>1. GoodSlot(Start("get", None, None))
    BY StartGood DEF Op
  <2>2. slots' \in [Handler -> SlotState] /\ \A h \in Handler : GoodSlot(slots'[h])
    BY <1>9, <2>1, SetGood DEF GetRoom, Handler
  <2> QED BY <1>9, <2>2 DEF GetRoom, IInv
<1> QED
  BY <1>2, <1>3, <1>4, <1>5, <1>6, <1>7, <1>8, <1>9 DEF Request

\* A handler whose store call returned goes on.
LEMMA ContinueStep ==
  ASSUME IInv, NEW s \in Handler, Continue(s)
  PROVE  IInv'
<1> DEFINE c == slots[s]
           SlotsGood == slots' \in [Handler -> SlotState] /\ \A h \in Handler : GoodSlot(slots'[h])
<1>1. GoodSlot(c) /\ OrNone(room)
  BY DEF IInv
<1>2. c \in SlotState /\ (c.op \in {"join", "invite"} => c.who # None /\ c.session # None)
  BY <1>1, GoodSlotHas, ConstantsAssumption
<1>3. CASE CleanupRead(s)
  <2>1. CASE room = None
    <3>1. GoodSlot(AfterCleanup(c))
      BY <1>1, <1>3, AfterCleanupGood DEF CleanupRead
    <3>2. SlotsGood
      BY <1>3, <2>1, <3>1, SetGood DEF CleanupRead
    <3> QED BY <1>3, <3>2 DEF CleanupRead, IInv
  <2>2. CASE room # None
    <3> DEFINE next == Cleaned(room)
    <3>1. OrNone(next)
      BY <1>1, <2>2, CleanedGood DEF OrNone
    <3>2. Changed(room, next) \in BOOLEAN
      BY DEF Changed
    <3>3. OrNone(c.copy) /\ (c.op = "join" => c.copy # None)
      BY <1>1, <1>3, GoodSlotHas, GoodHas DEF CleanupRead
    <3>4. GoodSlot(At(c, "cleanupWrite", c.copy, next, Changed(room, next)))
      BY <1>2, <3>1, <3>2, <3>3, AtGood
    <3>5. SlotsGood
      BY <1>3, <2>2, <3>4, SetGood DEF CleanupRead
    <3> QED BY <1>3, <3>5 DEF CleanupRead, IInv
  <2> QED BY <2>1, <2>2
<1>4. CASE CleanupWrite(s)
  <2>1. GoodSlot(AfterCleanup(c)) /\ OrNone(c.next)
    BY <1>1, <1>4, AfterCleanupGood, GoodSlotHas DEF CleanupWrite
  <2>2. SlotsGood
    BY <1>4, <2>1, SetGood DEF CleanupWrite
  <2>3. published' \in Shown \cup {None}
    BY <1>4, <2>1, ViewType DEF CleanupWrite, IInv
  <2> QED BY <1>4, <2>1, <2>2, <2>3 DEF CleanupWrite, IInv
<1>5. CASE ReadAfterCleanup(s)
  <2>1. CASE room = None \/ c.op = "get"
    <3>1. SlotsGood
      BY <1>5, <2>1, IdleGood, SetGood DEF ReadAfterCleanup
    <3> QED BY <1>5, <3>1 DEF ReadAfterCleanup, IInv
  <2>2. CASE ~(room = None \/ c.op = "get")
    <3> DEFINE d == At(Start("join", c.who, c.session), "cleanup", room, None, FALSE)
    <3>1. SlotsGood
      <4>1. c.op \in {"join", "invite"} /\ room # None
        BY <1>1, <1>5, <2>2, GoodSlotHas DEF ReadAfterCleanup
      <4>2. /\ Start("join", c.who, c.session) \in SlotState
            /\ Start("join", c.who, c.session).who # None
            /\ Start("join", c.who, c.session).session # None
        BY <1>1, <1>2, <4>1, GoodSlotHas, StartType DEF Op
      <4>3. GoodSlot(d)
        BY <1>1, <2>2, <4>2, AtGood DEF OrNone
      <4> QED BY <1>5, <2>2, <4>3, SetGood DEF ReadAfterCleanup
    <3> QED BY <1>5, <3>1 DEF ReadAfterCleanup, IInv
  <2> QED BY <2>1, <2>2
<1>6. CASE Persist(s)
  <2>1. Good(c.next) /\ c.next # None
    BY <1>1, <1>6, GoodSlotHas, GoodHas DEF Persist
  <2>2. GoodSlot(At(c, "delete", None, c.next, FALSE))
    BY <1>2, <2>1, AtGood DEF OrNone
  <2>3. SlotsGood
    BY <1>6, <2>2, IdleGood, SetGood DEF Persist
  <2>4. OrNone(room')
    BY <1>6, <2>1 DEF Persist, OrNone
  <2>5. published' \in Shown \cup {None}
    BY <1>6, <2>1, ViewType DEF Persist, IInv, OrNone
  <2> QED BY <1>6, <2>3, <2>4, <2>5 DEF Persist, IInv
<1>7. CASE DeleteEmptied(s)
  <2>1. SlotsGood
    BY <1>7, IdleGood, SetGood DEF DeleteEmptied
  <2>2. published' \in Shown \cup {None}
    BY <1>7, ViewType DEF DeleteEmptied, OrNone
  <2> QED BY <1>7, <2>1, <2>2 DEF DeleteEmptied, IInv, OrNone
<1> QED
  BY <1>3, <1>4, <1>5, <1>6, <1>7 DEF Continue

\* Time passing, for the store and for what handlers hold, keeps the invariant.
LEMMA TickStep ==
  ASSUME IInv, Tick
  PROVE  IInv'
<1>1. \A r : OrNone(r) => OrNone(Older(r))
  BY OlderGood DEF OrNone, Older
<1>2. ASSUME NEW s \in Handler
      PROVE  GoodSlot(slots'[s])
  <2> DEFINE c == slots[s]
  <2>1. GoodSlot(c)
    BY DEF IInv
  <2>2. /\ c \in SlotState /\ (c.op \in {"join", "invite"} => c.who # None /\ c.session # None)
        /\ OrNone(Older(c.copy)) /\ OrNone(Older(c.next)) /\ c.emits \in BOOLEAN
    BY <1>1, <2>1, GoodSlotHas, ConstantsAssumption
  <2>3. /\ c.pc \in {"write", "delete"} => Older(c.next) # None
        /\ c.pc = "get" => c.op \in {"get", "invite"}
        /\ c.op = "join" /\ c.pc \in {"cleanup", "cleanupWrite"} => Older(c.copy) # None
    BY <2>1, GoodSlotHas, OlderGood, GoodHas
  <2>4. c.pc \in {"idle", "get", "cleanup", "cleanupWrite", "write", "delete"}
    BY <2>2 DEF SlotState
  <2>5. GoodSlot(At(c, c.pc, Older(c.copy), Older(c.next), c.emits))
    BY <2>2, <2>3, <2>4, AtGood
  <2> QED BY <2>5 DEF Tick
<1>3. slots' \in [Handler -> SlotState]
  BY <1>2 DEF Tick, GoodSlot
<1>4. OlderView(published) \in Shown \cup {None}
  BY OlderViewType DEF IInv, OlderView
<1> QED BY <1>1, <1>2, <1>3, <1>4 DEF Tick, IInv

\* The invariant holds when the store is empty and nothing runs.
LEMMA InitIInv == Init => IInv
<1> SUFFICES ASSUME Init PROVE IInv
  OBVIOUS
<1>1. \A s \in Handler : GoodSlot(slots[s])
  BY IdleGood DEF Init
<1>2. slots \in [Handler -> SlotState]
  BY IdleGood DEF Init, GoodSlot
<1> QED BY <1>1, <1>2 DEF Init, IInv, OrNone

\* Every step of every handler, the timer and a restart keep the invariant.
LEMMA NextIInv == IInv /\ [Next]_vars => IInv'
<1> SUFFICES ASSUME IInv, [Next]_vars PROVE IInv'
  OBVIOUS
<1>1. ASSUME NEW p \in Player, NEW z \in Session, CreateRoom(p, z)
      PROVE  IInv'
  <2>1. Good(room')
    BY <1>1, NewRoomGood DEF CreateRoom
  <2>2. published' \in Shown
    BY <1>1, <2>1, ViewType DEF CreateRoom, OrNone
  <2> QED BY <1>1, <2>1, <2>2 DEF CreateRoom, IInv, OrNone
<1>2. ASSUME NEW s \in Slot, Request(s)
      PROVE  IInv'
  BY <1>2, RequestStep
<1>3. CASE SweepExpiredRooms
  <2>1. GoodSlot(Start("sweep", None, None))
    BY StartGood DEF Op
  <2>2. slots' \in [Handler -> SlotState] /\ \A h \in Handler : GoodSlot(slots'[h])
    BY <1>3, <2>1, SetGood DEF SweepExpiredRooms, Handler
  <2> QED BY <1>3, <2>2 DEF SweepExpiredRooms, IInv
<1>4. ASSUME NEW s \in Handler, Continue(s)
      PROVE  IInv'
  BY <1>4, ContinueStep
<1>5. CASE Tick
  BY <1>5, TickStep
<1>6. CASE Restart
  <2>1. slots' \in [Handler -> SlotState] /\ \A s \in Handler : GoodSlot(slots'[s])
    BY <1>6, IdleGood DEF Restart, GoodSlot
  <2>2. OrNone(room')
    BY <1>6 DEF Restart, IInv, OrNone
  <2> QED BY <1>6, <2>1, <2>2 DEF Restart, IInv
<1>7. CASE UNCHANGED vars
  BY <1>7 DEF vars, IInv
<1> QED
  BY <1>1, <1>2, <1>3, <1>4, <1>5, <1>6, <1>7 DEF Next

-----------------------------------------------------------------------------
(* The theorems.                                                           *)

\* Every document that is stored, or that a handler between two awaits still
\* holds and may write over a newer one, is well formed.
THEOREM RoomInvariant == Spec => []RoomInv
<1>1. Init => IInv
  BY InitIInv
<1>2. IInv /\ [Next]_vars => IInv'
  BY NextIInv
<1>3. IInv => RoomInv
  BY IInvImpliesRoomInv
<1> QED BY <1>1, <1>2, <1>3, PTL DEF Spec

\* The room and the handlers keep their types.
THEOREM TypeCorrect == Spec => []TypeOK
<1>1. RoomInv => TypeOK
  BY DEF RoomInv
<1> QED BY <1>1, RoomInvariant, PTL

\* However handlers interleave and wherever the process stops, nobody but the player
\* host_player_id names carries the host flag in the stored room, it has no more
\* players than max_players, is ready only with two of them connected, holds a
\* deadline for exactly those that are away and keeps an order of them.
THEOREM StoredRoom == Spec => []StoredRoomIsWellFormed
<1>1. RoomInv => StoredRoomIsWellFormed
  BY DEF RoomInv, StoredRoomIsWellFormed
<1> QED BY <1>1, RoomInvariant, PTL
-----------------------------------------------------------------------------
(* One handler at a time: what the listeners heard, and who keeps a seat.  *)

AtMostOne ==
  \A s, t \in Handler : slots[s].pc # "idle" /\ slots[t].pc # "idle" => s = t

\* What the listeners hold is the room, but for the flag of a host.
Matches(v, w) == v = w \/ FlagRestored(v, w)

\* What a handler holds implies that the room was created, and a cleanup that is
\* about to write without an event writes the room as it is, but for that flag.
Follows(c) ==
  /\ c.pc \in {"cleanupWrite", "write", "delete"} \/ c.copy # None => created
  /\ c.pc = "cleanupWrite" /\ ~c.emits => Matches(View(room), View(c.next))

\* The listeners heard of the room that is stored, but for an emptied one that is
\* about to be deleted.
Told ==
  published # None /\ (\A s \in Handler : slots[s].pc # "delete") =>
    Matches(published, View(room))

Serial ==
  /\ AtMostOne
  /\ room # None => created
  /\ \A s \in Handler : Follows(slots[s])
  /\ Told

\* leaveRoom removes the player who leaves and nobody else.
LEMMA LeftMembers ==
  ASSUME NEW r, Good(r), NEW p \in Player
  PROVE  In(Left(r, p).players) = In(r.players) \ {p}
<1> DEFINE rest == Keep(r.players, In(r.players) \ {p})
           next == IF In(rest) = {} THEN r.host ELSE First(rest)
<1>1. rest \in Array /\ In(rest) = In(r.players) \ {p}
  BY GoodHas, KeepType
<1> HIDE DEF rest
<1>2. In(Crown(rest, next)) = In(rest)
  BY <1>1, CrownType
<1>3. Left(r, p).players = Crown(rest, next)
  BY DEF Left, Document, rest
<1> QED BY <1>1, <1>2, <1>3

\* cleanupRoom removes the expired players, and one of the others is host.
LEMMA CleanedMembers ==
  ASSUME NEW r, Good(r), Cleaned(r) # None
  PROVE  /\ In(Cleaned(r).players) = Active(r)
         /\ Cleaned(r).players = Crown(Keep(r.players, Active(r)), Cleaned(r).host)
         /\ Cleaned(r).host \in Active(r)
<1> DEFINE ps    == Keep(r.players, Active(r))
           hosts == {p \in In(ps) : ps[p].is_host}
           next  == IF hosts = {} THEN First(ps) ELSE CHOOSE p \in hosts : TRUE
<1>1. Active(r) \subseteq In(r.players) /\ Active(r) # {} /\ ~IsStaleWaiting(r)
  BY DEF Active, Cleaned
<1>2. ps \in Array /\ In(ps) = Active(r)
  BY <1>1, GoodHas, KeepType
<1>3. next \in Active(r)
  BY <1>1, <1>2, FirstIsIn
<1>4. PICK h : h = next
  OBVIOUS
<1>5. Cleaned(r).players = Crown(ps, h) /\ Cleaned(r).host = h
  BY <1>1, <1>4 DEF Cleaned, Document
<1> HIDE DEF ps, next
<1>6. In(Crown(ps, h)) = In(ps)
  BY <1>2, CrownType
<1> QED BY <1>2, <1>3, <1>4, <1>5, <1>6 DEF ps

\* Crowning the player who alone may carry the flag, and does, changes nothing.
LEMMA CrownAgain ==
  ASSUME NEW ps \in Array, NEW h,
         \A p \in In(ps) : ps[p].is_host = (p = h)
  PROVE  Crown(ps, h) = ps
<1>1. ASSUME NEW p \in Player
      PROVE  Crown(ps, h)[p] = ps[p]
  <2>1. CASE p \in In(ps)
    <3>1. ps[p] \in Member /\ ps[p].is_host = (p = h)
      BY <2>1, InIsFinite
    <3>2. PICK b \in BOOLEAN : b = (p = h)
      OBVIOUS
    <3>3. Crown(ps, h)[p] = [ps[p] EXCEPT !.is_host = b]
      BY <2>1, <3>2 DEF Crown
    <3> QED BY <3>1, <3>2, <3>3 DEF Member
  <2>2. CASE p \notin In(ps)
    BY <2>2 DEF Crown, In
  <2> QED BY <2>1, <2>2
<1>2. Crown(ps, h) = [p \in Player |-> Crown(ps, h)[p]]
  BY DEF Crown
<1> QED BY <1>1, <1>2 DEF Array

\* A cleanup that found nothing to tell writes the room as it is, or with the flag
\* of its host restored.
LEMMA UnchangedView ==
  ASSUME NEW r, Good(r), ~Changed(r, Cleaned(r))
  PROVE  Matches(View(r), View(Cleaned(r)))
<1> DEFINE d == Cleaned(r)
           v == View(r)
<1>1. d # None /\ Active(r) = In(r.players) /\ d.status = r.status /\ d.host = r.host
  BY DEF Changed
<1>2. r # None /\ r.players \in Array /\ Hosts(r) \subseteq {r.host} /\ Counted(r.players)
  BY GoodHas
<1>3. d.players = Crown(r.players, r.host)
  BY <1>1, <1>2, CleanedMembers, KeepEverybody
<1> HIDE DEF d
<1>4. v = [players |-> r.players, host |-> r.host, status |-> r.status]
  BY <1>2 DEF View
<1>5. View(d) = [players |-> Crown(r.players, r.host), host |-> r.host, status |-> r.status]
  BY <1>1, <1>3 DEF View
<1>6. CASE Hosts(r) # {}
  <2>1. \A p \in In(r.players) : r.players[p].is_host = (p = r.host)
    <3>1. \A p \in In(r.players) : r.players[p].is_host \in BOOLEAN
      BY <1>2, InIsFinite DEF Member
    <3> QED BY <1>2, <1>6, <3>1 DEF Hosts
  <2>2. Crown(r.players, r.host) = r.players
    BY <1>2, <2>1, CrownAgain
  <2> QED BY <1>4, <1>5, <2>2 DEF Matches, d
<1>7. CASE Hosts(r) = {}
  <2>1. v.players = r.players /\ v.host = r.host
    BY <1>4
  <2>2. View(d) = [v EXCEPT !.players = Crown(v.players, v.host)]
    BY <1>4, <1>5
  <2>3. \A p \in In(v.players) : ~v.players[p].is_host
    BY <1>7, <2>1 DEF Hosts
  <2> QED BY <2>2, <2>3 DEF Matches, FlagRestored, d
<1> QED BY <1>6, <1>7

\* Nothing is restored twice.
LEMMA MatchesTwice ==
  ASSUME NEW u \in Shown, NEW v, NEW w, Matches(u, v), Matches(v, w)
  PROVE  Matches(u, w)
<1>1. CASE u = v \/ v = w
  BY <1>1
<1>2. CASE FlagRestored(u, v) /\ FlagRestored(v, w)
  <2>1. PICK ps \in Array, h \in Player \cup {None} : u.players = ps /\ u.host = h
    BY DEF Shown, Array
  <2>2. PICK qs : qs = Crown(ps, h)
    OBVIOUS
  <2>3. v = [u EXCEPT !.players = qs]
    BY <1>2, <2>1, <2>2 DEF FlagRestored
  <2>4. v.players = qs /\ v.host = h
    BY <2>1, <2>3 DEF Shown
  <2>5. qs \in Array /\ \A p \in In(qs) : qs[p].is_host = (p = h)
    BY <2>2, CrownType
  <2>6. Crown(qs, h) = qs
    BY <2>5, CrownAgain
  <2>7. w = [v EXCEPT !.players = qs]
    BY <1>2, <2>4, <2>6 DEF FlagRestored
  <2>8. w = v
    BY <2>3, <2>7 DEF Shown
  <2> QED BY <2>8
<1> QED BY <1>1, <1>2 DEF Matches

\* Time passes for the flags' owners as for everybody.
LEMMA CrownOlder ==
  ASSUME NEW ps \in Array, NEW h
  PROVE  Crown(OlderPlayers(ps), h) = OlderPlayers(Crown(ps, h))
<1> DEFINE os == OlderPlayers(ps)
           cs == Crown(ps, h)
<1>1. os \in Array /\ In(os) = In(ps) /\ cs \in Array /\ In(cs) = In(ps)
  BY OlderPlayersType, CrownType
<1>2. ASSUME NEW p \in Player
      PROVE  Crown(os, h)[p] = OlderPlayers(cs)[p]
  <2>1. CASE p \in In(ps)
    <3>1. PICK m \in Member : m = ps[p]
      BY <2>1, InIsFinite
    <3>2. PICK b \in BOOLEAN : b = (p = h)
      OBVIOUS
    <3>3. os[p] = OlderMember(m) /\ cs[p] = [m EXCEPT !.is_host = b]
      BY <2>1, <3>1, <3>2 DEF OlderPlayers, Crown
    <3>4. Crown(os, h)[p] = [OlderMember(m) EXCEPT !.is_host = b]
      BY <1>1, <2>1, <3>2, <3>3 DEF Crown
    <3>5. OlderPlayers(cs)[p] = OlderMember([m EXCEPT !.is_host = b])
      BY <3>3 DEF OlderPlayers
    <3>6. PICK n : n = [m EXCEPT !.is_host = b]
      OBVIOUS
    <3>7. n \in Member /\ n.deadline = m.deadline /\ m # None /\ n # None
      BY <3>6, ConstantsAssumption DEF Member
    <3>8. CASE m.deadline = None \/ m.deadline < 0
      <4>1. OlderMember(m) = m /\ OlderMember(n) = n
        BY <3>7, <3>8 DEF OlderMember
      <4> QED BY <3>4, <3>5, <3>6, <4>1
    <3>9. CASE ~(m.deadline = None \/ m.deadline < 0)
      <4>1. PICK d : d = m.deadline - 1
        OBVIOUS
      <4>2. OlderMember(m) = [m EXCEPT !.deadline = d] /\ OlderMember(n) = [n EXCEPT !.deadline = d]
        BY <3>7, <3>9, <4>1 DEF OlderMember
      <4>3. [[m EXCEPT !.deadline = d] EXCEPT !.is_host = b] = [n EXCEPT !.deadline = d]
        BY <3>6 DEF Member
      <4> QED BY <3>4, <3>5, <3>6, <4>2, <4>3
    <3> QED BY <3>8, <3>9
  <2>2. CASE p \notin In(ps)
    <3>1. Crown(os, h)[p] = None /\ cs[p] = None
      BY <1>1, <2>2 DEF Crown
    <3> QED BY <3>1 DEF OlderPlayers, OlderMember
  <2> QED BY <2>1, <2>2
<1>3. /\ Crown(os, h) = [p \in Player |-> Crown(os, h)[p]]
      /\ OlderPlayers(cs) = [p \in Player |-> OlderPlayers(cs)[p]]
  BY DEF Crown, OlderPlayers
<1> QED BY <1>2, <1>3

\* Time passing keeps a match.
LEMMA MatchesOlder ==
  ASSUME NEW v \in Shown, NEW w \in Shown, Matches(v, w)
  PROVE  Matches(OlderView(v), OlderView(w))
<1>1. CASE v = w
  BY <1>1 DEF Matches
<1>2. CASE FlagRestored(v, w)
  <2>1. PICK ps \in Array, h \in Player \cup {None} : v.players = ps /\ v.host = h
    BY DEF Shown, Array
  <2>2. PICK qs : qs = Crown(ps, h)
    OBVIOUS
  <2>3. PICK os : os = OlderPlayers(ps)
    OBVIOUS
  <2>4. PICK ts : ts = Crown(os, h)
    OBVIOUS
  <2>5. w = [v EXCEPT !.players = qs] /\ w.players = qs
    BY <1>2, <2>1, <2>2 DEF FlagRestored, Shown
  <2>6. v # None /\ w # None
    BY ConstantsAssumption
  <2>7. OlderPlayers(qs) = ts
    BY <2>2, <2>3, <2>4, CrownOlder
  <2>8. OlderView(v) = [v EXCEPT !.players = os] /\ OlderView(w) = [w EXCEPT !.players = ts]
    BY <2>1, <2>3, <2>5, <2>6, <2>7 DEF OlderView
  <2>9. OlderView(v).players = os /\ OlderView(v).host = h
    BY <2>1, <2>8 DEF Shown
  <2>10. OlderView(w) = [OlderView(v) EXCEPT !.players = ts]
    BY <2>5, <2>8 DEF Shown
  <2>11. \A p \in In(os) : ~os[p].is_host
    <3>1. \A p \in In(ps) : ~ps[p].is_host
      BY <1>2, <2>1 DEF FlagRestored
    <3> QED BY <2>3, <3>1, OlderPlayersType
  <2> QED BY <2>4, <2>9, <2>10, <2>11 DEF Matches, FlagRestored
<1> QED BY <1>1, <1>2 DEF Matches

\* What an event would tell of a document comes nearer as the document does.
LEMMA OlderViewed ==
  ASSUME NEW r, OrNone(r)
  PROVE  /\ View(Older(r)) = OlderView(View(r))
         /\ r # None => In(Older(r).players) = In(r.players)
<1>0. View(r) \in Shown /\ View(r) # None
  BY ViewType
<1>1. CASE r = None
  <2>1. PICK ns \in Array : ns = [p \in Player |-> None]
    BY DEF Array
  <2>2. OlderPlayers(ns) = ns
    BY <2>1 DEF OlderPlayers, OlderMember
  <2>3. View(r) = [players |-> ns, host |-> None, status |-> "abandoned"]
    BY <1>1, <2>1 DEF View
  <2>4. OlderView(View(r)) = View(r)
    BY <1>0, <2>2, <2>3 DEF OlderView
  <2> QED BY <1>1, <2>4 DEF Older
<1>2. CASE r # None
  <2>1. Good(r) /\ r.players \in Array /\ Older(r) # None
    BY <1>2, OlderGood, GoodHas DEF OrNone
  <2>2. PICK os : os = OlderPlayers(r.players)
    OBVIOUS
  <2>3. Older(r).players = os /\ Older(r).host = r.host /\ Older(r).status = r.status
    BY <1>2, <2>2 DEF Older
  <2>4. View(Older(r)) = [players |-> os, host |-> r.host, status |-> r.status]
    BY <2>1, <2>3 DEF View
  <2>5. View(r) = [players |-> r.players, host |-> r.host, status |-> r.status]
    BY <1>2 DEF View
  <2>6. OlderView(View(r)) = [View(r) EXCEPT !.players = os]
    BY <1>0, <2>2, <2>5 DEF OlderView
  <2>7. In(os) = In(r.players)
    BY <2>1, <2>2, OlderPlayersType
  <2> QED BY <2>3, <2>4, <2>5, <2>6, <2>7
<1> QED BY <1>1, <1>2

\* With one handler at a time a request starts only when none runs.
LEMMA FreeMeansNone ==
  ASSUME Concurrency = 1, AtMostOne, NEW s \in Handler, Free(s)
  PROVE  \A t \in Handler : slots[t].pc = "idle"
<1>1. SUFFICES ASSUME NEW t \in Handler, slots[t].pc # "idle" PROVE FALSE
  OBVIOUS
<1>2. Running = {t}
  BY <1>1 DEF AtMostOne, Running
<1>3. Cardinality(Running) = 1
  BY <1>2, FS_Singleton
<1> QED BY <1>3 DEF Free

\* A step of the only handler, or of a request that starts when none runs.
LEMMA OneMoves ==
  ASSUME slots \in [Handler -> SlotState], AtMostOne, NEW s \in Handler, NEW n, Set(s, n),
         slots[s].pc # "idle" \/ \A t \in Handler : slots[t].pc = "idle"
  PROVE  /\ AtMostOne' /\ slots'[s] = n
         /\ \A t \in Handler \ {s} : slots'[t] = slots[t] /\ slots[t].pc = "idle"
BY DEF AtMostOne, Set

\* What such a step has to show.
LEMMA SerialMoves ==
  ASSUME IInv, Serial, NEW s \in Handler, NEW n, Set(s, n),
         slots[s].pc # "idle" \/ \A t \in Handler : slots[t].pc = "idle",
         created' = created, room' # None => created, Follows(n)',
         n.pc # "delete" /\ published' # None => Matches(published', View(room'))
  PROVE  Serial'
<1>1. /\ AtMostOne' /\ slots'[s] = n
      /\ \A t \in Handler \ {s} : slots'[t] = slots[t] /\ slots[t].pc = "idle"
  BY OneMoves DEF IInv, Serial
<1>2. ASSUME NEW t \in Handler
      PROVE  Follows(slots[t])'
  <2>1. CASE t = s
    BY <1>1, <2>1 DEF Follows
  <2>2. CASE t # s
    BY <1>1, <2>2 DEF Follows, Serial
  <2> QED BY <2>1, <2>2
<1>3. Told'
  BY <1>1 DEF Told
<1> QED BY <1>1, <1>2, <1>3 DEF Serial

\* A request that reads and then writes leaves the room and the listeners alone.
LEMMA Unannounced ==
  ASSUME IInv, Serial, NEW s \in Handler, NEW n, Set(s, n),
         slots[s].pc \notin {"idle", "delete"} \/ \A t \in Handler : slots[t].pc = "idle",
         UNCHANGED <<room, created, published>>,
         Follows(n)
  PROVE  Serial'
<1>1. Follows(n)'
  BY DEF Follows
<1>2. published # None => Matches(published, View(room))
  BY DEF Serial, AtMostOne, Told
<1>3. published' # None => Matches(published', View(room'))
  BY <1>2
<1> QED BY <1>1, <1>3, SerialMoves DEF Serial

\* Where a cleanup's caller goes on.
LEMMA AfterCleanupForm ==
  ASSUME NEW c
  PROVE  /\ AfterCleanup(c).pc \in {"write", "get", "idle"}
         /\ AfterCleanup(c).copy = None
         /\ AfterCleanup(c).pc = "write" => c.op = "join"
BY DEF AfterCleanup, At, Idle

\* Requests that start.
LEMMA RequestSerial ==
  ASSUME Concurrency = 1, IInv, Serial, NEW s \in Slot, Request(s)
  PROVE  Serial'
<1>0. s \in Handler
  BY DEF Handler
<1>1. ASSUME NEW op, NEW permitted, NEW doc, ReadThenWrite(s, op, permitted, doc)
      PROVE  Serial'
  <2>1. PICK n : n = At(Start(op, None, None), "write", None, doc, TRUE)
    OBVIOUS
  <2>2. Follows(n)
    BY <1>1, <2>1 DEF ReadThenWrite, Follows, At, Serial
  <2>3. \A t \in Handler : slots[t].pc = "idle"
    BY <1>0, <1>1, FreeMeansNone DEF ReadThenWrite, Serial
  <2> QED BY <1>0, <1>1, <2>1, <2>2, <2>3, Unannounced DEF ReadThenWrite
<1>2. ASSUME NEW p \in Player, NEW z \in Session, JoinRoom(s, p, z)
      PROVE  Serial'
  <2>1. PICK n : n = At(Start("join", p, z), "cleanup", room, None, FALSE)
    OBVIOUS
  <2>2. Follows(n)
    BY <1>2, <2>1 DEF JoinRoom, Follows, At, Serial
  <2>3. \A t \in Handler : slots[t].pc = "idle"
    BY <1>0, <1>2, FreeMeansNone DEF JoinRoom, Serial
  <2> QED BY <1>0, <1>2, <2>1, <2>2, <2>3, Unannounced DEF JoinRoom
<1>3. ASSUME NEW p \in Player, NEW z \in Session, JoinRoomByInvite(s, p, z)
      PROVE  Serial'
  <2>1. PICK n : n = Start("invite", p, z)
    OBVIOUS
  <2>2. Follows(n)
    BY <2>1 DEF Follows, Start
  <2>3. \A t \in Handler : slots[t].pc = "idle"
    BY <1>0, <1>3, FreeMeansNone DEF JoinRoomByInvite, Serial
  <2> QED BY <1>0, <1>3, <2>1, <2>2, <2>3, Unannounced DEF JoinRoomByInvite
<1>4. CASE GetRoom(s)
  <2>1. PICK n : n = Start("get", None, None)
    OBVIOUS
  <2>2. Follows(n)
    BY <2>1 DEF Follows, Start
  <2>3. \A t \in Handler : slots[t].pc = "idle"
    BY <1>0, <1>4, FreeMeansNone DEF GetRoom, Serial
  <2> QED BY <1>0, <1>4, <2>1, <2>2, <2>3, Unannounced DEF GetRoom
<1> QED
  BY <1>1, <1>2, <1>3, <1>4 DEF Request, LeaveRoom, SetReady, SetUnready, Disconnect, Reconnect

\* The only handler goes on: each write is followed by its event.
LEMMA ContinueSerial ==
  ASSUME IInv, Serial, NEW s \in Handler, Continue(s)
  PROVE  Serial'
<1> DEFINE c == slots[s]
<1>1. GoodSlot(c) /\ OrNone(room) /\ Follows(c)
  BY DEF IInv, Serial
<1>2. CASE CleanupRead(s) /\ room = None
  <2>1. PICK n : n = AfterCleanup(c)
    OBVIOUS
  <2>2. n.pc = "write" => created
    BY <1>1, <1>2, <2>1, AfterCleanupForm, GoodSlotHas, GoodHas DEF CleanupRead, Follows
  <2>3. Follows(n)
    BY <2>1, <2>2, AfterCleanupForm DEF Follows
  <2> QED BY <1>2, <2>1, <2>3, Unannounced DEF CleanupRead
<1>3. CASE CleanupRead(s) /\ room # None
  <2>1. PICK n : n = At(c, "cleanupWrite", c.copy, Cleaned(room), Changed(room, Cleaned(room)))
    OBVIOUS
  <2>2. ~Changed(room, Cleaned(room)) => Matches(View(room), View(Cleaned(room)))
    BY <1>1, <1>3, UnchangedView DEF OrNone
  <2>3. Follows(n)
    BY <1>3, <2>1, <2>2 DEF Follows, At, Serial
  <2> QED BY <1>3, <2>1, <2>3, Unannounced DEF CleanupRead
<1>4. CASE CleanupWrite(s)
  <2>1. PICK n : n = AfterCleanup(c)
    OBVIOUS
  <2>2. created /\ created' = created
    BY <1>1, <1>4 DEF CleanupWrite, Follows
  <2>3. n.pc # "cleanupWrite"
    BY <2>1, AfterCleanupForm
  <2>4. Follows(n)'
    BY <2>2, <2>3 DEF Follows
  <2>5. published # None => published \in Shown /\ Matches(published, View(room))
    BY <1>4 DEF Serial, AtMostOne, Told, CleanupWrite, IInv
  <2>6. published' # None => Matches(published', View(room'))
    <3>1. CASE c.emits
      BY <1>4, <3>1 DEF CleanupWrite, Matches
    <3>2. CASE ~c.emits
      <4>1. Matches(View(room), View(c.next))
        BY <1>1, <1>4, <3>2 DEF Follows, CleanupWrite
      <4>2. room' = c.next /\ published' = published
        BY <1>4, <3>2 DEF CleanupWrite
      <4>3. published # None => Matches(published, View(c.next))
        BY <2>5, <4>1, MatchesTwice
      <4> QED BY <4>2, <4>3
    <3> QED BY <3>1, <3>2
  <2> QED BY <1>4, <2>1, <2>2, <2>4, <2>6, SerialMoves DEF CleanupWrite
<1>5. CASE ReadAfterCleanup(s) /\ (room = None \/ c.op = "get")
  <2>1. PICK n : n = Idle
    OBVIOUS
  <2>2. Follows(n)
    BY <2>1 DEF Follows, Idle
  <2> QED BY <1>5, <2>1, <2>2, Unannounced DEF ReadAfterCleanup
<1>6. CASE ReadAfterCleanup(s) /\ ~(room = None \/ c.op = "get")
  <2>1. PICK n : n = At(Start("join", c.who, c.session), "cleanup", room, None, FALSE)
    OBVIOUS
  <2>2. Follows(n)
    BY <1>6, <2>1 DEF Follows, At, Serial
  <2> QED BY <1>6, <2>1, <2>2, Unannounced DEF ReadAfterCleanup
<1>7. CASE Persist(s)
  <2>1. created /\ created' = created
    BY <1>1, <1>7 DEF Persist, Follows
  <2>2. CASE c.op = "leave" /\ In(c.next.players) = {}
    <3>1. PICK n : n = At(c, "delete", None, c.next, FALSE)
      OBVIOUS
    <3>2. Follows(n)' /\ n.pc = "delete"
      BY <2>1, <3>1 DEF Follows, At
    <3> QED BY <1>7, <2>1, <2>2, <3>1, <3>2, SerialMoves DEF Persist
  <2>3. CASE ~(c.op = "leave" /\ In(c.next.players) = {})
    <3>1. PICK n : n = Idle
      OBVIOUS
    <3>2. Follows(n)'
      BY <3>1 DEF Follows, Idle
    <3>3. Matches(published', View(room'))
      BY <1>7, <2>3 DEF Persist, Matches
    <3> QED BY <1>7, <2>1, <2>3, <3>1, <3>2, <3>3, SerialMoves DEF Persist
  <2> QED BY <2>2, <2>3
<1>8. CASE DeleteEmptied(s)
  <2>1. PICK n : n = Idle
    OBVIOUS
  <2>2. Follows(n)'
    BY <2>1 DEF Follows, Idle
  <2>3. Matches(published', View(room')) /\ room' = None /\ created' = created
    BY <1>8 DEF DeleteEmptied, Matches
  <2> QED BY <1>8, <2>1, <2>2, <2>3, SerialMoves DEF DeleteEmptied
<1> QED
  BY <1>2, <1>3, <1>4, <1>5, <1>6, <1>7, <1>8 DEF Continue

\* Time passing, for what a handler holds too.
LEMMA TickSerial ==
  ASSUME IInv, Serial, Tick
  PROVE  Serial'
<1>1. ASSUME NEW r, OrNone(r)
      PROVE  /\ View(Older(r)) = OlderView(View(r)) /\ View(r) \in Shown
             /\ Older(r) = None <=> r = None
  BY <1>1, OlderViewed, ViewType, OlderGood, GoodHas DEF OrNone, Older
<1>2. /\ View(room') = OlderView(View(room)) /\ View(room) \in Shown
      /\ room' # None => room # None
  BY <1>1 DEF Tick, IInv
<1>3. ASSUME NEW s \in Handler
      PROVE  Follows(slots[s])' /\ slots'[s].pc = slots[s].pc
  <2> DEFINE c == slots[s]
  <2>1. OrNone(c.copy) /\ OrNone(c.next) /\ Follows(c)
    BY GoodSlotHas DEF IInv, Serial
  <2>2. PICK n : n = At(c, c.pc, Older(c.copy), Older(c.next), c.emits)
    OBVIOUS
  <2>3. n.pc = c.pc /\ n.emits = c.emits /\ n.copy = Older(c.copy) /\ n.next = Older(c.next)
    BY <2>2 DEF At
  <2>4. /\ View(n.next) = OlderView(View(c.next)) /\ View(c.next) \in Shown
        /\ n.copy # None => c.copy # None
    BY <1>1, <2>1, <2>3
  <2>5. Matches(View(room), View(c.next)) => Matches(View(room'), View(n.next))
    BY <1>2, <2>4, MatchesOlder
  <2>6. n.pc = "cleanupWrite" /\ ~n.emits => Matches(View(room'), View(n.next))
    BY <2>1, <2>3, <2>5 DEF Follows
  <2>7. Follows(n)'
    BY <2>1, <2>3, <2>4, <2>6 DEF Follows, Tick
  <2>8. slots'[s] = n
    BY <2>2 DEF Tick
  <2> QED BY <2>3, <2>7, <2>8 DEF Follows
<1>4. published' # None /\ (\A s \in Handler : slots'[s].pc # "delete") =>
        Matches(published', View(room'))
  <2>1. SUFFICES ASSUME published' # None, \A s \in Handler : slots'[s].pc # "delete"
                 PROVE  Matches(published', View(room'))
    OBVIOUS
  <2>2. published' = OlderView(published) /\ published # None
    BY <2>1 DEF Tick, OlderView
  <2>3. published \in Shown
    BY <2>2 DEF IInv
  <2>4. \A s \in Handler : slots[s].pc # "delete"
    BY <1>3, <2>1
  <2>5. Matches(published, View(room))
    BY <2>2, <2>4 DEF Serial, Told
  <2> QED BY <1>2, <2>2, <2>3, <2>5, MatchesOlder
<1>5. AtMostOne'
  BY <1>3 DEF Serial, AtMostOne
<1> QED BY <1>2, <1>3, <1>4, <1>5 DEF Serial, Told, Tick

\* Nothing is stored, running or heard at first.
LEMMA InitSerial ==
  ASSUME Init
  PROVE  Serial
<1>1. \A s \in Handler : slots[s] = Idle
  BY DEF Init
<1>2. Follows(Idle)
  BY DEF Follows, Idle
<1>3. AtMostOne /\ Told
  BY <1>1 DEF AtMostOne, Told, Init, Idle
<1> QED BY <1>1, <1>2, <1>3 DEF Serial, Init

\* Every step keeps the invariant for one handler.
LEMMA NextSerial ==
  ASSUME Concurrency = 1, IInv, Serial, [Next]_vars
  PROVE  Serial'
<1>1. ASSUME NEW p \in Player, NEW z \in Session, CreateRoom(p, z)
      PROVE  Serial'
  <2>1. ASSUME NEW s \in Handler
        PROVE  slots[s].pc \notin {"cleanupWrite", "write", "delete"}
    BY <1>1 DEF CreateRoom, Serial, Follows
  <2>2. created' /\ slots' = slots /\ published' = View(room')
    BY <1>1 DEF CreateRoom
  <2>3. \A s \in Handler : Follows(slots[s])'
    BY <2>1, <2>2 DEF Follows
  <2>4. Matches(published', View(room'))
    BY <2>2 DEF Matches
  <2> QED BY <2>2, <2>3, <2>4 DEF Serial, AtMostOne, Told
<1>2. ASSUME NEW s \in Slot, Request(s)
      PROVE  Serial'
  BY <1>2, RequestSerial
<1>3. CASE SweepExpiredRooms
  <2>1. PICK n : n = Start("sweep", None, None)
    OBVIOUS
  <2>2. Follows(n) /\ Sweeper \in Handler
    BY <2>1 DEF Follows, Start, Handler
  <2>3. \A t \in Handler : slots[t].pc = "idle"
    BY <1>3, <2>2, FreeMeansNone DEF SweepExpiredRooms, Serial
  <2> QED BY <1>3, <2>1, <2>2, <2>3, Unannounced DEF SweepExpiredRooms
<1>4. ASSUME NEW s \in Handler, Continue(s)
      PROVE  Serial'
  BY <1>4, ContinueSerial
<1>5. CASE Tick
  BY <1>5, TickSerial
<1>6. CASE Restart
  <2>1. \A s \in Handler : slots'[s] = Idle
    BY <1>6 DEF Restart
  <2>2. \A s \in Handler : Follows(slots[s])'
    BY <2>1 DEF Follows, Idle
  <2>3. room' # None => created'
    BY <1>6 DEF Restart, Serial
  <2>4. AtMostOne' /\ Told'
    BY <1>6, <2>1 DEF AtMostOne, Told, Restart, Idle
  <2> QED BY <2>2, <2>3, <2>4 DEF Serial
<1>7. CASE UNCHANGED vars
  BY <1>7 DEF vars, Serial, AtMostOne, Follows, Told
<1> QED
  BY <1>1, <1>2, <1>3, <1>4, <1>5, <1>6, <1>7 DEF Next

(* The flag that can go missing: while the process has not restarted, some *)
(* player carries it in every document but an emptied one about to go.     *)

HasHost(ps) == \E p \in In(ps) : ps[p].is_host

Led(c) ==
  /\ c.copy # None => HasHost(c.copy.players)
  /\ c.pc = "write" =>
       HasHost(c.next.players) \/ (c.op = "leave" /\ In(c.next.players) = {})
  /\ c.pc = "cleanupWrite" /\ c.next # None => HasHost(c.next.players)

AllLed ==
  restarts = 0 =>
    /\ \A s \in Handler : Led(slots[s])
    /\ room # None /\ (\A s \in Handler : slots[s].pc # "delete") => HasHost(room.players)
    /\ published # None => HasHost(published.players) \/ published = View(None)

\* A flag survives where the entries keep theirs.
LEMMA HostKept ==
  ASSUME NEW ps, NEW qs, HasHost(ps),
         \A p \in In(ps) : p \in In(qs) /\ qs[p].is_host = ps[p].is_host
  PROVE  HasHost(qs)
BY DEF HasHost

\* Replacing an entry by one with the same flag keeps it.
LEMMA HostReplaced ==
  ASSUME NEW ps \in Array, HasHost(ps), NEW p \in Player, NEW m \in Member,
         p \in In(ps) => m.is_host = ps[p].is_host
  PROVE  HasHost([ps EXCEPT ![p] = m])
<1> DEFINE qs == [ps EXCEPT ![p] = m]
<1>1. qs[p] = m /\ \A q \in Player \ {p} : qs[q] = ps[q]
  BY DEF Array
<1> HIDE DEF qs
<1>2. m # None
  BY ConstantsAssumption
<1>3. \A q \in In(ps) : q \in In(qs) /\ qs[q].is_host = ps[q].is_host
  BY <1>1, <1>2 DEF In
<1>4. HasHost(qs)
  BY <1>3, HostKept
<1> QED BY <1>4 DEF qs

\* A player who is crowned carries the flag.
LEMMA Crowned ==
  ASSUME NEW ps \in Array, NEW h \in In(ps)
  PROVE  HasHost(Crown(ps, h))
BY CrownType DEF HasHost

\* createRoom makes its caller host.
LEMMA NewRoomLed ==
  ASSUME NEW p \in Player, NEW z \in Session
  PROVE  HasHost(NewRoom(p, z).players)
<1>1. PICK e \in Member : e = Entry(1, z, TRUE) /\ e.is_host
  BY EntryType
<1>2. PICK ps : ps = [q \in Player |-> IF q = p THEN e ELSE None]
  OBVIOUS
<1>3. ps[p] = e /\ e # None
  BY <1>2, ConstantsAssumption
<1>4. p \in In(ps)
  BY <1>3 DEF In
<1>5. NewRoom(p, z).players = ps
  BY <1>1, <1>2 DEF NewRoom, Document
<1> QED BY <1>1, <1>3, <1>4, <1>5 DEF HasHost

\* joinRoom adds an entry.
LEMMA JoinedLed ==
  ASSUME NEW r, Good(r), HasHost(r.players), NEW p \in Player, p \notin In(r.players),
         NEW z \in Session
  PROVE  HasHost(Joined(r, p, z).players)
<1>1. r.players \in Array /\ Cardinality(In(r.players)) \in Nat
  BY GoodHas, InIsFinite
<1>2. Cardinality(In(r.players)) + 1 \in Nat
  BY <1>1
<1>3. Entry(Cardinality(In(r.players)) + 1, z, FALSE) \in Member
  BY <1>2, EntryType
<1> QED BY <1>1, <1>3, HostReplaced DEF Joined, Document

\* leaveRoom crowns the first of those that stay.
LEMMA LeftLed ==
  ASSUME NEW r, Good(r), NEW p \in Player
  PROVE  HasHost(Left(r, p).players) \/ In(Left(r, p).players) = {}
<1> DEFINE rest == Keep(r.players, In(r.players) \ {p})
           next == IF In(rest) = {} THEN r.host ELSE First(rest)
<1>1. rest \in Array
  BY GoodHas, KeepType
<1>2. Left(r, p).players = Crown(rest, next)
  BY DEF Left, Document
<1> HIDE DEF rest
<1>3. CASE In(rest) = {}
  BY <1>1, <1>2, <1>3, CrownType
<1>4. CASE In(rest) # {}
  BY <1>1, <1>2, <1>4, FirstIsIn, Crowned
<1> QED BY <1>3, <1>4

\* setReady leaves the flags alone.
LEMMA ReadiedLed ==
  ASSUME NEW r, Good(r), HasHost(r.players), NEW p \in In(r.players), NEW b \in BOOLEAN
  PROVE  HasHost(Readied(r, p, b).players)
<1>1. r.players \in Array /\ p \in Player
  BY GoodHas, InIsFinite
<1>2. PICK m \in Member : m = r.players[p]
  BY InIsFinite, GoodHas
<1>3. PICK n : n = [m EXCEPT !.ready = b]
  OBVIOUS
<1>4. n \in Member /\ n.is_host = m.is_host
  BY <1>3 DEF Member
<1>5. HasHost([r.players EXCEPT ![p] = n])
  BY <1>1, <1>2, <1>4, HostReplaced
<1> QED BY <1>2, <1>3, <1>5 DEF Readied, Document

\* So does reconnect.
LEMMA ReconnectedLed ==
  ASSUME NEW r, Good(r), HasHost(r.players), NEW p \in In(r.players), NEW z \in Session
  PROVE  HasHost(Reconnected(r, p, z).players)
<1> DEFINE m == r.players[p]
           k == [m EXCEPT !.session = z]
           n == [k EXCEPT !.connection = "connected", !.deadline = None]
<1>1. r.players \in Array /\ m \in Member /\ p \in Player
  BY GoodHas, InIsFinite
<1>2. k \in Member /\ k.is_host = m.is_host
  BY <1>1 DEF Member
<1> HIDE DEF k
<1>3. n \in Member /\ n.is_host = k.is_host
  BY <1>2, Connection, ZenonT(30)
<1>4. n = [m EXCEPT !.session = z, !.connection = "connected", !.deadline = None]
  BY DEF k
<1> HIDE DEF n
<1>5. HasHost([r.players EXCEPT ![p] = n])
  BY <1>1, <1>2, <1>3, HostReplaced
<1> QED BY <1>4, <1>5 DEF Reconnected, Document

\* So does disconnect.
LEMMA DisconnectedLed ==
  ASSUME NEW r, Good(r), HasHost(r.players), NEW p \in Player
  PROVE  HasHost(Disconnected(r, p).players)
<1>1. CASE p \in In(r.players)
  <2> DEFINE n == [r.players[p] EXCEPT !.connection = "disconnected", !.deadline = Window]
  <2>1. r.players \in Array /\ r.players[p] \in Member /\ Window \in TimeLeft
    BY <1>1, GoodHas, InIsFinite, ConstantsAssumption DEF TimeLeft
  <2>2. n \in Member /\ n.is_host = r.players[p].is_host
    BY <2>1, Connection
  <2> HIDE DEF n
  <2>3. HasHost([r.players EXCEPT ![p] = n])
    BY <2>1, <2>2, HostReplaced
  <2> QED BY <1>1, <2>3 DEF Disconnected, Document, n
<1>2. CASE p \notin In(r.players)
  BY <1>2 DEF Disconnected, Document
<1> QED BY <1>1, <1>2

\* cleanupRoom crowns one of those it keeps.
LEMMA CleanedLed ==
  ASSUME NEW r, Good(r), Cleaned(r) # None
  PROVE  HasHost(Cleaned(r).players)
<1>1. Active(r) \subseteq In(r.players) /\ r.players \in Array
  BY GoodHas DEF Active
<1>2. Keep(r.players, Active(r)) \in Array /\ In(Keep(r.players, Active(r))) = Active(r)
  BY <1>1, KeepType
<1> QED BY <1>2, CleanedMembers, Crowned

\* Time passing leaves the flags alone.
LEMMA OlderLed ==
  ASSUME NEW ps \in Array
  PROVE  /\ HasHost(ps) => HasHost(OlderPlayers(ps))
         /\ In(OlderPlayers(ps)) = In(ps)
BY OlderPlayersType, HostKept

\* A step of the only handler has to show what it holds afterwards.
LEMMA LedMoves ==
  ASSUME IInv, Serial, AllLed, NEW s \in Handler, NEW n, Set(s, n),
         slots[s].pc # "idle" \/ \A t \in Handler : slots[t].pc = "idle",
         restarts' = restarts,
         restarts = 0 =>
           /\ Led(n)
           /\ room' # None /\ n.pc # "delete" => HasHost(room'.players)
           /\ published' # None => HasHost(published'.players) \/ published' = View(None)
  PROVE  AllLed'
<1>1. /\ slots'[s] = n
      /\ \A t \in Handler \ {s} : slots'[t] = slots[t]
  BY OneMoves DEF IInv, Serial
<1>2. SUFFICES ASSUME restarts = 0
               PROVE  /\ \A t \in Handler : Led(slots'[t])
                      /\ room' # None /\ (\A t \in Handler : slots'[t].pc # "delete")
                           => HasHost(room'.players)
                      /\ published' # None
                           => HasHost(published'.players) \/ published' = View(None)
  BY DEF AllLed, Led
<1>3. \A t \in Handler : Led(slots'[t])
  BY <1>1, <1>2 DEF AllLed
<1> QED BY <1>1, <1>2, <1>3

\* While only the handler of s runs and it is not about to delete, or none runs,
\* the stored room has its host.
LEMMA RoomLed ==
  ASSUME Serial, AllLed, restarts = 0, room # None, NEW s \in Handler,
         slots[s].pc \notin {"idle", "delete"} \/ \A t \in Handler : slots[t].pc = "idle"
  PROVE  HasHost(room.players)
BY DEF Serial, AtMostOne, AllLed

\* Requests that start.
LEMMA RequestLed ==
  ASSUME Concurrency = 1, IInv, Serial, AllLed, NEW s \in Slot, Request(s)
  PROVE  AllLed'
<1>0. s \in Handler
  BY DEF Handler
<1>1. ASSUME NEW n, Set(s, n), Free(s), UNCHANGED <<room, published, restarts>>,
             n.pc # "delete", restarts = 0 => Led(n)
      PROVE  AllLed'
  <2>1. \A t \in Handler : slots[t].pc = "idle"
    BY <1>0, <1>1, FreeMeansNone DEF Serial
  <2>2. restarts = 0 /\ room # None => HasHost(room.players)
    BY <1>0, <2>1, RoomLed
  <2>3. restarts = 0 /\ published # None => HasHost(published.players) \/ published = View(None)
    BY DEF AllLed
  <2> QED BY <1>0, <1>1, <2>1, <2>2, <2>3, LedMoves
<1>2. ASSUME Free(s), restarts = 0, room # None
      PROVE  Good(room) /\ HasHost(room.players)
  <2>1. \A t \in Handler : slots[t].pc = "idle"
    BY <1>0, <1>2, FreeMeansNone DEF Serial
  <2> QED BY <1>0, <1>2, <2>1, RoomLed DEF IInv, OrNone
<1>3. ASSUME NEW op, NEW permitted, NEW doc, ReadThenWrite(s, op, permitted, doc),
             Good(room) /\ HasHost(room.players) /\ permitted =>
               HasHost(doc.players) \/ (op = "leave" /\ In(doc.players) = {})
      PROVE  AllLed'
  <2>1. PICK n : n = At(Start(op, None, None), "write", None, doc, TRUE)
    OBVIOUS
  <2>2. n.pc = "write" /\ n.op = op /\ n.copy = None /\ n.next = doc
    BY <2>1 DEF At, Start
  <2>3. restarts = 0 => Led(n)
    BY <1>2, <1>3, <2>2 DEF Led, ReadThenWrite
  <2> QED BY <1>1, <1>3, <2>1, <2>2, <2>3 DEF ReadThenWrite
<1>4. ASSUME NEW p \in Player, LeaveRoom(s, p)
      PROVE  AllLed'
  <2>1. Good(room) => HasHost(Left(room, p).players) \/ In(Left(room, p).players) = {}
    BY LeftLed
  <2> QED BY <1>3, <1>4, <2>1 DEF LeaveRoom
<1>5. ASSUME NEW p \in Player, SetReady(s, p)
      PROVE  AllLed'
  <2>1. Good(room) /\ HasHost(room.players) /\ p \in In(room.players)
          => HasHost(Readied(room, p, TRUE).players)
    BY ReadiedLed
  <2> QED BY <1>3, <1>5, <2>1 DEF SetReady
<1>6. ASSUME NEW p \in Player, SetUnready(s, p)
      PROVE  AllLed'
  <2>1. Good(room) /\ HasHost(room.players) /\ p \in In(room.players)
          => HasHost(Readied(room, p, FALSE).players)
    BY ReadiedLed
  <2> QED BY <1>3, <1>6, <2>1 DEF SetUnready
<1>7. ASSUME NEW p \in Player, Disconnect(s, p)
      PROVE  AllLed'
  <2>1. Good(room) /\ HasHost(room.players) => HasHost(Disconnected(room, p).players)
    BY DisconnectedLed
  <2> QED BY <1>3, <1>7, <2>1 DEF Disconnect
<1>8. ASSUME NEW p \in Player, NEW z \in Session, Reconnect(s, p, z)
      PROVE  AllLed'
  <2>1. Good(room) /\ HasHost(room.players) /\ p \in In(room.players)
          => HasHost(Reconnected(room, p, z).players)
    BY ReconnectedLed
  <2> QED BY <1>3, <1>8, <2>1 DEF Reconnect
<1>9. ASSUME NEW p \in Player, NEW z \in Session, JoinRoom(s, p, z)
      PROVE  AllLed'
  <2>1. PICK n : n = At(Start("join", p, z), "cleanup", room, None, FALSE)
    OBVIOUS
  <2>2. n.pc = "cleanup" /\ n.copy = room
    BY <2>1 DEF At
  <2>3. restarts = 0 => Led(n)
    BY <1>2, <1>9, <2>2 DEF Led, JoinRoom
  <2> QED BY <1>1, <1>9, <2>1, <2>2, <2>3 DEF JoinRoom
<1>10. ASSUME NEW op, NEW p, NEW z
       PROVE  Led(Start(op, p, z)) /\ Start(op, p, z).pc # "delete"
  BY DEF Led, Start
<1>11. ASSUME NEW p \in Player, NEW z \in Session, JoinRoomByInvite(s, p, z)
       PROVE  AllLed'
  BY <1>1, <1>10, <1>11 DEF JoinRoomByInvite
<1>12. CASE GetRoom(s)
  BY <1>1, <1>10, <1>12 DEF GetRoom
<1> QED
  BY <1>4, <1>5, <1>6, <1>7, <1>8, <1>9, <1>11, <1>12 DEF Request

\* The only handler goes on.
LEMMA ContinueLed ==
  ASSUME IInv, Serial, AllLed, NEW s \in Handler, Continue(s)
  PROVE  AllLed'
<1> DEFINE c == slots[s]
<1>1. /\ GoodSlot(c) /\ OrNone(room) /\ c.pc # "idle" /\ (restarts = 0 => Led(c))
      /\ restarts' = restarts
  BY DEF IInv, AllLed, Continue, CleanupRead, CleanupWrite, ReadAfterCleanup, Persist,
         DeleteEmptied
<1>2. restarts = 0 /\ room # None /\ c.pc # "delete" => HasHost(room.players)
  BY <1>1, RoomLed
<1>3. restarts = 0 /\ published # None => HasHost(published.players) \/ published = View(None)
  BY DEF AllLed
<1>4. Led(Idle) /\ Idle.pc # "delete"
  BY DEF Led, Idle
<1>5. ASSUME c.pc \in {"cleanup", "cleanupWrite"}
      PROVE  (restarts = 0 => Led(AfterCleanup(c))) /\ AfterCleanup(c).pc # "delete"
  <2>1. CASE c.op = "join" /\ Admitted(c)
    <3>1. PICK n : n = AfterCleanup(c)
      OBVIOUS
    <3>2. n.pc = "write" /\ n.copy = None /\ n.next = Joined(c.copy, c.who, c.session)
      BY <2>1, <3>1 DEF AfterCleanup, At
    <3>3. Good(c.copy) /\ c.who \in Player /\ c.session \in Session
      BY <1>1, <1>5, <2>1, GoodSlotHas
    <3>4. c.copy # None /\ c.who \notin In(c.copy.players)
      BY <2>1, <3>3, GoodHas DEF Admitted
    <3>5. restarts = 0 => HasHost(n.next.players)
      BY <1>1, <3>2, <3>3, <3>4, JoinedLed DEF Led
    <3> QED BY <3>1, <3>2, <3>5 DEF Led
  <2>2. CASE ~(c.op = "join" /\ Admitted(c))
    BY <2>2 DEF AfterCleanup, At, Idle, Led
  <2> QED BY <2>1, <2>2
<1>6. CASE CleanupRead(s) /\ room = None
  <2>1. PICK n : n = AfterCleanup(c)
    OBVIOUS
  <2>2. (restarts = 0 => Led(n)) /\ n.pc # "delete" /\ Set(s, n) /\ UNCHANGED <<room, published>>
    BY <1>5, <1>6, <2>1 DEF CleanupRead
  <2> QED BY <1>1, <1>3, <1>6, <2>2, LedMoves
<1>7. CASE CleanupRead(s) /\ room # None
  <2>1. PICK d : d = Cleaned(room)
    OBVIOUS
  <2>2. PICK n : n = At(c, "cleanupWrite", c.copy, d, Changed(room, d))
    OBVIOUS
  <2>3. d # None => HasHost(d.players)
    BY <1>1, <1>7, <2>1, CleanedLed DEF OrNone
  <2>4. n.pc = "cleanupWrite" /\ n.copy = c.copy /\ n.next = d
    BY <2>2 DEF At
  <2>5. restarts = 0 => Led(n)
    BY <1>1, <2>3, <2>4 DEF Led
  <2>6. Set(s, n) /\ UNCHANGED <<room, published>> /\ c.pc = "cleanup"
    BY <1>7, <2>1, <2>2 DEF CleanupRead
  <2> QED BY <1>1, <1>2, <1>3, <2>4, <2>5, <2>6, LedMoves
<1>8. CASE CleanupWrite(s)
  <2>1. PICK n : n = AfterCleanup(c)
    OBVIOUS
  <2>2. /\ (restarts = 0 => Led(n)) /\ n.pc # "delete" /\ Set(s, n)
        /\ room' = c.next /\ c.pc = "cleanupWrite"
        /\ published' = IF c.emits THEN View(c.next) ELSE published
    BY <1>5, <1>8, <2>1 DEF CleanupWrite
  <2>3. restarts = 0 /\ c.next # None => HasHost(c.next.players)
    BY <1>1, <2>2 DEF Led
  <2>4. c.next # None => View(c.next).players = c.next.players
    BY DEF View
  <2>5. restarts = 0 /\ published' # None =>
          HasHost(published'.players) \/ published' = View(None)
    BY <1>3, <2>2, <2>3, <2>4
  <2> QED BY <1>1, <2>2, <2>3, <2>5, LedMoves
<1>9. CASE ReadAfterCleanup(s) /\ (room = None \/ c.op = "get")
  <2>1. Set(s, Idle) /\ UNCHANGED <<room, published>> /\ c.pc = "get"
    BY <1>9 DEF ReadAfterCleanup
  <2> QED BY <1>1, <1>2, <1>3, <1>4, <2>1, LedMoves
<1>10. CASE ReadAfterCleanup(s) /\ ~(room = None \/ c.op = "get")
  <2>1. PICK n : n = At(Start("join", c.who, c.session), "cleanup", room, None, FALSE)
    OBVIOUS
  <2>2. n.pc = "cleanup" /\ n.copy = room
    BY <2>1 DEF At
  <2>3. Set(s, n) /\ UNCHANGED <<room, published>> /\ c.pc = "get"
    BY <1>10, <2>1 DEF ReadAfterCleanup
  <2>4. restarts = 0 => Led(n)
    BY <1>2, <1>10, <2>2, <2>3 DEF Led
  <2> QED BY <1>1, <1>2, <1>3, <2>2, <2>3, <2>4, LedMoves
<1>11. CASE Persist(s) /\ c.op = "leave" /\ In(c.next.players) = {}
  <2>1. PICK n : n = At(c, "delete", None, c.next, FALSE)
    OBVIOUS
  <2>2. n.pc = "delete" /\ Led(n)
    BY <2>1 DEF At, Led
  <2>3. Set(s, n) /\ published' = published
    BY <1>11, <2>1 DEF Persist
  <2> QED BY <1>1, <1>3, <2>2, <2>3, LedMoves
<1>12. CASE Persist(s) /\ ~(c.op = "leave" /\ In(c.next.players) = {})
  <2>1. /\ Set(s, Idle) /\ room' = c.next /\ published' = View(c.next) /\ c.pc = "write"
    BY <1>12 DEF Persist
  <2>2. restarts = 0 => HasHost(c.next.players)
    BY <1>1, <1>12, <2>1 DEF Led
  <2>3. c.next # None
    BY <1>1, <2>1, GoodSlotHas, GoodHas
  <2>4. View(c.next).players = c.next.players
    BY <2>3 DEF View
  <2>5. restarts = 0 => HasHost(room'.players) /\ HasHost(published'.players)
    BY <2>1, <2>2, <2>4
  <2> QED BY <1>1, <1>4, <2>1, <2>5, LedMoves
<1>13. CASE DeleteEmptied(s)
  <2>1. Set(s, Idle) /\ room' = None /\ published' = View(None)
    BY <1>13 DEF DeleteEmptied
  <2> QED BY <1>1, <1>4, <2>1, LedMoves
<1> QED
  BY <1>6, <1>7, <1>8, <1>9, <1>10, <1>11, <1>12, <1>13 DEF Continue

\* Time passes for every document.
LEMMA TickLed ==
  ASSUME IInv, AllLed, Tick
  PROVE  AllLed'
<1>1. SUFFICES ASSUME restarts = 0
               PROVE  /\ \A s \in Handler : Led(slots'[s])
                      /\ room' # None /\ (\A s \in Handler : slots'[s].pc # "delete")
                           => HasHost(room'.players)
                      /\ published' # None
                           => HasHost(published'.players) \/ published' = View(None)
  BY DEF AllLed, Led, Tick
<1>2. ASSUME NEW r, OrNone(r)
      PROVE  /\ Older(r) = None <=> r = None
             /\ r # None => /\ HasHost(r.players) => HasHost(Older(r).players)
                            /\ In(Older(r).players) = In(r.players)
  <2>1. CASE r = None
    BY <2>1 DEF Older
  <2>2. CASE r # None
    <3>1. Good(r) /\ r.players \in Array /\ Older(r) # None
      BY <1>2, <2>2, OlderGood, GoodHas DEF OrNone
    <3>2. Older(r).players = OlderPlayers(r.players)
      BY <2>2 DEF Older
    <3> QED BY <2>2, <3>1, <3>2, OlderLed
  <2> QED BY <2>1, <2>2
<1>3. ASSUME NEW s \in Handler
      PROVE  Led(slots'[s]) /\ slots'[s].pc = slots[s].pc
  <2> DEFINE c == slots[s]
  <2>1. OrNone(c.copy) /\ OrNone(c.next) /\ Led(c) /\ (c.pc = "write" => c.next # None)
    BY <1>1, GoodSlotHas, GoodHas DEF IInv, AllLed
  <2>2. PICK n : n = At(c, c.pc, Older(c.copy), Older(c.next), c.emits)
    OBVIOUS
  <2>3. /\ n.pc = c.pc /\ n.op = c.op
        /\ n.copy = Older(c.copy) /\ n.next = Older(c.next)
    BY <2>2 DEF At
  <2>4. Led(n)
    BY <1>2, <2>1, <2>3 DEF Led
  <2>5. slots'[s] = n
    BY <2>2 DEF Tick
  <2> QED BY <2>3, <2>4, <2>5
<1>4. room' # None /\ (\A s \in Handler : slots'[s].pc # "delete") => HasHost(room'.players)
  BY <1>1, <1>2, <1>3 DEF AllLed, IInv, Tick
<1>5. published' # None => HasHost(published'.players) \/ published' = View(None)
  <2>1. SUFFICES ASSUME published' # None
                 PROVE  HasHost(published'.players) \/ published' = View(None)
    OBVIOUS
  <2>2. published' = OlderView(published) /\ published # None
    BY <2>1 DEF Tick, OlderView
  <2>3. published \in Shown /\ published.players \in Array
    BY <2>2 DEF IInv, Shown, Array
  <2>4. CASE HasHost(published.players)
    <3>1. PICK qs : qs = OlderPlayers(published.players)
      OBVIOUS
    <3>2. HasHost(qs)
      BY <2>3, <2>4, <3>1, OlderLed
    <3>3. published' = [published EXCEPT !.players = qs]
      BY <2>2, <3>1 DEF OlderView
    <3>4. published'.players = qs
      BY <2>3, <3>3 DEF Shown
    <3> QED BY <3>2, <3>4
  <2>5. CASE published = View(None)
    <3>1. View(Older(None)) = OlderView(View(None))
      BY OlderViewed DEF OrNone
    <3> QED BY <2>2, <2>5, <3>1 DEF Older
  <2> QED BY <1>1, <2>2, <2>4, <2>5 DEF AllLed
<1> QED BY <1>3, <1>4, <1>5

\* Every step keeps the flag, until the process stops.
LEMMA NextLed ==
  ASSUME Concurrency = 1, IInv, Serial, AllLed, [Next]_vars
  PROVE  AllLed'
<1>1. ASSUME NEW p \in Player, NEW z \in Session, CreateRoom(p, z)
      PROVE  AllLed'
  <2>1. room' = NewRoom(p, z) /\ published' = View(room') /\ UNCHANGED <<slots, restarts>>
    BY <1>1 DEF CreateRoom
  <2>2. HasHost(room'.players) /\ room' # None
    BY <2>1, NewRoomLed, NewRoomGood, GoodHas
  <2>3. HasHost(published'.players)
    BY <2>1, <2>2 DEF View
  <2> QED BY <2>1, <2>2, <2>3 DEF AllLed, Led
<1>2. ASSUME NEW s \in Slot, Request(s)
      PROVE  AllLed'
  BY <1>2, RequestLed
<1>3. CASE SweepExpiredRooms
  <2>1. PICK n : n = Start("sweep", None, None)
    OBVIOUS
  <2>2. Led(n) /\ n.pc = "cleanup" /\ Sweeper \in Handler
    BY <2>1 DEF Led, Start, Handler
  <2>3. \A t \in Handler : slots[t].pc = "idle"
    BY <1>3, <2>2, FreeMeansNone DEF SweepExpiredRooms, Serial
  <2>4. restarts = 0 /\ room # None => HasHost(room.players)
    BY <2>2, <2>3, RoomLed
  <2>5. Set(Sweeper, n) /\ UNCHANGED <<room, published, restarts>>
    BY <1>3, <2>1 DEF SweepExpiredRooms
  <2>6. restarts = 0 /\ published # None => HasHost(published.players) \/ published = View(None)
    BY DEF AllLed
  <2> QED BY <2>2, <2>3, <2>4, <2>5, <2>6, LedMoves
<1>4. ASSUME NEW s \in Handler, Continue(s)
      PROVE  AllLed'
  BY <1>4, ContinueLed
<1>5. CASE Tick
  BY <1>5, TickLed
<1>6. CASE Restart
  BY <1>6 DEF Restart, IInv, AllLed
<1>7. CASE UNCHANGED vars
  BY <1>7 DEF vars, AllLed, Led
<1> QED
  BY <1>1, <1>2, <1>3, <1>4, <1>5, <1>6, <1>7 DEF Next

\* With one handler at a time the listeners last heard, once nothing runs, of every
\* player, seat, session, connection, deadline and readiness, of the host id and the
\* status as they are stored, for any number of players, ticks and restarts and
\* however long a store call takes.  Only a host's own flag can be restored behind
\* their back, and only in a process that was started again: until then every
\* document but an emptied one about to be deleted has a player who carries it.
THEOREM ListenersAgree ==
  ASSUME Concurrency = 1
  PROVE  Spec => []ListenersAgreeWithStore
<1>1. Init => IInv /\ Serial /\ AllLed
  <2>1. Init => AllLed
    BY DEF Init, AllLed, Led, Idle
  <2> QED BY <2>1, InitIInv, InitSerial
<1>2. IInv /\ Serial /\ AllLed /\ [Next]_vars => (IInv /\ Serial /\ AllLed)'
  BY NextIInv, NextSerial, NextLed
<1>3. IInv /\ Serial /\ AllLed => ListenersAgreeWithStore
  <2>1. SUFFICES ASSUME IInv, Serial, AllLed, Running = {}, published # None
                 PROVE  \/ published = View(room)
                        \/ restarts > 0 /\ FlagRestored(published, View(room))
    BY DEF ListenersAgreeWithStore
  <2>2. Matches(published, View(room))
    BY <2>1 DEF Serial, Told, Running
  <2>3. CASE restarts # 0
    BY <2>1, <2>2, <2>3 DEF IInv, Matches
  <2>4. CASE restarts = 0 /\ FlagRestored(published, View(room))
    <3>1. ~HasHost(published.players)
      BY <2>4 DEF FlagRestored, HasHost
    <3>2. published = View(None)
      BY <2>1, <2>4, <3>1 DEF AllLed
    <3>3. PICK ns \in Array : ns = [p \in Player |-> None]
      BY DEF Array
    <3>4. published = [players |-> ns, host |-> None, status |-> "abandoned"]
      BY <3>2, <3>3 DEF View
    <3>5. Crown(ns, None) = ns
      BY <3>3 DEF Crown, In
    <3>6. View(room) = [published EXCEPT !.players = ns]
      BY <2>4, <3>4, <3>5 DEF FlagRestored
    <3> QED BY <3>4, <3>6
  <2> QED BY <2>2, <2>3, <2>4 DEF Matches
<1> QED BY <1>1, <1>2, <1>3, PTL DEF Spec

-----------------------------------------------------------------------------
(* Who is in the room, with one handler at a time.                         *)

\* Everybody in the room is in what the only handler will write, but for whom a
\* cleanup expires or a leave removes.
Seats(c) ==
  /\ c.pc = "cleanupWrite" => room # None /\ c.next = Cleaned(room)
  /\ c.op = "join" /\ c.pc \in {"cleanup", "cleanupWrite"} =>
       Members \subseteq In(c.copy.players)
  /\ c.pc = "write" /\ c.op # "leave" => Members \subseteq In(c.next.players)
  /\ c.pc = "write" /\ c.op = "leave" =>
       room # None /\ \E p \in Player : c.next = Left(room, p)
  /\ c.pc = "delete" => Members = {}

Seated ==
  /\ \A s \in Handler : Seats(slots[s])
  /\ slots[Sweeper].op = "sweep"

\* A step of the only handler has to show what it holds afterwards.
LEMMA SeatedMoves ==
  ASSUME IInv, Serial, Seated, NEW s \in Handler, NEW n, Set(s, n),
         slots[s].pc # "idle" \/ \A t \in Handler : slots[t].pc = "idle",
         Seats(n)', s = Sweeper => n.op = "sweep"
  PROVE  Seated'
<1>1. /\ slots'[s] = n
      /\ \A t \in Handler \ {s} : slots'[t] = slots[t] /\ slots[t].pc = "idle"
  BY OneMoves DEF IInv, Serial
<1>2. ASSUME NEW t \in Handler
      PROVE  Seats(slots[t])'
  <2>1. CASE t = s
    BY <1>1, <2>1 DEF Seats, Members
  <2>2. CASE t # s
    BY <1>1, <2>2 DEF Seats
  <2> QED BY <2>1, <2>2
<1>3. slots'[Sweeper].op = "sweep"
  BY <1>1 DEF Seated, Handler
<1> QED BY <1>2, <1>3 DEF Seated

\* A step that leaves the room alone keeps what a handler's hold says.
LEMMA SameRoom ==
  ASSUME NEW n, Seats(n), room' = room
  PROVE  Seats(n)'
BY DEF Seats, Members

\* Replacing an entry of the array by another loses nobody.
LEMMA ReplacedMembers ==
  ASSUME NEW ps \in Array, NEW p \in Player, NEW m \in Member
  PROVE  In(ps) \subseteq In([ps EXCEPT ![p] = m])
BY ConstantsAssumption DEF In, Array

\* setReady loses nobody.
LEMMA ReadiedMembers ==
  ASSUME NEW r, Good(r), NEW p \in In(r.players), NEW b \in BOOLEAN
  PROVE  In(r.players) \subseteq In(Readied(r, p, b).players)
<1>1. r.players \in Array /\ r.players[p] \in Member /\ p \in Player
  BY GoodHas, InIsFinite
<1>2. [r.players[p] EXCEPT !.ready = b] \in Member
  BY <1>1 DEF Member
<1> QED BY <1>1, <1>2, ReplacedMembers DEF Readied, Document

\* Nor does reconnect.
LEMMA ReconnectedMembers ==
  ASSUME NEW r, Good(r), NEW p \in In(r.players), NEW z \in Session
  PROVE  In(r.players) \subseteq In(Reconnected(r, p, z).players)
<1> DEFINE k == [r.players[p] EXCEPT !.session = z]
           m == [r.players[p] EXCEPT !.session = z, !.connection = "connected",
                                     !.deadline = None]
<1>1. r.players \in Array /\ r.players[p] \in Member /\ p \in Player
  BY GoodHas, InIsFinite
<1>2. k \in Member
  BY <1>1 DEF Member
<1>3. m = [k EXCEPT !.connection = "connected", !.deadline = None]
  OBVIOUS
<1> HIDE DEF k, m
<1>4. m \in Member
  BY <1>2, <1>3, Connection
<1>5. In(r.players) \subseteq In([r.players EXCEPT ![p] = m])
  BY <1>1, <1>4, ReplacedMembers
<1> QED BY <1>5 DEF Reconnected, Document, m

\* Nor does disconnect, of a member or not.
LEMMA DisconnectedMembers ==
  ASSUME NEW r, Good(r), NEW p \in Player
  PROVE  In(r.players) \subseteq In(Disconnected(r, p).players)
<1>1. CASE p \in In(r.players)
  <2> DEFINE m == [r.players[p] EXCEPT !.connection = "disconnected", !.deadline = Window]
  <2>1. r.players \in Array /\ r.players[p] \in Member /\ Window \in TimeLeft
    BY <1>1, GoodHas, InIsFinite, ConstantsAssumption DEF TimeLeft
  <2>2. m \in Member
    BY <2>1, Connection
  <2> HIDE DEF m
  <2>3. In(r.players) \subseteq In([r.players EXCEPT ![p] = m])
    BY <2>1, <2>2, ReplacedMembers
  <2> QED BY <1>1, <2>3 DEF Disconnected, Document, m
<1>2. CASE p \notin In(r.players)
  BY <1>2 DEF Disconnected, Document
<1> QED BY <1>1, <1>2

\* Nor does joinRoom, of those it read.
LEMMA JoinedMembers ==
  ASSUME NEW r, Good(r), NEW p \in Player, NEW z \in Session
  PROVE  In(r.players) \subseteq In(Joined(r, p, z).players)
<1>1. r.players \in Array /\ Cardinality(In(r.players)) \in Nat
  BY GoodHas, InIsFinite
<1>2. Cardinality(In(r.players)) + 1 \in Nat
  BY <1>1
<1>3. Entry(Cardinality(In(r.players)) + 1, z, FALSE) \in Member
  BY <1>2, EntryType
<1> QED BY <1>1, <1>3, ReplacedMembers DEF Joined, Document

\* cleanupRoom deletes only a room where everybody expired or a stale one.
LEMMA DeletedIsEmptyOrStale ==
  ASSUME NEW r, Good(r), Cleaned(r) = None
  PROVE  Active(r) = {} \/ IsStaleWaiting(r)
<1> DEFINE ps    == Keep(r.players, Active(r))
           hosts == {p \in In(ps) : ps[p].is_host}
           next  == IF hosts = {} THEN First(ps) ELSE CHOOSE p \in hosts : TRUE
<1>1. SUFFICES ASSUME Active(r) # {}, ~IsStaleWaiting(r) PROVE FALSE
  OBVIOUS
<1>2. Active(r) \subseteq In(r.players)
  BY DEF Active
<1>3. ps \in Array /\ In(ps) = Active(r)
  BY <1>2, GoodHas, KeepType
<1>4. next \in Player
  BY <1>1, <1>2, <1>3, FirstIsIn, InIsFinite
<1>5. ConnectedReady(ps) \in BOOLEAN
  BY DEF ConnectedReady
<1> HIDE DEF next
<1>6. Good(Document(Crown(ps, next), next, Derive(ps, ConnectedReady(ps))))
  BY <1>2, <1>4, <1>5, KeptAndCrowned
<1>7. Cleaned(r) = Document(Crown(ps, next), next, Derive(ps, ConnectedReady(ps)))
  BY <1>1 DEF Cleaned, next
<1> QED BY <1>6, <1>7, GoodHas

\* Requests that start.
LEMMA RequestSeated ==
  ASSUME Concurrency = 1, IInv, Serial, Seated, NEW s \in Slot, Request(s)
  PROVE  Seated'
<1>0. s \in Handler /\ s # Sweeper
  BY ConstantsAssumption DEF Handler
<1>1. room # None => Good(room) /\ Members = In(room.players)
  BY DEF IInv, OrNone, Members
<1>2. ASSUME NEW op, NEW permitted, NEW doc, ReadThenWrite(s, op, permitted, doc),
             room # None /\ permitted =>
               IF op = "leave" THEN \E p \in Player : doc = Left(room, p)
               ELSE Members \subseteq In(doc.players)
      PROVE  Seated'
  <2>1. PICK n : n = At(Start(op, None, None), "write", None, doc, TRUE)
    OBVIOUS
  <2>2. Seats(n)
    BY <1>2, <2>1 DEF ReadThenWrite, Seats, At, Start
  <2>3. \A t \in Handler : slots[t].pc = "idle"
    BY <1>0, <1>2, FreeMeansNone DEF ReadThenWrite, Serial
  <2>4. Seats(n)' /\ Set(s, n)
    BY <1>2, <2>1, <2>2, SameRoom DEF ReadThenWrite
  <2> QED BY <1>0, <2>3, <2>4, SeatedMoves
<1>3. ASSUME NEW p \in Player, LeaveRoom(s, p)
      PROVE  Seated'
  BY <1>2, <1>3 DEF LeaveRoom
<1>4. ASSUME NEW p \in Player, NEW b \in BOOLEAN, room # None, p \in In(room.players)
      PROVE  Members \subseteq In(Readied(room, p, b).players)
  BY <1>1, <1>4, ReadiedMembers
<1>5. ASSUME NEW p \in Player, SetReady(s, p)
      PROVE  Seated'
  <2>1. room # None /\ p \in In(room.players)
          => Members \subseteq In(Readied(room, p, TRUE).players)
    BY <1>4
  <2> QED BY <1>2, <1>5, <2>1 DEF SetReady
<1>6. ASSUME NEW p \in Player, SetUnready(s, p)
      PROVE  Seated'
  <2>1. room # None /\ p \in In(room.players)
          => Members \subseteq In(Readied(room, p, FALSE).players)
    BY <1>4
  <2> QED BY <1>2, <1>6, <2>1 DEF SetUnready
<1>7. ASSUME NEW p \in Player, Disconnect(s, p)
      PROVE  Seated'
  <2>1. room # None => Members \subseteq In(Disconnected(room, p).players)
    BY <1>1, DisconnectedMembers
  <2> QED BY <1>2, <1>7, <2>1 DEF Disconnect
<1>8. ASSUME NEW p \in Player, NEW z \in Session, Reconnect(s, p, z)
      PROVE  Seated'
  <2>1. room # None /\ p \in In(room.players)
          => Members \subseteq In(Reconnected(room, p, z).players)
    BY <1>1, ReconnectedMembers
  <2> QED BY <1>2, <1>8, <2>1 DEF Reconnect
<1>9. ASSUME NEW p \in Player, NEW z \in Session, JoinRoom(s, p, z)
      PROVE  Seated'
  <2>1. PICK n : n = At(Start("join", p, z), "cleanup", room, None, FALSE)
    OBVIOUS
  <2>2. Seats(n)
    BY <1>1, <1>9, <2>1 DEF JoinRoom, Seats, At, Start
  <2>3. \A t \in Handler : slots[t].pc = "idle"
    BY <1>0, <1>9, FreeMeansNone DEF JoinRoom, Serial
  <2>4. Seats(n)' /\ Set(s, n)
    BY <1>9, <2>1, <2>2, SameRoom DEF JoinRoom
  <2> QED BY <1>0, <2>3, <2>4, SeatedMoves
<1>10. ASSUME NEW op, NEW p, NEW z, op # "join", room' = room, Free(s), Set(s, Start(op, p, z))
       PROVE  Seated'
  <2>1. PICK n : n = Start(op, p, z)
    OBVIOUS
  <2>2. Seats(n)
    BY <1>10, <2>1 DEF Seats, Start
  <2>3. \A t \in Handler : slots[t].pc = "idle"
    BY <1>0, <1>10, FreeMeansNone DEF Serial
  <2>4. Seats(n)' /\ Set(s, n)
    BY <1>10, <2>1, <2>2, SameRoom
  <2> QED BY <1>0, <2>3, <2>4, SeatedMoves
<1>11. ASSUME NEW p \in Player, NEW z \in Session, JoinRoomByInvite(s, p, z)
       PROVE  Seated'
  BY <1>10, <1>11 DEF JoinRoomByInvite
<1>12. CASE GetRoom(s)
  BY <1>10, <1>12 DEF GetRoom
<1> QED
  BY <1>3, <1>5, <1>6, <1>7, <1>8, <1>9, <1>11, <1>12 DEF Request

\* The only handler goes on.
LEMMA ContinueSeated ==
  ASSUME IInv, Serial, Seated, NEW s \in Handler, Continue(s)
  PROVE  Seated'
<1> DEFINE c == slots[s]
<1>1. /\ GoodSlot(c) /\ OrNone(room) /\ Seats(c) /\ c.pc # "idle"
      /\ s = Sweeper => c.op = "sweep"
  BY DEF IInv, Seated, Continue, CleanupRead, CleanupWrite, ReadAfterCleanup, Persist,
         DeleteEmptied
<1>2. room # None => Good(room) /\ Members = In(room.players)
  BY <1>1 DEF OrNone, Members
\* Its caller goes on after the cleanup of a room that lost nobody a join has not read.
<1>3. ASSUME c.pc \in {"cleanup", "cleanupWrite"}, Set(s, AfterCleanup(c)),
             Members' \subseteq Members
      PROVE  Seated'
  <2>1. PICK n : n = AfterCleanup(c)
    OBVIOUS
  <2>2. n.pc \in {"write", "get", "idle"} /\ (n.pc = "write" => c.op = "join")
    BY <2>1, AfterCleanupForm
  <2>3. n.pc = "write" => n.op # "leave" /\ Members \subseteq In(n.next.players)
    <3>1. SUFFICES ASSUME n.pc = "write"
                   PROVE  n.op # "leave" /\ Members \subseteq In(n.next.players)
      OBVIOUS
    <3>2. /\ c.op = "join" /\ n.op = "join"
          /\ n.next = Joined(c.copy, c.who, c.session)
      BY <2>1, <2>2, <3>1 DEF AfterCleanup, At, Idle
    <3>3. Good(c.copy) /\ c.who \in Player /\ c.session \in Session
      BY <1>1, <1>3, <3>2, GoodSlotHas
    <3>4. Members \subseteq In(c.copy.players)
      BY <1>1, <1>3, <3>2 DEF Seats
    <3>5. In(c.copy.players) \subseteq In(n.next.players)
      BY <3>2, <3>3, JoinedMembers
    <3> QED BY <3>2, <3>4, <3>5
  <2>4. Seats(n)'
    BY <1>3, <2>2, <2>3 DEF Seats
  <2>5. s = Sweeper => n.op = "sweep"
    BY <1>1, <2>1 DEF AfterCleanup, Idle
  <2> QED BY <1>1, <1>3, <2>1, <2>4, <2>5, SeatedMoves
<1>4. CASE CleanupRead(s) /\ room = None
  BY <1>3, <1>4 DEF CleanupRead, Members
<1>5. CASE CleanupRead(s) /\ room # None
  <2>1. PICK n : n = At(c, "cleanupWrite", c.copy, Cleaned(room), Changed(room, Cleaned(room)))
    OBVIOUS
  <2>2. Seats(n)
    BY <1>1, <1>5, <2>1 DEF Seats, At, CleanupRead
  <2>3. Seats(n)' /\ Set(s, n)
    BY <1>5, <2>1, <2>2, SameRoom DEF CleanupRead
  <2>4. s = Sweeper => n.op = "sweep"
    BY <1>1, <2>1 DEF At
  <2> QED BY <1>1, <2>3, <2>4, SeatedMoves
<1>6. CASE CleanupWrite(s)
  <2>1. room # None /\ room' = Cleaned(room)
    BY <1>1, <1>6 DEF CleanupWrite, Seats
  <2>2. Members' \subseteq Members
    <3>1. CASE Cleaned(room) = None
      BY <2>1, <3>1 DEF Members
    <3>2. CASE Cleaned(room) # None
      <4>1. In(Cleaned(room).players) = Active(room)
        BY <1>2, <2>1, <3>2, CleanedMembers
      <4> QED BY <2>1, <3>2, <4>1 DEF Members, Active
    <3> QED BY <3>1, <3>2
  <2> QED BY <1>3, <1>6, <2>2 DEF CleanupWrite
<1>7. CASE ReadAfterCleanup(s) /\ (room = None \/ c.op = "get")
  <2>1. PICK n : n = Idle
    OBVIOUS
  <2>2. Seats(n)' /\ Set(s, n) /\ n.op = "sweep"
    BY <1>7, <2>1 DEF Seats, Idle, ReadAfterCleanup
  <2> QED BY <1>1, <2>2, SeatedMoves
<1>8. CASE ReadAfterCleanup(s) /\ ~(room = None \/ c.op = "get")
  <2>1. PICK n : n = At(Start("join", c.who, c.session), "cleanup", room, None, FALSE)
    OBVIOUS
  <2>2. Seats(n)
    BY <1>2, <1>8, <2>1 DEF Seats, At, Start
  <2>3. Seats(n)' /\ Set(s, n)
    BY <1>8, <2>1, <2>2, SameRoom DEF ReadAfterCleanup
  <2>4. s # Sweeper
    BY <1>1, <1>8, GoodSlotHas DEF ReadAfterCleanup
  <2> QED BY <1>1, <2>3, <2>4, SeatedMoves
<1>9. CASE Persist(s) /\ c.op = "leave" /\ In(c.next.players) = {}
  <2>1. PICK n : n = At(c, "delete", None, c.next, FALSE)
    OBVIOUS
  <2>2. Members' = {}
    BY <1>9 DEF Persist, Members
  <2>3. Seats(n)' /\ Set(s, n)
    BY <1>9, <2>1, <2>2 DEF Seats, At, Persist
  <2>4. s # Sweeper
    BY <1>1, <1>9
  <2> QED BY <1>1, <2>3, <2>4, SeatedMoves
<1>10. CASE \/ Persist(s) /\ ~(c.op = "leave" /\ In(c.next.players) = {})
            \/ DeleteEmptied(s)
  <2>1. PICK n : n = Idle
    OBVIOUS
  <2>2. Seats(n)' /\ Set(s, n) /\ n.op = "sweep"
    BY <1>10, <2>1 DEF Seats, Idle, Persist, DeleteEmptied
  <2> QED BY <1>1, <2>2, SeatedMoves
<1> QED
  BY <1>4, <1>5, <1>6, <1>7, <1>8, <1>9, <1>10 DEF Continue

\* Every step keeps who is in the room with what the handler holds.
LEMMA NextSeated ==
  ASSUME Concurrency = 1, SlowCalls = FALSE, IInv, Serial, Seated, [Next]_vars
  PROVE  Seated'
<1>0. Sweeper \in Handler
  BY DEF Handler
<1>1. ASSUME NEW p \in Player, NEW z \in Session, CreateRoom(p, z)
      PROVE  Seated'
  <2>1. ASSUME NEW s \in Handler
        PROVE  /\ slots[s].pc \notin {"cleanupWrite", "write", "delete"}
               /\ slots[s].copy = None
    BY <1>1 DEF CreateRoom, Serial, Follows
  <2>2. ASSUME NEW s \in Handler
        PROVE  ~(slots[s].op = "join" /\ slots[s].pc = "cleanup")
    BY <2>1, GoodSlotHas, GoodHas DEF IInv
  <2> QED BY <1>1, <2>1, <2>2 DEF CreateRoom, Seated, Seats
<1>2. ASSUME NEW s \in Slot, Request(s)
      PROVE  Seated'
  BY <1>2, RequestSeated
<1>3. CASE SweepExpiredRooms
  <2>1. PICK n : n = Start("sweep", None, None)
    OBVIOUS
  <2>2. Seats(n) /\ n.op = "sweep"
    BY <2>1 DEF Seats, Start
  <2>3. \A t \in Handler : slots[t].pc = "idle"
    BY <1>0, <1>3, FreeMeansNone DEF SweepExpiredRooms, Serial
  <2>4. Seats(n)' /\ Set(Sweeper, n)
    BY <1>3, <2>1, <2>2, SameRoom DEF SweepExpiredRooms
  <2> QED BY <1>0, <2>2, <2>3, <2>4, SeatedMoves
<1>4. ASSUME NEW s \in Handler, Continue(s)
      PROVE  Seated'
  BY <1>4, ContinueSeated
<1>5. CASE Tick
  <2>1. ASSUME NEW s \in Handler
        PROVE  slots'[s].pc = "idle" /\ slots'[s].op = slots[s].op
    BY <1>5 DEF Tick, Running, At
  <2> QED BY <1>0, <2>1 DEF Seated, Seats
<1>6. CASE Restart
  <2>1. \A s \in Handler : slots'[s] = Idle
    BY <1>6 DEF Restart
  <2> QED BY <1>0, <2>1 DEF Seated, Seats, Idle
<1>7. CASE UNCHANGED vars
  BY <1>7 DEF vars, Seated, Seats, Members
<1> QED
  BY <1>1, <1>2, <1>3, <1>4, <1>5, <1>6, <1>7 DEF Next

\* Nobody is in a room at first.
LEMMA InitSeated ==
  ASSUME Init
  PROVE  Seated
BY DEF Init, Seated, Seats, Idle, Handler

\* A member goes only by the write of its own leave, or by a cleanup that found it
\* expired or the room stale, or with a restart.
KeepsSeats ==
  \A p \in Members \ Members' :
    \/ \E s \in Slot : /\ slots[s].op = "leave" /\ slots[s].pc = "write"
                      /\ slots[s].next.players = Left(room, p).players
    \/ Expired(room.players[p])
    \/ IsStaleWaiting(room)
    \/ restarts' # restarts

\* The steps of the only handler keep seats.
LEMMA ContinueKeepsSeats ==
  ASSUME IInv, Seated, NEW s \in Handler, Continue(s)
  PROVE  KeepsSeats
<1> DEFINE c == slots[s]
<1>1. GoodSlot(c) /\ OrNone(room) /\ Seats(c)
  BY DEF IInv, Seated
<1>2. room # None => Good(room) /\ Members = In(room.players)
  BY <1>1 DEF OrNone, Members
<1>3. CASE CleanupRead(s) \/ ReadAfterCleanup(s)
  BY <1>3 DEF CleanupRead, ReadAfterCleanup, Members, KeepsSeats
<1>4. CASE CleanupWrite(s)
  <2>1. room # None /\ room' = Cleaned(room)
    BY <1>1, <1>4 DEF CleanupWrite, Seats
  <2>2. CASE Cleaned(room) = None
    <3>1. Active(room) = {} \/ IsStaleWaiting(room)
      BY <1>2, <2>1, <2>2, DeletedIsEmptyOrStale
    <3> QED BY <1>2, <2>1, <3>1 DEF KeepsSeats, Active
  <2>3. CASE Cleaned(room) # None
    <3>1. In(Cleaned(room).players) = Active(room)
      BY <1>2, <2>1, <2>3, CleanedMembers
    <3>2. Members' = Active(room)
      BY <2>1, <2>3, <3>1 DEF Members
    <3> QED BY <1>2, <2>1, <3>2 DEF KeepsSeats, Active
  <2> QED BY <2>2, <2>3
<1>5. CASE Persist(s) /\ c.op # "leave"
  <2>1. Members \subseteq In(c.next.players)
    BY <1>1, <1>5 DEF Persist, Seats
  <2>2. c.next # None
    BY <1>1, <1>5, GoodSlotHas, GoodHas DEF Persist
  <2>3. Members' = In(c.next.players)
    BY <1>5, <2>2 DEF Persist, Members
  <2> QED BY <2>1, <2>3 DEF KeepsSeats
<1>6. CASE Persist(s) /\ c.op = "leave"
  <2>1. PICK p \in Player : room # None /\ c.next = Left(room, p)
    BY <1>1, <1>6 DEF Persist, Seats
  <2>2. In(c.next.players) = Members \ {p}
    BY <1>2, <2>1, LeftMembers
  <2>3. c.next # None
    BY <1>1, <1>6, GoodSlotHas, GoodHas DEF Persist
  <2>4. Members' = Members \ {p}
    BY <1>6, <2>2, <2>3 DEF Persist, Members
  <2>5. s \in Slot
    BY <1>6 DEF Seated, Handler
  <2>6. c.pc = "write" /\ c.next.players = Left(room, p).players
    BY <1>6, <2>1 DEF Persist
  <2> QED BY <1>6, <2>4, <2>5, <2>6 DEF KeepsSeats
<1>7. CASE DeleteEmptied(s)
  BY <1>1, <1>7 DEF DeleteEmptied, Seats, KeepsSeats
<1> QED
  BY <1>3, <1>4, <1>5, <1>6, <1>7 DEF Continue

\* Every step does.
LEMMA NextKeepsSeats ==
  ASSUME IInv, Serial, Seated, [Next]_vars
  PROVE  KeepsSeats
<1>1. CASE \E p \in Player, z \in Session : CreateRoom(p, z)
  BY <1>1 DEF CreateRoom, Serial, Members, KeepsSeats
<1>2. ASSUME NEW s \in Slot, Request(s)
      PROVE  KeepsSeats
  BY <1>2 DEF Request, LeaveRoom, SetReady, SetUnready, Disconnect, Reconnect, ReadThenWrite,
              JoinRoom, JoinRoomByInvite, GetRoom, Members, KeepsSeats
<1>3. CASE SweepExpiredRooms
  BY <1>3 DEF SweepExpiredRooms, Members, KeepsSeats
<1>4. ASSUME NEW s \in Handler, Continue(s)
      PROVE  KeepsSeats
  BY <1>4, ContinueKeepsSeats
<1>5. CASE Tick
  <2>1. room = None => room' = None
    BY <1>5 DEF Tick, Older
  <2>2. room # None => In(Older(room).players) = In(room.players)
    BY OlderViewed DEF IInv
  <2>3. room # None => Older(room) # None
    BY OlderGood, GoodHas DEF IInv, OrNone
  <2>4. Members' = Members
    BY <1>5, <2>1, <2>2, <2>3 DEF Tick, Members
  <2> QED BY <2>4 DEF KeepsSeats
<1>6. CASE Restart
  <2>1. restarts' # restarts
    BY <1>6 DEF Restart, IInv
  <2> QED BY <2>1 DEF KeepsSeats
<1>7. CASE UNCHANGED vars
  BY <1>7 DEF vars, Members, KeepsSeats
<1> QED
  BY <1>1, <1>2, <1>3, <1>4, <1>5, <1>6, <1>7 DEF Next

\* With one handler at a time a member loses its place only by leaving, by staying
\* away past the reconnect window, with a stale waiting room or with a restart, for
\* any number of players and any window.
THEOREM SeatsAreHeld ==
  ASSUME Concurrency = 1, SlowCalls = FALSE
  PROVE  Spec => SeatIsHeld
<1>1. Init => IInv /\ Serial /\ Seated
  BY InitIInv, InitSerial, InitSeated
<1>2. IInv /\ Serial /\ Seated /\ [Next]_vars => (IInv /\ Serial /\ Seated)'
  BY NextIInv, NextSerial, NextSeated
<1>3. IInv /\ Serial /\ Seated /\ [Next]_vars => [KeepsSeats]_vars
  BY NextKeepsSeats
<1> QED BY <1>1, <1>2, <1>3, PTL DEF Spec, SeatIsHeld, KeepsSeats
=============================================================================
