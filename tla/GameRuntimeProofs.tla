-------------------------- MODULE GameRuntimeProofs --------------------------
(***************************************************************************)
(* With the memory driver everybody in the room is seated in its match,    *)
(* whatever the number of passengers, the games' boards and the order of   *)
(* events.  What is invariant is what the tasks still to be done will make *)
(* of the match: see Story.  And with either driver, whatever is lost on   *)
(* the way, every match that is stored or about to be is a document of its *)
(* game: the adapter of each of the 15 games is followed through all it    *)
(* does with a payload that parses.  With the memory driver the results of *)
(* a match that is over stand, the platform credits it once, and the pages *)
(* offer their passengers the moves the adapter would take.                *)
(***************************************************************************)
EXTENDS GameRuntime, FiniteSetTheorems, SequenceTheorems, TLAPS

\* The games' boards, as in GameAdapters.
CONSTANTS
  TotalRounds, PatternLength, SkylineNodes, CabinRows, CabinCols, RouteLegs, BoardSize,
  TargetLineLength, MovesShown, CrewTasks, MissionTargetScore, CardRounds, TotalBags,
  TotalPairs, MaxRevision, TargetCount, Spots

\* The registry of the game runtime: the adapter and the page of each game.
Reg == INSTANCE GameAdapters

-----------------------------------------------------------------------------
(* What adapters do with the players of a match.                           *)

HasPlayers(m, players) == "players" \in DOMAIN m /\ m.players = players

IsDocument(m) == "players" \in DOMAIN m /\ m.players \in Seq(Player)

BeginsWith(m, p) == HasPlayers(m, <<p>>)

\* p takes a seat at the end, or has one.
WithSeat(players, p) ==
  IF \E i \in DOMAIN players : players[i] = p THEN players ELSE Append(players, p)

\* In n are the players of m, and p.
Seats(m, n, p) ==
  IsDocument(n) /\ Elements(n.players) = Elements(m.players) \cup {p}

SamePlayers(m, n) == HasPlayers(n, m.players)

-----------------------------------------------------------------------------
(* Lists of tasks: one of tasks that move nobody out of the match, or one  *)
(* that creates a match and goes on with such tasks, or the match's end.   *)

Listed(t) == t \in Seq({t[i] : i \in DOMAIN t})

Moving(task) ==
  /\ task.kind \in {"join", "reconnect", "mark", "skip", "seed", "send", "play"}
  /\ task.kind \in {"join", "reconnect", "play"} => task.who \in Player

Ordinary(t) == Listed(t) /\ \A i \in DOMAIN t : Moving(t[i])

Founding(t, p) ==
  /\ Listed(t)
  /\ 1 \in DOMAIN t /\ t[1] = Task("create", p)
  /\ \A i \in DOMAIN t : i # 1 => Moving(t[i])

\* Tasks that can stand in the second slot.
Waiting(t) == Listed(t) /\ \A i \in DOMAIN t : t[i].kind \in {"seed", "send"}

\* Those that the tasks will seat.
Joining(t) == {t[i].who : i \in {j \in DOMAIN t : t[j].kind = "join"}}

\* What is known of the members M of the room, the match m and the key init while the
\* tasks t are still to be done.
Story(M, m, init, t) ==
  \/ /\ Ordinary(t)
     /\ init => m # None
     /\ (t # <<>> /\ Head(t).kind \in {"mark", "skip"}) => m # None
     /\ m # None => M \subseteq Elements(m.players) \cup Joining(t)
  \/ \E p \in Player : Founding(t, p) /\ M \subseteq {p} \cup Joining(t)
  \/ t = Finish \o Unmark /\ M = {}
  \/ t = Unmark /\ M = {} /\ m = None

\* A sequence is a list.
LEMMA ListOf ==
  ASSUME NEW S, NEW t \in Seq(S)
  PROVE  Listed(t)
BY SeqOfRange DEF Listed, Range

\* The length and the places of a list.
LEMMA ListFacts ==
  ASSUME NEW t, Listed(t)
  PROVE  Len(t) \in Nat /\ DOMAIN t = 1..Len(t) /\ (t = <<>> <=> Len(t) = 0)
BY EmptySeq, LenProperties DEF Listed

\* The rest of a list is a list, one place on.
LEMMA RestOfList ==
  ASSUME NEW t, Listed(t), t # <<>>
  PROVE  /\ Listed(Tail(t))
         /\ DOMAIN Tail(t) = 1..(Len(t) - 1)
         /\ \A i \in DOMAIN Tail(t) : i + 1 \in DOMAIN t /\ Tail(t)[i] = t[i + 1]
         /\ 1 \in DOMAIN t
         /\ Head(t) = t[1]
<1> DEFINE S == {t[i] : i \in DOMAIN t}
<1>1. t \in Seq(S)
  BY DEF Listed
<1>2. /\ Head(t) = t[1] /\ Tail(t) \in Seq(S) /\ Len(Tail(t)) = Len(t) - 1
      /\ \A i \in 1..Len(Tail(t)) : Tail(t)[i] = t[i + 1]
  BY <1>1, HeadTailProperties
<1>3. Listed(Tail(t)) /\ DOMAIN Tail(t) = 1..Len(Tail(t))
  BY <1>2, ListOf, ListFacts
<1> QED
  BY <1>2, <1>3, ListFacts

\* Two lists, one after the other: the places of both.
LEMMA TwoLists ==
  ASSUME NEW t, Listed(t), NEW u, Listed(u)
  PROVE  /\ Listed(t \o u)
         /\ DOMAIN (t \o u) = 1..(Len(t) + Len(u))
         /\ \A i \in DOMAIN t : i \in DOMAIN (t \o u) /\ (t \o u)[i] = t[i]
         /\ \A i \in DOMAIN u : Len(t) + i \in DOMAIN (t \o u) /\ (t \o u)[Len(t) + i] = u[i]
         /\ \A i \in DOMAIN (t \o u) :
              \/ i \in DOMAIN t /\ (t \o u)[i] = t[i]
              \/ i - Len(t) \in DOMAIN u /\ (t \o u)[i] = u[i - Len(t)]
<1> DEFINE S == {t[i] : i \in DOMAIN t} \cup {u[i] : i \in DOMAIN u}
<1>1. t \in Seq(S) /\ u \in Seq(S)
  BY SeqMonotonic DEF Listed
<1>2. /\ t \o u \in Seq(S)
      /\ Len(t \o u) = Len(t) + Len(u)
      /\ \A i \in 1..Len(t) + Len(u) :
           (t \o u)[i] = IF i <= Len(t) THEN t[i] ELSE u[i - Len(t)]
  BY <1>1, ConcatProperties
<1>3. Listed(t \o u) /\ DOMAIN (t \o u) = 1..Len(t \o u)
  BY <1>2, ListOf, ListFacts
<1> HIDE DEF S
<1> QED
  BY <1>2, <1>3, ListFacts

\* A list of one task.
LEMMA OneTask ==
  ASSUME NEW x
  PROVE  Listed(<<x>>) /\ DOMAIN <<x>> = {1} /\ <<x>>[1] = x /\ Len(<<x>>) = 1
BY ListOf DEF Listed

\* The empty list.
LEMMA NoTask ==
  Listed(<<>>) /\ DOMAIN <<>> = {} /\ Ordinary(<<>>) /\ Waiting(<<>>)
BY ListOf, EmptySeq DEF Listed, Ordinary, Waiting

\* The first of a list put before another.
LEMMA FirstOf ==
  ASSUME NEW x, NEW u, Listed(u)
  PROVE  /\ Listed(<<x>> \o u)
         /\ <<x>> \o u # <<>>
         /\ Head(<<x>> \o u) = x
         /\ Tail(<<x>> \o u) = u
<1>0. Listed(<<x>>) /\ DOMAIN <<x>> = {1} /\ <<x>>[1] = x /\ Len(<<x>>) = 1
  BY OneTask
<1>1. /\ Listed(<<x>> \o u) /\ DOMAIN (<<x>> \o u) = 1..(1 + Len(u))
      /\ (<<x>> \o u)[1] = x
      /\ \A i \in DOMAIN u : (<<x>> \o u)[1 + i] = u[i]
  <2> DEFINE S == {x} \cup {u[i] : i \in DOMAIN u}
  <2>1. <<x>> \in Seq(S) /\ u \in Seq(S)
    BY SeqMonotonic DEF Listed
  <2>2. /\ <<x>> \o u \in Seq(S)
        /\ Len(<<x>> \o u) = Len(<<x>>) + Len(u)
        /\ \A i \in 1..Len(<<x>>) + Len(u) :
             (<<x>> \o u)[i] = IF i <= Len(<<x>>) THEN <<x>>[i] ELSE u[i - Len(<<x>>)]
    BY <2>1, ConcatProperties
  <2>3. Listed(<<x>> \o u) /\ DOMAIN (<<x>> \o u) = 1..Len(<<x>> \o u)
    BY <2>2, ListOf, ListFacts
  <2> HIDE DEF S
  <2> QED
    BY <1>0, <2>2, <2>3, ListFacts
<1>2. <<x>> \o u # <<>> /\ Len(<<x>> \o u) = 1 + Len(u)
  BY <1>1, ListFacts
<1>3. /\ Listed(Tail(<<x>> \o u)) /\ Head(<<x>> \o u) = x
      /\ DOMAIN Tail(<<x>> \o u) = 1..Len(u)
      /\ \A i \in DOMAIN Tail(<<x>> \o u) : Tail(<<x>> \o u)[i] = (<<x>> \o u)[i + 1]
  <2> DEFINE v == <<x>> \o u
  <2>1. Listed(v) /\ v # <<>> /\ Len(v) = 1 + Len(u) /\ v[1] = x
    BY <1>1, <1>2
  <2> HIDE DEF v
  <2>2. /\ Listed(Tail(v)) /\ Head(v) = x /\ DOMAIN Tail(v) = 1..Len(u)
        /\ \A i \in DOMAIN Tail(v) : Tail(v)[i] = v[i + 1]
    BY <2>1, RestOfList, ListFacts
  <2> QED
    BY <2>2 DEF v
<1>4. Tail(<<x>> \o u) = u
  <2>1. \A i \in 1..Len(u) : Tail(<<x>> \o u)[i] = u[i]
    BY <1>1, <1>3, ListFacts
  <2>2. Len(Tail(<<x>> \o u)) = Len(u)
    BY <1>3, ListFacts
  <2> DEFINE S == {u[i] : i \in DOMAIN u} \cup {Tail(<<x>> \o u)[i] : i \in DOMAIN Tail(<<x>> \o u)}
  <2>3. u \in Seq(S) /\ Tail(<<x>> \o u) \in Seq(S)
    BY <1>3, SeqMonotonic DEF Listed
  <2> HIDE DEF S
  <2> QED
    BY <2>1, <2>2, <2>3, SeqEqual
<1> QED
  BY <1>1, <1>2, <1>3, <1>4

\* The first of two lists keeps its places.
LEMMA FirstList ==
  ASSUME NEW t, Listed(t), NEW u, Listed(u)
  PROVE  Listed(t \o u) /\ \A i \in DOMAIN t : i \in DOMAIN (t \o u) /\ (t \o u)[i] = t[i]
BY TwoLists

\* Two lists seat whom either of them seats.
LEMMA JoiningLists ==
  ASSUME NEW t, Listed(t), NEW u, Listed(u)
  PROVE  Joining(t) \subseteq Joining(t \o u) /\ Joining(u) \subseteq Joining(t \o u)
<1> DEFINE v == t \o u
<1>1. /\ \A i \in DOMAIN t : i \in DOMAIN v /\ v[i] = t[i]
      /\ \A i \in DOMAIN u : Len(t) + i \in DOMAIN v /\ v[Len(t) + i] = u[i]
  BY TwoLists
<1> HIDE DEF v
<1>2. Joining(t) \subseteq Joining(v) /\ Joining(u) \subseteq Joining(v)
  BY <1>1 DEF Joining
<1> QED
  BY <1>2 DEF v

\* Two lists of ordinary tasks are one.
LEMMA OrdinaryLists ==
  ASSUME NEW t, Ordinary(t), NEW u, Ordinary(u)
  PROVE  /\ Ordinary(t \o u)
         /\ Joining(t) \subseteq Joining(t \o u)
         /\ Joining(u) \subseteq Joining(t \o u)
<1>1. Listed(t) /\ Listed(u)
  BY DEF Ordinary
<1>2. Ordinary(t \o u)
  BY <1>1, TwoLists DEF Ordinary
<1> QED
  BY <1>1, <1>2, JoiningLists

\* Ordinary tasks after those that create a match.
LEMMA FoundingLists ==
  ASSUME NEW p, NEW t, Founding(t, p), NEW u, Ordinary(u)
  PROVE  /\ Founding(t \o u, p)
         /\ Joining(t) \subseteq Joining(t \o u)
         /\ Joining(u) \subseteq Joining(t \o u)
<1>1. Listed(t) /\ Listed(u)
  BY DEF Ordinary, Founding
<1>2. \A i \in DOMAIN (t \o u) :
        \/ i \in DOMAIN t /\ (t \o u)[i] = t[i]
        \/ i - Len(t) \in DOMAIN u /\ (t \o u)[i] = u[i - Len(t)]
  BY <1>1, TwoLists
<1>3. Listed(t \o u) /\ \A i \in DOMAIN t : i \in DOMAIN (t \o u) /\ (t \o u)[i] = t[i]
  BY <1>1, FirstList
<1> DEFINE v == t \o u
<1>4. Founding(v, p)
  <2> HIDE DEF v
  <2> QED
    BY <1>2, <1>3 DEF Founding, Ordinary, v
<1> QED
  BY <1>1, <1>4, JoiningLists

\* Once the match is created, ordinary tasks are left.
LEMMA FoundingRest ==
  ASSUME NEW p, NEW t, Founding(t, p)
  PROVE  /\ t # <<>>
         /\ Head(t) = Task("create", p)
         /\ Ordinary(Tail(t))
         /\ Joining(t) \subseteq Joining(Tail(t))
<1>1. Listed(t) /\ t # <<>>
  BY ListFacts DEF Founding
<1>2. Head(t) = Task("create", p) /\ t[1].kind = "create"
  BY <1>1, RestOfList DEF Founding, Task
<1>3. Ordinary(Tail(t))
  BY <1>1, RestOfList, ListFacts DEF Founding, Ordinary
<1>4. \A i \in DOMAIN t : i = 1 \/ (i - 1 \in DOMAIN Tail(t) /\ Tail(t)[i - 1] = t[i])
  BY <1>1, RestOfList, ListFacts
<1>5. ASSUME NEW i \in DOMAIN t, t[i].kind = "join" PROVE t[i].who \in Joining(Tail(t))
  BY <1>2, <1>4, <1>5 DEF Joining
<1> QED
  BY <1>1, <1>2, <1>3, <1>5 DEF Joining

\* Once the first of ordinary tasks is done, ordinary tasks are left.
LEMMA OrdinaryRest ==
  ASSUME NEW t, Ordinary(t), t # <<>>
  PROVE  /\ Ordinary(Tail(t))
         /\ Head(t).kind \in {"join", "reconnect", "mark", "skip", "seed", "send", "play"}
         /\ Head(t).kind \in {"join", "reconnect", "play"} => Head(t).who \in Player
         /\ Head(t).kind = "join" => Joining(t) \subseteq {Head(t).who} \cup Joining(Tail(t))
         /\ Head(t).kind # "join" => Joining(t) \subseteq Joining(Tail(t))
<1>1. Listed(t)
  BY DEF Ordinary
<1>2. Ordinary(Tail(t))
  BY <1>1, RestOfList DEF Ordinary
<1>3. \A i \in DOMAIN t : i = 1 \/ (i - 1 \in DOMAIN Tail(t) /\ Tail(t)[i - 1] = t[i])
  BY <1>1, RestOfList, ListFacts
<1>4. Head(t) = t[1] /\ 1 \in DOMAIN t
  BY <1>1, RestOfList
<1>5. ASSUME NEW i \in DOMAIN t, t[i].kind = "join", i # 1
      PROVE  t[i].who \in Joining(Tail(t))
  BY <1>3, <1>5 DEF Joining
<1>6. /\ Head(t).kind = "join" => Joining(t) \subseteq {Head(t).who} \cup Joining(Tail(t))
      /\ Head(t).kind # "join" => Joining(t) \subseteq Joining(Tail(t))
  BY <1>4, <1>5 DEF Joining
<1> QED
  BY <1>2, <1>4, <1>6 DEF Ordinary, Moving

-----------------------------------------------------------------------------
(* The inductive invariant.                                                *)

\* With the memory driver at most two handlers are under way, the second one when a
\* page reconnects, and the first goes on to its end.
Front == IF slots[1] # Idle THEN slots[1].todo ELSE slots[2].todo

Handlers ==
  /\ DOMAIN slots = Slot
  /\ \A s \in Slot : /\ slots[s] = [todo |-> slots[s].todo, held |-> None]
                     /\ s > 2 => slots[s] = Idle
  /\ slots[1] # Idle => Waiting(slots[2].todo)

RoomDoc == [host : Player, players : Seq(Player)]

SeatsInv ==
  /\ room = None \/ room \in RoomDoc
  /\ match = None \/ IsDocument(match)
  /\ Handlers
  /\ Story(Members, match, initialized, Front)

IInv == setup \in Setups /\ (InMemory => SeatsInv)

\* There are two slots at least.
LEMMA TwoSlots == 1 \in Slot /\ 2 \in Slot /\ Slot \subseteq Nat
BY RuntimeAssumption DEF Slot

\* A slot without tasks is idle.
LEMMA EmptySlot ==
  ASSUME NEW t
  PROVE  /\ [todo |-> t, held |-> None].todo = t
         /\ [todo |-> t, held |-> None] = Idle <=> t = <<>>
         /\ Idle.todo = <<>>
BY DEF Idle

\* Nothing is left to be done.
LEMMA NothingLeft ==
  ASSUME NEW M, NEW m, NEW init, Story(M, m, init, <<>>)
  PROVE  /\ init => m # None
         /\ m # None => M \subseteq Elements(m.players)
<1>1. \A p \in Player : ~Founding(<<>>, p)
  BY FoundingRest
<1>2. Unmark # <<>> /\ Finish \o Unmark # <<>>
  BY FirstOf, OneTask DEF Unmark, Finish
<1>3. Joining(<<>>) = {}
  BY NoTask DEF Joining
<1> QED
  BY <1>1, <1>2, <1>3 DEF Story

\* What a list of tasks has to be, to be begun when no handler is under way.
LEMMA Begun ==
  ASSUME NEW M, NEW N, NEW m, NEW init, Story(M, m, init, <<>>),
         NEW t, Ordinary(t), N \subseteq M \cup Joining(t),
         t # <<>> => Head(t).kind \notin {"mark", "skip"}
  PROVE  Story(N, m, init, t)
BY NothingLeft DEF Story

\* The second handler can begin when the first is done.
LEMMA NextWaits ==
  ASSUME NEW M, NEW m, NEW init, Story(M, m, init, <<>>), NEW t, Waiting(t)
  PROVE  Story(M, m, init, t)
<1>1. Ordinary(t)
  BY DEF Ordinary, Moving, Waiting
<1>2. t # <<>> => Head(t).kind \notin {"mark", "skip"}
  BY RestOfList DEF Waiting
<1> QED
  BY <1>1, <1>2, Begun

\* No handler is under way: nothing is left to be done.
LEMMA AllQuiet ==
  ASSUME SeatsInv, Free = Slot
  PROVE  /\ \A s \in Slot : slots[s] = Idle
         /\ Front = <<>>
         /\ FirstFree = 1
         /\ Story(Members, match, initialized, <<>>)
<1>1. \A s \in Slot : slots[s] = Idle
  BY DEF Free
<1>2. Front = <<>>
  BY <1>1, TwoSlots, EmptySlot DEF Front
<1>3. FirstFree = 1
  <2>1. 1 \in Free /\ \A t \in Free : 1 <= t
    BY TwoSlots DEF Slot
  <2>2. \A s \in Free : (\A t \in Free : s <= t) => s = 1
    BY <2>1, TwoSlots
  <2> QED
    BY <2>1, <2>2 DEF FirstFree
<1> QED
  BY <1>1, <1>2, <1>3 DEF SeatsInv

\* A handler begins.
LEMMA BeginStep ==
  ASSUME SeatsInv, InMemory, NEW t, Start(t),
         room' = None \/ room' \in RoomDoc,
         match' = match, initialized' = initialized,
         Story(Members', match, initialized, t)
  PROVE  SeatsInv'
<1>1. Free = Slot
  BY DEF Start, Taken, Quiet
<1>2. slots' = IF t = <<>> THEN slots
               ELSE [slots EXCEPT ![1] = [todo |-> t, held |-> None]]
  BY <1>1, AllQuiet DEF Start
<1>3. \A s \in Slot : slots[s] = Idle
  BY <1>1, AllQuiet
<1>4. DOMAIN slots = Slot
  BY DEF SeatsInv, Handlers
<1>5. Front' = t /\ Handlers'
  <2>1. CASE t = <<>>
    <3>1. Front' = <<>>
      BY <1>2, <1>3, <2>1, TwoSlots, EmptySlot DEF Front
    <3>2. Handlers'
      BY <1>2, <2>1 DEF SeatsInv, Handlers
    <3> QED
      BY <2>1, <3>1, <3>2
  <2>2. CASE t # <<>>
    <3>1. /\ slots'[1] = [todo |-> t, held |-> None]
          /\ \A s \in Slot : s # 1 => slots'[s] = Idle
          /\ DOMAIN slots' = Slot
      BY <1>2, <1>3, <1>4, <2>2, TwoSlots
    <3>2. slots'[1] # Idle /\ slots'[1].todo = t
      BY <2>2, <3>1, EmptySlot
    <3>3. Waiting(slots'[2].todo)
      BY <3>1, TwoSlots, EmptySlot, NoTask
    <3>4. \A s \in Slot : slots'[s] = [todo |-> slots'[s].todo, held |-> None]
      BY <3>1, EmptySlot DEF Idle
    <3> QED
      BY <3>1, <3>2, <3>3, <3>4, TwoSlots DEF Front, Handlers
  <2> QED
    BY <2>1, <2>2
<1> QED
  BY <1>5 DEF SeatsInv

\* A step of a handler, that leaves it the tasks t.
LEMMA HandlerStep ==
  ASSUME SeatsInv, InMemory, NEW s \in Slot, Running(s), NEW t, Goes(s, t, None),
         room' = room, match' = None \/ IsDocument(match'),
         Story(Members, match', initialized', t)
  PROVE  SeatsInv'
<1>1. /\ slots' = [slots EXCEPT ![s] = [todo |-> t, held |-> None]]
      /\ DOMAIN slots = Slot
  BY DEF Goes, SeatsInv, Handlers
<1>2. /\ slots'[s] = [todo |-> t, held |-> None]
      /\ \A r \in Slot : r # s => slots'[r] = slots[r]
      /\ DOMAIN slots' = Slot
  BY <1>1
<1>3. Members' = Members
  BY DEF Members
<1>4. \A r \in Slot : slots'[r] = [todo |-> slots'[r].todo, held |-> None]
  BY <1>2, EmptySlot DEF SeatsInv, Handlers
<1>5. s = 1 \/ s = 2
  BY TwoSlots DEF SeatsInv, Handlers, Running, Slot
<1>6. CASE s = 1
  <2>1. slots[1] # Idle /\ Waiting(slots[2].todo) /\ slots'[2] = slots[2]
    BY <1>2, <1>6, TwoSlots DEF Running, SeatsInv, Handlers
  <2>2. slots'[1] = Idle <=> t = <<>>
    BY <1>2, <1>6, EmptySlot
  <2>3. Handlers'
    BY <1>2, <1>4, <1>6, <2>1, TwoSlots DEF SeatsInv, Handlers
  <2>4. Front' = IF t = <<>> THEN slots[2].todo ELSE t
    BY <1>2, <1>6, <2>1, <2>2, EmptySlot DEF Front
  <2>5. Story(Members', match', initialized', Front')
    BY <1>3, <2>1, <2>4, NextWaits
  <2> QED
    BY <2>3, <2>5 DEF SeatsInv
<1>7. CASE s = 2
  <2>1. slots[1] = Idle /\ slots'[1] = Idle
    BY <1>2, <1>7, TwoSlots DEF Running
  <2>2. Handlers'
    BY <1>2, <1>4, <1>7, <2>1, TwoSlots DEF SeatsInv, Handlers
  <2>3. Front' = t
    BY <1>2, <1>7, <2>1, EmptySlot DEF Front
  <2> QED
    BY <1>3, <2>2, <2>3 DEF SeatsInv
<1> QED
  BY <1>5, <1>6, <1>7

\* What the handler that takes the next step has to do is Front.
LEMMA RunningFront ==
  ASSUME SeatsInv, InMemory, NEW s \in Slot, Running(s)
  PROVE  /\ slots[s].todo = Front
         /\ Front # <<>>
         /\ slots[s].held = None
<1>1. s = 1 \/ s = 2
  BY TwoSlots DEF SeatsInv, Handlers, Running, Slot
<1>2. slots[s].todo = Front
  BY <1>1, TwoSlots DEF Front, Running
<1>3. slots[s] = [todo |-> slots[s].todo, held |-> None] /\ slots[s] # Idle
  BY DEF SeatsInv, Handlers, Running
<1> QED
  BY <1>2, <1>3, EmptySlot

-----------------------------------------------------------------------------
(* The lists the actions begin.                                            *)

\* One ordinary task.
LEMMA OrdinaryTask ==
  ASSUME NEW x,
         x.kind \in {"join", "reconnect", "mark", "skip", "seed", "send", "play"},
         x.kind \in {"join", "reconnect", "play"} => x.who \in Player
  PROVE  Ordinary(<<x>>)
BY OneTask DEF Ordinary, Moving

\* The parts of a task.
LEMMA TaskFacts ==
  ASSUME NEW kind, NEW p
  PROVE  Task(kind, p).kind = kind /\ Task(kind, p).who = p
BY DEF Task

\* The key is an ordinary task.
LEMMA Marks == Ordinary(Mark)
BY OrdinaryTask, TaskFacts DEF Mark

\* The handler of room.joined.
LEMMA Joins ==
  ASSUME NEW p \in Player
  PROVE  /\ Ordinary(Join(p) \o Mark)
         /\ Head(Join(p) \o Mark).kind = "join"
         /\ p \in Joining(Join(p) \o Mark)
<1>1. Ordinary(Join(p)) /\ p \in Joining(Join(p))
  BY OrdinaryTask, TaskFacts, OneTask DEF Join, Joining
<1>2. Head(Join(p) \o Mark).kind = "join"
  BY Marks, FirstOf, TaskFacts DEF Join, Ordinary
<1> QED
  BY <1>1, <1>2, Marks, OrdinaryLists

\* The handler of room.reconnected.
LEMMA Rejoins ==
  ASSUME NEW p \in Player
  PROVE  /\ Ordinary(Rejoin(p) \o Mark)
         /\ Head(Rejoin(p) \o Mark).kind = "reconnect"
<1>1. Ordinary(Rejoin(p))
  BY OrdinaryTask, TaskFacts DEF Rejoin
<1>2. Head(Rejoin(p) \o Mark).kind = "reconnect"
  BY Marks, FirstOf, TaskFacts DEF Rejoin, Ordinary
<1> QED
  BY <1>1, <1>2, Marks, OrdinaryLists

\* What a message starts.
Message(t) == Ordinary(t) /\ \A i \in DOMAIN t : t[i].kind \in {"seed", "send", "play"}

\* One task of a message.
LEMMA MessageTask ==
  ASSUME NEW x, x.kind \in {"seed", "send", "play"}, x.kind = "play" => x.who \in Player
  PROVE  Message(<<x>>)
BY OrdinaryTask, OneTask DEF Message

\* Two lists of tasks of messages.
LEMMA MessageLists ==
  ASSUME NEW t, Message(t), NEW u, Message(u)
  PROVE  Message(t \o u)
<1>1. Ordinary(t \o u) /\ Listed(t) /\ Listed(u)
  BY OrdinaryLists DEF Message, Ordinary
<1>2. \A i \in DOMAIN (t \o u) :
        \/ i \in DOMAIN t /\ (t \o u)[i] = t[i]
        \/ i - Len(t) \in DOMAIN u /\ (t \o u)[i] = u[i - Len(t)]
  BY <1>1, TwoLists
<1> DEFINE v == t \o u
<1>3. \A i \in DOMAIN v : v[i].kind \in {"seed", "send", "play"}
  <2> HIDE DEF v
  <2> QED
    BY <1>2 DEF Message, v
<1> QED
  BY <1>1, <1>3 DEF Message

\* A message does not begin with the key.
LEMMA MessageHead ==
  ASSUME NEW t, Message(t), t # <<>>
  PROVE  Head(t).kind \notin {"mark", "skip"}
BY RestOfList DEF Message, Ordinary

\* The handlers of game_state_request and game_event.
LEMMA Messages ==
  ASSUME NEW p, NEW q \in Player, NEW seq, NEW move
  PROVE  /\ Message(Ensure \o SendTo(p))
         /\ Waiting(Ensure \o SendTo(p))
         /\ Message(Ensure \o Play(q, seq, move) \o SendTo(p))
<1>1. Message(<<>>)
  BY NoTask DEF Message
<1>2. Message(Ensure) /\ Waiting(Ensure)
  <2>1. Message(<<Task("seed", None)>>) /\ Waiting(<<Task("seed", None)>>)
    BY MessageTask, TaskFacts, OneTask DEF Waiting
  <2> QED
    BY <1>1, <2>1, NoTask DEF Ensure
<1>3. Message(SendTo(p)) /\ Waiting(SendTo(p))
  <2>1. Message(<<Task("send", p)>>) /\ Waiting(<<Task("send", p)>>)
    BY MessageTask, TaskFacts, OneTask DEF Waiting
  <2> QED
    BY <1>1, <2>1, NoTask DEF SendTo
<1>4. Message(Play(q, seq, move))
  BY MessageTask DEF Play
<1>5. Waiting(Ensure \o SendTo(p))
  BY <1>2, <1>3, TwoLists DEF Waiting
<1> QED
  BY <1>2, <1>3, <1>4, <1>5, MessageLists

\* ensureRoomInitialized's tasks seat everybody it read.
LEMMA SeatingAll ==
  ASSUME room \in RoomDoc, NEW rest, Ordinary(rest)
  PROVE  /\ Founding(Seating \o rest, room.host)
         /\ Elements(room.players) \subseteq {room.host} \cup Joining(Seating \o rest)
<1> DEFINE L == [i \in DOMAIN room.players |->
                   Task(IF room.players[i] = room.host THEN "skip" ELSE "join", room.players[i])]
<1>1. /\ Len(room.players) \in Nat /\ DOMAIN room.players = 1..Len(room.players)
      /\ \A i \in DOMAIN room.players : room.players[i] \in Player
  BY LenProperties, ElementOfSeq DEF RoomDoc
<1>2. Listed(L)
  <2> DEFINE S == {L[i] : i \in DOMAIN L}
  <2>1. L \in [1..Len(room.players) -> S]
    BY <1>1
  <2>2. L \in Seq(S)
    BY <1>1, <2>1, SeqDef
  <2> QED
    BY <2>2, ListOf
<1>3. \A i \in DOMAIN room.players :
        /\ L[i].kind = IF room.players[i] = room.host THEN "skip" ELSE "join"
        /\ L[i].who = room.players[i]
  BY TaskFacts
<1>4. DOMAIN L = DOMAIN room.players
  OBVIOUS
<1>5. Seating = Create(room.host) \o L \o Mark
  BY DEF Seating
<1> HIDE DEF L
<1>6. Ordinary(L)
  BY <1>1, <1>2, <1>3, <1>4 DEF Ordinary, Moving
<1>7. Elements(room.players) \subseteq {room.host} \cup Joining(L)
  <2>1. ASSUME NEW i \in DOMAIN room.players, room.players[i] # room.host
        PROVE  room.players[i] \in Joining(L)
    BY <1>3, <1>4, <2>1 DEF Joining
  <2> QED
    BY <2>1 DEF Elements
<1>8. Founding(Create(room.host), room.host)
  BY OneTask DEF Create, Founding
<1>9. /\ Founding(Create(room.host) \o L, room.host)
      /\ Joining(L) \subseteq Joining(Create(room.host) \o L)
  BY <1>6, <1>8, FoundingLists
<1>10. /\ Founding(Seating, room.host)
       /\ Joining(L) \subseteq Joining(Seating)
  BY <1>5, <1>9, Marks, FoundingLists
<1>11. /\ Founding(Seating \o rest, room.host)
       /\ Joining(L) \subseteq Joining(Seating \o rest)
  BY <1>10, FoundingLists
<1> QED
  BY <1>7, <1>11

\* What is known of the first task of the list, and of those after it.
LEMMA FirstTask ==
  ASSUME NEW M, NEW m, NEW init, NEW f, Story(M, m, init, f), f # <<>>
  PROVE  /\ Head(f).kind = "create" =>
              /\ Head(f).who \in Player
              /\ Ordinary(Tail(f))
              /\ M \subseteq {Head(f).who} \cup Joining(Tail(f))
         /\ Head(f).kind = "finish" => Tail(f) = Unmark /\ M = {}
         /\ Head(f).kind = "unmark" => Tail(f) = <<>> /\ M = {} /\ m = None
         /\ Head(f).kind \notin {"create", "finish", "unmark"} =>
              /\ Ordinary(f)
              /\ init => m # None
              /\ Head(f).kind \in {"mark", "skip"} => m # None
              /\ m # None => M \subseteq Elements(m.players) \cup Joining(f)
<1>1. CASE Ordinary(f) /\ (init => m # None)
           /\ (Head(f).kind \in {"mark", "skip"} => m # None)
           /\ (m # None => M \subseteq Elements(m.players) \cup Joining(f))
  BY <1>1, OrdinaryRest
<1>2. ASSUME NEW p \in Player, Founding(f, p), M \subseteq {p} \cup Joining(f)
      PROVE  /\ Head(f).kind = "create" /\ Head(f).who \in Player
             /\ Ordinary(Tail(f)) /\ M \subseteq {Head(f).who} \cup Joining(Tail(f))
  <2>1. /\ Head(f) = Task("create", p)
        /\ Ordinary(Tail(f)) /\ Joining(f) \subseteq Joining(Tail(f))
    BY <1>2, FoundingRest
  <2>2. Head(f).kind = "create" /\ Head(f).who = p
    BY <2>1, TaskFacts
  <2> QED
    BY <1>2, <2>1, <2>2
<1>3. CASE f = Finish \o Unmark /\ M = {}
  <2>1. Head(f) = Task("finish", None) /\ Tail(f) = Unmark
    BY <1>3, FirstOf, OneTask DEF Finish, Unmark
  <2> QED
    BY <1>3, <2>1, TaskFacts
<1>4. CASE f = Unmark /\ M = {} /\ m = None
  <2>1. Head(f) = Task("unmark", None) /\ Tail(f) = <<>>
    BY <1>4 DEF Unmark
  <2> QED
    BY <1>4, <2>1, TaskFacts
<1> QED
  BY <1>1, <1>2, <1>3, <1>4 DEF Story

-----------------------------------------------------------------------------
(* The actions.                                                            *)

\* How adapters treat the players of a match.
AdaptersKeepSeats ==
  /\ ~IsDocument(None)
  /\ \A s \in Setups, p \in Player :
       /\ BeginsWith(CreateMatch(s.game, p), p)
       /\ \A m : IsDocument(m) =>
            /\ Seats(m, JoinGame(s.game, m, p), p)
            /\ Seats(m, RejoinGame(s.game, m, p), p)
            /\ \A seq, move : SamePlayers(m, HandlePlayerAction(s.game, m, p, seq, move))
  /\ \A s \in Setups : \A m : IsDocument(m) =>
       SamePlayers(m, StateObserved(s.game, m)) /\ SamePlayers(m, Elapsed(s.game, m))

\* What has the same players has the same seats.
LEMMA SameSeats ==
  ASSUME NEW m, IsDocument(m), NEW n, SamePlayers(m, n)
  PROVE  IsDocument(n) /\ Elements(n.players) = Elements(m.players)
BY DEF SamePlayers, HasPlayers, IsDocument

\* A new match seats its host alone.
LEMMA NewMatch ==
  ASSUME NEW m, NEW p \in Player, BeginsWith(m, p)
  PROVE  IsDocument(m) /\ Elements(m.players) = {p}
BY DEF BeginsWith, HasPlayers, IsDocument, Elements

\* A handler goes on with ordinary tasks and a match.
LEMMA GoesOn ==
  ASSUME NEW M, NEW m, NEW init, NEW t, Ordinary(t),
         m # None, M \subseteq Elements(m.players) \cup Joining(t)
  PROVE  Story(M, m, init, t)
BY DEF Story

\* room.created: the match of the host alone will be created.
LEMMA CreateRoomStep ==
  ASSUME SeatsInv, InMemory, NEW p \in Player, CreateRoom(p)
  PROVE  SeatsInv'
<1>1. /\ room' = [host |-> p, players |-> <<p>>] /\ Start(Create(p) \o Mark)
      /\ match' = match /\ initialized' = initialized
  BY DEF CreateRoom
<1>2. room' \in RoomDoc
  BY <1>1 DEF RoomDoc
<1>3. Members' \subseteq {p}
  BY <1>1 DEF Members, Elements
<1>4. Founding(Create(p) \o Mark, p)
  <2>1. Founding(Create(p), p)
    BY OneTask DEF Create, Founding
  <2> QED
    BY <2>1, Marks, FoundingLists
<1>5. Story(Members', match, initialized, Create(p) \o Mark)
  BY <1>3, <1>4 DEF Story
<1> QED
  BY <1>1, <1>2, <1>5, BeginStep

\* room.joined: the passenger will be seated.
LEMMA JoinRoomStep ==
  ASSUME SeatsInv, InMemory, NEW p \in Player, JoinRoom(p)
  PROVE  SeatsInv'
<1>1. /\ room # None /\ room' = [room EXCEPT !.players = Append(room.players, p)]
      /\ Start(Join(p) \o Mark) /\ match' = match /\ initialized' = initialized
  BY DEF JoinRoom
<1>2. room \in RoomDoc
  BY <1>1 DEF SeatsInv
<1>3. /\ Append(room.players, p) \in Seq(Player)
      /\ Elements(Append(room.players, p)) \subseteq Elements(room.players) \cup {p}
  <2>1. room.players \in Seq(Player)
    BY <1>2 DEF RoomDoc
  <2>2. /\ Append(room.players, p) \in Seq(Player)
        /\ DOMAIN Append(room.players, p) = DOMAIN room.players \cup {Len(room.players) + 1}
        /\ Append(room.players, p)[Len(room.players) + 1] = p
        /\ \A i \in DOMAIN room.players : Append(room.players, p)[i] = room.players[i]
    BY <2>1
  <2> QED
    BY <2>2 DEF Elements
<1>4. room' \in RoomDoc /\ room'.players = Append(room.players, p)
  BY <1>1, <1>2, <1>3 DEF RoomDoc
<1>5. Members' \subseteq Members \cup {p}
  BY <1>1, <1>3, <1>4 DEF Members
<1>6. Story(Members, match, initialized, <<>>)
  BY <1>1, AllQuiet DEF Start, Taken, Quiet
<1>7. Story(Members', match, initialized, Join(p) \o Mark)
  BY <1>5, <1>6, Joins, Begun
<1> QED
  BY <1>1, <1>4, <1>7, BeginStep

\* The match of an empty room comes to its end.
LEMMA Ended ==
  ASSUME NEW M, M = {}, NEW m, NEW init
  PROVE  Story(M, m, init, Finish \o Unmark)
BY DEF Story

\* Those that stay in the room are of those that were there.
LEMMA OthersStay ==
  ASSUME room # None, room \in RoomDoc, NEW p \in Members
  PROVE  Without(p) \in Seq(Player) /\ Elements(Without(p)) \subseteq Elements(room.players)
<1> DEFINE players == room.players
           n == Len(players)
           seat == CHOOSE i \in DOMAIN players : players[i] = p
           S == {players[i] : i \in DOMAIN players}
<1>1. players \in Seq(Player) /\ n \in Nat /\ DOMAIN players = 1..n
  BY LenProperties DEF RoomDoc
<1>2. seat \in 1..n
  BY <1>1 DEF Members, Elements
<1>3. S \subseteq Player /\ players \in Seq(S) /\ S = Elements(players)
  BY <1>1, ListOf, ElementOfSeq DEF Listed, Elements
<1>4. Without(p) = SubSeq(players, 1, seat - 1) \o SubSeq(players, seat + 1, n)
  BY DEF Without
<1> HIDE DEF S, seat, n, players
<1>5. SubSeq(players, 1, seat - 1) \in Seq(S) /\ SubSeq(players, seat + 1, n) \in Seq(S)
  BY <1>2, <1>3 DEF n
<1>6. Without(p) \in Seq(S)
  BY <1>4, <1>5, ConcatProperties
<1>7. Without(p) \in Seq(Player)
  BY <1>3, <1>6, SeqMonotonic
<1>8. Elements(Without(p)) \subseteq S
  BY <1>6, LenProperties, ElementOfSeq DEF Elements
<1> QED
  BY <1>3, <1>7, <1>8 DEF players

\* room.left: who leaves need not be seated, and the last one ends the match.
LEMMA LeaveRoomStep ==
  ASSUME SeatsInv, InMemory, NEW p \in Player, LeaveRoom(p)
  PROVE  SeatsInv'
<1> DEFINE rest == Without(p)
<1>1. /\ room' = [host |-> IF rest = <<>> THEN room.host ELSE rest[1], players |-> rest]
      /\ Start(IF rest = <<>> THEN Finish \o Unmark ELSE <<>>)
      /\ match' = match /\ initialized' = initialized /\ p \in Members
  BY DEF LeaveRoom
<1>2. room \in RoomDoc /\ room # None
  BY <1>1 DEF SeatsInv, Members
<1>3. rest \in Seq(Player) /\ Elements(rest) \subseteq Elements(room.players)
  BY <1>1, <1>2, OthersStay
<1> HIDE DEF rest
<1>4. room' \in RoomDoc
  <2>1. rest # <<>> => rest[1] \in Player
    BY <1>3, EmptySeq, ElementOfSeq
  <2> QED
    BY <1>1, <1>2, <1>3, <2>1 DEF RoomDoc
<1>5. Members' \subseteq Members /\ (rest = <<>> => Members' = {})
  BY <1>1, <1>2, <1>3, NoTask DEF Members, Elements
<1>6. Story(Members, match, initialized, <<>>)
  BY <1>1, AllQuiet DEF Start, Taken, Quiet
<1>7. CASE rest = <<>>
  BY <1>1, <1>4, <1>5, <1>7, Ended, BeginStep
<1>8. CASE rest # <<>>
  <2>1. Story(Members', match, initialized, <<>>)
    BY <1>5, <1>6, NoTask, Begun
  <2> QED
    BY <1>1, <1>4, <1>8, <2>1, BeginStep
<1> QED
  BY <1>7, <1>8

\* room.cleaned_up: nobody is left.
LEMMA DeleteRoomStep ==
  ASSUME SeatsInv, InMemory, DeleteRoom
  PROVE  SeatsInv'
<1>1. room' = None /\ Start(Finish \o Unmark) /\ match' = match /\ initialized' = initialized
  BY DEF DeleteRoom
<1>2. Members' = {}
  BY <1>1 DEF Members
<1> QED
  BY <1>1, <1>2, Ended, BeginStep

\* A handler begins that seats nobody new, while the room stays as it is.
LEMMA PlainStep ==
  ASSUME SeatsInv, InMemory, room' = room, match' = match, initialized' = initialized,
         NEW t, Start(t), Ordinary(t), t # <<>> => Head(t).kind \notin {"mark", "skip"}
  PROVE  SeatsInv'
<1>1. Story(Members, match, initialized, <<>>)
  BY AllQuiet DEF Start, Taken, Quiet
<1>2. Members' = Members
  BY DEF Members
<1>3. Story(Members', match, initialized, t)
  BY <1>1, <1>2, Begun
<1> QED
  BY <1>3, BeginStep DEF SeatsInv

\* room.reconnected changes no room.
LEMMA ReconnectRoomStep ==
  ASSUME SeatsInv, InMemory, NEW p \in Player, ReconnectRoom(p)
  PROVE  SeatsInv'
BY Rejoins, PlainStep DEF ReconnectRoom

\* A message begins.
LEMMA MessageStep ==
  ASSUME SeatsInv, InMemory, room' = room, match' = match, initialized' = initialized,
         NEW t, Message(t), Start(t)
  PROVE  SeatsInv'
BY MessageHead, PlainStep DEF Message

\* A page opens; two handlers begin when it comes back.
LEMMA OpenPageStep ==
  ASSUME SeatsInv, InMemory, NEW p \in Player, OpenPage(p)
  PROVE  SeatsInv'
<1>1. room' = room /\ match' = match /\ initialized' = initialized
  BY DEF OpenPage
<1>2. CASE Start(Ensure \o SendTo(p))
  BY <1>1, <1>2, Messages, MessageStep
<1>3. CASE StartBoth(Rejoin(p) \o Mark, Ensure \o SendTo(p))
  <2> DEFINE t == Rejoin(p) \o Mark
             u == Ensure \o SendTo(p)
  <2>1. /\ Free = Slot
        /\ slots' = [slots EXCEPT ![1] = [todo |-> t, held |-> None],
                                  ![2] = [todo |-> u, held |-> None]]
    BY <1>3 DEF StartBoth
  <2>2. Ordinary(t) /\ Head(t).kind = "reconnect" /\ Waiting(u) /\ t # <<>>
    BY Rejoins, Messages, Marks, FirstOf DEF Rejoin, Ordinary
  <2> HIDE DEF t, u
  <2>3. \A s \in Slot : slots[s] = Idle
    BY <2>1, AllQuiet
  <2>4. /\ DOMAIN slots' = Slot
        /\ slots'[1] = [todo |-> t, held |-> None]
        /\ slots'[2] = [todo |-> u, held |-> None]
        /\ \A s \in Slot : s > 2 => slots'[s] = Idle
    <3>1. DOMAIN slots = Slot
      BY DEF SeatsInv, Handlers
    <3> QED
      BY <2>1, <2>3, <3>1, TwoSlots
  <2>5. slots'[1] # Idle /\ slots'[1].todo = t /\ slots'[2].todo = u
    BY <2>2, <2>4, EmptySlot
  <2>6. \A s \in Slot : slots'[s] = [todo |-> slots'[s].todo, held |-> None]
    BY <2>4, EmptySlot, TwoSlots DEF Idle, Slot
  <2>7. Handlers' /\ Front' = t
    BY <2>2, <2>4, <2>5, <2>6 DEF Handlers, Front
  <2>8. Members' = Members
    BY <1>1 DEF Members
  <2>9. Story(Members', match, initialized, t)
    BY <2>1, <2>2, <2>8, AllQuiet, Begun
  <2> QED
    BY <1>1, <2>7, <2>9 DEF SeatsInv
<1> QED
  BY <1>2, <1>3 DEF OpenPage

\* A move begins.
LEMMA EventStep ==
  ASSUME SeatsInv, InMemory, NEW p \in Player, NEW seq, NEW move, GameEvent(p, seq, move),
         room' = room, match' = match, initialized' = initialized
  PROVE  SeatsInv'
BY Messages, MessageStep DEF GameEvent

\* The handler that takes the next step, and what it has to do.
LEMMA TaskInHand ==
  ASSUME SeatsInv, InMemory, NEW s \in Slot, Running(s)
  PROVE  /\ slots[s].todo = Front /\ Current(s) = Head(Front) /\ Front # <<>>
         /\ Story(Members, match, initialized, Front)
BY RunningFront DEF Current, SeatsInv

\* createMatch: the host is seated, the others are joining.
LEMMA CreateStep ==
  ASSUME AdaptersKeepSeats, setup \in Setups, SeatsInv, InMemory,
         NEW s \in Slot, CreateTask(s)
  PROVE  SeatsInv'
<1> DEFINE who == Head(Front).who
           rest == Tail(Front)
<1>1. /\ Running(s) /\ Current(s).kind = "create"
      /\ match' = CreateMatch(setup.game, Current(s).who)
      /\ Goes(s, Tail(slots[s].todo), None)
      /\ room' = room /\ initialized' = initialized
  BY DEF CreateTask, Done, game
<1>2. /\ slots[s].todo = Front /\ Current(s) = Head(Front) /\ Front # <<>>
      /\ Story(Members, match, initialized, Front)
  BY <1>1, TaskInHand
<1>3. who \in Player /\ Ordinary(rest) /\ Members \subseteq {who} \cup Joining(rest)
  BY <1>1, <1>2, FirstTask
<1> HIDE DEF who, rest
<1>4. BeginsWith(match', who)
  BY <1>1, <1>2, <1>3 DEF AdaptersKeepSeats, who
<1>5. IsDocument(match') /\ match' # None /\ Elements(match'.players) = {who}
  BY <1>3, <1>4, NewMatch DEF AdaptersKeepSeats
<1>6. Story(Members, match', initialized', rest)
  BY <1>3, <1>5, GoesOn
<1> QED
  BY <1>1, <1>2, <1>5, <1>6, HandlerStep DEF rest

\* finishMatch: nobody is in the room.
LEMMA FinishStep ==
  ASSUME SeatsInv, InMemory, NEW s \in Slot, FinishTask(s)
  PROVE  SeatsInv'
<1>1. /\ Running(s) /\ Current(s).kind = "finish" /\ match' = None
      /\ Goes(s, Tail(slots[s].todo), None)
      /\ room' = room /\ initialized' = initialized
  BY DEF FinishTask, Done
<1>2. /\ slots[s].todo = Front /\ Current(s) = Head(Front) /\ Front # <<>>
      /\ Story(Members, match, initialized, Front)
  BY <1>1, TaskInHand
<1>3. Tail(Front) = Unmark /\ Members = {}
  BY <1>1, <1>2, FirstTask
<1>4. Story(Members, match', initialized', Unmark)
  BY <1>1, <1>3 DEF Story
<1> QED
  BY <1>1, <1>2, <1>3, <1>4, HandlerStep

\* The key goes in when there is a match, and out when nobody is in the room.
LEMMA KeyStep ==
  ASSUME SeatsInv, InMemory, NEW s \in Slot, KeyTask(s)
  PROVE  SeatsInv'
<1> DEFINE kind == Head(Front).kind
           rest == Tail(Front)
<1>1. /\ Running(s) /\ Current(s).kind \in {"mark", "unmark", "skip"}
      /\ initialized' = IF Current(s).kind = "skip" THEN initialized
                        ELSE Current(s).kind = "mark"
      /\ Goes(s, Tail(slots[s].todo), None)
      /\ room' = room /\ match' = match
  BY DEF KeyTask, Done
<1>2. /\ slots[s].todo = Front /\ Current(s) = Head(Front) /\ Front # <<>>
      /\ Story(Members, match, initialized, Front)
  BY <1>1, TaskInHand
<1>3. kind \in {"mark", "unmark", "skip"}
  BY <1>1, <1>2
<1>4. CASE kind = "unmark"
  <2>1. rest = <<>> /\ Members = {} /\ match = None
    BY <1>2, <1>4, FirstTask
  <2>2. initialized' = FALSE
    BY <1>1, <1>2, <1>4
  <2>3. Story(Members, match', initialized', rest)
    BY <1>1, <2>1, <2>2, NoTask DEF Story
  <2> QED
    BY <1>1, <1>2, <2>3, HandlerStep DEF SeatsInv
<1>5. CASE kind \in {"mark", "skip"}
  <2>1. /\ Ordinary(Front) /\ match # None
        /\ Members \subseteq Elements(match.players) \cup Joining(Front)
    BY <1>2, <1>5, FirstTask
  <2>2. Ordinary(rest) /\ Joining(Front) \subseteq Joining(rest)
    BY <1>2, <1>5, <2>1, OrdinaryRest
  <2>3. Story(Members, match', initialized', rest)
    BY <1>1, <2>1, <2>2, GoesOn
  <2> QED
    BY <1>1, <1>2, <2>3, HandlerStep DEF SeatsInv
<1> QED
  BY <1>3, <1>4, <1>5

\* ensureRoomInitialized: all that it read in the room will be seated.
LEMMA SeedStep ==
  ASSUME SeatsInv, InMemory, NEW s \in Slot, SeedTask(s)
  PROVE  SeatsInv'
<1> DEFINE rest == Tail(Front)
<1>1. /\ Running(s) /\ Current(s).kind = "seed"
      /\ room = None => Goes(s, <<>>, None)
      /\ room # None => Goes(s, Seating \o Tail(slots[s].todo), None)
      /\ room' = room /\ match' = match /\ initialized' = initialized
  BY DEF SeedTask, Throws
<1>2. /\ slots[s].todo = Front /\ Current(s) = Head(Front) /\ Front # <<>>
      /\ Story(Members, match, initialized, Front)
  BY <1>1, TaskInHand
<1>3. Ordinary(Front) /\ (initialized => match # None) /\ Ordinary(rest)
  BY <1>1, <1>2, FirstTask, OrdinaryRest
<1>4. CASE room = None
  <2>1. Members = {}
    BY <1>4 DEF Members
  <2>2. Story(Members, match', initialized', <<>>)
    BY <1>1, <1>3, <2>1, NoTask DEF Story
  <2> QED
    BY <1>1, <1>4, <2>2, HandlerStep DEF SeatsInv
<1>5. CASE room # None
  <2>1. room \in RoomDoc /\ Members = Elements(room.players) /\ room.host \in Player
    BY <1>5 DEF SeatsInv, Members, RoomDoc
  <2>2. /\ Founding(Seating \o rest, room.host)
        /\ Members \subseteq {room.host} \cup Joining(Seating \o rest)
    BY <1>3, <2>1, SeatingAll
  <2>3. Story(Members, match', initialized', Seating \o rest)
    BY <2>1, <2>2 DEF Story
  <2> QED
    BY <1>1, <1>2, <1>5, <2>3, HandlerStep DEF SeatsInv
<1> QED
  BY <1>4, <1>5

\* A task that reads the match does not take players out of it, and a join adds its own.
LEMMA Rewritten ==
  ASSUME AdaptersKeepSeats, setup \in Setups, NEW m, IsDocument(m), NEW task, Reads(task),
         task.kind \in {"join", "reconnect", "play"} => task.who \in Player
  PROVE  /\ IsDocument(Applied(task, m))
         /\ Elements(m.players) \subseteq Elements(Applied(task, m).players)
         /\ task.kind = "join" => task.who \in Elements(Applied(task, m).players)
<1>1. CASE task.kind = "join"
  <2>1. Applied(task, m) = JoinGame(setup.game, m, task.who)
    BY <1>1 DEF Applied, game
  <2>2. Seats(m, JoinGame(setup.game, m, task.who), task.who)
    BY <1>1 DEF AdaptersKeepSeats
  <2> QED
    BY <2>1, <2>2 DEF Seats
<1>2. CASE task.kind = "reconnect"
  <2>1. Applied(task, m) = RejoinGame(setup.game, m, task.who)
    BY <1>2 DEF Applied, game
  <2>2. Seats(m, RejoinGame(setup.game, m, task.who), task.who)
    BY <1>2 DEF AdaptersKeepSeats
  <2> QED
    BY <1>2, <2>1, <2>2 DEF Seats
<1>3. CASE task.kind = "play"
  <2>1. Applied(task, m) = HandlePlayerAction(setup.game, m, task.who, task.seq, task.move)
    BY <1>3 DEF Applied, game
  <2>2. SamePlayers(m, Applied(task, m))
    BY <1>3, <2>1 DEF AdaptersKeepSeats
  <2> QED
    BY <1>3, <2>2, SameSeats
<1>4. CASE task.kind = "send"
  <2>1. Applied(task, m) = StateObserved(setup.game, m)
    BY <1>4 DEF Applied, game
  <2>2. SamePlayers(m, Applied(task, m))
    BY <2>1 DEF AdaptersKeepSeats
  <2> QED
    BY <1>4, <2>2, SameSeats
<1> QED
  BY <1>1, <1>2, <1>3, <1>4 DEF Reads

\* An adapter's operation is done.
LEMMA WriteStep ==
  ASSUME AdaptersKeepSeats, setup \in Setups, SeatsInv, InMemory,
         NEW s \in Slot, WriteMatch(s)
  PROVE  SeatsInv'
<1> DEFINE task == Head(Front)
           rest == Tail(Front)
           new  == Applied(task, match)
<1>1. /\ Running(s) /\ Reads(Current(s)) /\ room' = room /\ initialized' = initialized
      /\ match = None => Goes(s, <<>>, None) /\ match' = match
      /\ match # None => /\ Goes(s, Tail(slots[s].todo), None)
                         /\ match' = Applied(Current(s), match)
  BY DEF WriteMatch, Throws, Done
<1>2. /\ slots[s].todo = Front /\ Current(s) = task /\ Front # <<>>
      /\ Story(Members, match, initialized, Front)
  BY <1>1, TaskInHand
<1>3. task.kind \in {"join", "reconnect", "play", "send"}
  BY <1>1, <1>2 DEF Reads
<1>4. /\ Ordinary(Front)
      /\ initialized => match # None
      /\ match # None => Members \subseteq Elements(match.players) \cup Joining(Front)
  BY <1>2, <1>3, FirstTask
<1>5. CASE match = None
  <2>1. Story(Members, match', initialized', <<>>)
    BY <1>1, <1>4, <1>5, NoTask DEF Story
  <2> QED
    BY <1>1, <1>5, <2>1, HandlerStep
<1>6. CASE match # None
  <2>1. /\ Ordinary(rest)
        /\ task.kind \in {"join", "reconnect", "play"} => task.who \in Player
        /\ task.kind = "join" => Joining(Front) \subseteq {task.who} \cup Joining(rest)
        /\ task.kind # "join" => Joining(Front) \subseteq Joining(rest)
    BY <1>2, <1>4, OrdinaryRest
  <2>2. IsDocument(match)
    BY <1>6 DEF SeatsInv
  <2>3. /\ IsDocument(new)
        /\ Elements(match.players) \subseteq Elements(new.players)
        /\ task.kind = "join" => task.who \in Elements(new.players)
    BY <1>1, <1>2, <2>1, <2>2, Rewritten
  <2>4. match' = new
    BY <1>1, <1>2, <1>6
  <2> HIDE DEF task, rest, new
  <2>5. match' # None /\ Members \subseteq Elements(match'.players) \cup Joining(rest)
    BY <1>4, <1>6, <2>1, <2>3, <2>4 DEF AdaptersKeepSeats
  <2>6. Story(Members, match', initialized', rest)
    BY <2>1, <2>5, GoesOn
  <2> QED
    BY <1>1, <1>2, <1>6, <2>3, <2>4, <2>6, HandlerStep DEF rest
<1> QED
  BY <1>5, <1>6

\* The deadline passes.
LEMMA TimeStep ==
  ASSUME AdaptersKeepSeats, setup \in Setups, SeatsInv, InMemory, TimePasses
  PROVE  SeatsInv'
<1>1. /\ match # None /\ match' = Elapsed(setup.game, match)
      /\ room' = room /\ initialized' = initialized /\ slots' = slots /\ Free = Slot
  BY DEF TimePasses, Quiet, game
<1>2. IsDocument(match') /\ Elements(match'.players) = Elements(match.players)
  <2>1. IsDocument(match)
    BY <1>1 DEF SeatsInv
  <2> QED
    BY <1>1, <2>1, SameSeats DEF AdaptersKeepSeats
<1>3. Front = <<>> /\ Front' = Front /\ Handlers' /\ Members' = Members
  BY <1>1, AllQuiet DEF Front, Members, SeatsInv, Handlers
<1>4. Members \subseteq Elements(match.players)
  BY <1>1, AllQuiet, NothingLeft
<1>5. Story(Members', match', initialized', <<>>)
  BY <1>2, <1>3, <1>4, NoTask DEF Story, AdaptersKeepSeats
<1> QED
  BY <1>1, <1>2, <1>3, <1>5 DEF SeatsInv

\* A step that none of the conjuncts speaks of.
LEMMA SameInv ==
  ASSUME SeatsInv, room' = room, match' = match, initialized' = initialized, slots' = slots
  PROVE  SeatsInv'
BY DEF SeatsInv, Members, Handlers, Front

\* Whatever step is taken with the memory driver.
LEMMA MemoryStep ==
  ASSUME AdaptersKeepSeats, setup \in Setups, InMemory, SeatsInv, Next
  PROVE  SeatsInv'
<1>1. ASSUME NEW p \in Player, CreateRoom(p) PROVE SeatsInv'
  BY <1>1, CreateRoomStep
<1>2. ASSUME NEW p \in Player, JoinRoom(p) PROVE SeatsInv'
  BY <1>2, JoinRoomStep
<1>3. ASSUME NEW p \in Player, LeaveRoom(p) PROVE SeatsInv'
  BY <1>3, LeaveRoomStep
<1>4. CASE DeleteRoom
  BY <1>4, DeleteRoomStep
<1>5. ASSUME NEW p \in Player, ReconnectRoom(p) PROVE SeatsInv'
  BY <1>5, ReconnectRoomStep
<1>6. ASSUME NEW p \in Player, OpenPage(p) PROVE SeatsInv'
  BY <1>6, OpenPageStep
<1>7. ASSUME NEW p \in Player, ClosePage(p) PROVE SeatsInv'
  BY <1>7, SameInv DEF ClosePage
<1>8. ASSUME NEW p \in Player, RequestState(p) PROVE SeatsInv'
  BY <1>8, Messages, MessageStep DEF RequestState
<1>9. ASSUME NEW p \in Player, PlayPage(p) PROVE SeatsInv'
  BY <1>9, EventStep DEF PlayPage
<1>10. ASSUME NEW p \in Player, PlayAny(p) PROVE SeatsInv'
  BY <1>10, EventStep DEF PlayAny
<1>11. ASSUME NEW s \in Slot, CreateTask(s) PROVE SeatsInv'
  BY <1>11, CreateStep
<1>12. ASSUME NEW s \in Slot, FinishTask(s) PROVE SeatsInv'
  BY <1>12, FinishStep
<1>13. ASSUME NEW s \in Slot, KeyTask(s) PROVE SeatsInv'
  BY <1>13, KeyStep
<1>14. ASSUME NEW s \in Slot, SeedTask(s) PROVE SeatsInv'
  BY <1>14, SeedStep
<1>15. ASSUME NEW s \in Slot, ReadMatch(s) PROVE SeatsInv'
  BY <1>15 DEF ReadMatch
<1>16. ASSUME NEW s \in Slot, WriteMatch(s) PROVE SeatsInv'
  BY <1>16, WriteStep
<1>17. CASE TimePasses
  BY <1>17, TimeStep
<1>18. CASE Restart
  BY <1>18 DEF Restart
<1> QED
  BY <1>1, <1>2, <1>3, <1>4, <1>5, <1>6, <1>7, <1>8, <1>9, <1>10, <1>11, <1>12,
     <1>13, <1>14, <1>15, <1>16, <1>17, <1>18 DEF Next

\* No step changes the setup.
LEMMA SetupStays ==
  ASSUME [Next]_vars
  PROVE  setup' = setup /\ InMemory' = InMemory
<1>1. setup' = setup
  BY DEF Next, vars, CreateRoom, JoinRoom, LeaveRoom, DeleteRoom, ReconnectRoom, OpenPage,
       ClosePage, RequestState, PlayPage, PlayAny, CreateTask, FinishTask, KeyTask, SeedTask,
       ReadMatch, WriteMatch, TimePasses, Restart
<1> QED
  BY <1>1 DEF InMemory

\* Every step keeps the invariant.
LEMMA InvStep ==
  ASSUME AdaptersKeepSeats, IInv, [Next]_vars
  PROVE  IInv'
<1>1. setup' = setup /\ InMemory' = InMemory
  BY SetupStays
<1>2. ASSUME InMemory PROVE SeatsInv'
  <2>1. CASE Next
    BY <1>2, <2>1, MemoryStep DEF IInv
  <2>2. CASE UNCHANGED vars
    BY <1>2, <2>2, SameInv DEF IInv, vars
  <2> QED
    BY <2>1, <2>2
<1> QED
  BY <1>1, <1>2 DEF IInv

\* The invariant holds at the start.
LEMMA InvInit ==
  ASSUME Init
  PROVE  IInv
<1>1. /\ setup \in Setups /\ room = None /\ match = None /\ initialized = FALSE
      /\ slots = [s \in Slot |-> Idle]
  BY DEF Init
<1>2. \A s \in Slot : slots[s] = Idle /\ slots[s].todo = <<>>
  BY <1>1, EmptySlot
<1>3. Handlers /\ Front = <<>>
  BY <1>1, <1>2, TwoSlots, NoTask DEF Handlers, Front, Idle
<1>4. Story(Members, match, initialized, <<>>)
  BY <1>1, NoTask DEF Story
<1> QED
  BY <1>1, <1>3, <1>4 DEF IInv, SeatsInv

\* The runtime seats everybody, whatever adapters it is given that create a match with its
\* host, add who joins or reconnects to its players, and leave the players alone when
\* somebody plays: with the memory driver everybody who is in a room whose match has been
\* set up is seated in that match once the handlers are through.
THEOREM EverybodyIsSeated ==
  ASSUME AdaptersKeepSeats
  PROVE  Spec => []MembersAreSeated
<1>1. Init => IInv
  BY InvInit
<1>2. IInv /\ [Next]_vars => IInv'
  BY InvStep
<1>3. IInv => MembersAreSeated
  <2> SUFFICES ASSUME IInv, InMemory, Free = Slot, initialized
               PROVE  match # None /\ Members \subseteq Elements(match.players)
    BY DEF MembersAreSeated
  <2> QED
    BY AllQuiet, NothingLeft DEF IInv
<1> QED
  BY <1>1, <1>2, <1>3, PTL DEF Spec

-----------------------------------------------------------------------------
(* The adapters of the platform's games.                                   *)

\* A player put in WithSeat's place is seated.
LEMMA SeatOfJoiner ==
  ASSUME NEW m, IsDocument(m), NEW p \in Player, NEW n, HasPlayers(n, WithSeat(m.players, p))
  PROVE  Seats(m, n, p)
<1>1. CASE \E i \in DOMAIN m.players : m.players[i] = p
  BY <1>1 DEF HasPlayers, WithSeat, IsDocument, Seats, Elements
<1>2. CASE ~(\E i \in DOMAIN m.players : m.players[i] = p)
  <2>1. n.players = Append(m.players, p)
    BY <1>2 DEF HasPlayers, WithSeat
  <2>2. \A s \in Seq(Player) : /\ Append(s, p) \in Seq(Player)
                               /\ DOMAIN Append(s, p) = DOMAIN s \cup {Len(s) + 1}
                               /\ Append(s, p)[Len(s) + 1] = p
                               /\ \A i \in DOMAIN s : Append(s, p)[i] = s[i]
    OBVIOUS
  <2> QED
    BY <2>1, <2>2 DEF IsDocument, HasPlayers, Seats, Elements
<1> QED
  BY <1>1, <1>2

\* The adapter of quiz-duel seats its host, and those that join or reconnect.
LEMMA QuizKeepsSeats ==
  ASSUME NEW m, IsDocument(m), NEW p \in Player, NEW seq, NEW move
  PROVE  /\ BeginsWith(Reg!Quiz!Created(p), p)
         /\ Seats(m, Reg!Quiz!JoinMatch(m, p), p)
         /\ Seats(m, Reg!Quiz!ReconnectPlayer(m, p), p)
         /\ SamePlayers(m, Reg!Quiz!Played(m, p, seq, move))
<1>1. BeginsWith(Reg!Quiz!Created(p), p)
  BY DEF BeginsWith, HasPlayers, Reg!Quiz!Created, Reg!Quiz!Game!Created
<1>2. HasPlayers(Reg!Quiz!JoinMatch(m, p), WithSeat(m.players, p))
  BY DEF IsDocument, HasPlayers, WithSeat, Reg!Quiz!JoinMatch, Reg!Quiz!Joined,
       Reg!Quiz!Seated
<1>3. HasPlayers(Reg!Quiz!ReconnectPlayer(m, p), WithSeat(m.players, p))
  BY DEF IsDocument, HasPlayers, WithSeat, Reg!Quiz!ReconnectPlayer,
       Reg!Quiz!Reconnected, Reg!Quiz!WithPlayer, Reg!Quiz!Seated
<1>4. SamePlayers(m, Reg!Quiz!Played(m, p, seq, move))
  BY DEF IsDocument, SamePlayers, HasPlayers, Reg!Quiz!Played, Reg!Quiz!Game!Played,
       Reg!Quiz!Game!Heard, Reg!Quiz!Game!Answered, Reg!Quiz!Game!RoundCompleted
<1> QED
  BY <1>1, <1>2, <1>3, <1>4, SeatOfJoiner

\* The adapter of word-rally seats its host, and those that join or reconnect.
LEMMA WordsKeepsSeats ==
  ASSUME NEW m, IsDocument(m), NEW p \in Player, NEW seq, NEW move
  PROVE  /\ BeginsWith(Reg!Words!Created(p), p)
         /\ Seats(m, Reg!Words!JoinMatch(m, p), p)
         /\ Seats(m, Reg!Words!ReconnectPlayer(m, p), p)
         /\ SamePlayers(m, Reg!Words!Played(m, p, seq, move))
<1>1. BeginsWith(Reg!Words!Created(p), p)
  BY DEF BeginsWith, HasPlayers, Reg!Words!Created, Reg!Words!Game!Created
<1>2. HasPlayers(Reg!Words!JoinMatch(m, p), WithSeat(m.players, p))
  BY DEF IsDocument, HasPlayers, WithSeat, Reg!Words!JoinMatch, Reg!Words!Joined,
       Reg!Words!Seated
<1>3. HasPlayers(Reg!Words!ReconnectPlayer(m, p), WithSeat(m.players, p))
  BY DEF IsDocument, HasPlayers, WithSeat, Reg!Words!ReconnectPlayer,
       Reg!Words!Reconnected, Reg!Words!WithPlayer, Reg!Words!Seated
<1>4. SamePlayers(m, Reg!Words!Played(m, p, seq, move))
  BY DEF IsDocument, SamePlayers, HasPlayers, Reg!Words!Played, Reg!Words!Game!Played,
       Reg!Words!Game!Heard, Reg!Words!Game!Answered, Reg!Words!Game!RoundCompleted
<1> QED
  BY <1>1, <1>2, <1>3, <1>4, SeatOfJoiner

\* The adapter of airline-trivia-teams seats its host, and those that join or reconnect.
LEMMA TriviaKeepsSeats ==
  ASSUME NEW m, IsDocument(m), NEW p \in Player, NEW seq, NEW move
  PROVE  /\ BeginsWith(Reg!Trivia!Created(p), p)
         /\ Seats(m, Reg!Trivia!JoinMatch(m, p), p)
         /\ Seats(m, Reg!Trivia!ReconnectPlayer(m, p), p)
         /\ SamePlayers(m, Reg!Trivia!Played(m, p, seq, move))
<1>1. BeginsWith(Reg!Trivia!Created(p), p)
  BY DEF BeginsWith, HasPlayers, Reg!Trivia!Created, Reg!Trivia!Game!Created
<1>2. HasPlayers(Reg!Trivia!JoinMatch(m, p), WithSeat(m.players, p))
  BY DEF IsDocument, HasPlayers, WithSeat, Reg!Trivia!JoinMatch, Reg!Trivia!Seated
<1>3. HasPlayers(Reg!Trivia!ReconnectPlayer(m, p), WithSeat(m.players, p))
  BY DEF IsDocument, HasPlayers, WithSeat, Reg!Trivia!ReconnectPlayer,
       Reg!Trivia!WithPlayer, Reg!Trivia!Seated
<1>4. SamePlayers(m, Reg!Trivia!Played(m, p, seq, move))
  BY DEF IsDocument, SamePlayers, HasPlayers, Reg!Trivia!Played, Reg!Trivia!Game!Played,
       Reg!Trivia!Game!Heard, Reg!Trivia!Game!Answered, Reg!Trivia!Game!RoundCompleted
<1> QED
  BY <1>1, <1>2, <1>3, <1>4, SeatOfJoiner

\* The adapter of skyline-defense-lite seats its host, and those that join or reconnect.
LEMMA SkylineKeepsSeats ==
  ASSUME NEW m, IsDocument(m), NEW p \in Player, NEW seq, NEW move
  PROVE  /\ BeginsWith(Reg!Skyline!Created(p), p)
         /\ Seats(m, Reg!Skyline!JoinMatch(m, p), p)
         /\ Seats(m, Reg!Skyline!ReconnectPlayer(m, p), p)
         /\ SamePlayers(m, Reg!Skyline!Played(m, p, seq, move))
<1>1. BeginsWith(Reg!Skyline!Created(p), p)
  BY DEF BeginsWith, HasPlayers, Reg!Skyline!Created
<1>2. HasPlayers(Reg!Skyline!JoinMatch(m, p), WithSeat(m.players, p))
  BY DEF IsDocument, HasPlayers, WithSeat, Reg!Skyline!JoinMatch, Reg!Skyline!Joined,
       Reg!Skyline!WithBadge, Reg!Skyline!Seated
<1>3. HasPlayers(Reg!Skyline!ReconnectPlayer(m, p), WithSeat(m.players, p))
  BY DEF IsDocument, HasPlayers, WithSeat, Reg!Skyline!ReconnectPlayer,
       Reg!Skyline!Reconnected, Reg!Skyline!WithBadge, Reg!Skyline!WithPlayer,
       Reg!Skyline!Seated
<1>4. SamePlayers(m, Reg!Skyline!Played(m, p, seq, move))
  BY DEF IsDocument, SamePlayers, HasPlayers, Reg!Skyline!Played, Reg!Skyline!Heard,
       Reg!Skyline!Deployed
<1> QED
  BY <1>1, <1>2, <1>3, <1>4, SeatOfJoiner

\* The adapter of seat-map-strategy seats its host, and those that join or reconnect.
LEMMA SeatMapKeepsSeats ==
  ASSUME NEW m, IsDocument(m), NEW p \in Player, NEW seq, NEW move
  PROVE  /\ BeginsWith(Reg!Seats!Created(p), p)
         /\ Seats(m, Reg!Seats!JoinMatch(m, p), p)
         /\ Seats(m, Reg!Seats!ReconnectPlayer(m, p), p)
         /\ SamePlayers(m, Reg!Seats!Played(m, p, seq, move))
<1>1. BeginsWith(Reg!Seats!Created(p), p)
  BY DEF BeginsWith, HasPlayers, Reg!Seats!Created
<1>2. HasPlayers(Reg!Seats!JoinMatch(m, p), WithSeat(m.players, p))
  BY DEF IsDocument, HasPlayers, WithSeat, Reg!Seats!JoinMatch, Reg!Seats!Joined,
       Reg!Seats!WithMark, Reg!Seats!Seated
<1>3. HasPlayers(Reg!Seats!ReconnectPlayer(m, p), WithSeat(m.players, p))
  BY DEF IsDocument, HasPlayers, WithSeat, Reg!Seats!ReconnectPlayer,
       Reg!Seats!Reconnected, Reg!Seats!WithMark, Reg!Seats!WithPlayer,
       Reg!Seats!Seated
<1>4. SamePlayers(m, Reg!Seats!Played(m, p, seq, move))
  BY DEF IsDocument, SamePlayers, HasPlayers, Reg!Seats!Played, Reg!Seats!Heard,
       Reg!Seats!Claimed
<1> QED
  BY <1>1, <1>2, <1>3, <1>4, SeatOfJoiner

\* The adapter of route-builder-duel seats its host, and those that join or reconnect.
LEMMA RoutesKeepsSeats ==
  ASSUME NEW m, IsDocument(m), NEW p \in Player, NEW seq, NEW move
  PROVE  /\ BeginsWith(Reg!Routes!Created(p), p)
         /\ Seats(m, Reg!Routes!JoinMatch(m, p), p)
         /\ Seats(m, Reg!Routes!ReconnectPlayer(m, p), p)
         /\ SamePlayers(m, Reg!Routes!Played(m, p, seq, move))
<1>1. BeginsWith(Reg!Routes!Created(p), p)
  BY DEF BeginsWith, HasPlayers, Reg!Routes!Created
<1>2. HasPlayers(Reg!Routes!JoinMatch(m, p), WithSeat(m.players, p))
  BY DEF IsDocument, HasPlayers, WithSeat, Reg!Routes!JoinMatch, Reg!Routes!Joined,
       Reg!Routes!WithMark, Reg!Routes!Seated
<1>3. HasPlayers(Reg!Routes!ReconnectPlayer(m, p), WithSeat(m.players, p))
  BY DEF IsDocument, HasPlayers, WithSeat, Reg!Routes!ReconnectPlayer,
       Reg!Routes!Reconnected, Reg!Routes!WithMark, Reg!Routes!WithPlayer,
       Reg!Routes!Seated
<1>4. SamePlayers(m, Reg!Routes!Played(m, p, seq, move))
  BY DEF IsDocument, SamePlayers, HasPlayers, Reg!Routes!Played, Reg!Routes!Heard,
       Reg!Routes!Selected
<1> QED
  BY <1>1, <1>2, <1>3, <1>4, SeatOfJoiner

\* The adapter of mini-gomoku seats its host, and those that join or reconnect.
LEMMA GomokuKeepsSeats ==
  ASSUME NEW m, IsDocument(m), NEW p \in Player, NEW seq, NEW move
  PROVE  /\ BeginsWith(Reg!Gomoku!Created(p), p)
         /\ Seats(m, Reg!Gomoku!JoinMatch(m, p), p)
         /\ Seats(m, Reg!Gomoku!ReconnectPlayer(m, p), p)
         /\ SamePlayers(m, Reg!Gomoku!Played(m, p, seq, move))
<1>1. BeginsWith(Reg!Gomoku!Created(p), p)
  BY DEF BeginsWith, HasPlayers, Reg!Gomoku!Created
<1>2. HasPlayers(Reg!Gomoku!JoinMatch(m, p), WithSeat(m.players, p))
  BY DEF IsDocument, HasPlayers, WithSeat, Reg!Gomoku!JoinMatch, Reg!Gomoku!Joined,
       Reg!Gomoku!WithMark, Reg!Gomoku!Seated
<1>3. HasPlayers(Reg!Gomoku!ReconnectPlayer(m, p), WithSeat(m.players, p))
  BY DEF IsDocument, HasPlayers, WithSeat, Reg!Gomoku!ReconnectPlayer,
       Reg!Gomoku!Reconnected, Reg!Gomoku!WithMark, Reg!Gomoku!WithPlayer,
       Reg!Gomoku!Seated
<1>4. SamePlayers(m, Reg!Gomoku!Played(m, p, seq, move))
  BY DEF IsDocument, SamePlayers, HasPlayers, Reg!Gomoku!Played, Reg!Gomoku!Heard,
       Reg!Gomoku!Placed
<1> QED
  BY <1>1, <1>2, <1>3, <1>4, SeatOfJoiner

\* The adapter of crew-coordination seats its host, and those that join or reconnect.
LEMMA CrewKeepsSeats ==
  ASSUME NEW m, IsDocument(m), NEW p \in Player, NEW seq, NEW move
  PROVE  /\ BeginsWith(Reg!Crew!Created(p), p)
         /\ Seats(m, Reg!Crew!JoinMatch(m, p), p)
         /\ Seats(m, Reg!Crew!ReconnectPlayer(m, p), p)
         /\ SamePlayers(m, Reg!Crew!Played(m, p, seq, move))
<1>1. BeginsWith(Reg!Crew!Created(p), p)
  BY DEF BeginsWith, HasPlayers, Reg!Crew!Created
<1>2. HasPlayers(Reg!Crew!JoinMatch(m, p), WithSeat(m.players, p))
  BY DEF IsDocument, HasPlayers, WithSeat, Reg!Crew!JoinMatch, Reg!Crew!Joined,
       Reg!Crew!WithRole, Reg!Crew!Seated
<1>3. HasPlayers(Reg!Crew!ReconnectPlayer(m, p), WithSeat(m.players, p))
  BY DEF IsDocument, HasPlayers, WithSeat, Reg!Crew!ReconnectPlayer,
       Reg!Crew!Reconnected, Reg!Crew!WithRole, Reg!Crew!WithPlayer, Reg!Crew!Seated
<1>4. SamePlayers(m, Reg!Crew!Played(m, p, seq, move))
  BY DEF IsDocument, SamePlayers, HasPlayers, Reg!Crew!Played, Reg!Crew!Heard,
       Reg!Crew!TaskClaimed, Reg!Crew!MissionEnded
<1> QED
  BY <1>1, <1>2, <1>3, <1>4, SeatOfJoiner

\* The adapter of cabin-card-clash seats its host, and those that join or reconnect.
LEMMA CardsKeepsSeats ==
  ASSUME NEW m, IsDocument(m), NEW p \in Player, NEW seq, NEW move
  PROVE  /\ BeginsWith(Reg!Cards!Created(p), p)
         /\ Seats(m, Reg!Cards!JoinMatch(m, p), p)
         /\ Seats(m, Reg!Cards!ReconnectPlayer(m, p), p)
         /\ SamePlayers(m, Reg!Cards!Played(m, p, seq, move))
<1>1. BeginsWith(Reg!Cards!Created(p), p)
  BY DEF BeginsWith, HasPlayers, Reg!Cards!Created
<1>2. HasPlayers(Reg!Cards!JoinMatch(m, p), WithSeat(m.players, p))
  BY DEF IsDocument, HasPlayers, WithSeat, Reg!Cards!JoinMatch, Reg!Cards!Seated
<1>3. HasPlayers(Reg!Cards!ReconnectPlayer(m, p), WithSeat(m.players, p))
  BY DEF IsDocument, HasPlayers, WithSeat, Reg!Cards!ReconnectPlayer,
       Reg!Cards!WithPlayer, Reg!Cards!Seated
<1>4. SamePlayers(m, Reg!Cards!Played(m, p, seq, move))
  BY DEF IsDocument, SamePlayers, HasPlayers, Reg!Cards!Played, Reg!Cards!Heard,
       Reg!Cards!CardPlayed, Reg!Cards!RoundResolved
<1> QED
  BY <1>1, <1>2, <1>3, <1>4, SeatOfJoiner

\* The adapter of baggage-sort-showdown seats its host, and those that join or reconnect.
LEMMA BagsKeepsSeats ==
  ASSUME NEW m, IsDocument(m), NEW p \in Player, NEW seq, NEW move
  PROVE  /\ BeginsWith(Reg!Bags!Created(p), p)
         /\ Seats(m, Reg!Bags!JoinMatch(m, p), p)
         /\ Seats(m, Reg!Bags!ReconnectPlayer(m, p), p)
         /\ SamePlayers(m, Reg!Bags!Played(m, p, seq, move))
<1>1. BeginsWith(Reg!Bags!Created(p), p)
  BY DEF BeginsWith, HasPlayers, Reg!Bags!Created
<1>2. HasPlayers(Reg!Bags!JoinMatch(m, p), WithSeat(m.players, p))
  BY DEF IsDocument, HasPlayers, WithSeat, Reg!Bags!JoinMatch, Reg!Bags!Joined,
       Reg!Bags!Seated
<1>3. HasPlayers(Reg!Bags!ReconnectPlayer(m, p), WithSeat(m.players, p))
  BY DEF IsDocument, HasPlayers, WithSeat, Reg!Bags!ReconnectPlayer,
       Reg!Bags!Reconnected, Reg!Bags!WithPlayer, Reg!Bags!Seated
<1>4. SamePlayers(m, Reg!Bags!Played(m, p, seq, move))
  BY DEF IsDocument, SamePlayers, HasPlayers, Reg!Bags!Played, Reg!Bags!Heard,
       Reg!Bags!Sorted, Reg!Bags!Missorted, Reg!Bags!Settled
<1> QED
  BY <1>1, <1>2, <1>3, <1>4, SeatOfJoiner

\* The adapter of memory-match-duel seats its host, and those that join or reconnect.
LEMMA MemoryKeepsSeats ==
  ASSUME NEW m, IsDocument(m), NEW p \in Player, NEW seq, NEW move
  PROVE  /\ BeginsWith(Reg!Memory!Created(p), p)
         /\ Seats(m, Reg!Memory!JoinMatch(m, p), p)
         /\ Seats(m, Reg!Memory!ReconnectPlayer(m, p), p)
         /\ SamePlayers(m, Reg!Memory!Played(m, p, seq, move))
<1>1. BeginsWith(Reg!Memory!Created(p), p)
  BY DEF BeginsWith, HasPlayers, Reg!Memory!Created
<1>2. HasPlayers(Reg!Memory!JoinMatch(m, p), WithSeat(m.players, p))
  BY DEF IsDocument, HasPlayers, WithSeat, Reg!Memory!JoinMatch, Reg!Memory!Joined,
       Reg!Memory!Bumped, Reg!Memory!Seated
<1>3. HasPlayers(Reg!Memory!ReconnectPlayer(m, p), WithSeat(m.players, p))
  BY DEF IsDocument, HasPlayers, WithSeat, Reg!Memory!ReconnectPlayer,
       Reg!Memory!Reconnected, Reg!Memory!Bumped, Reg!Memory!WithPlayer,
       Reg!Memory!Seated
<1>4. SamePlayers(m, Reg!Memory!Played(m, p, seq, move))
  BY DEF IsDocument, SamePlayers, HasPlayers, Reg!Memory!Played, Reg!Memory!Heard,
       Reg!Memory!Bumped, Reg!Memory!Flipped, Reg!Memory!TurnResolved
<1> QED
  BY <1>1, <1>2, <1>3, <1>4, SeatOfJoiner

\* The adapter of puzzle-race-grid seats its host, and those that join or reconnect.
LEMMA GridKeepsSeats ==
  ASSUME NEW m, IsDocument(m), NEW p \in Player, NEW seq, NEW move
  PROVE  /\ BeginsWith(Reg!Grid!Created(p), p)
         /\ Seats(m, Reg!Grid!JoinMatch(m, p), p)
         /\ Seats(m, Reg!Grid!ReconnectPlayer(m, p), p)
         /\ SamePlayers(m, Reg!Grid!Played(m, p, seq, move))
<1>1. BeginsWith(Reg!Grid!Created(p), p)
  BY DEF BeginsWith, HasPlayers, Reg!Grid!Created
<1>2. HasPlayers(Reg!Grid!JoinMatch(m, p), WithSeat(m.players, p))
  BY DEF IsDocument, HasPlayers, WithSeat, Reg!Grid!JoinMatch, Reg!Grid!Joined,
       Reg!Grid!Seated
<1>3. HasPlayers(Reg!Grid!ReconnectPlayer(m, p), WithSeat(m.players, p))
  BY DEF IsDocument, HasPlayers, WithSeat, Reg!Grid!ReconnectPlayer,
       Reg!Grid!Reconnected, Reg!Grid!WithPlayer, Reg!Grid!Seated
<1>4. SamePlayers(m, Reg!Grid!Played(m, p, seq, move))
  BY DEF IsDocument, SamePlayers, HasPlayers, Reg!Grid!Played, Reg!Grid!Heard,
       Reg!Grid!Taken
<1> QED
  BY <1>1, <1>2, <1>3, <1>4, SeatOfJoiner

\* The adapter of signal-scramble seats its host, and those that join or reconnect.
LEMMA SignalsKeepsSeats ==
  ASSUME NEW m, IsDocument(m), NEW p \in Player, NEW seq, NEW move
  PROVE  /\ BeginsWith(Reg!Signals!Created(p), p)
         /\ Seats(m, Reg!Signals!JoinMatch(m, p), p)
         /\ Seats(m, Reg!Signals!ReconnectPlayer(m, p), p)
         /\ SamePlayers(m, Reg!Signals!Played(m, p, seq, move))
<1>1. BeginsWith(Reg!Signals!Created(p), p)
  BY DEF BeginsWith, HasPlayers, Reg!Signals!Created
<1>2. HasPlayers(Reg!Signals!JoinMatch(m, p), WithSeat(m.players, p))
  BY DEF IsDocument, HasPlayers, WithSeat, Reg!Signals!JoinMatch, Reg!Signals!Joined,
       Reg!Signals!Seated
<1>3. HasPlayers(Reg!Signals!ReconnectPlayer(m, p), WithSeat(m.players, p))
  BY DEF IsDocument, HasPlayers, WithSeat, Reg!Signals!ReconnectPlayer,
       Reg!Signals!Reconnected, Reg!Signals!WithPlayer, Reg!Signals!Seated
<1>4. SamePlayers(m, Reg!Signals!Played(m, p, seq, move))
  BY DEF IsDocument, SamePlayers, HasPlayers, Reg!Signals!Played, Reg!Signals!Heard,
       Reg!Signals!Activated
<1> QED
  BY <1>1, <1>2, <1>3, <1>4, SeatOfJoiner

\* The adapter of spot-the-difference-race seats its host, and those that join or reconnect.
LEMMA SpottingKeepsSeats ==
  ASSUME NEW m, IsDocument(m), NEW p \in Player, NEW seq, NEW move
  PROVE  /\ BeginsWith(Reg!Spotting!Created(p), p)
         /\ Seats(m, Reg!Spotting!JoinMatch(m, p), p)
         /\ Seats(m, Reg!Spotting!ReconnectPlayer(m, p), p)
         /\ SamePlayers(m, Reg!Spotting!Played(m, p, seq, move))
<1>1. BeginsWith(Reg!Spotting!Created(p), p)
  BY DEF BeginsWith, HasPlayers, Reg!Spotting!Created
<1>2. HasPlayers(Reg!Spotting!JoinMatch(m, p), WithSeat(m.players, p))
  BY DEF IsDocument, HasPlayers, WithSeat, Reg!Spotting!JoinMatch, Reg!Spotting!Joined,
       Reg!Spotting!Seated
<1>3. HasPlayers(Reg!Spotting!ReconnectPlayer(m, p), WithSeat(m.players, p))
  BY DEF IsDocument, HasPlayers, WithSeat, Reg!Spotting!ReconnectPlayer,
       Reg!Spotting!Reconnected, Reg!Spotting!WithPlayer, Reg!Spotting!Seated
<1>4. SamePlayers(m, Reg!Spotting!Played(m, p, seq, move))
  BY DEF IsDocument, SamePlayers, HasPlayers, Reg!Spotting!Played, Reg!Spotting!Heard,
       Reg!Spotting!Claimed, Reg!Spotting!Completed, Reg!Spotting!CompletedIfFinished,
       Reg!Spotting!CompletedIfExpired
<1> QED
  BY <1>1, <1>2, <1>3, <1>4, SeatOfJoiner

\* The adapter of tap-beat-battle seats its host, and those that join or reconnect.
LEMMA BeatsKeepsSeats ==
  ASSUME NEW m, IsDocument(m), NEW p \in Player, NEW seq, NEW move
  PROVE  /\ BeginsWith(Reg!Beats!Created(p), p)
         /\ Seats(m, Reg!Beats!JoinMatch(m, p), p)
         /\ Seats(m, Reg!Beats!ReconnectPlayer(m, p), p)
         /\ SamePlayers(m, Reg!Beats!Played(m, p, seq, move))
<1>1. BeginsWith(Reg!Beats!Created(p), p)
  BY DEF BeginsWith, HasPlayers, Reg!Beats!Created
<1>2. HasPlayers(Reg!Beats!JoinMatch(m, p), WithSeat(m.players, p))
  BY DEF IsDocument, HasPlayers, WithSeat, Reg!Beats!JoinMatch, Reg!Beats!Joined,
       Reg!Beats!Seated
<1>3. HasPlayers(Reg!Beats!ReconnectPlayer(m, p), WithSeat(m.players, p))
  BY DEF IsDocument, HasPlayers, WithSeat, Reg!Beats!ReconnectPlayer,
       Reg!Beats!Reconnected, Reg!Beats!WithPlayer, Reg!Beats!Seated
<1>4. SamePlayers(m, Reg!Beats!Played(m, p, seq, move))
  BY DEF IsDocument, SamePlayers, HasPlayers, Reg!Beats!Played, Reg!Beats!Heard,
       Reg!Beats!Tapped, Reg!Beats!RoundCompleted
<1> QED
  BY <1>1, <1>2, <1>3, <1>4, SeatOfJoiner

\* Whichever game's adapter the registry gives treats players as it should.
LEMMA RegistryKeepsSeats ==
  ASSUME NEW g \in Reg!GameId, NEW m, IsDocument(m), NEW p \in Player, NEW seq, NEW move
  PROVE  /\ BeginsWith(Reg!AdapterCreate(g, p), p)
         /\ Seats(m, Reg!AdapterJoin(g, m, p), p)
         /\ Seats(m, Reg!AdapterReconnect(g, m, p), p)
         /\ SamePlayers(m, Reg!AdapterAction(g, m, p, seq, move))
<1> USE DEF Reg!AdapterCreate, Reg!AdapterJoin, Reg!AdapterReconnect, Reg!AdapterAction
<1>1. CASE g = "quiz-duel"
  BY <1>1, QuizKeepsSeats
<1>2. CASE g = "word-rally"
  BY <1>2, WordsKeepsSeats
<1>3. CASE g = "airline-trivia-teams"
  BY <1>3, TriviaKeepsSeats
<1>4. CASE g = "skyline-defense-lite"
  BY <1>4, SkylineKeepsSeats
<1>5. CASE g = "seat-map-strategy"
  BY <1>5, SeatMapKeepsSeats
<1>6. CASE g = "route-builder-duel"
  BY <1>6, RoutesKeepsSeats
<1>7. CASE g = "mini-gomoku"
  BY <1>7, GomokuKeepsSeats
<1>8. CASE g = "crew-coordination"
  BY <1>8, CrewKeepsSeats
<1>9. CASE g = "cabin-card-clash"
  BY <1>9, CardsKeepsSeats
<1>10. CASE g = "baggage-sort-showdown"
  BY <1>10, BagsKeepsSeats
<1>11. CASE g = "memory-match-duel"
  BY <1>11, MemoryKeepsSeats
<1>12. CASE g = "puzzle-race-grid"
  BY <1>12, GridKeepsSeats
<1>13. CASE g = "signal-scramble"
  BY <1>13, SignalsKeepsSeats
<1>14. CASE g = "spot-the-difference-race"
  BY <1>14, SpottingKeepsSeats
<1>15. CASE g = "tap-beat-battle"
  BY <1>15, BeatsKeepsSeats
<1> HIDE DEF Reg!AdapterCreate, Reg!AdapterJoin, Reg!AdapterReconnect, Reg!AdapterAction
<1> QED
  BY <1>1, <1>2, <1>3, <1>4, <1>5, <1>6, <1>7, <1>8,
     <1>9, <1>10, <1>11, <1>12, <1>13, <1>14, <1>15 DEF Reg!GameId

\* The deadline of a match, and its end, leave the players where they are.
LEMMA DeadlineKeepsSeats ==
  ASSUME NEW g, NEW m, IsDocument(m)
  PROVE  SamePlayers(m, Reg!AdapterObserved(g, m)) /\ SamePlayers(m, Reg!AdapterElapsed(g, m))
BY DEF IsDocument, SamePlayers, HasPlayers, Reg!AdapterObserved, Reg!AdapterElapsed,
     Reg!Spotting!Observed, Reg!Spotting!CompletedIfExpired, Reg!Spotting!Completed,
     Reg!Spotting!DeadlinePasses

\* The runtime's adapters are those of the registry.
RegistryIsUsed ==
  /\ ~IsDocument(None)
  /\ \A s \in Setups : s.game \in Reg!GameId
  /\ \A g \in Reg!GameId, p \in Player : CreateMatch(g, p) = Reg!AdapterCreate(g, p)
  /\ \A g \in Reg!GameId, p \in Player : \A m :
       /\ JoinGame(g, m, p) = Reg!AdapterJoin(g, m, p)
       /\ RejoinGame(g, m, p) = Reg!AdapterReconnect(g, m, p)
       /\ \A seq, move : HandlePlayerAction(g, m, p, seq, move)
                            = Reg!AdapterAction(g, m, p, seq, move)
  /\ \A g \in Reg!GameId : \A m :
       /\ StateObserved(g, m) = Reg!AdapterObserved(g, m)
       /\ Elapsed(g, m) = Reg!AdapterElapsed(g, m)

\* The registry's adapters are of the kind the runtime relies on.
LEMMA RegistryIsFit ==
  ASSUME RegistryIsUsed
  PROVE  AdaptersKeepSeats
<1>1. ASSUME NEW s \in Setups, NEW p \in Player
      PROVE  BeginsWith(CreateMatch(s.game, p), p)
  <2>1. CreateMatch(s.game, p) = Reg!AdapterCreate(s.game, p) /\ s.game \in Reg!GameId
    BY DEF RegistryIsUsed
  <2> DEFINE m == [players |-> <<p>>]
  <2>2. IsDocument(m)
    BY DEF IsDocument
  <2> QED
    BY <2>1, <2>2, RegistryKeepsSeats
<1>2. ASSUME NEW s \in Setups, NEW p \in Player, NEW m, IsDocument(m)
      PROVE  /\ Seats(m, JoinGame(s.game, m, p), p)
             /\ Seats(m, RejoinGame(s.game, m, p), p)
             /\ \A seq, move : SamePlayers(m, HandlePlayerAction(s.game, m, p, seq, move))
  <2>1. s.game \in Reg!GameId
    BY DEF RegistryIsUsed
  <2>2. /\ JoinGame(s.game, m, p) = Reg!AdapterJoin(s.game, m, p)
        /\ RejoinGame(s.game, m, p) = Reg!AdapterReconnect(s.game, m, p)
        /\ \A seq, move : HandlePlayerAction(s.game, m, p, seq, move)
                             = Reg!AdapterAction(s.game, m, p, seq, move)
    BY <2>1 DEF RegistryIsUsed
  <2> QED
    BY <1>2, <2>1, <2>2, RegistryKeepsSeats
<1>3. ASSUME NEW s \in Setups, NEW m, IsDocument(m)
      PROVE  SamePlayers(m, StateObserved(s.game, m)) /\ SamePlayers(m, Elapsed(s.game, m))
  <2>1. /\ StateObserved(s.game, m) = Reg!AdapterObserved(s.game, m)
        /\ Elapsed(s.game, m) = Reg!AdapterElapsed(s.game, m)
    BY DEF RegistryIsUsed
  <2> QED
    BY <1>3, <2>1, DeadlineKeepsSeats
<1> QED
  BY <1>1, <1>2, <1>3 DEF AdaptersKeepSeats, RegistryIsUsed

\* Whichever of the platform's 15 multiplayer games is played, on boards of any size and
\* by any passengers: with the memory driver everybody who is in a room whose match the
\* runtime has set up is seated in that match once the handlers are through.
THEOREM PlayersOfTheGamesAreSeated ==
  ASSUME RegistryIsUsed
  PROVE  Spec => []MembersAreSeated
BY RegistryIsFit, EverybodyIsSeated
-----------------------------------------------------------------------------
(* Types.  The stored match and what handlers hold are documents of the    *)
(* game, with either driver and whatever is lost on the way.               *)

\* In the games of a board, the match is over when nothing is left on it: what the
\* numbers of a document need to stay in their ranges.
Fit(g, m) ==
  /\ g = "skyline-defense-lite" => (m.isCompleted <=> m.availableNodeCount = 0)
  /\ g = "seat-map-strategy" => (m.isCompleted <=> m.availableSeatCount = 0)
  /\ g = "route-builder-duel" => (m.isCompleted <=> m.availableLegCount = 0)
  /\ g = "memory-match-duel" => (m.isCompleted <=> m.matchedPairCount = TotalPairs)

Documents(g) == {m \in MatchDoc(g) : Fit(g, m)}

\* What the runtime gives to an adapter: a passenger, a number and a payload that parses.
TaskTyped(task) ==
  /\ task.kind \in TaskKind
  /\ task.kind \in {"create", "join", "reconnect", "play"} => task.who \in Player
  /\ task.kind = "play" => task.seq \in Nat /\ task.move \in LegalMoves(game)

TodoTyped(t) == Listed(t) /\ \A i \in DOMAIN t : TaskTyped(t[i])

SlotsTyped ==
  /\ DOMAIN slots = Slot
  /\ \A s \in Slot : /\ TodoTyped(slots[s].todo)
                     /\ slots[s] = [todo |-> slots[s].todo, held |-> slots[s].held]
                     /\ slots[s].todo = <<>> => slots[s].held = None
                     /\ slots[s].held = None \/ slots[s].held \in Documents(game)

PageTyped(page) ==
  /\ page = Page(page.status, page.seq, page.view)
  /\ page.status \in {"closed", "open", "away"}
  /\ page.seq \in 0..SeqLimit(setup)

TypesInv ==
  /\ setup \in Setups
  /\ room = None \/ room \in RoomDoc
  /\ match = None \/ match \in Documents(game)
  /\ initialized \in BOOLEAN
  /\ SlotsTyped
  /\ DOMAIN pages = Player /\ \A p \in Player : PageTyped(pages[p])
  /\ faults \in 0..FaultLimit(setup)

\* What adapters make of documents are documents, and pages offer payloads that parse.
AdaptersKeepTypes ==
  \A s \in Setups :
    LET g == s.game
    IN /\ \A p \in Player : CreateMatch(g, p) \in Documents(g)
       /\ \A m \in Documents(g) :
            /\ StateObserved(g, m) \in Documents(g) /\ Elapsed(g, m) \in Documents(g)
            /\ \A p \in Player :
                 /\ JoinGame(g, m, p) \in Documents(g) /\ RejoinGame(g, m, p) \in Documents(g)
                 /\ \A seq \in Nat, move \in LegalMoves(g) :
                      HandlePlayerAction(g, m, p, seq, move) \in Documents(g)
       /\ \A v, players, p : OfferedMoves(g, v, players, p) \subseteq LegalMoves(g)

\* The bounds of a setup.
LEMMA Bounds ==
  ASSUME setup \in Setups
  PROVE  SeqLimit(setup) \in Nat /\ FaultLimit(setup) \in Nat
BY RuntimeAssumption

\* One task that has its type.
LEMMA TypedTask ==
  ASSUME NEW x, TaskTyped(x)
  PROVE  TodoTyped(<<x>>)
BY OneTask DEF TodoTyped

\* Two lists of tasks that have their types.
LEMMA TypedLists ==
  ASSUME NEW t, TodoTyped(t), NEW u, TodoTyped(u)
  PROVE  TodoTyped(t \o u)
<1> DEFINE v == t \o u
<1>1. Listed(t) /\ Listed(u)
  BY DEF TodoTyped
<1>2. \A i \in DOMAIN v : \/ i \in DOMAIN t /\ v[i] = t[i]
                          \/ i - Len(t) \in DOMAIN u /\ v[i] = u[i - Len(t)]
  BY <1>1, TwoLists
<1>3. Listed(v)
  BY <1>1, TwoLists
<1> HIDE DEF v
<1>4. TodoTyped(v)
  BY <1>2, <1>3 DEF TodoTyped
<1> QED
  BY <1>4 DEF v

\* The rest of a list, and its first task.
LEMMA TypedRest ==
  ASSUME NEW t, TodoTyped(t), t # <<>>
  PROVE  TodoTyped(Tail(t)) /\ TaskTyped(Head(t))
BY RestOfList DEF TodoTyped

\* The lists that begin have their types.
LEMMA TypedBeginnings ==
  /\ TodoTyped(<<>>)
  /\ \A p \in Player : /\ TodoTyped(Create(p)) /\ TodoTyped(Create(p) \o Mark)
                       /\ TodoTyped(Join(p) \o Mark) /\ TodoTyped(Rejoin(p) \o Mark)
  /\ TodoTyped(Mark) /\ TodoTyped(Finish \o Unmark)
  /\ \A p : TodoTyped(Ensure \o SendTo(p))
  /\ \A p \in Player, seq \in Nat, move \in LegalMoves(game) :
       TodoTyped(Ensure \o Play(p, seq, move) \o SendTo(None))
<1>0. TodoTyped(<<>>)
  BY NoTask DEF TodoTyped
<1>1. ASSUME NEW p \in Player, NEW kind \in {"create", "join", "reconnect"}
      PROVE  TodoTyped(<<Task(kind, p)>>)
  BY TypedTask, TaskFacts DEF TaskTyped, TaskKind
<1>2. ASSUME NEW p, NEW kind \in {"finish", "mark", "unmark", "skip", "seed", "send"}
      PROVE  TodoTyped(<<Task(kind, p)>>)
  BY TypedTask, TaskFacts DEF TaskTyped, TaskKind
<1>3. /\ TodoTyped(Mark) /\ TodoTyped(Finish) /\ TodoTyped(Unmark)
      /\ TodoTyped(Ensure) /\ \A p : TodoTyped(SendTo(p))
  BY <1>0, <1>2 DEF Mark, Finish, Unmark, Ensure, SendTo
<1>4. \A p \in Player : TodoTyped(Create(p)) /\ TodoTyped(Join(p)) /\ TodoTyped(Rejoin(p))
  BY <1>1 DEF Create, Join, Rejoin
<1>5. \A p \in Player, seq \in Nat, move \in LegalMoves(game) : TodoTyped(Play(p, seq, move))
  BY TypedTask DEF Play, TaskTyped, TaskKind
<1> QED
  BY <1>0, <1>3, <1>4, <1>5, TypedLists

\* ensureRoomInitialized's tasks have their types.
LEMMA TypedSeating ==
  ASSUME room \in RoomDoc
  PROVE  TodoTyped(Seating)
<1> DEFINE L == [i \in DOMAIN room.players |->
                   Task(IF room.players[i] = room.host THEN "skip" ELSE "join", room.players[i])]
<1>1. /\ Len(room.players) \in Nat /\ DOMAIN room.players = 1..Len(room.players)
      /\ \A i \in DOMAIN room.players : room.players[i] \in Player
      /\ room.host \in Player
  BY LenProperties, ElementOfSeq DEF RoomDoc
<1>2. Listed(L)
  <2> DEFINE S == {L[i] : i \in DOMAIN L}
  <2>1. L \in [1..Len(room.players) -> S]
    BY <1>1
  <2>2. L \in Seq(S)
    BY <1>1, <2>1, SeqDef
  <2> QED
    BY <2>2, ListOf
<1>3. \A i \in DOMAIN L : TaskTyped(L[i])
  BY <1>1, TaskFacts DEF TaskTyped, TaskKind
<1>4. Seating = Create(room.host) \o L \o Mark
  BY DEF Seating
<1> HIDE DEF L
<1>5. TodoTyped(L)
  BY <1>2, <1>3 DEF TodoTyped
<1> QED
  BY <1>1, <1>4, <1>5, TypedBeginnings, TypedLists

\* A handler begins.
LEMMA TypedStart ==
  ASSUME SlotsTyped, NEW t, TodoTyped(t), Start(t), setup' = setup
  PROVE  SlotsTyped'
<1> DEFINE new == [todo |-> t, held |-> None]
<1>1. \A s \in Slot : slots'[s] = slots[s] \/ slots'[s] = new
  BY DEF Start, SlotsTyped
<1>2. DOMAIN slots' = Slot
  BY DEF Start, SlotsTyped
<1>3. new.todo = t /\ new.held = None
  OBVIOUS
<1>4. game' = game
  BY DEF game
<1>5. TodoTyped(t)' /\ \A s \in Slot : TodoTyped(slots[s].todo) => TodoTyped(slots[s].todo)
  BY <1>4 DEF TodoTyped, TaskTyped
<1> HIDE DEF new
<1>6. ASSUME NEW s \in Slot
      PROVE  /\ Listed(slots'[s].todo)
             /\ \A i \in DOMAIN slots'[s].todo : TaskTyped(slots'[s].todo[i])
             /\ slots'[s] = [todo |-> slots'[s].todo, held |-> slots'[s].held]
             /\ slots'[s].todo = <<>> => slots'[s].held = None
             /\ slots'[s].held = None \/ slots'[s].held \in Documents(game)
  BY <1>1, <1>3 DEF SlotsTyped, TodoTyped, new
<1>7. \A x : TaskTyped(x) => TaskTyped(x)
  OBVIOUS
<1> QED
  BY <1>2, <1>4, <1>6 DEF SlotsTyped, TodoTyped, TaskTyped

\* A step of a handler, that leaves it the tasks t and what it read.
LEMMA TypedGoes ==
  ASSUME SlotsTyped, NEW s \in Slot, NEW t, TodoTyped(t), NEW held, Goes(s, t, held),
         t = <<>> => held = None, held = None \/ held \in Documents(game), setup' = setup
  PROVE  SlotsTyped'
<1> DEFINE new == [todo |-> t, held |-> held]
<1>1. \A r \in Slot : slots'[r] = slots[r] \/ slots'[r] = new
  BY DEF Goes, SlotsTyped
<1>2. DOMAIN slots' = Slot
  BY DEF Goes, SlotsTyped
<1>3. new.todo = t /\ new.held = held
  OBVIOUS
<1>4. game' = game
  BY DEF game
<1> HIDE DEF new
<1>5. ASSUME NEW r \in Slot
      PROVE  /\ Listed(slots'[r].todo)
             /\ \A i \in DOMAIN slots'[r].todo : TaskTyped(slots'[r].todo[i])
             /\ slots'[r] = [todo |-> slots'[r].todo, held |-> slots'[r].held]
             /\ slots'[r].todo = <<>> => slots'[r].held = None
             /\ slots'[r].held = None \/ slots'[r].held \in Documents(game)
  BY <1>1, <1>3 DEF SlotsTyped, TodoTyped, new
<1> QED
  BY <1>2, <1>4, <1>5 DEF SlotsTyped, TodoTyped, TaskTyped

\* No handler has changed, nor the setup.
LEMMA TypedSlotsStay ==
  ASSUME SlotsTyped, slots' = slots, setup' = setup
  PROVE  SlotsTyped'
BY DEF SlotsTyped, TodoTyped, TaskTyped, game

\* The pages have not changed.
LEMMA TypedPagesStay ==
  ASSUME TypesInv, pages' = pages, setup' = setup
  PROVE  DOMAIN pages' = Player /\ \A p \in Player : PageTyped(pages[p])'
BY DEF TypesInv, PageTyped

\* Nothing but the room and the handlers has changed.
LEMMA TypedEvent ==
  ASSUME TypesInv, SlotsTyped', room' = None \/ room' \in RoomDoc,
         faults' \in 0..FaultLimit(setup),
         UNCHANGED <<setup, match, initialized, pages>>
  PROVE  TypesInv'
<1>1. DOMAIN pages' = Player /\ \A p \in Player : PageTyped(pages[p])'
  BY TypedPagesStay
<1>2. game' = game
  BY DEF game
<1> QED
  BY <1>1, <1>2 DEF TypesInv

\* One thing more has gone wrong.
LEMMA FaultCounted ==
  ASSUME TypesInv, Fault
  PROVE  faults' \in 0..FaultLimit(setup)
BY Bounds DEF TypesInv, Fault

\* What happens to the room keeps the types.
LEMMA TypedRoomSteps ==
  ASSUME TypesInv
  PROVE  /\ \A p \in Player : CreateRoom(p) => TypesInv'
         /\ \A p \in Player : JoinRoom(p) => TypesInv'
         /\ \A p \in Player : LeaveRoom(p) => TypesInv'
         /\ DeleteRoom => TypesInv'
         /\ \A p \in Player : ReconnectRoom(p) => TypesInv'
<1>0. SlotsTyped /\ faults \in 0..FaultLimit(setup)
  BY DEF TypesInv
<1>1. ASSUME NEW p \in Player, CreateRoom(p) PROVE TypesInv'
  <2>1. room' \in RoomDoc
    BY <1>1 DEF CreateRoom, RoomDoc
  <2>2. SlotsTyped'
    BY <1>0, <1>1, TypedBeginnings, TypedStart DEF CreateRoom
  <2> QED
    BY <1>0, <1>1, <2>1, <2>2, TypedEvent DEF CreateRoom
<1>2. ASSUME NEW p \in Player, JoinRoom(p) PROVE TypesInv'
  <2>1. room \in RoomDoc /\ room' = [room EXCEPT !.players = Append(room.players, p)]
    BY <1>2 DEF JoinRoom, TypesInv
  <2>2. Append(room.players, p) \in Seq(Player)
    BY <2>1 DEF RoomDoc
  <2>3. room' \in RoomDoc
    BY <2>1, <2>2 DEF RoomDoc
  <2>4. SlotsTyped'
    BY <1>0, <1>2, TypedBeginnings, TypedStart DEF JoinRoom
  <2> QED
    BY <1>0, <1>2, <2>3, <2>4, TypedEvent DEF JoinRoom
<1>3. ASSUME NEW p \in Player, LeaveRoom(p) PROVE TypesInv'
  <2> DEFINE rest == Without(p)
  <2>1. room # None /\ room \in RoomDoc /\ p \in Members
    BY <1>3 DEF LeaveRoom, TypesInv, Members
  <2>2. rest \in Seq(Player) /\ room.host \in Player
    BY <2>1, OthersStay DEF RoomDoc
  <2>3. /\ room' = [host |-> IF rest = <<>> THEN room.host ELSE rest[1], players |-> rest]
        /\ Start(IF rest = <<>> THEN Finish \o Unmark ELSE <<>>)
        /\ UNCHANGED <<setup, match, initialized, pages>>
    BY <1>3 DEF LeaveRoom
  <2> HIDE DEF rest
  <2>4. rest # <<>> => rest[1] \in Player
    BY <2>2, EmptySeq, ElementOfSeq
  <2>5. room' \in RoomDoc
    BY <2>2, <2>3, <2>4 DEF RoomDoc
  <2>6. SlotsTyped'
    BY <1>0, <2>3, TypedBeginnings, TypedStart
  <2> QED
    BY <1>3, <2>3, <2>5, <2>6, FaultCounted, TypedEvent DEF LeaveRoom
<1>4. ASSUME DeleteRoom PROVE TypesInv'
  <2>1. SlotsTyped'
    BY <1>0, <1>4, TypedBeginnings, TypedStart DEF DeleteRoom
  <2> QED
    BY <1>0, <1>4, <2>1, TypedEvent DEF DeleteRoom
<1>5. ASSUME NEW p \in Player, ReconnectRoom(p) PROVE TypesInv'
  <2>1. SlotsTyped'
    BY <1>0, <1>5, TypedBeginnings, TypedStart DEF ReconnectRoom
  <2>2. room' = None \/ room' \in RoomDoc
    BY <1>5 DEF ReconnectRoom, TypesInv
  <2> QED
    BY <1>5, <2>1, <2>2, FaultCounted, TypedEvent DEF ReconnectRoom
<1> QED
  BY <1>1, <1>2, <1>3, <1>4, <1>5

\* Two handlers begin.
LEMMA TypedStartBoth ==
  ASSUME SlotsTyped, NEW t, TodoTyped(t), NEW u, TodoTyped(u), StartBoth(t, u), setup' = setup
  PROVE  SlotsTyped'
<1> DEFINE a == [todo |-> t, held |-> None]
           b == [todo |-> u, held |-> None]
<1>1. \A r \in Slot : slots'[r] = slots[r] \/ slots'[r] = a \/ slots'[r] = b
  BY DEF StartBoth, SlotsTyped
<1>2. DOMAIN slots' = Slot
  BY DEF StartBoth, SlotsTyped
<1>3. a.todo = t /\ a.held = None /\ b.todo = u /\ b.held = None
  OBVIOUS
<1>4. game' = game
  BY DEF game
<1> HIDE DEF a, b
<1>5. ASSUME NEW r \in Slot
      PROVE  /\ Listed(slots'[r].todo)
             /\ \A i \in DOMAIN slots'[r].todo : TaskTyped(slots'[r].todo[i])
             /\ slots'[r] = [todo |-> slots'[r].todo, held |-> slots'[r].held]
             /\ slots'[r].todo = <<>> => slots'[r].held = None
             /\ slots'[r].held = None \/ slots'[r].held \in Documents(game)
  BY <1>1, <1>3 DEF SlotsTyped, TodoTyped, a, b
<1> QED
  BY <1>2, <1>4, <1>5 DEF SlotsTyped, TodoTyped, TaskTyped

\* A page that has been given new parts.
LEMMA TypedPage ==
  ASSUME NEW status \in {"closed", "open", "away"}, NEW seq \in 0..SeqLimit(setup), NEW view
  PROVE  PageTyped(Page(status, seq, view))
BY DEF PageTyped, Page

\* What pages and other clients do keeps the types.
LEMMA TypedPageSteps ==
  ASSUME AdaptersKeepTypes, TypesInv
  PROVE  /\ \A p \in Player : OpenPage(p) => TypesInv'
         /\ \A p \in Player : ClosePage(p) => TypesInv'
         /\ \A p \in Player : PlayPage(p) => TypesInv'
         /\ \A p \in Player : PlayAny(p) => TypesInv'
         /\ \A p \in Player : RequestState(p) => TypesInv'
<1>0. /\ SlotsTyped /\ faults \in 0..FaultLimit(setup) /\ 0 \in 0..SeqLimit(setup)
      /\ DOMAIN pages = Player /\ \A p \in Player : PageTyped(pages[p])
      /\ room = None \/ room \in RoomDoc
  BY Bounds DEF TypesInv
<1>1. ASSUME NEW p \in Player, NEW page, PageTyped(page), pages' = [pages EXCEPT ![p] = page],
             SlotsTyped', faults' \in 0..FaultLimit(setup),
             UNCHANGED <<setup, room, match, initialized>>
      PROVE  TypesInv'
  <2>1. /\ DOMAIN pages' = Player
        /\ \A q \in Player : pages'[q] = pages[q] \/ pages'[q] = page
    BY <1>0, <1>1
  <2>2. \A q \in Player : PageTyped(pages'[q])
    BY <1>0, <1>1, <2>1
  <2>3. game' = game /\ \A q \in Player : PageTyped(pages[q])'
    BY <1>1, <2>2 DEF game, PageTyped
  <2> QED
    BY <1>1, <2>1, <2>3 DEF TypesInv
<1>2. ASSUME NEW p \in Player, OpenPage(p) PROVE TypesInv'
  <2>1. SlotsTyped'
    <3>1. TodoTyped(Ensure \o SendTo(p)) /\ TodoTyped(Rejoin(p) \o Mark)
      BY TypedBeginnings
    <3> QED
      BY <1>0, <1>2, <3>1, TypedStart, TypedStartBoth DEF OpenPage
  <2>2. PageTyped(Page("open", 0, None))
    BY <1>0, TypedPage
  <2>3. /\ pages' = [pages EXCEPT ![p] = Page("open", 0, None)]
        /\ UNCHANGED <<setup, room, match, initialized, faults>>
    BY <1>2 DEF OpenPage
  <2> QED
    BY <1>0, <1>1, <2>1, <2>2, <2>3
<1>3. ASSUME NEW p \in Player, ClosePage(p) PROVE TypesInv'
  <2>1. SlotsTyped'
    BY <1>0, <1>3, TypedSlotsStay DEF ClosePage
  <2>2. PageTyped(Page("away", 0, None))
    BY <1>0, TypedPage
  <2>3. /\ pages' = [pages EXCEPT ![p] = Page("away", 0, None)]
        /\ UNCHANGED <<setup, room, match, initialized>>
    BY <1>3 DEF ClosePage
  <2> QED
    BY <1>1, <1>3, <2>1, <2>2, <2>3, FaultCounted DEF ClosePage
<1>4. ASSUME NEW p \in Player, NEW seq, NEW move \in LegalMoves(game),
             GameEvent(p, seq, move), setup' = setup
      PROVE  SlotsTyped' /\ seq \in 0..SeqLimit(setup)
  <2>1. seq \in Nat /\ seq \in 0..SeqLimit(setup)
    BY <1>4, Bounds DEF GameEvent, TypesInv
  <2>2. TodoTyped(Ensure \o Play(p, seq, move) \o SendTo(None))
    BY <1>4, <2>1, TypedBeginnings
  <2> QED
    BY <1>0, <1>4, <2>1, <2>2, TypedStart DEF GameEvent
<1>5. ASSUME NEW p \in Player, PlayPage(p) PROVE TypesInv'
  <2>1. PICK move \in OfferedMoves(game, pages[p].view, SeatsShown, p) :
          GameEvent(p, pages[p].seq + 1, move)
    BY <1>5 DEF PlayPage
  <2>2. move \in LegalMoves(game)
    BY <2>1 DEF AdaptersKeepTypes, TypesInv, game
  <2>3. /\ pages' = [pages EXCEPT ![p].seq = pages[p].seq + 1]
        /\ UNCHANGED <<setup, room, match, initialized, faults>>
    BY <1>5 DEF PlayPage
  <2>4. SlotsTyped' /\ pages[p].seq + 1 \in 0..SeqLimit(setup)
    BY <1>4, <2>1, <2>2, <2>3
  <2>5. pages[p] = Page(pages[p].status, pages[p].seq, pages[p].view)
        /\ pages[p].status \in {"closed", "open", "away"}
    BY <1>0 DEF PageTyped
  <2>6. pages' = [pages EXCEPT ![p] =
                    Page(pages[p].status, pages[p].seq + 1, pages[p].view)]
    <3>1. \A a, b, v, n : [Page(a, b, v) EXCEPT !.seq = n] = Page(a, n, v)
      BY DEF Page
    <3>2. [pages[p] EXCEPT !.seq = pages[p].seq + 1]
            = Page(pages[p].status, pages[p].seq + 1, pages[p].view)
      BY <2>5, <3>1
    <3> QED
      BY <2>3, <3>2
  <2>7. PageTyped(Page(pages[p].status, pages[p].seq + 1, pages[p].view))
    BY <2>4, <2>5, TypedPage
  <2> QED
    BY <1>0, <1>1, <2>3, <2>4, <2>6, <2>7
<1>6. ASSUME NEW p \in Player, PlayAny(p) PROVE TypesInv'
  <2>1. PICK move \in LegalMoves(game), seq \in {LastSeq(p), LastSeq(p) + 1} :
          GameEvent(p, seq, move)
    BY <1>6 DEF PlayAny
  <2>2. UNCHANGED <<setup, room, match, initialized, pages, faults>>
    BY <1>6 DEF PlayAny
  <2>3. SlotsTyped'
    BY <1>4, <2>1, <2>2
  <2> QED
    BY <1>0, <2>2, <2>3, TypedEvent
<1>7. ASSUME NEW p \in Player, RequestState(p) PROVE TypesInv'
  <2>1. SlotsTyped'
    BY <1>0, <1>7, TypedBeginnings, TypedStart DEF RequestState
  <2> QED
    BY <1>0, <1>7, <2>1, TypedEvent DEF RequestState
<1> QED
  BY <1>2, <1>3, <1>5, <1>6, <1>7

\* Nothing but the match, the key and the handlers has changed.
LEMMA TypedWork ==
  ASSUME TypesInv, SlotsTyped', match' = None \/ match' \in Documents(game),
         initialized' \in BOOLEAN, UNCHANGED <<setup, room, pages, faults>>
  PROVE  TypesInv'
<1>1. DOMAIN pages' = Player /\ \A p \in Player : PageTyped(pages[p])'
  BY TypedPagesStay
<1>2. game' = game
  BY DEF game
<1> QED
  BY <1>1, <1>2 DEF TypesInv

\* What a handler has to do.
LEMMA TypedInHand ==
  ASSUME SlotsTyped, NEW s \in Slot, Running(s)
  PROVE  /\ slots[s].todo # <<>>
         /\ TodoTyped(Tail(slots[s].todo)) /\ TaskTyped(Current(s))
         /\ slots[s].held = None \/ slots[s].held \in Documents(game)
<1>1. slots[s].todo # <<>>
  BY DEF SlotsTyped, Running, Idle
<1> QED
  BY <1>1, TypedRest DEF SlotsTyped, Current

\* A document that an adapter changes is a document.
LEMMA TypedApplied ==
  ASSUME AdaptersKeepTypes, setup \in Setups, NEW task, TaskTyped(task), Reads(task),
         NEW m \in Documents(game)
  PROVE  Applied(task, m) \in Documents(game)
<1>1. \A p \in Player :
        /\ JoinGame(game, m, p) \in Documents(game) /\ RejoinGame(game, m, p) \in Documents(game)
        /\ \A seq \in Nat, move \in LegalMoves(game) :
             HandlePlayerAction(game, m, p, seq, move) \in Documents(game)
  BY DEF AdaptersKeepTypes, game
<1>2. StateObserved(game, m) \in Documents(game)
  BY DEF AdaptersKeepTypes, game
<1>3. CASE task.kind = "join"
  BY <1>1, <1>3 DEF Applied, TaskTyped
<1>4. CASE task.kind = "reconnect"
  BY <1>1, <1>4 DEF Applied, TaskTyped
<1>5. CASE task.kind = "play"
  <2>1. task.who \in Player /\ task.seq \in Nat /\ task.move \in LegalMoves(game)
    BY <1>5 DEF TaskTyped
  <2>2. Applied(task, m) = HandlePlayerAction(game, m, task.who, task.seq, task.move)
    BY <1>5 DEF Applied
  <2> QED
    BY <1>1, <2>1, <2>2
<1>6. CASE task.kind = "send"
  BY <1>2, <1>6 DEF Applied
<1> QED
  BY <1>3, <1>4, <1>5, <1>6 DEF Reads

\* What handlers do keeps the types.
LEMMA TypedTaskSteps ==
  ASSUME AdaptersKeepTypes, TypesInv, NEW s \in Slot
  PROVE  /\ CreateTask(s) => TypesInv'
         /\ FinishTask(s) => TypesInv'
         /\ KeyTask(s) => TypesInv'
         /\ SeedTask(s) => TypesInv'
         /\ ReadMatch(s) => TypesInv'
<1>0. SlotsTyped /\ (match = None \/ match \in Documents(game))
  BY DEF TypesInv
<1>1. ASSUME CreateTask(s) PROVE TypesInv'
  <2>1. /\ Running(s) /\ Current(s).kind = "create"
        /\ match' = CreateMatch(game, Current(s).who)
        /\ Goes(s, Tail(slots[s].todo), None)
        /\ UNCHANGED <<setup, room, initialized, pages, faults>>
    BY <1>1 DEF CreateTask, Done
  <2>2. TodoTyped(Tail(slots[s].todo)) /\ Current(s).who \in Player
    BY <2>1, TypedInHand DEF TypesInv, TaskTyped
  <2>3. match' \in Documents(game)
    BY <2>1, <2>2 DEF AdaptersKeepTypes, TypesInv, game
  <2>4. SlotsTyped'
    BY <2>1, <2>2, TypedGoes DEF TypesInv
  <2>5. initialized' \in BOOLEAN
    BY <2>1 DEF TypesInv
  <2> QED
    BY <2>1, <2>3, <2>4, <2>5, TypedWork
<1>2. ASSUME FinishTask(s) PROVE TypesInv'
  <2>1. /\ Running(s) /\ match' = None /\ Goes(s, Tail(slots[s].todo), None)
        /\ UNCHANGED <<setup, room, initialized, pages, faults>>
    BY <1>2 DEF FinishTask, Done
  <2>2. SlotsTyped'
    BY <2>1, TypedInHand, TypedGoes DEF TypesInv
  <2> QED
    BY <2>1, <2>2, TypedWork DEF TypesInv
<1>3. ASSUME KeyTask(s) PROVE TypesInv'
  <2>1. /\ Running(s) /\ Goes(s, Tail(slots[s].todo), None)
        /\ initialized' = IF Current(s).kind = "skip" THEN initialized
                          ELSE Current(s).kind = "mark"
        /\ UNCHANGED <<setup, room, match, pages, faults>>
    BY <1>3 DEF KeyTask, Done
  <2>2. SlotsTyped'
    BY <2>1, TypedInHand, TypedGoes DEF TypesInv
  <2>3. initialized' \in BOOLEAN
    BY <2>1 DEF TypesInv
  <2> QED
    BY <2>1, <2>2, <2>3, TypedWork DEF TypesInv
<1>4. ASSUME SeedTask(s) PROVE TypesInv'
  <2>1. /\ Running(s)
        /\ UNCHANGED <<setup, room, match, initialized, pages, faults>>
    BY <1>4 DEF SeedTask
  <2>2. SlotsTyped'
    <3>1. CASE room = None
      BY <1>4, <2>1, <3>1, TypedBeginnings, TypedGoes DEF SeedTask, Throws, TypesInv
    <3>2. CASE room # None
      <4>1. TodoTyped(Seating) /\ TodoTyped(Tail(slots[s].todo))
        BY <2>1, <3>2, TypedSeating, TypedInHand DEF TypesInv
      <4>2. TodoTyped(Seating \o Tail(slots[s].todo))
        BY <4>1, TypedLists
      <4>3. Goes(s, Seating \o Tail(slots[s].todo), None)
        BY <1>4, <3>2 DEF SeedTask
      <4> QED
        BY <2>1, <4>2, <4>3, TypedGoes DEF TypesInv
    <3> QED
      BY <3>1, <3>2
  <2> QED
    BY <2>1, <2>2, TypedWork DEF TypesInv
<1>5. ASSUME ReadMatch(s) PROVE TypesInv'
  <2>1. /\ Running(s)
        /\ UNCHANGED <<setup, room, match, initialized, pages, faults>>
    BY <1>5 DEF ReadMatch
  <2>2. SlotsTyped'
    <3>1. CASE match = None
      BY <1>5, <2>1, <3>1, TypedBeginnings, TypedGoes DEF ReadMatch, Throws, TypesInv
    <3>2. CASE match # None
      <4>1. TodoTyped(slots[s].todo) /\ slots[s].todo # <<>> /\ match \in Documents(game)
        BY <2>1, <3>2, TypedInHand DEF TypesInv, SlotsTyped
      <4>2. Goes(s, slots[s].todo, match)
        BY <1>5, <3>2 DEF ReadMatch
      <4> QED
        BY <2>1, <4>1, <4>2, TypedGoes DEF TypesInv
    <3> QED
      BY <3>1, <3>2
  <2> QED
    BY <2>1, <2>2, TypedWork DEF TypesInv
<1> QED
  BY <1>1, <1>2, <1>3, <1>4, <1>5

\* Pages that get a state keep what else they have.
LEMMA TypedDelivery ==
  ASSUME TypesInv, NEW task, NEW m, Delivered(task, m), setup' = setup
  PROVE  DOMAIN pages' = Player /\ \A p \in Player : PageTyped(pages[p])'
<1> DEFINE view == StateView(game, m)
<1>1. pages' = [p \in Player |-> IF Receives(task, p)
                                 THEN [pages[p] EXCEPT !.view = view] ELSE pages[p]]
  BY DEF Delivered
<1> HIDE DEF view
<1>2. DOMAIN pages' = Player
  BY <1>1
<1>3. ASSUME NEW p \in Player PROVE PageTyped(pages'[p])
  <2>1. /\ pages[p] = Page(pages[p].status, pages[p].seq, pages[p].view)
        /\ pages[p].status \in {"closed", "open", "away"}
        /\ pages[p].seq \in 0..SeqLimit(setup)
    BY DEF TypesInv, PageTyped
  <2>2. [pages[p] EXCEPT !.view = view] = Page(pages[p].status, pages[p].seq, view)
    <3>1. \A a, b, v, n : [Page(a, b, v) EXCEPT !.view = n] = Page(a, b, n)
      BY DEF Page
    <3> QED
      BY <2>1, <3>1
  <2>3. PageTyped(Page(pages[p].status, pages[p].seq, view))
    BY <2>1, TypedPage
  <2>4. PageTyped(pages[p])
    BY DEF TypesInv
  <2> QED
    BY <1>1, <2>2, <2>3, <2>4
<1> QED
  BY <1>2, <1>3 DEF PageTyped

\* A document is written.
LEMMA TypedWrite ==
  ASSUME AdaptersKeepTypes, TypesInv, NEW s \in Slot, WriteMatch(s)
  PROVE  TypesInv'
<1> DEFINE read == IF InMemory THEN match ELSE slots[s].held
           new  == Applied(Current(s), read)
<1>1. /\ Running(s) /\ Reads(Current(s))
      /\ UNCHANGED <<setup, room, initialized, faults>>
      /\ read = None => Throws(s) /\ UNCHANGED <<match, pages>>
      /\ read # None => /\ Goes(s, Tail(slots[s].todo), None)
                        /\ match' = match \/ match' = new
                        /\ \/ Delivered(Current(s), new)
                           \/ pages' = pages
  BY DEF WriteMatch, Done
<1>2. read = None \/ read \in Documents(game)
  BY <1>1, TypedInHand DEF TypesInv
<1>3. TodoTyped(Tail(slots[s].todo)) /\ TaskTyped(Current(s))
  BY <1>1, TypedInHand DEF TypesInv
<1>4. read # None => new \in Documents(game)
  BY <1>1, <1>2, <1>3, TypedApplied DEF TypesInv
<1>5. DOMAIN pages' = Player /\ \A p \in Player : PageTyped(pages[p])'
  BY <1>1, TypedDelivery, TypedPagesStay
<1> HIDE DEF read, new
<1>6. SlotsTyped'
  <2>1. read = None => SlotsTyped'
    BY <1>1, TypedBeginnings, TypedGoes DEF TypesInv, Throws
  <2>2. read # None => SlotsTyped'
    BY <1>1, <1>3, TypedGoes DEF TypesInv
  <2> QED
    BY <2>1, <2>2
<1>7. game' = game /\ (match' = None \/ match' \in Documents(game))
  BY <1>1, <1>4 DEF TypesInv, game
<1> QED
  BY <1>1, <1>5, <1>6, <1>7 DEF TypesInv

\* The clock and a restart keep the types.
LEMMA TypedOutside ==
  ASSUME AdaptersKeepTypes, TypesInv
  PROVE  (TimePasses => TypesInv') /\ (Restart => TypesInv')
<1>1. ASSUME TimePasses PROVE TypesInv'
  <2>1. /\ match # None /\ match' = Elapsed(game, match)
        /\ UNCHANGED <<setup, room, initialized, slots, pages, faults>>
    BY <1>1 DEF TimePasses
  <2>2. match' \in Documents(game)
    BY <2>1 DEF AdaptersKeepTypes, TypesInv, game
  <2>3. SlotsTyped'
    BY <2>1, TypedSlotsStay DEF TypesInv
  <2> QED
    BY <2>1, <2>2, <2>3, TypedWork DEF TypesInv
<1>2. ASSUME Restart PROVE TypesInv'
  <2>1. /\ slots' = [s \in Slot |-> Idle] /\ initialized' = FALSE
        /\ pages' = [p \in Player |-> Page("closed", 0, None)]
        /\ UNCHANGED <<setup, room, match>>
    BY <1>2 DEF Restart
  <2>2. game' = game /\ faults' \in 0..FaultLimit(setup)
    BY <1>2, FaultCounted DEF Restart, game
  <2>3. SlotsTyped'
    BY <2>1, NoTask DEF SlotsTyped, TodoTyped, Idle
  <2>4. \A p \in Player : PageTyped(pages'[p])
    BY <2>1, Bounds, TypedPage DEF TypesInv
  <2>5. \A p \in Player : PageTyped(pages[p])'
    BY <2>1, <2>4 DEF PageTyped
  <2> QED
    BY <2>1, <2>2, <2>3, <2>5 DEF TypesInv
<1> QED
  BY <1>1, <1>2

\* Every step keeps the types.
LEMMA TypesStep ==
  ASSUME AdaptersKeepTypes, TypesInv, [Next]_vars
  PROVE  TypesInv'
<1>1. CASE \E p \in Player : \/ CreateRoom(p) \/ JoinRoom(p) \/ LeaveRoom(p) \/ ReconnectRoom(p)
  BY <1>1, TypedRoomSteps
<1>2. CASE DeleteRoom
  BY <1>2, TypedRoomSteps
<1>3. CASE \E p \in Player : \/ OpenPage(p) \/ ClosePage(p) \/ RequestState(p) \/ PlayPage(p)
                             \/ PlayAny(p)
  BY <1>3, TypedPageSteps
<1>4. CASE \E s \in Slot : \/ CreateTask(s) \/ FinishTask(s) \/ KeyTask(s) \/ SeedTask(s)
                           \/ ReadMatch(s)
  BY <1>4, TypedTaskSteps
<1>5. CASE \E s \in Slot : WriteMatch(s)
  BY <1>5, TypedWrite
<1>6. CASE TimePasses \/ Restart
  BY <1>6, TypedOutside
<1>7. CASE UNCHANGED vars
  <2>1. UNCHANGED <<setup, room, match, initialized, slots, pages, faults>>
    BY <1>7 DEF vars
  <2>2. SlotsTyped'
    BY <2>1, TypedSlotsStay DEF TypesInv
  <2> QED
    BY <2>1, <2>2, TypedWork DEF TypesInv
<1> QED
  BY <1>1, <1>2, <1>3, <1>4, <1>5, <1>6, <1>7 DEF Next

\* The types are right at the start.
LEMMA TypesInit ==
  ASSUME Init
  PROVE  TypesInv
<1>1. /\ setup \in Setups /\ room = None /\ match = None /\ initialized = FALSE
      /\ slots = [s \in Slot |-> Idle]
      /\ pages = [p \in Player |-> Page("closed", 0, None)] /\ faults = 0
  BY DEF Init
<1>2. SlotsTyped
  BY <1>1, NoTask DEF SlotsTyped, TodoTyped, Idle
<1>3. DOMAIN pages = Player /\ \A p \in Player : PageTyped(pages[p])
  BY <1>1, Bounds, TypedPage
<1>4. faults \in 0..FaultLimit(setup)
  BY <1>1, Bounds
<1>5. setup \in Setups /\ room = None /\ match = None /\ initialized \in BOOLEAN
  BY <1>1
<1> QED
  BY <1>2, <1>3, <1>4, <1>5 DEF TypesInv

\* The runtime keeps documents of the game in its store, with either driver, whatever
\* adapters it is given that make documents of documents.
LEMMA RuntimeKeepsTypes ==
  ASSUME AdaptersKeepTypes
  PROVE  Spec => []TypeOK
<1>1. Init => TypesInv
  BY TypesInit
<1>2. TypesInv /\ [Next]_vars => TypesInv'
  BY TypesStep
<1>3. TypesInv => TypeOK
  BY DEF TypesInv, TypeOK, SlotsTyped, TodoTyped, TaskTyped, PageTyped, Documents, RoomDoc
<1> QED
  BY <1>1, <1>2, <1>3, PTL DEF Spec

-----------------------------------------------------------------------------
(* The documents of the platform's games.                                  *)

\* A player more at the table.
LEMMA OneMore ==
  ASSUME NEW players \in Seq(Player), NEW p \in Player
  PROVE  Append(players, p) \in Seq(Player)
OBVIOUS

\* The next one around the table is a player.
LEMMA AroundTheTable ==
  ASSUME NEW players \in Seq(Player), NEW i \in DOMAIN players
  PROVE  players[(i % Len(players)) + 1] \in Player
<1>1. DOMAIN players = 1..Len(players) /\ Len(players) \in Nat /\ Len(players) > 0
  BY LenProperties
<1>2. (i % Len(players)) + 1 \in 1..Len(players)
  BY <1>1
<1> QED
  BY <1>1, <1>2, ElementOfSeq

\* Those at the table are players.
LEMMA PlayersOfSeq ==
  ASSUME NEW players \in Seq(Player)
  PROVE  {players[i] : i \in DOMAIN players} \subseteq Player
BY LenProperties, ElementOfSeq

\* The documents of quiz-duel stay documents.
LEMMA QuizDocuments ==
  ASSUME TotalRounds \in Nat \ {0}, NEW p \in Player
  PROVE  /\ Reg!Quiz!Created(p) \in Reg!Quiz!Doc
         /\ \A m \in Reg!Quiz!Doc :
              /\ Reg!Quiz!JoinMatch(m, p) \in Reg!Quiz!Doc
              /\ Reg!Quiz!ReconnectPlayer(m, p) \in Reg!Quiz!Doc
              /\ \A seq \in Nat, move \in Reg!Quiz!Moves :
                   Reg!Quiz!Played(m, p, seq, move) \in Reg!Quiz!Doc
<1>1. Reg!Quiz!Created(p) \in Reg!Quiz!Doc
  BY DEF Reg!Quiz!Created, Reg!Quiz!Game!Created, Reg!Quiz!Doc, Reg!Quiz!Game!Doc,
       Reg!Quiz!Game!Answers, Reg!Quiz!Game!NoAnswers, Reg!Quiz!Game!AllZero,
       Reg!Quiz!Game!Unheard
<1>2. ASSUME NEW m \in Reg!Quiz!Doc
      PROVE  Reg!Quiz!JoinMatch(m, p) \in Reg!Quiz!Doc
  BY OneMore DEF Reg!Quiz!JoinMatch, Reg!Quiz!Joined, Reg!Quiz!Doc, Reg!Quiz!Game!Doc
<1>3. ASSUME NEW m \in Reg!Quiz!Doc
      PROVE  Reg!Quiz!ReconnectPlayer(m, p) \in Reg!Quiz!Doc
  BY OneMore DEF Reg!Quiz!ReconnectPlayer, Reg!Quiz!Reconnected, Reg!Quiz!WithPlayer,
       Reg!Quiz!Doc, Reg!Quiz!Game!Doc
<1>4. ASSUME NEW m \in Reg!Quiz!Doc, NEW seq \in Nat, NEW move \in Reg!Quiz!Moves
      PROVE  Reg!Quiz!Played(m, p, seq, move) \in Reg!Quiz!Doc
  <2>1. Reg!Quiz!Game!Heard(m, p, seq) \in Reg!Quiz!Doc
    BY DEF Reg!Quiz!Game!Heard, Reg!Quiz!Doc, Reg!Quiz!Game!Doc
  <2>2. Reg!Quiz!Game!Answered(m, p, seq, move) \in Reg!Quiz!Doc
    <3> DEFINE heard  == [m EXCEPT !.lastSeqByPlayer[p] = seq, !.answersByPlayer[p] = move]
               points == [m.scores EXCEPT ![p] = m.scores[p] + 10]
               scored == IF move = "right" THEN [heard EXCEPT !.scores[p] = m.scores[p] + 10]
                         ELSE heard
    <3>1. heard \in Reg!Quiz!Doc
      BY DEF Reg!Quiz!Doc, Reg!Quiz!Game!Doc, Reg!Quiz!Moves, Reg!Quiz!Game!Answers
    <3>2. scored \in Reg!Quiz!Doc
      <4>1. points \in [Player -> Nat]
        BY DEF Reg!Quiz!Doc, Reg!Quiz!Game!Doc
      <4>2. [heard EXCEPT !.scores[p] = m.scores[p] + 10] = [heard EXCEPT !.scores = points]
        BY DEF Reg!Quiz!Doc, Reg!Quiz!Game!Doc
      <4> HIDE DEF heard, points
      <4> QED
        BY <3>1, <4>1, <4>2 DEF Reg!Quiz!Doc, Reg!Quiz!Game!Doc
    <3>3. Reg!Quiz!Game!RoundCompleted(scored) \in Reg!Quiz!Doc
      <4> HIDE DEF scored
      <4> DEFINE closed == [roundNumber |-> scored.currentRoundNumber,
                            answersByPlayer |-> scored.answersByPlayer]
                 rounds == Append(scored.completedRounds, closed)
                 done   == [scored EXCEPT !.completedRounds = rounds]
      <4>1. closed \in Reg!Quiz!Game!Round
        BY <3>2 DEF Reg!Quiz!Doc, Reg!Quiz!Game!Doc, Reg!Quiz!Game!Round
      <4>2. rounds \in Seq(Reg!Quiz!Game!Round)
        BY <3>2, <4>1 DEF Reg!Quiz!Doc, Reg!Quiz!Game!Doc
      <4>3. Reg!Quiz!Game!NoAnswers \in Reg!Quiz!Game!Answers
        BY DEF Reg!Quiz!Game!NoAnswers, Reg!Quiz!Game!Answers
      <4>4. Reg!Quiz!Game!RoundCompleted(scored)
              = IF scored.currentRoundNumber >= TotalRounds
                THEN [done EXCEPT !.isCompleted = TRUE]
                ELSE [done EXCEPT !.answersByPlayer = Reg!Quiz!Game!NoAnswers,
                                  !.currentRoundNumber = scored.currentRoundNumber + 1,
                                  !.isCompleted = FALSE]
        BY DEF Reg!Quiz!Game!RoundCompleted
      <4> HIDE DEF rounds
      <4>5. done \in Reg!Quiz!Doc
        BY <3>2, <4>2 DEF Reg!Quiz!Doc, Reg!Quiz!Game!Doc
      <4>6. scored.currentRoundNumber \in 1..TotalRounds
        BY <3>2 DEF Reg!Quiz!Doc, Reg!Quiz!Game!Doc
      <4> HIDE DEF done, closed
      <4>7. [done EXCEPT !.isCompleted = TRUE] \in Reg!Quiz!Doc
        BY <4>5 DEF Reg!Quiz!Doc, Reg!Quiz!Game!Doc
      <4>8. ~(scored.currentRoundNumber >= TotalRounds) =>
              scored.currentRoundNumber + 1 \in 1..TotalRounds
        BY <4>6
      <4>9. \A r \in 1..TotalRounds, a \in Reg!Quiz!Game!Answers :
               [done EXCEPT !.answersByPlayer = a, !.currentRoundNumber = r,
                            !.isCompleted = FALSE] \in Reg!Quiz!Doc
        BY <4>5 DEF Reg!Quiz!Doc, Reg!Quiz!Game!Doc
      <4> QED
        BY <4>3, <4>4, <4>7, <4>8, <4>9
    <3> QED
      BY <3>2, <3>3 DEF Reg!Quiz!Game!Answered, scored
  <2> QED
    BY <2>1, <2>2 DEF Reg!Quiz!Played, Reg!Quiz!Game!Played
<1> QED
  BY <1>1, <1>2, <1>3, <1>4

\* The documents of word-rally stay documents.
LEMMA WordsDocuments ==
  ASSUME TotalRounds \in Nat \ {0}, NEW p \in Player
  PROVE  /\ Reg!Words!Created(p) \in Reg!Words!Doc
         /\ \A m \in Reg!Words!Doc :
              /\ Reg!Words!JoinMatch(m, p) \in Reg!Words!Doc
              /\ Reg!Words!ReconnectPlayer(m, p) \in Reg!Words!Doc
              /\ \A seq \in Nat, move \in Reg!Words!Moves :
                   Reg!Words!Played(m, p, seq, move) \in Reg!Words!Doc
<1>1. Reg!Words!Created(p) \in Reg!Words!Doc
  BY DEF Reg!Words!Created, Reg!Words!Game!Created, Reg!Words!Doc, Reg!Words!Game!Doc,
       Reg!Words!Game!Answers, Reg!Words!Game!NoAnswers, Reg!Words!Game!AllZero,
       Reg!Words!Game!Unheard
<1>2. ASSUME NEW m \in Reg!Words!Doc
      PROVE  Reg!Words!JoinMatch(m, p) \in Reg!Words!Doc
  BY OneMore DEF Reg!Words!JoinMatch, Reg!Words!Joined, Reg!Words!Doc, Reg!Words!Game!Doc
<1>3. ASSUME NEW m \in Reg!Words!Doc
      PROVE  Reg!Words!ReconnectPlayer(m, p) \in Reg!Words!Doc
  BY OneMore DEF Reg!Words!ReconnectPlayer, Reg!Words!Reconnected, Reg!Words!WithPlayer,
       Reg!Words!Doc, Reg!Words!Game!Doc
<1>4. ASSUME NEW m \in Reg!Words!Doc, NEW seq \in Nat, NEW move \in Reg!Words!Moves
      PROVE  Reg!Words!Played(m, p, seq, move) \in Reg!Words!Doc
  <2>1. Reg!Words!Game!Heard(m, p, seq) \in Reg!Words!Doc
    BY DEF Reg!Words!Game!Heard, Reg!Words!Doc, Reg!Words!Game!Doc
  <2>2. Reg!Words!Game!Answered(m, p, seq, move) \in Reg!Words!Doc
    <3> DEFINE heard  == [m EXCEPT !.lastSeqByPlayer[p] = seq, !.answersByPlayer[p] = move]
               points == [m.scores EXCEPT ![p] = m.scores[p] + 10]
               scored == IF move = "right" THEN [heard EXCEPT !.scores[p] = m.scores[p] + 10]
                         ELSE heard
    <3>1. heard \in Reg!Words!Doc
      BY DEF Reg!Words!Doc, Reg!Words!Game!Doc, Reg!Words!Moves, Reg!Words!Game!Answers
    <3>2. scored \in Reg!Words!Doc
      <4>1. points \in [Player -> Nat]
        BY DEF Reg!Words!Doc, Reg!Words!Game!Doc
      <4>2. [heard EXCEPT !.scores[p] = m.scores[p] + 10] = [heard EXCEPT !.scores = points]
        BY DEF Reg!Words!Doc, Reg!Words!Game!Doc
      <4> HIDE DEF heard, points
      <4> QED
        BY <3>1, <4>1, <4>2 DEF Reg!Words!Doc, Reg!Words!Game!Doc
    <3>3. Reg!Words!Game!RoundCompleted(scored) \in Reg!Words!Doc
      <4> HIDE DEF scored
      <4> DEFINE closed == [roundNumber |-> scored.currentRoundNumber,
                            answersByPlayer |-> scored.answersByPlayer]
                 rounds == Append(scored.completedRounds, closed)
                 done   == [scored EXCEPT !.completedRounds = rounds]
      <4>1. closed \in Reg!Words!Game!Round
        BY <3>2 DEF Reg!Words!Doc, Reg!Words!Game!Doc, Reg!Words!Game!Round
      <4>2. rounds \in Seq(Reg!Words!Game!Round)
        BY <3>2, <4>1 DEF Reg!Words!Doc, Reg!Words!Game!Doc
      <4>3. Reg!Words!Game!NoAnswers \in Reg!Words!Game!Answers
        BY DEF Reg!Words!Game!NoAnswers, Reg!Words!Game!Answers
      <4>4. Reg!Words!Game!RoundCompleted(scored)
              = IF scored.currentRoundNumber >= TotalRounds
                THEN [done EXCEPT !.isCompleted = TRUE]
                ELSE [done EXCEPT !.answersByPlayer = Reg!Words!Game!NoAnswers,
                                  !.currentRoundNumber = scored.currentRoundNumber + 1,
                                  !.isCompleted = FALSE]
        BY DEF Reg!Words!Game!RoundCompleted
      <4> HIDE DEF rounds
      <4>5. done \in Reg!Words!Doc
        BY <3>2, <4>2 DEF Reg!Words!Doc, Reg!Words!Game!Doc
      <4>6. scored.currentRoundNumber \in 1..TotalRounds
        BY <3>2 DEF Reg!Words!Doc, Reg!Words!Game!Doc
      <4> HIDE DEF done, closed
      <4>7. [done EXCEPT !.isCompleted = TRUE] \in Reg!Words!Doc
        BY <4>5 DEF Reg!Words!Doc, Reg!Words!Game!Doc
      <4>8. ~(scored.currentRoundNumber >= TotalRounds) =>
              scored.currentRoundNumber + 1 \in 1..TotalRounds
        BY <4>6
      <4>9. \A r \in 1..TotalRounds, a \in Reg!Words!Game!Answers :
               [done EXCEPT !.answersByPlayer = a, !.currentRoundNumber = r,
                            !.isCompleted = FALSE] \in Reg!Words!Doc
        BY <4>5 DEF Reg!Words!Doc, Reg!Words!Game!Doc
      <4> QED
        BY <4>3, <4>4, <4>7, <4>8, <4>9
    <3> QED
      BY <3>2, <3>3 DEF Reg!Words!Game!Answered, scored
  <2> QED
    BY <2>1, <2>2 DEF Reg!Words!Played, Reg!Words!Game!Played
<1> QED
  BY <1>1, <1>2, <1>3, <1>4

\* The documents of airline-trivia-teams stay documents.
LEMMA TriviaDocuments ==
  ASSUME TotalRounds \in Nat \ {0}, NEW p \in Player
  PROVE  /\ Reg!Trivia!Created(p) \in Reg!Trivia!Doc
         /\ \A m \in Reg!Trivia!Doc :
              /\ Reg!Trivia!JoinMatch(m, p) \in Reg!Trivia!Doc
              /\ Reg!Trivia!ReconnectPlayer(m, p) \in Reg!Trivia!Doc
              /\ \A seq \in Nat, move \in Reg!Trivia!Moves :
                   Reg!Trivia!Played(m, p, seq, move) \in Reg!Trivia!Doc
<1>0. \A place : Reg!Trivia!AssignedTeam(place) \in Reg!Trivia!Team
  BY DEF Reg!Trivia!AssignedTeam, Reg!Trivia!Team
<1>1. Reg!Trivia!Created(p) \in Reg!Trivia!Doc
  BY DEF Reg!Trivia!Created, Reg!Trivia!Doc, Reg!Trivia!Team, Reg!Trivia!Game!Answers,
       Reg!Trivia!Game!NoAnswers, Reg!Trivia!AllZero, Reg!Trivia!Unheard
<1>2. ASSUME NEW m \in Reg!Trivia!Doc
      PROVE  Reg!Trivia!JoinMatch(m, p) \in Reg!Trivia!Doc
  <2>1. Append(m.players, p) \in Seq(Player)
    BY OneMore DEF Reg!Trivia!Doc
  <2> QED
    BY <1>0, <2>1 DEF Reg!Trivia!JoinMatch, Reg!Trivia!Doc, Reg!Trivia!Game!Answers
<1>3. ASSUME NEW m \in Reg!Trivia!Doc
      PROVE  Reg!Trivia!ReconnectPlayer(m, p) \in Reg!Trivia!Doc
  <2> DEFINE players == Reg!Trivia!WithPlayer(m.players, p)
             team    == IF m.playerTeams[p] # None THEN m.playerTeams[p]
                        ELSE Reg!Trivia!AssignedTeam(Reg!Trivia!SeatOf(players, p))
  <2>1. players \in Seq(Player)
    BY OneMore DEF Reg!Trivia!WithPlayer, Reg!Trivia!Doc
  <2>2. team \in Reg!Trivia!Team
    BY <1>0 DEF Reg!Trivia!Doc
  <2>3. Reg!Trivia!ReconnectPlayer(m, p)
          = [m EXCEPT !.players = players, !.playerTeams[p] = team]
    BY DEF Reg!Trivia!ReconnectPlayer
  <2> HIDE DEF players, team
  <2> DEFINE teams == [m.playerTeams EXCEPT ![p] = team]
  <2>4. teams \in [Player -> Reg!Trivia!Team \cup {None}]
    BY <2>2 DEF Reg!Trivia!Doc
  <2>5. Reg!Trivia!ReconnectPlayer(m, p)
          = [m EXCEPT !.players = players, !.playerTeams = teams]
    BY <2>3 DEF Reg!Trivia!Doc
  <2> HIDE DEF teams
  <2> QED
    BY <2>1, <2>4, <2>5 DEF Reg!Trivia!Doc
<1>4. ASSUME NEW m \in Reg!Trivia!Doc, NEW seq \in Nat, NEW move \in Reg!Trivia!Moves
      PROVE  Reg!Trivia!Game!Played(m, p, seq, move) \in Reg!Trivia!Doc
  <2>1. Reg!Trivia!Game!Heard(m, p, seq) \in Reg!Trivia!Doc
    BY DEF Reg!Trivia!Game!Heard, Reg!Trivia!Doc
  <2>2. Reg!Trivia!Game!Answered(m, p, seq, move) \in Reg!Trivia!Doc
    <3> DEFINE heard  == [m EXCEPT !.lastSeqByPlayer[p] = seq, !.answersByPlayer[p] = move]
               points == [m.scores EXCEPT ![p] = m.scores[p] + 6]
               scored == IF move = "right" THEN [heard EXCEPT !.scores[p] = m.scores[p] + 6]
                         ELSE heard
    <3>1. heard \in Reg!Trivia!Doc
      BY DEF Reg!Trivia!Doc, Reg!Trivia!Moves, Reg!Trivia!Game!Answers
    <3>2. scored \in Reg!Trivia!Doc
      <4>1. points \in [Player -> Nat]
        BY DEF Reg!Trivia!Doc
      <4>2. [heard EXCEPT !.scores[p] = m.scores[p] + 6] = [heard EXCEPT !.scores = points]
        BY DEF Reg!Trivia!Doc
      <4> HIDE DEF heard, points
      <4> QED
        BY <3>1, <4>1, <4>2 DEF Reg!Trivia!Doc
    <3>3. Reg!Trivia!Game!RoundCompleted(scored) \in Reg!Trivia!Doc
      <4> HIDE DEF scored
      <4> DEFINE closed == [roundNumber |-> scored.currentRoundNumber,
                            answersByPlayer |-> scored.answersByPlayer]
                 rounds == Append(scored.completedRounds, closed)
                 done   == [scored EXCEPT !.completedRounds = rounds]
      <4>1. closed \in Reg!Trivia!Game!Round
        BY <3>2 DEF Reg!Trivia!Doc, Reg!Trivia!Game!Round
      <4>2. rounds \in Seq(Reg!Trivia!Game!Round)
        BY <3>2, <4>1 DEF Reg!Trivia!Doc
      <4>3. Reg!Trivia!Game!NoAnswers \in Reg!Trivia!Game!Answers
        BY DEF Reg!Trivia!Game!NoAnswers, Reg!Trivia!Game!Answers
      <4>4. Reg!Trivia!Game!RoundCompleted(scored)
              = IF scored.currentRoundNumber >= TotalRounds
                THEN [done EXCEPT !.isCompleted = TRUE]
                ELSE [done EXCEPT !.answersByPlayer = Reg!Trivia!Game!NoAnswers,
                                  !.currentRoundNumber = scored.currentRoundNumber + 1,
                                  !.isCompleted = FALSE]
        BY DEF Reg!Trivia!Game!RoundCompleted
      <4> HIDE DEF rounds
      <4>5. done \in Reg!Trivia!Doc
        BY <3>2, <4>2 DEF Reg!Trivia!Doc
      <4>6. scored.currentRoundNumber \in 1..TotalRounds
        BY <3>2 DEF Reg!Trivia!Doc
      <4> HIDE DEF done, closed
      <4>7. [done EXCEPT !.isCompleted = TRUE] \in Reg!Trivia!Doc
        BY <4>5 DEF Reg!Trivia!Doc
      <4>8. ~(scored.currentRoundNumber >= TotalRounds) =>
              scored.currentRoundNumber + 1 \in 1..TotalRounds
        BY <4>6
      <4>9. \A r \in 1..TotalRounds, a \in Reg!Trivia!Game!Answers :
               [done EXCEPT !.answersByPlayer = a, !.currentRoundNumber = r,
                            !.isCompleted = FALSE] \in Reg!Trivia!Doc
        BY <4>5 DEF Reg!Trivia!Doc
      <4> QED
        BY <4>3, <4>4, <4>7, <4>8, <4>9
    <3> QED
      BY <3>2, <3>3 DEF Reg!Trivia!Game!Answered, scored
  <2> QED
    BY <2>1, <2>2 DEF Reg!Trivia!Game!Played
<1>5. ASSUME NEW m \in Reg!Trivia!Doc, NEW seq \in Nat, NEW move \in Reg!Trivia!Moves
      PROVE  Reg!Trivia!Played(m, p, seq, move) \in Reg!Trivia!Doc
  <2> DEFINE after == Reg!Trivia!Game!Played(m, p, seq, move)
             team  == Reg!Trivia!TeamOf(m, p)
  <2>1. after \in Reg!Trivia!Doc
    BY <1>4
  <2>2. team \in Reg!Trivia!Team /\ m.teamScores[team] + 1 \in Nat
    BY DEF Reg!Trivia!TeamOf, Reg!Trivia!Team, Reg!Trivia!Doc
  <2>3. Reg!Trivia!Played(m, p, seq, move)
          = IF after.scores[p] = m.scores[p] THEN after
            ELSE [after EXCEPT !.teamScores[team] = m.teamScores[team] + 1]
    BY DEF Reg!Trivia!Played
  <2> HIDE DEF after, team
  <2> DEFINE points == [after.teamScores EXCEPT ![team] = m.teamScores[team] + 1]
  <2>4. points \in [Reg!Trivia!Team -> Nat]
    BY <2>1, <2>2 DEF Reg!Trivia!Doc
  <2>5. [after EXCEPT !.teamScores[team] = m.teamScores[team] + 1]
          = [after EXCEPT !.teamScores = points]
    BY <2>1 DEF Reg!Trivia!Doc
  <2> HIDE DEF points
  <2>6. [after EXCEPT !.teamScores = points] \in Reg!Trivia!Doc
    BY <2>1, <2>4 DEF Reg!Trivia!Doc
  <2> QED
    BY <2>1, <2>3, <2>5, <2>6
<1> QED
  BY <1>1, <1>2, <1>3, <1>5

\* The documents of a match of skyline-defense-lite that is over when nothing is left.
SkylineDocs == {m \in Reg!Skyline!Doc : m.isCompleted <=> m.availableNodeCount = 0}

\* The documents of skyline-defense-lite stay documents.
LEMMA SkylineDocuments ==
  ASSUME SkylineNodes \subseteq DOMAIN Reg!Skyline!NodeTable, IsFiniteSet(SkylineNodes),
         SkylineNodes # {}, NEW p \in Player
  PROVE  /\ Reg!Skyline!Created(p) \in SkylineDocs
         /\ \A m \in SkylineDocs :
              /\ Reg!Skyline!JoinMatch(m, p) \in SkylineDocs
              /\ Reg!Skyline!ReconnectPlayer(m, p) \in SkylineDocs
              /\ \A seq \in Nat, move \in Reg!Skyline!Moves :
                   Reg!Skyline!Played(m, p, seq, move) \in SkylineDocs
<1>1. Reg!Skyline!Created(p) \in SkylineDocs
  <2>1. Reg!Skyline!Cardinality(SkylineNodes) = Cardinality(SkylineNodes)
    BY DEF Reg!Skyline!Cardinality, Cardinality
  <2>2. Reg!Skyline!Cardinality(SkylineNodes) \in Nat \ {0}
    BY <2>1, FS_CardinalityType, FS_EmptySet
  <2> QED
    BY <2>2 DEF Reg!Skyline!Created, SkylineDocs, Reg!Skyline!Doc, Reg!Skyline!AllZero,
         Reg!Skyline!Unheard, Reg!Skyline!Badge
<1>2. ASSUME NEW m \in SkylineDocs
      PROVE  Reg!Skyline!JoinMatch(m, p) \in SkylineDocs
  BY OneMore DEF Reg!Skyline!JoinMatch, SkylineDocs, Reg!Skyline!Doc,
       Reg!Skyline!WithBadge, Reg!Skyline!Joined,
       Reg!Skyline!MarkOf, Reg!Skyline!FreeMark, Reg!Skyline!Badge
<1>3. ASSUME NEW m \in SkylineDocs
      PROVE  Reg!Skyline!ReconnectPlayer(m, p) \in SkylineDocs
  BY OneMore DEF Reg!Skyline!ReconnectPlayer, SkylineDocs, Reg!Skyline!Doc,
       Reg!Skyline!WithBadge,
       Reg!Skyline!Reconnected, Reg!Skyline!WithPlayer, Reg!Skyline!MarkOf,
       Reg!Skyline!FreeMark, Reg!Skyline!Badge
<1>4. ASSUME NEW m \in SkylineDocs, NEW seq \in Nat, NEW move \in Reg!Skyline!Moves
      PROVE  Reg!Skyline!Played(m, p, seq, move) \in SkylineDocs
  <2> DEFINE h == Reg!Skyline!Heard(m, p, seq)
  <2>1. h \in SkylineDocs /\ h.isCompleted = m.isCompleted
    BY DEF SkylineDocs, Reg!Skyline!Doc, Reg!Skyline!Heard
  <2> HIDE DEF h
  <2>2. ASSUME ~h.isCompleted
        PROVE  Reg!Skyline!Deployed(h, p, move.nodeId, move.defenseType) \in SkylineDocs
    <3> DEFINE n       == move.nodeId
               d       == move.defenseType
               owner   == [h.owner EXCEPT ![n] = p]
               defense == [h.defense EXCEPT ![n] = d]
               points  == Reg!Skyline!NodeTable[n].baseScore
                            + Reg!Skyline!ThreatMatchBonus(n, d)
                            + Reg!Skyline!DistrictControlBonus(owner, n, p)
    <3>1. points \in Nat
      <4>1. n \in SkylineNodes
        BY DEF Reg!Skyline!Moves
      <4>2. Reg!Skyline!NodeTable[n].baseScore \in Nat
        BY <4>1 DEF Reg!Skyline!NodeTable, Reg!Skyline!Node
      <4> QED
        BY <4>2 DEF Reg!Skyline!ThreatMatchBonus, Reg!Skyline!DistrictControlBonus
    <3> HIDE DEF points
    <3>2. /\ owner \in [SkylineNodes -> Player \cup {None}]
          /\ defense \in [SkylineNodes -> Reg!Skyline!DefenseType \cup {None}]
      BY <2>1 DEF SkylineDocs, Reg!Skyline!Doc, Reg!Skyline!Moves
    <3> DEFINE scores == [h.scores EXCEPT ![p] = h.scores[p] + points]
               after  == [h EXCEPT !.owner = owner, !.defense = defense,
                                   !.availableNodeCount = h.availableNodeCount - 1,
                                   !.scores = scores]
               over   == [after EXCEPT !.isCompleted = TRUE,
                                       !.winnerPlayerIds = Reg!Skyline!Winning(after)]
               turn   == [after EXCEPT
                            !.currentTurnPlayerId = Reg!Skyline!NextPlayer(h.players, p)]
    <3>3. h.availableNodeCount - 1 \in Nat /\ scores \in [Player -> Nat]
      BY <2>1, <2>2, <3>1, <3>2 DEF SkylineDocs, Reg!Skyline!Doc
    <3>4. Reg!Skyline!Deployed(h, p, move.nodeId, move.defenseType)
            = IF after.availableNodeCount = 0 THEN over ELSE turn
      BY <2>1 DEF Reg!Skyline!Deployed, points, SkylineDocs, Reg!Skyline!Doc
    <3> HIDE DEF owner, defense, scores
    <3>5. after \in Reg!Skyline!Doc /\ ~after.isCompleted
      BY <2>1, <2>2, <3>2, <3>3 DEF SkylineDocs, Reg!Skyline!Doc
    <3> HIDE DEF after
    <3>6. Reg!Skyline!Winning(after) \subseteq Player
      BY <3>5, PlayersOfSeq DEF Reg!Skyline!Doc, Reg!Skyline!Winning, Reg!Skyline!Leaders,
           Reg!Skyline!PlayersOf
    <3>7. Reg!Skyline!NextPlayer(h.players, p) \in Player
      BY <2>1, AroundTheTable
         DEF SkylineDocs, Reg!Skyline!Doc, Reg!Skyline!NextPlayer, Reg!Skyline!SeatOf,
             Reg!Skyline!Seated
    <3>8. over \in Reg!Skyline!Doc /\ turn \in Reg!Skyline!Doc
      BY <3>5, <3>6, <3>7 DEF Reg!Skyline!Doc
    <3>9. /\ over.isCompleted /\ over.availableNodeCount = after.availableNodeCount
          /\ turn.isCompleted = after.isCompleted
          /\ turn.availableNodeCount = after.availableNodeCount
      BY <3>5 DEF Reg!Skyline!Doc
    <3> HIDE DEF over, turn
    <3> QED
      BY <3>4, <3>5, <3>8, <3>9 DEF SkylineDocs
  <2> QED
    BY <2>1, <2>2 DEF Reg!Skyline!Played, h, Reg!Skyline!NotToMove
<1> QED
  BY <1>1, <1>2, <1>3, <1>4

\* The documents of a match of seat-map-strategy that is over when nothing is left.
SeatMapDocs == {m \in Reg!Seats!Doc : m.isCompleted <=> m.availableSeatCount = 0}

\* The documents of seat-map-strategy stay documents.
LEMMA SeatMapDocuments ==
  ASSUME CabinRows \in Nat \ {0}, CabinCols \in Nat \ {0}, NEW p \in Player
  PROVE  /\ Reg!Seats!Created(p) \in SeatMapDocs
         /\ \A m \in SeatMapDocs :
              /\ Reg!Seats!JoinMatch(m, p) \in SeatMapDocs
              /\ Reg!Seats!ReconnectPlayer(m, p) \in SeatMapDocs
              /\ \A seq \in Nat, move \in Reg!Seats!Moves :
                   Reg!Seats!Played(m, p, seq, move) \in SeatMapDocs
<1>1. Reg!Seats!Created(p) \in SeatMapDocs
  <2>1. CabinRows * CabinCols \in Nat \ {0}
    OBVIOUS
  <2> QED
    BY <2>1 DEF Reg!Seats!Created, SeatMapDocs, Reg!Seats!Doc, Reg!Seats!AllZero,
         Reg!Seats!Unheard, Reg!Seats!Mark
<1>2. ASSUME NEW m \in SeatMapDocs
      PROVE  Reg!Seats!JoinMatch(m, p) \in SeatMapDocs
  BY OneMore DEF Reg!Seats!JoinMatch, SeatMapDocs, Reg!Seats!Doc, Reg!Seats!WithMark,
       Reg!Seats!Joined,
       Reg!Seats!MarkOf, Reg!Seats!FreeMark, Reg!Seats!Mark
<1>3. ASSUME NEW m \in SeatMapDocs
      PROVE  Reg!Seats!ReconnectPlayer(m, p) \in SeatMapDocs
  BY OneMore DEF Reg!Seats!ReconnectPlayer, SeatMapDocs, Reg!Seats!Doc, Reg!Seats!WithMark,
       Reg!Seats!Reconnected, Reg!Seats!WithPlayer, Reg!Seats!MarkOf,
       Reg!Seats!FreeMark, Reg!Seats!Mark
<1>4. ASSUME NEW m \in SeatMapDocs, NEW seq \in Nat, NEW move \in Reg!Seats!Moves
      PROVE  Reg!Seats!Played(m, p, seq, move) \in SeatMapDocs
  <2> DEFINE h == Reg!Seats!Heard(m, p, seq)
  <2>1. h \in SeatMapDocs /\ h.isCompleted = m.isCompleted
    BY DEF SeatMapDocs, Reg!Seats!Doc, Reg!Seats!Heard
  <2> HIDE DEF h
  <2>2. ASSUME ~h.isCompleted
        PROVE  Reg!Seats!Claimed(h, p, move) \in SeatMapDocs
    <3> DEFINE seats  == [h.seats EXCEPT ![move] = p]
               points == Reg!Seats!BaseScore(move)
                           + Reg!Seats!AdjacencyBonus(h.seats, move, p)
    <3>1. points \in Nat
      <4> DEFINE near == {t \in Reg!Seats!Seats :
                           h.seats[t] = p /\ Reg!Seats!Adjacent(move, t)}
      <4>1. IsFiniteSet(Reg!Seats!Seats)
        <5>1. IsFiniteSet(1..CabinRows) /\ IsFiniteSet(1..CabinCols)
          BY FS_Interval
        <5> QED
          BY <5>1, FS_Product DEF Reg!Seats!Seats
      <4>2. IsFiniteSet(near)
        BY <4>1, FS_Subset
      <4>3. Reg!Seats!Cardinality(near) = Cardinality(near)
        BY DEF Reg!Seats!Cardinality, Cardinality
      <4> HIDE DEF near
      <4>4. Reg!Seats!Cardinality(near) \in Nat
        BY <4>2, <4>3, FS_CardinalityType
      <4> QED
        BY <4>4 DEF Reg!Seats!BaseScore, Reg!Seats!AdjacencyBonus, near
    <3> HIDE DEF points
    <3>2. seats \in [Reg!Seats!Seats -> Player \cup {None}]
      BY <2>1 DEF SeatMapDocs, Reg!Seats!Doc, Reg!Seats!Moves
    <3> DEFINE scores == [h.scores EXCEPT ![p] = h.scores[p] + points]
               after  == [h EXCEPT !.seats = seats,
                                   !.availableSeatCount = h.availableSeatCount - 1,
                                   !.scores = scores]
               over   == [after EXCEPT !.isCompleted = TRUE,
                                       !.winnerPlayerIds = Reg!Seats!Winning(after)]
               turn   == [after EXCEPT
                            !.currentTurnPlayerId = Reg!Seats!NextPlayer(h.players, p)]
    <3>3. h.availableSeatCount - 1 \in Nat /\ scores \in [Player -> Nat]
      BY <2>1, <2>2, <3>1, <3>2 DEF SeatMapDocs, Reg!Seats!Doc
    <3>4. Reg!Seats!Claimed(h, p, move)
            = IF after.availableSeatCount = 0 THEN over ELSE turn
      BY <2>1 DEF Reg!Seats!Claimed, points, SeatMapDocs, Reg!Seats!Doc
    <3> HIDE DEF seats, scores
    <3>5. after \in Reg!Seats!Doc /\ ~after.isCompleted
      BY <2>1, <2>2, <3>2, <3>3 DEF SeatMapDocs, Reg!Seats!Doc
    <3> HIDE DEF after
    <3>6. Reg!Seats!Winning(after) \subseteq Player
      BY <3>5, PlayersOfSeq DEF Reg!Seats!Doc, Reg!Seats!Winning, Reg!Seats!Leaders,
           Reg!Seats!PlayersOf
    <3>7. Reg!Seats!NextPlayer(h.players, p) \in Player
      BY <2>1, AroundTheTable
         DEF SeatMapDocs, Reg!Seats!Doc, Reg!Seats!NextPlayer, Reg!Seats!SeatOf,
             Reg!Seats!Seated
    <3>8. over \in Reg!Seats!Doc /\ turn \in Reg!Seats!Doc
      BY <3>5, <3>6, <3>7 DEF Reg!Seats!Doc
    <3>9. /\ over.isCompleted /\ over.availableSeatCount = after.availableSeatCount
          /\ turn.isCompleted = after.isCompleted
          /\ turn.availableSeatCount = after.availableSeatCount
      BY <3>5 DEF Reg!Seats!Doc
    <3> HIDE DEF over, turn
    <3> QED
      BY <3>4, <3>5, <3>8, <3>9 DEF SeatMapDocs
  <2> QED
    BY <2>1, <2>2 DEF Reg!Seats!Played, h, Reg!Seats!NotToMove
<1> QED
  BY <1>1, <1>2, <1>3, <1>4

\* The documents of a match of route-builder-duel that is over when nothing is left.
RoutesDocs == {m \in Reg!Routes!Doc : m.isCompleted <=> m.availableLegCount = 0}

\* The documents of route-builder-duel stay documents.
LEMMA RoutesDocuments ==
  ASSUME RouteLegs \subseteq DOMAIN Reg!Routes!LegTable, IsFiniteSet(RouteLegs),
         RouteLegs # {}, NEW p \in Player
  PROVE  /\ Reg!Routes!Created(p) \in RoutesDocs
         /\ \A m \in RoutesDocs :
              /\ Reg!Routes!JoinMatch(m, p) \in RoutesDocs
              /\ Reg!Routes!ReconnectPlayer(m, p) \in RoutesDocs
              /\ \A seq \in Nat, move \in Reg!Routes!Moves :
                   Reg!Routes!Played(m, p, seq, move) \in RoutesDocs
<1>1. Reg!Routes!Created(p) \in RoutesDocs
  <2>1. Reg!Routes!Cardinality(RouteLegs) = Cardinality(RouteLegs)
    BY DEF Reg!Routes!Cardinality, Cardinality
  <2>2. Reg!Routes!Cardinality(RouteLegs) \in Nat \ {0}
    BY <2>1, FS_CardinalityType, FS_EmptySet
  <2> QED
    BY <2>2 DEF Reg!Routes!Created, RoutesDocs, Reg!Routes!Doc, Reg!Routes!AllZero,
         Reg!Routes!Unheard, Reg!Routes!Mark
<1>2. ASSUME NEW m \in RoutesDocs
      PROVE  Reg!Routes!JoinMatch(m, p) \in RoutesDocs
  BY OneMore DEF Reg!Routes!JoinMatch, RoutesDocs, Reg!Routes!Doc, Reg!Routes!WithMark,
       Reg!Routes!Joined,
       Reg!Routes!MarkOf, Reg!Routes!FreeMark, Reg!Routes!Mark
<1>3. ASSUME NEW m \in RoutesDocs
      PROVE  Reg!Routes!ReconnectPlayer(m, p) \in RoutesDocs
  BY OneMore DEF Reg!Routes!ReconnectPlayer, RoutesDocs, Reg!Routes!Doc,
       Reg!Routes!WithMark,
       Reg!Routes!Reconnected, Reg!Routes!WithPlayer, Reg!Routes!MarkOf,
       Reg!Routes!FreeMark, Reg!Routes!Mark
<1>4. ASSUME NEW m \in RoutesDocs, NEW seq \in Nat, NEW move \in Reg!Routes!Moves
      PROVE  Reg!Routes!Played(m, p, seq, move) \in RoutesDocs
  <2> DEFINE h == Reg!Routes!Heard(m, p, seq)
  <2>1. h \in RoutesDocs /\ h.isCompleted = m.isCompleted
    BY DEF RoutesDocs, Reg!Routes!Doc, Reg!Routes!Heard
  <2> HIDE DEF h
  <2>2. ASSUME ~h.isCompleted
        PROVE  Reg!Routes!Selected(h, p, move) \in RoutesDocs
    <3> DEFINE legs   == [h.legs EXCEPT ![move] = p]
               points == Reg!Routes!LegTable[move].baseScore
                           + Reg!Routes!LaneComboBonus(h.legs, move, p)
    <3>1. points \in Nat
      <4>1. move \in RouteLegs
        BY DEF Reg!Routes!Moves
      <4>2. Reg!Routes!LegTable[move].baseScore \in Nat
        BY <4>1 DEF Reg!Routes!LegTable, Reg!Routes!Leg
      <4> QED
        BY <4>2 DEF Reg!Routes!LaneComboBonus
    <3> HIDE DEF points
    <3>2. legs \in [RouteLegs -> Player \cup {None}]
      BY <2>1 DEF RoutesDocs, Reg!Routes!Doc, Reg!Routes!Moves
    <3> DEFINE scores == [h.scores EXCEPT ![p] = h.scores[p] + points]
               after  == [h EXCEPT !.legs = legs,
                                   !.availableLegCount = h.availableLegCount - 1,
                                   !.scores = scores]
               over   == [after EXCEPT !.isCompleted = TRUE,
                                       !.winnerPlayerIds = Reg!Routes!Winning(after)]
               turn   == [after EXCEPT
                            !.currentTurnPlayerId = Reg!Routes!NextPlayer(h.players, p)]
    <3>3. h.availableLegCount - 1 \in Nat /\ scores \in [Player -> Nat]
      BY <2>1, <2>2, <3>1, <3>2 DEF RoutesDocs, Reg!Routes!Doc
    <3>4. Reg!Routes!Selected(h, p, move)
            = IF after.availableLegCount = 0 THEN over ELSE turn
      BY <2>1 DEF Reg!Routes!Selected, points, RoutesDocs, Reg!Routes!Doc
    <3> HIDE DEF legs, scores
    <3>5. after \in Reg!Routes!Doc /\ ~after.isCompleted
      BY <2>1, <2>2, <3>2, <3>3 DEF RoutesDocs, Reg!Routes!Doc
    <3> HIDE DEF after
    <3>6. Reg!Routes!Winning(after) \subseteq Player
      BY <3>5, PlayersOfSeq DEF Reg!Routes!Doc, Reg!Routes!Winning, Reg!Routes!Leaders,
           Reg!Routes!PlayersOf
    <3>7. Reg!Routes!NextPlayer(h.players, p) \in Player
      BY <2>1, AroundTheTable
         DEF RoutesDocs, Reg!Routes!Doc, Reg!Routes!NextPlayer, Reg!Routes!SeatOf,
             Reg!Routes!Seated
    <3>8. over \in Reg!Routes!Doc /\ turn \in Reg!Routes!Doc
      BY <3>5, <3>6, <3>7 DEF Reg!Routes!Doc
    <3>9. /\ over.isCompleted /\ over.availableLegCount = after.availableLegCount
          /\ turn.isCompleted = after.isCompleted
          /\ turn.availableLegCount = after.availableLegCount
      BY <3>5 DEF Reg!Routes!Doc
    <3> HIDE DEF over, turn
    <3> QED
      BY <3>4, <3>5, <3>8, <3>9 DEF RoutesDocs
  <2> QED
    BY <2>1, <2>2 DEF Reg!Routes!Played, h, Reg!Routes!NotToMove
<1> QED
  BY <1>1, <1>2, <1>3, <1>4

\* The documents of mini-gomoku stay documents.
LEMMA GomokuDocuments ==
  ASSUME NEW p \in Player
  PROVE  /\ Reg!Gomoku!Created(p) \in Reg!Gomoku!Doc
         /\ \A m \in Reg!Gomoku!Doc :
              /\ Reg!Gomoku!JoinMatch(m, p) \in Reg!Gomoku!Doc
              /\ Reg!Gomoku!ReconnectPlayer(m, p) \in Reg!Gomoku!Doc
              /\ \A seq \in Nat, move \in Reg!Gomoku!Moves :
                   Reg!Gomoku!Played(m, p, seq, move) \in Reg!Gomoku!Doc
<1>1. Reg!Gomoku!Created(p) \in Reg!Gomoku!Doc
  BY DEF Reg!Gomoku!Created, Reg!Gomoku!Doc, Reg!Gomoku!Mark, Reg!Gomoku!Unheard
<1>2. ASSUME NEW m \in Reg!Gomoku!Doc
      PROVE  Reg!Gomoku!JoinMatch(m, p) \in Reg!Gomoku!Doc
  BY OneMore DEF Reg!Gomoku!JoinMatch, Reg!Gomoku!Doc, Reg!Gomoku!WithMark,
       Reg!Gomoku!Joined, Reg!Gomoku!MarkOf, Reg!Gomoku!FreeMark, Reg!Gomoku!Mark
<1>3. ASSUME NEW m \in Reg!Gomoku!Doc
      PROVE  Reg!Gomoku!ReconnectPlayer(m, p) \in Reg!Gomoku!Doc
  BY OneMore DEF Reg!Gomoku!ReconnectPlayer, Reg!Gomoku!Doc, Reg!Gomoku!WithMark,
       Reg!Gomoku!Reconnected, Reg!Gomoku!WithPlayer, Reg!Gomoku!MarkOf,
       Reg!Gomoku!FreeMark, Reg!Gomoku!Mark
<1>4. ASSUME NEW m \in Reg!Gomoku!Doc, NEW seq \in Nat, NEW move \in Reg!Gomoku!Moves
      PROVE  Reg!Gomoku!Played(m, p, seq, move) \in Reg!Gomoku!Doc
  <2> DEFINE h == Reg!Gomoku!Heard(m, p, seq)
  <2>1. h \in Reg!Gomoku!Doc /\ h.playerMarks = m.playerMarks
    BY DEF Reg!Gomoku!Doc, Reg!Gomoku!Heard
  <2> HIDE DEF h
  <2>2. ASSUME h.playerMarks[p] # None
        PROVE  Reg!Gomoku!Placed(h, p, move) \in Reg!Gomoku!Doc
    <3> DEFINE board == [h.board EXCEPT ![move] = h.playerMarks[p]]
               after == [h EXCEPT !.board = board]
               won   == [after EXCEPT !.isCompleted = TRUE, !.winnerPlayerIds = {p}]
               drawn == [after EXCEPT !.isCompleted = TRUE, !.winnerPlayerIds = {}]
               turn  == [after EXCEPT
                           !.currentTurnPlayerId = Reg!Gomoku!NextPlayer(h.players, p)]
    <3>1. board \in [Reg!Gomoku!Cells -> Reg!Gomoku!Mark \cup {None}]
      BY <2>1, <2>2 DEF Reg!Gomoku!Doc, Reg!Gomoku!Moves
    <3>2. Reg!Gomoku!Placed(h, p, move) \in {won, drawn, turn}
      BY <2>1 DEF Reg!Gomoku!Placed, Reg!Gomoku!Doc
    <3> HIDE DEF board
    <3>3. after \in Reg!Gomoku!Doc
      BY <2>1, <3>1 DEF Reg!Gomoku!Doc
    <3> HIDE DEF after
    <3>4. Reg!Gomoku!NextPlayer(h.players, p) \in Player
      BY <2>1, AroundTheTable DEF Reg!Gomoku!Doc, Reg!Gomoku!NextPlayer,
           Reg!Gomoku!SeatOf, Reg!Gomoku!Seated
    <3>5. won \in Reg!Gomoku!Doc /\ drawn \in Reg!Gomoku!Doc /\ turn \in Reg!Gomoku!Doc
      BY <3>3, <3>4 DEF Reg!Gomoku!Doc
    <3> QED
      BY <3>2, <3>5
  <2> QED
    BY <2>1, <2>2 DEF Reg!Gomoku!Played, h
<1> QED
  BY <1>1, <1>2, <1>3, <1>4

\* The documents of crew-coordination stay documents.
LEMMA CrewDocuments ==
  ASSUME CrewTasks \subseteq DOMAIN Reg!Crew!TaskTable, NEW p \in Player
  PROVE  /\ Reg!Crew!Created(p) \in Reg!Crew!Doc
         /\ \A m \in Reg!Crew!Doc :
              /\ Reg!Crew!JoinMatch(m, p) \in Reg!Crew!Doc
              /\ Reg!Crew!ReconnectPlayer(m, p) \in Reg!Crew!Doc
              /\ \A seq \in Nat, move \in Reg!Crew!Moves :
                   Reg!Crew!Played(m, p, seq, move) \in Reg!Crew!Doc
<1>0. \A roles : Reg!Crew!NextRole(roles) \in Reg!Crew!Role
  <2> TAKE roles
  <2> DEFINE free == {i \in DOMAIN Reg!Crew!RoleOrder :
                        \A q \in Player : roles[q] # Reg!Crew!RoleOrder[i]}
  <2>1. DOMAIN Reg!Crew!RoleOrder = 1..4
    BY DEF Reg!Crew!RoleOrder
  <2>2. "cabin" \in Reg!Crew!Role
    BY DEF Reg!Crew!Role, Reg!Crew!RoleOrder
  <2>3. free # {} => \E i \in free : \A j \in free : i <= j
    BY <2>1
  <2>4. Reg!Crew!NextRole(roles) = IF free = {} THEN "cabin"
                            ELSE Reg!Crew!RoleOrder[CHOOSE i \in free : \A j \in free : i <= j]
    BY DEF Reg!Crew!NextRole
  <2>5. free \subseteq DOMAIN Reg!Crew!RoleOrder
    OBVIOUS
  <2> HIDE DEF free
  <2> QED
    BY <2>2, <2>3, <2>4, <2>5 DEF Reg!Crew!Role
<1>1. Reg!Crew!Created(p) \in Reg!Crew!Doc
  BY DEF Reg!Crew!Created, Reg!Crew!Doc, Reg!Crew!Role, Reg!Crew!RoleOrder,
       Reg!Crew!AllZero, Reg!Crew!Unheard
<1>2. ASSUME NEW m \in Reg!Crew!Doc
      PROVE  Reg!Crew!WithRole(m, p) \in Reg!Crew!Doc
  BY <1>0 DEF Reg!Crew!WithRole, Reg!Crew!Doc
<1>3. ASSUME NEW m \in Reg!Crew!Doc
      PROVE  Reg!Crew!JoinMatch(m, p) \in Reg!Crew!Doc
  <2>1. Reg!Crew!Joined(m, p) \in Reg!Crew!Doc
    BY OneMore DEF Reg!Crew!Joined, Reg!Crew!Doc
  <2> QED
    BY <1>2, <2>1 DEF Reg!Crew!JoinMatch
<1>4. ASSUME NEW m \in Reg!Crew!Doc
      PROVE  Reg!Crew!ReconnectPlayer(m, p) \in Reg!Crew!Doc
  <2>1. Reg!Crew!Reconnected(m, p) \in Reg!Crew!Doc
    BY OneMore DEF Reg!Crew!Reconnected, Reg!Crew!WithPlayer, Reg!Crew!Doc
  <2> QED
    BY <1>2, <2>1 DEF Reg!Crew!ReconnectPlayer
<1>5. ASSUME NEW m \in Reg!Crew!Doc, NEW seq \in Nat, NEW move \in Reg!Crew!Moves
      PROVE  Reg!Crew!Played(m, p, seq, move) \in Reg!Crew!Doc
  <2> DEFINE h == Reg!Crew!Heard(m, p, seq)
  <2>1. h \in Reg!Crew!Doc
    BY DEF Reg!Crew!Doc, Reg!Crew!Heard
  <2> HIDE DEF h
  <2>2. Reg!Crew!TaskClaimed(h, p, move) \in Reg!Crew!Doc
    <3> DEFINE t      == Reg!Crew!TaskTable[move]
               points == t.baseScore + Reg!Crew!RoleMatchBonus(h, p, move)
                           + Reg!Crew!RelayBonus(h, p, move)
               tasks  == [h.tasks EXCEPT ![move] = p]
               scores == [h.playerScores EXCEPT ![p] = h.playerScores[p] + points]
               last   == [playerId |-> p, zone |-> t.zone]
               after  == [h EXCEPT !.tasks = tasks, !.teamScore = h.teamScore + points,
                                   !.playerScores = scores, !.lastMove = last]
               turn   == [after EXCEPT
                            !.currentTurnPlayerId = Reg!Crew!NextPlayer(h.players, p)]
    <3>1. t.baseScore \in Nat /\ t.zone \in {"aft", "cockpit", "forward", "mid"}
      BY DEF Reg!Crew!Moves, Reg!Crew!TaskTable, Reg!Crew!Task
    <3>2. points \in Nat
      BY <3>1 DEF Reg!Crew!RoleMatchBonus, Reg!Crew!RelayBonus
    <3>3. Reg!Crew!TaskClaimed(h, p, move) \in {Reg!Crew!MissionEnded(after), turn}
      BY <2>1 DEF Reg!Crew!TaskClaimed, Reg!Crew!Doc
    <3> HIDE DEF points
    <3>4. tasks \in [CrewTasks -> Player \cup {None}] /\ scores \in [Player -> Nat]
      <4>1. tasks \in [CrewTasks -> Player \cup {None}]
        BY <2>1 DEF Reg!Crew!Doc, Reg!Crew!Moves
      <4>2. h.playerScores \in [Player -> Nat]
        BY <2>1 DEF Reg!Crew!Doc
      <4>3. h.playerScores[p] + points \in Nat
        BY <3>2, <4>2
      <4> QED
        BY <4>1, <4>2, <4>3
    <3>5. last \in Reg!Crew!LastMove /\ h.teamScore + points \in Nat
      BY <2>1, <3>1, <3>2 DEF Reg!Crew!Doc, Reg!Crew!LastMove
    <3> HIDE DEF t, tasks, scores, last
    <3>6. after \in Reg!Crew!Doc
      BY <2>1, <3>4, <3>5 DEF Reg!Crew!Doc
    <3> HIDE DEF after
    <3>7. Reg!Crew!NextPlayer(h.players, p) \in Player
      BY <2>1, AroundTheTable DEF Reg!Crew!Doc, Reg!Crew!NextPlayer, Reg!Crew!SeatOf,
           Reg!Crew!Seated
    <3>8. Reg!Crew!PlayersOf(after) \subseteq Player
      BY <3>6, PlayersOfSeq DEF Reg!Crew!Doc, Reg!Crew!PlayersOf
    <3>9. turn \in Reg!Crew!Doc
      BY <3>6, <3>7 DEF Reg!Crew!Doc
    <3>10. Reg!Crew!MissionEnded(after) \in Reg!Crew!Doc
      BY <3>6, <3>8 DEF Reg!Crew!MissionEnded, Reg!Crew!Doc
    <3> QED
      BY <3>3, <3>9, <3>10
  <2> QED
    BY <2>1, <2>2 DEF Reg!Crew!Played, h
<1> QED
  BY <1>1, <1>3, <1>4, <1>5

\* The documents of cabin-card-clash stay documents.
LEMMA CardsDocuments ==
  ASSUME CardRounds \in Nat \ {0}, NEW p \in Player
  PROVE  /\ Reg!Cards!Created(p) \in Reg!Cards!Doc
         /\ \A m \in Reg!Cards!Doc :
              /\ Reg!Cards!JoinMatch(m, p) \in Reg!Cards!Doc
              /\ Reg!Cards!ReconnectPlayer(m, p) \in Reg!Cards!Doc
              /\ \A seq \in Nat, move \in Reg!Cards!Moves :
                   Reg!Cards!Played(m, p, seq, move) \in Reg!Cards!Doc
<1>1. Reg!Cards!Created(p) \in Reg!Cards!Doc
  BY DEF Reg!Cards!Created, Reg!Cards!Doc, Reg!Cards!AllZero, Reg!Cards!Unheard,
       Reg!Cards!Hand, Reg!Cards!NoCards
<1>2. ASSUME NEW m \in Reg!Cards!Doc
      PROVE  Reg!Cards!JoinMatch(m, p) \in Reg!Cards!Doc
  <2> DEFINE players == Append(m.players, p)
             seqs    == [m.lastSeqByPlayer EXCEPT ![p] = -1]
             hands   == [m.handsByPlayer EXCEPT ![p] = "two"]
             played  == [m.playedCardIdsByPlayer EXCEPT ![p] = {}]
             scores  == [m.scores EXCEPT ![p] = 0]
             joined  == [m EXCEPT !.players = players, !.lastSeqByPlayer = seqs,
                                  !.handsByPlayer = hands, !.playedCardIdsByPlayer = played,
                                  !.scores = scores]
  <2>1. players \in Seq(Player) /\ seqs \in [Player -> Nat \cup {-1}]
    BY OneMore DEF Reg!Cards!Doc
  <2>2. hands \in [Player -> Reg!Cards!Hand \cup {None}]
    BY DEF Reg!Cards!Doc, Reg!Cards!Hand
  <2>3. played \in [Player -> SUBSET Reg!Cards!Cards] /\ scores \in [Player -> Nat]
    BY DEF Reg!Cards!Doc
  <2>4. Reg!Cards!JoinMatch(m, p) \in {m, joined}
    BY DEF Reg!Cards!JoinMatch, Reg!Cards!Doc
  <2> HIDE DEF players, seqs, hands, played, scores
  <2>5. joined \in Reg!Cards!Doc
    BY <2>1, <2>2, <2>3 DEF Reg!Cards!Doc
  <2> QED
    BY <2>4, <2>5
<1>3. ASSUME NEW m \in Reg!Cards!Doc
      PROVE  Reg!Cards!ReconnectPlayer(m, p) \in Reg!Cards!Doc
  <2> DEFINE players == Reg!Cards!WithPlayer(m.players, p)
             hand    == IF m.handsByPlayer[p] # None THEN m.handsByPlayer[p]
                        ELSE IF players[1] = p THEN "one" ELSE "two"
             hands   == [m.handsByPlayer EXCEPT ![p] = hand]
  <2>1. players \in Seq(Player)
    BY OneMore DEF Reg!Cards!WithPlayer, Reg!Cards!Doc
  <2>2. hand \in Reg!Cards!Hand
    BY DEF Reg!Cards!Doc, Reg!Cards!Hand
  <2>3. Reg!Cards!ReconnectPlayer(m, p) = [m EXCEPT
                                                 !.players = players, !.handsByPlayer = hands]
    BY DEF Reg!Cards!ReconnectPlayer, Reg!Cards!Doc
  <2> HIDE DEF players, hand
  <2>4. hands \in [Player -> Reg!Cards!Hand \cup {None}]
    BY <2>2 DEF Reg!Cards!Doc
  <2> HIDE DEF hands
  <2> QED
    BY <2>1, <2>3, <2>4 DEF Reg!Cards!Doc
<1>4. ASSUME NEW m \in Reg!Cards!Doc, Len(m.players) >= 2
      PROVE  Reg!Cards!RoundResolved(m) \in Reg!Cards!Doc
  <2> DEFINE winners == Reg!Cards!RoundWinners(m)
             result  == [winnerPlayerIds |-> winners, players |-> Reg!Cards!PlayersOf(m)]
             results == Append(m.roundResults, result)
             scores  == [q \in Player |->
                           IF q \in Reg!Cards!PlayersOf(m) THEN m.scores[q]
                               + Reg!Cards!Awarded(m, q)
                           ELSE m.scores[q]]
             after   == [m EXCEPT !.roundResults = results, !.scores = scores]
             k       == m.currentRoundNumber + 1
             starter == Reg!Cards!RoundStarter(m, winners, k)
             over    == [after EXCEPT !.isCompleted = TRUE,
                                      !.winnerPlayerIds = Reg!Cards!Winning(after)]
             next    == [after EXCEPT !.currentRoundNumber = k,
                                      !.currentRoundCards = Reg!Cards!NoCards,
                                      !.currentTurnPlayerId = starter]
  <2>1. Reg!Cards!RoundResolved(m) = IF m.currentRoundNumber >= CardRounds THEN over ELSE next
    BY DEF Reg!Cards!RoundResolved
  <2>2. Reg!Cards!PlayersOf(m) \subseteq Player /\ winners \subseteq Reg!Cards!PlayersOf(m)
    BY PlayersOfSeq DEF Reg!Cards!Doc, Reg!Cards!PlayersOf, Reg!Cards!RoundWinners,
         Reg!Cards!Leaders
  <2> HIDE DEF winners
  <2>3. result \in Reg!Cards!RoundResult
    BY <2>2 DEF Reg!Cards!RoundResult
  <2> HIDE DEF result
  <2>4. results \in Seq(Reg!Cards!RoundResult)
    BY <2>3 DEF Reg!Cards!Doc
  <2>5. scores \in [Player -> Nat]
    BY DEF Reg!Cards!Doc, Reg!Cards!Awarded
  <2> HIDE DEF results, scores
  <2>6. after \in Reg!Cards!Doc
    BY <2>4, <2>5 DEF Reg!Cards!Doc
  <2>7. m.currentRoundNumber \in 1..CardRounds /\ m.players \in Seq(Player)
    BY DEF Reg!Cards!Doc
  <2>8. starter \in Player
    <3>2. Reg!Cards!Cardinality({}) = 0
      <4>1. Reg!Cards!Cardinality({}) = Cardinality({})
        BY DEF Reg!Cards!Cardinality, Cardinality
      <4> QED
        BY <4>1, FS_EmptySet
    <3>3. m.players[((k - 1) % Len(m.players)) + 1] \in Player
      <4> DEFINE i == ((k - 1) % Len(m.players)) + 1
      <4>1. Len(m.players) \in Nat /\ k - 1 \in Nat
        BY <2>7, LenProperties
      <4>2. i \in 1..Len(m.players)
        BY <1>4, <4>1
      <4> HIDE DEF i
      <4>3. m.players[i] \in Player
        BY <2>7, <4>2, ElementOfSeq
      <4> QED
        BY <4>3 DEF i
    <3> HIDE DEF k
    <3>4. Reg!Cards!Cardinality(winners) = 1 => starter \in winners
      BY <3>2 DEF Reg!Cards!RoundStarter
    <3>5. Reg!Cards!Cardinality(winners) # 1 => starter \in Player
      BY <3>3 DEF Reg!Cards!RoundStarter
    <3> QED
      BY <2>2, <3>4, <3>5
  <2> HIDE DEF after, starter
  <2>9. Reg!Cards!Winning(after) \subseteq Player
    BY <2>6, PlayersOfSeq DEF Reg!Cards!Doc, Reg!Cards!Winning, Reg!Cards!Leaders,
         Reg!Cards!PlayersOf
  <2>10. over \in Reg!Cards!Doc
    BY <2>6, <2>9 DEF Reg!Cards!Doc
  <2>11. Reg!Cards!NoCards \in [Player -> Reg!Cards!Cards \cup {None}]
    BY DEF Reg!Cards!NoCards
  <2>12. ~(m.currentRoundNumber >= CardRounds) => m.currentRoundNumber + 1 \in 1..CardRounds
    BY <2>7
  <2>13. ~(m.currentRoundNumber >= CardRounds) => next \in Reg!Cards!Doc
    BY <2>6, <2>8, <2>11, <2>12 DEF Reg!Cards!Doc
  <2> QED
    BY <2>1, <2>10, <2>13
<1>5. ASSUME NEW m \in Reg!Cards!Doc, Len(m.players) >= 2, NEW c \in Reg!Cards!Moves
      PROVE  Reg!Cards!CardPlayed(m, p, c) \in Reg!Cards!Doc
  <2> DEFINE table  == [m.currentRoundCards EXCEPT ![p] = c]
             played == [m.playedCardIdsByPlayer EXCEPT
                          ![p] = m.playedCardIdsByPlayer[p] \cup {c}]
             after  == [m EXCEPT !.currentRoundCards = table, !.playedCardIdsByPlayer = played]
             turn   == [after EXCEPT
                          !.currentTurnPlayerId = Reg!Cards!NextPlayer(m.players, p)]
  <2>1. Reg!Cards!CardPlayed(m, p, c) \in {turn, Reg!Cards!RoundResolved(after)}
    BY DEF Reg!Cards!CardPlayed, Reg!Cards!Doc
  <2>2. /\ table \in [Player -> Reg!Cards!Cards \cup {None}]
        /\ played \in [Player -> SUBSET Reg!Cards!Cards]
    BY DEF Reg!Cards!Doc, Reg!Cards!Moves
  <2> HIDE DEF table, played
  <2>3. after \in Reg!Cards!Doc /\ after.players = m.players
    BY <2>2 DEF Reg!Cards!Doc
  <2>4. Reg!Cards!NextPlayer(m.players, p) \in Player
    BY AroundTheTable DEF Reg!Cards!Doc, Reg!Cards!NextPlayer, Reg!Cards!SeatOf,
         Reg!Cards!Seated
  <2> HIDE DEF after
  <2>5. turn \in Reg!Cards!Doc
    BY <2>3, <2>4 DEF Reg!Cards!Doc
  <2> QED
    BY <1>4, <1>5, <2>1, <2>3, <2>5
<1>6. ASSUME NEW m \in Reg!Cards!Doc, NEW seq \in Nat, NEW move \in Reg!Cards!Moves
      PROVE  Reg!Cards!Played(m, p, seq, move) \in Reg!Cards!Doc
  <2> DEFINE h == Reg!Cards!Heard(m, p, seq)
  <2>1. h \in Reg!Cards!Doc /\ h.players = m.players
    BY DEF Reg!Cards!Doc, Reg!Cards!Heard
  <2>2. Len(m.players) \in Nat
    BY LenProperties DEF Reg!Cards!Doc
  <2> HIDE DEF h
  <2>3. Len(m.players) >= 2 => Reg!Cards!CardPlayed(h, p, move) \in Reg!Cards!Doc
    BY <1>5, <2>1
  <2> QED
    BY <2>1, <2>2, <2>3 DEF Reg!Cards!Played, Reg!Cards!NotToMove, h
<1> QED
  BY <1>1, <1>2, <1>3, <1>6

\* The documents of baggage-sort-showdown stay documents.
LEMMA BagsDocuments ==
  ASSUME TotalBags \in 1..6, NEW p \in Player
  PROVE  /\ Reg!Bags!Created(p) \in Reg!Bags!Doc
         /\ \A m \in Reg!Bags!Doc :
              /\ Reg!Bags!JoinMatch(m, p) \in Reg!Bags!Doc
              /\ Reg!Bags!ReconnectPlayer(m, p) \in Reg!Bags!Doc
              /\ \A seq \in Nat, move \in Reg!Bags!Moves :
                   Reg!Bags!Played(m, p, seq, move) \in Reg!Bags!Doc
<1>1. Reg!Bags!Created(p) \in Reg!Bags!Doc
  BY DEF Reg!Bags!Created, Reg!Bags!Doc, Reg!Bags!AllZero, Reg!Bags!Unheard
<1>2. ASSUME NEW m \in Reg!Bags!Doc
      PROVE  Reg!Bags!JoinMatch(m, p) \in Reg!Bags!Doc
  BY OneMore DEF Reg!Bags!JoinMatch, Reg!Bags!Joined, Reg!Bags!Doc
<1>3. ASSUME NEW m \in Reg!Bags!Doc
      PROVE  Reg!Bags!ReconnectPlayer(m, p) \in Reg!Bags!Doc
  BY OneMore DEF Reg!Bags!ReconnectPlayer, Reg!Bags!Reconnected, Reg!Bags!WithPlayer,
       Reg!Bags!Doc
<1>4. ASSUME NEW m \in Reg!Bags!Doc
      PROVE  Reg!Bags!Settled(m) \in Reg!Bags!Doc
  <2>1. Reg!Bags!Winning(m) \subseteq Player
    BY PlayersOfSeq DEF Reg!Bags!Doc, Reg!Bags!Winning, Reg!Bags!Leaders,
         Reg!Bags!PlayersOf
  <2> QED
    BY <2>1 DEF Reg!Bags!Settled, Reg!Bags!Doc
<1>5. ASSUME NEW m \in Reg!Bags!Doc
      PROVE  Reg!Bags!Missorted(m, p) \in Reg!Bags!Doc
  <2> DEFINE points == Reg!Bags!Larger(0, m.scores[p] - 1)
             scores == [m.scores EXCEPT ![p] = points]
  <2>1. points \in Nat
    BY DEF Reg!Bags!Larger, Reg!Bags!Doc
  <2>2. scores \in [Player -> Nat]
    BY <2>1 DEF Reg!Bags!Doc
  <2>3. Reg!Bags!Missorted(m, p) = [m EXCEPT !.scores = scores]
    BY DEF Reg!Bags!Missorted, Reg!Bags!Doc
  <2> HIDE DEF scores
  <2> QED
    BY <2>2, <2>3 DEF Reg!Bags!Doc
<1>6. ASSUME NEW m \in Reg!Bags!Doc, Reg!Bags!BagsLeft(m)
      PROVE  Reg!Bags!Sorted(m, p) \in Reg!Bags!Doc
  <2> DEFINE bag    == m.currentBagIndex + 1
             points == Reg!Bags!BagDeck[bag].points
             scores == [m.scores EXCEPT ![p] = m.scores[p] + points]
             ids    == Append(m.resolvedBagIds, bag)
  <2>1. bag \in 1..TotalBags
    BY <1>6 DEF Reg!Bags!BagsLeft, Reg!Bags!Doc
  <2>2. points \in Nat
    <3>1. bag \in 1..6
      BY <2>1
    <3> HIDE DEF bag
    <3> QED
      BY <3>1 DEF Reg!Bags!BagDeck
  <2>3. Reg!Bags!Sorted(m, p) = [m EXCEPT !.scores = scores, !.resolvedBagIds = ids,
                                   !.currentBagIndex = bag]
    BY DEF Reg!Bags!Sorted, Reg!Bags!CurrentBag, Reg!Bags!Doc
  <2> HIDE DEF bag, points
  <2>4. scores \in [Player -> Nat] /\ ids \in Seq(1..TotalBags) /\ bag \in 0..TotalBags
    BY <2>1, <2>2 DEF Reg!Bags!Doc
  <2> HIDE DEF scores, ids
  <2> QED
    BY <2>3, <2>4 DEF Reg!Bags!Doc
<1>7. ASSUME NEW m \in Reg!Bags!Doc, NEW seq \in Nat, NEW move \in Reg!Bags!Moves
      PROVE  Reg!Bags!Played(m, p, seq, move) \in Reg!Bags!Doc
  <2> DEFINE h == Reg!Bags!Heard(m, p, seq)
  <2>1. h \in Reg!Bags!Doc /\ (Reg!Bags!BagsLeft(h) <=> Reg!Bags!BagsLeft(m))
    BY DEF Reg!Bags!Doc, Reg!Bags!Heard, Reg!Bags!BagsLeft
  <2> HIDE DEF h
  <2>2. Reg!Bags!BagsLeft(m) => Reg!Bags!Settled(Reg!Bags!Sorted(h, p)) \in Reg!Bags!Doc
    BY <1>4, <1>6, <2>1
  <2>3. Reg!Bags!Settled(Reg!Bags!Missorted(h, p)) \in Reg!Bags!Doc
    BY <1>4, <1>5, <2>1
  <2> QED
    BY <2>1, <2>2, <2>3 DEF Reg!Bags!Played, h
<1> QED
  BY <1>1, <1>2, <1>3, <1>7

\* The documents of a match of memory-match-duel that is over with its last pair.
MemoryDocs == {m \in Reg!Memory!Doc : m.isCompleted <=> m.matchedPairCount = TotalPairs}

\* The documents of memory-match-duel stay documents.
LEMMA MemoryDocuments ==
  ASSUME TotalPairs \in 1..3, MaxRevision \in Nat \ {0}, NEW p \in Player
  PROVE  /\ Reg!Memory!Created(p) \in MemoryDocs
         /\ \A m \in MemoryDocs :
              /\ Reg!Memory!JoinMatch(m, p) \in MemoryDocs
              /\ Reg!Memory!ReconnectPlayer(m, p) \in MemoryDocs
              /\ \A seq \in Nat, move \in Reg!Memory!Moves :
                   Reg!Memory!Played(m, p, seq, move) \in MemoryDocs
<1>1. Reg!Memory!Created(p) \in MemoryDocs
  BY DEF Reg!Memory!Created, MemoryDocs, Reg!Memory!Doc, Reg!Memory!AllZero,
       Reg!Memory!Unheard, Reg!Memory!Status
<1>2. ASSUME NEW m \in MemoryDocs
      PROVE  Reg!Memory!Bumped(m) \in MemoryDocs
  <2> DEFINE revision == IF m.revision < MaxRevision THEN m.revision + 1 ELSE MaxRevision
  <2>1. revision \in 1..MaxRevision
    BY DEF MemoryDocs, Reg!Memory!Doc
  <2>2. Reg!Memory!Bumped(m) = [m EXCEPT !.revision = revision]
    BY DEF Reg!Memory!Bumped
  <2> HIDE DEF revision
  <2> QED
    BY <2>1, <2>2 DEF MemoryDocs, Reg!Memory!Doc
<1>3. ASSUME NEW m \in MemoryDocs
      PROVE  Reg!Memory!JoinMatch(m, p) \in MemoryDocs
  <2>1. Reg!Memory!Joined(m, p) \in MemoryDocs
    BY OneMore DEF Reg!Memory!Joined, MemoryDocs, Reg!Memory!Doc
  <2> QED
    BY <1>2, <2>1 DEF Reg!Memory!JoinMatch
<1>4. ASSUME NEW m \in MemoryDocs
      PROVE  Reg!Memory!ReconnectPlayer(m, p) \in MemoryDocs
  <2>1. Reg!Memory!Reconnected(m, p) \in MemoryDocs
    BY OneMore DEF Reg!Memory!Reconnected, Reg!Memory!WithPlayer, MemoryDocs, Reg!Memory!Doc
  <2> QED
    BY <1>2, <2>1 DEF Reg!Memory!ReconnectPlayer
<1>5. ASSUME NEW m \in MemoryDocs, ~m.isCompleted, NEW c \in Reg!Memory!Moves,
NEW d \in Reg!Memory!Moves
      PROVE  Reg!Memory!TurnResolved(m, p, c, d) \in MemoryDocs
  <2> DEFINE pair   == Reg!Memory!IsPair(c, d)
             side   == IF pair THEN "matched" ELSE "hidden"
             count  == m.matchedPairCount + (IF pair THEN 1 ELSE 0)
             points == m.scores[p] + (IF pair THEN 12 ELSE 0)
             turn   == IF pair THEN p ELSE Reg!Memory!NextPlayer(m.players, p)
             board  == [m.board EXCEPT ![c] = side, ![d] = side]
             scores == [m.scores EXCEPT ![p] = points]
             after  == [m EXCEPT !.board = board, !.matchedPairCount = count,
                                 !.scores = scores, !.currentTurnPlayerId = turn,
                                 !.selection = <<>>, !.selectionOwnerPlayerId = None]
             inTurn == [m EXCEPT !.board[c] = side, !.board[d] = side,
                                 !.matchedPairCount = count, !.scores[p] = points,
                                 !.currentTurnPlayerId = turn,
                                 !.selection = <<>>, !.selectionOwnerPlayerId = None]
  <2>1. Reg!Memory!TurnResolved(m, p, c, d)
          = [inTurn EXCEPT !.isCompleted = inTurn.matchedPairCount >= TotalPairs]
    BY DEF Reg!Memory!TurnResolved
  <2>2. side \in Reg!Memory!Status
    BY DEF Reg!Memory!Status
  <2>3. count \in 0..TotalPairs
    BY <1>5 DEF MemoryDocs, Reg!Memory!Doc
  <2>4. points \in Nat
    BY DEF MemoryDocs, Reg!Memory!Doc
  <2>5. turn \in Player
    BY AroundTheTable DEF MemoryDocs, Reg!Memory!Doc, Reg!Memory!NextPlayer,
         Reg!Memory!SeatOf, Reg!Memory!Seated
  <2> HIDE DEF side, count, points, turn
  <2>6. inTurn = after
    BY DEF MemoryDocs, Reg!Memory!Doc
  <2>7. board \in [Reg!Memory!Cards -> Reg!Memory!Status] /\ scores \in [Player -> Nat]
    BY <2>2, <2>4 DEF MemoryDocs, Reg!Memory!Doc
  <2> HIDE DEF board, scores
  <2>8. after \in Reg!Memory!Doc /\ after.matchedPairCount = count
    <3>1. m \in Reg!Memory!Doc /\ <<>> \in Seq(Reg!Memory!Cards)
      BY DEF MemoryDocs
    <3> QED
      BY <2>3, <2>5, <2>7, <3>1 DEF Reg!Memory!Doc
  <2> HIDE DEF inTurn, after
  <2>9. count >= TotalPairs <=> count = TotalPairs
    BY <2>3
  <2> DEFINE done == count >= TotalPairs
             last == [after EXCEPT !.isCompleted = done]
  <2>10. Reg!Memory!TurnResolved(m, p, c, d) = last
    BY <2>1, <2>6, <2>8
  <2>11. done \in BOOLEAN
    OBVIOUS
  <2>12. last \in Reg!Memory!Doc /\ last.isCompleted = done /\ last.matchedPairCount = count
    <3> HIDE DEF done
    <3> QED
      BY <2>8, <2>11 DEF Reg!Memory!Doc
  <2> HIDE DEF last
  <2> QED
    BY <2>9, <2>10, <2>12 DEF MemoryDocs
<1>6. ASSUME NEW m \in MemoryDocs, ~m.isCompleted, NEW c \in Reg!Memory!Moves
      PROVE  Reg!Memory!Flipped(m, p, c) \in MemoryDocs
  <2> DEFINE board == [m.board EXCEPT ![c] = "revealed"]
             shown == [m EXCEPT !.board = board, !.selection = <<c>>,
                                !.selectionOwnerPlayerId = p]
  <2>1. board \in [Reg!Memory!Cards -> Reg!Memory!Status] /\ <<c>> \in Seq(Reg!Memory!Cards)
    BY DEF MemoryDocs, Reg!Memory!Doc, Reg!Memory!Moves, Reg!Memory!Status
  <2>2. m.selection = <<>> => Reg!Memory!Flipped(m, p, c) = shown
    BY DEF Reg!Memory!Flipped, MemoryDocs, Reg!Memory!Doc
  <2> HIDE DEF board
  <2>3. shown \in MemoryDocs
    BY <2>1 DEF MemoryDocs, Reg!Memory!Doc
  <2>4. m.selection # <<>> => m.selection[1] \in Reg!Memory!Moves
    BY EmptySeq, ElementOfSeq DEF MemoryDocs, Reg!Memory!Doc, Reg!Memory!Moves
  <2>5. m.selection # <<>> => Reg!Memory!TurnResolved(m, p, m.selection[1], c) \in MemoryDocs
    BY <1>5, <1>6, <2>4
  <2> QED
    BY <2>2, <2>3, <2>5 DEF Reg!Memory!Flipped
<1>7. ASSUME NEW m \in MemoryDocs, NEW seq \in Nat, NEW move \in Reg!Memory!Moves
      PROVE  Reg!Memory!Played(m, p, seq, move) \in MemoryDocs
  <2> DEFINE h == Reg!Memory!Heard(m, p, seq)
  <2>1. h \in MemoryDocs /\ h.isCompleted = m.isCompleted
    BY DEF MemoryDocs, Reg!Memory!Doc, Reg!Memory!Heard
  <2> HIDE DEF h
  <2>2. ~m.isCompleted => Reg!Memory!Flipped(h, p, move) \in MemoryDocs
    BY <1>6, <2>1
  <2> QED
    BY <1>2, <2>1, <2>2 DEF Reg!Memory!Played, h
<1> QED
  BY <1>1, <1>3, <1>4, <1>7

\* The documents of puzzle-race-grid stay documents.
LEMMA GridDocuments ==
  ASSUME TargetCount \in 1..5, NEW p \in Player
  PROVE  /\ Reg!Grid!Created(p) \in Reg!Grid!Doc
         /\ \A m \in Reg!Grid!Doc :
              /\ Reg!Grid!JoinMatch(m, p) \in Reg!Grid!Doc
              /\ Reg!Grid!ReconnectPlayer(m, p) \in Reg!Grid!Doc
              /\ \A seq \in Nat, move \in Reg!Grid!Moves :
                   Reg!Grid!Played(m, p, seq, move) \in Reg!Grid!Doc
<1>1. Reg!Grid!Created(p) \in Reg!Grid!Doc
  BY DEF Reg!Grid!Created, Reg!Grid!Doc, Reg!Grid!AllZero, Reg!Grid!Unheard
<1>2. ASSUME NEW m \in Reg!Grid!Doc
      PROVE  Reg!Grid!JoinMatch(m, p) \in Reg!Grid!Doc
  <2>1. Reg!Grid!Joined(m, p) \in Reg!Grid!Doc
    BY OneMore DEF Reg!Grid!Joined, Reg!Grid!Doc
  <2>2. ASSUME NEW n \in Reg!Grid!Doc
        PROVE  [n EXCEPT !.scores[p] = 0, !.progressByPlayer[p] = 0] \in Reg!Grid!Doc
    <3> DEFINE scores == [n.scores EXCEPT ![p] = 0]
               steps  == [n.progressByPlayer EXCEPT ![p] = 0]
    <3>1. 0 \in 0..TargetCount
      OBVIOUS
    <3>2. scores \in [Player -> Nat] /\ steps \in [Player -> 0..TargetCount]
      BY <3>1 DEF Reg!Grid!Doc
    <3>3. [n EXCEPT !.scores[p] = 0, !.progressByPlayer[p] = 0]
            = [n EXCEPT !.scores = scores, !.progressByPlayer = steps]
      BY DEF Reg!Grid!Doc
    <3> HIDE DEF scores, steps
    <3> QED
      BY <3>2, <3>3 DEF Reg!Grid!Doc
  <2> QED
    BY <2>1, <2>2 DEF Reg!Grid!JoinMatch
<1>3. ASSUME NEW m \in Reg!Grid!Doc
      PROVE  Reg!Grid!ReconnectPlayer(m, p) \in Reg!Grid!Doc
  BY OneMore DEF Reg!Grid!ReconnectPlayer, Reg!Grid!Reconnected, Reg!Grid!WithPlayer,
       Reg!Grid!Doc
<1>4. ASSUME NEW m \in Reg!Grid!Doc, NEW c \in Reg!Grid!Moves, c # Reg!Grid!Decoy,
c = Reg!Grid!Expected(m, p)
      PROVE  Reg!Grid!Taken(m, p, c) \in Reg!Grid!Doc
  <2> DEFINE cells  == [m.cells EXCEPT ![c] = p]
             steps  == [m.progressByPlayer EXCEPT ![p] = c]
             scores == [m.scores EXCEPT ![p] = m.scores[p] + Reg!Grid!TargetValue[c]]
             after  == [m EXCEPT !.cells = cells, !.progressByPlayer = steps, !.scores = scores]
  <2>1. c \in 1..TargetCount /\ c \in 1..5 /\ c = m.progressByPlayer[p] + 1
    BY <1>4 DEF Reg!Grid!Moves, Reg!Grid!Decoy, Reg!Grid!Expected
  <2>2. Reg!Grid!TargetValue[c] \in Nat
    BY <2>1 DEF Reg!Grid!TargetValue
  <2>3. Reg!Grid!Taken(m, p, c) \in {after, [after EXCEPT !.isCompleted = TRUE,
                                                    !.winnerPlayerIds = {p}]}
    BY <2>1 DEF Reg!Grid!Taken, Reg!Grid!Doc
  <2>4. /\ cells \in [Reg!Grid!Targets -> Player \cup {None}] /\ scores \in [Player -> Nat]
        /\ steps \in [Player -> 0..TargetCount]
    BY <2>1, <2>2 DEF Reg!Grid!Doc, Reg!Grid!Targets
  <2> HIDE DEF cells, steps, scores
  <2>5. after \in Reg!Grid!Doc
    BY <2>4 DEF Reg!Grid!Doc
  <2> HIDE DEF after
  <2>6. [after EXCEPT !.isCompleted = TRUE, !.winnerPlayerIds = {p}] \in Reg!Grid!Doc
    BY <2>5 DEF Reg!Grid!Doc
  <2> QED
    BY <2>3, <2>5, <2>6
<1>5. ASSUME NEW m \in Reg!Grid!Doc, NEW seq \in Nat, NEW move \in Reg!Grid!Moves
      PROVE  Reg!Grid!Played(m, p, seq, move) \in Reg!Grid!Doc
  <2> DEFINE h == Reg!Grid!Heard(m, p, seq)
  <2>1. h \in Reg!Grid!Doc /\ h.progressByPlayer = m.progressByPlayer
    BY DEF Reg!Grid!Doc, Reg!Grid!Heard
  <2> HIDE DEF h
  <2>2. Reg!Grid!Expected(h, p) = Reg!Grid!Expected(m, p)
    BY <2>1 DEF Reg!Grid!Expected
  <2> QED
    BY <1>4, <2>1, <2>2 DEF Reg!Grid!Played, h
<1> QED
  BY <1>1, <1>2, <1>3, <1>5

\* The documents of signal-scramble stay documents.
LEMMA SignalsDocuments ==
  ASSUME TargetCount \in 1..4, NEW p \in Player
  PROVE  /\ Reg!Signals!Created(p) \in Reg!Signals!Doc
         /\ \A m \in Reg!Signals!Doc :
              /\ Reg!Signals!JoinMatch(m, p) \in Reg!Signals!Doc
              /\ Reg!Signals!ReconnectPlayer(m, p) \in Reg!Signals!Doc
              /\ \A seq \in Nat, move \in Reg!Signals!Moves :
                   Reg!Signals!Played(m, p, seq, move) \in Reg!Signals!Doc
<1>1. Reg!Signals!Created(p) \in Reg!Signals!Doc
  BY DEF Reg!Signals!Created, Reg!Signals!Doc, Reg!Signals!AllZero, Reg!Signals!Unheard
<1>2. ASSUME NEW m \in Reg!Signals!Doc
      PROVE  Reg!Signals!JoinMatch(m, p) \in Reg!Signals!Doc
  <2>1. Reg!Signals!Joined(m, p) \in Reg!Signals!Doc
    BY OneMore DEF Reg!Signals!Joined, Reg!Signals!Doc
  <2>2. ASSUME NEW n \in Reg!Signals!Doc
        PROVE  [n EXCEPT !.scores[p] = 0, !.progressByPlayer[p] = 0] \in Reg!Signals!Doc
    <3> DEFINE scores == [n.scores EXCEPT ![p] = 0]
               steps  == [n.progressByPlayer EXCEPT ![p] = 0]
    <3>1. 0 \in 0..TargetCount
      OBVIOUS
    <3>2. scores \in [Player -> Nat] /\ steps \in [Player -> 0..TargetCount]
      BY <3>1 DEF Reg!Signals!Doc
    <3>3. [n EXCEPT !.scores[p] = 0, !.progressByPlayer[p] = 0]
            = [n EXCEPT !.scores = scores, !.progressByPlayer = steps]
      BY DEF Reg!Signals!Doc
    <3> HIDE DEF scores, steps
    <3> QED
      BY <3>2, <3>3 DEF Reg!Signals!Doc
  <2> QED
    BY <2>1, <2>2 DEF Reg!Signals!JoinMatch
<1>3. ASSUME NEW m \in Reg!Signals!Doc
      PROVE  Reg!Signals!ReconnectPlayer(m, p) \in Reg!Signals!Doc
  BY OneMore DEF Reg!Signals!ReconnectPlayer, Reg!Signals!Reconnected,
       Reg!Signals!WithPlayer, Reg!Signals!Doc
<1>4. ASSUME NEW m \in Reg!Signals!Doc, NEW n \in Reg!Signals!Moves,
n = m.progressByPlayer[p] + 1
      PROVE  Reg!Signals!Activated(m, p, n) \in Reg!Signals!Doc
  <2> DEFINE steps  == [m.progressByPlayer EXCEPT ![p] = n]
             scores == [m.scores EXCEPT ![p] = m.scores[p] + Reg!Signals!TargetPoints[n]]
             after  == [m EXCEPT !.progressByPlayer = steps, !.scores = scores]
  <2>1. n \in 1..TargetCount /\ n \in 1..4
    <3>1. m.progressByPlayer[p] \in 0..TargetCount /\ n \in 0..TargetCount
      BY DEF Reg!Signals!Moves, Reg!Signals!Doc
    <3> QED
      BY <1>4, <3>1
  <2>2. Reg!Signals!TargetPoints[n] \in Nat
    BY <2>1 DEF Reg!Signals!TargetPoints
  <2>3. Reg!Signals!Activated(m, p, n) \in {after, [after EXCEPT !.isCompleted = TRUE,
                                                        !.winnerPlayerIds = {p}]}
    BY DEF Reg!Signals!Activated, Reg!Signals!Doc
  <2>4. scores \in [Player -> Nat] /\ steps \in [Player -> 0..TargetCount]
    BY <2>1, <2>2 DEF Reg!Signals!Doc
  <2> HIDE DEF steps, scores
  <2>5. after \in Reg!Signals!Doc
    BY <2>4 DEF Reg!Signals!Doc
  <2> HIDE DEF after
  <2>6. [after EXCEPT !.isCompleted = TRUE, !.winnerPlayerIds = {p}] \in Reg!Signals!Doc
    BY <2>5 DEF Reg!Signals!Doc
  <2> QED
    BY <2>3, <2>5, <2>6
<1>5. ASSUME NEW m \in Reg!Signals!Doc, NEW seq \in Nat, NEW move \in Reg!Signals!Moves
      PROVE  Reg!Signals!Played(m, p, seq, move) \in Reg!Signals!Doc
  <2> DEFINE h == Reg!Signals!Heard(m, p, seq)
  <2>1. h \in Reg!Signals!Doc /\ h.progressByPlayer = m.progressByPlayer
    BY DEF Reg!Signals!Doc, Reg!Signals!Heard
  <2> HIDE DEF h
  <2> QED
    BY <1>4, <2>1 DEF Reg!Signals!Played, h
<1> QED
  BY <1>1, <1>2, <1>3, <1>5

\* spot-the-difference-race ends in a document: when its deadline has passed, when every
\* spot is found.
LEMMA SpottingEnds ==
  ASSUME NEW m \in Reg!Spotting!Doc
  PROVE  /\ Reg!Spotting!CompletedIfFinished(m) \in Reg!Spotting!Doc
         /\ Reg!Spotting!CompletedIfExpired(m) \in Reg!Spotting!Doc
         /\ Reg!Spotting!Observed(m) \in Reg!Spotting!Doc
         /\ Reg!Spotting!DeadlinePasses(m) \in Reg!Spotting!Doc
<1>1. Reg!Spotting!Completed(m) \in Reg!Spotting!Doc
  <2> DEFINE bonus  == IF m.winnerBonusGranted THEN {} ELSE Reg!Spotting!Winning(m)
             scores == [q \in Player |-> m.scores[q] +
                          (IF q \in bonus THEN Reg!Spotting!WINNER_BONUS_POINTS ELSE 0)]
  <2>1. Reg!Spotting!Completed(m) = [m EXCEPT !.isCompleted = TRUE, !.winnerBonusGranted = TRUE,
                                   !.scores = scores]
    BY DEF Reg!Spotting!Completed
  <2> HIDE DEF bonus
  <2>2. scores \in [Player -> Nat]
    BY DEF Reg!Spotting!Doc, Reg!Spotting!WINNER_BONUS_POINTS
  <2> HIDE DEF scores
  <2> QED
    BY <2>1, <2>2 DEF Reg!Spotting!Doc
<1>2. /\ Reg!Spotting!CompletedIfFinished(m) \in Reg!Spotting!Doc
      /\ Reg!Spotting!CompletedIfExpired(m) \in Reg!Spotting!Doc
  BY <1>1 DEF Reg!Spotting!CompletedIfFinished, Reg!Spotting!CompletedIfExpired
<1> QED
  BY <1>2 DEF Reg!Spotting!Observed, Reg!Spotting!DeadlinePasses, Reg!Spotting!Doc

\* The documents of spot-the-difference-race stay documents.
LEMMA SpottingDocuments ==
  ASSUME NEW p \in Player
  PROVE  /\ Reg!Spotting!Created(p) \in Reg!Spotting!Doc
         /\ \A m \in Reg!Spotting!Doc :
              /\ Reg!Spotting!JoinMatch(m, p) \in Reg!Spotting!Doc
              /\ Reg!Spotting!ReconnectPlayer(m, p) \in Reg!Spotting!Doc
              /\ \A seq \in Nat, move \in Reg!Spotting!Moves :
                   Reg!Spotting!Played(m, p, seq, move) \in Reg!Spotting!Doc
<1>1. Reg!Spotting!Created(p) \in Reg!Spotting!Doc
  BY DEF Reg!Spotting!Created, Reg!Spotting!Doc, Reg!Spotting!AllZero,
       Reg!Spotting!Unheard
<1>2. ASSUME NEW m \in Reg!Spotting!Doc
      PROVE  Reg!Spotting!JoinMatch(m, p) \in Reg!Spotting!Doc
  BY OneMore DEF Reg!Spotting!JoinMatch, Reg!Spotting!Joined, Reg!Spotting!Doc
<1>3. ASSUME NEW m \in Reg!Spotting!Doc
      PROVE  Reg!Spotting!ReconnectPlayer(m, p) \in Reg!Spotting!Doc
  BY OneMore DEF Reg!Spotting!ReconnectPlayer, Reg!Spotting!Reconnected,
       Reg!Spotting!WithPlayer, Reg!Spotting!Doc
<1>4. ASSUME NEW m \in Reg!Spotting!Doc, NEW s \in Reg!Spotting!Moves
      PROVE  Reg!Spotting!Claimed(m, p, s) \in Reg!Spotting!Doc
  <2> DEFINE found  == [m.foundSpots EXCEPT ![s] = p]
             scores == [m.scores EXCEPT ![p] = m.scores[p] + Reg!Spotting!CLAIM_POINTS]
  <2>1. found \in [Spots -> Player \cup {None}] /\ scores \in [Player -> Nat]
    BY DEF Reg!Spotting!Moves, Reg!Spotting!CLAIM_POINTS, Reg!Spotting!Doc
  <2>2. Reg!Spotting!Claimed(m, p, s) \in {m, [m EXCEPT
                                                     !.foundSpots = found, !.scores = scores]}
    BY DEF Reg!Spotting!Claimed, Reg!Spotting!Doc
  <2> HIDE DEF found, scores
  <2>3. [m EXCEPT !.foundSpots = found, !.scores = scores] \in Reg!Spotting!Doc
    BY <2>1 DEF Reg!Spotting!Doc
  <2> QED
    BY <2>2, <2>3
<1>5. ASSUME NEW m \in Reg!Spotting!Doc, NEW seq \in Nat, NEW move \in Reg!Spotting!Moves
      PROVE  Reg!Spotting!Played(m, p, seq, move) \in Reg!Spotting!Doc
  <2>1. Reg!Spotting!Heard(m, p, seq) \in Reg!Spotting!Doc
    BY DEF Reg!Spotting!Doc, Reg!Spotting!Heard
  <2> QED
    BY SpottingEnds, <1>4, <2>1 DEF Reg!Spotting!Played
<1> QED
  BY <1>1, <1>2, <1>3, <1>5

\* The documents of tap-beat-battle stay documents.
LEMMA BeatsDocuments ==
  ASSUME TotalRounds \in Nat \ {0}, PatternLength \in Nat, NEW p \in Player
  PROVE  /\ Reg!Beats!Created(p) \in Reg!Beats!Doc
         /\ \A m \in Reg!Beats!Doc :
              /\ Reg!Beats!JoinMatch(m, p) \in Reg!Beats!Doc
              /\ Reg!Beats!ReconnectPlayer(m, p) \in Reg!Beats!Doc
              /\ \A seq \in Nat, move \in Reg!Beats!Moves :
                   Reg!Beats!Played(m, p, seq, move) \in Reg!Beats!Doc
<1>0. 0 \in 0..PatternLength
  OBVIOUS
<1>1. Reg!Beats!Created(p) \in Reg!Beats!Doc
  BY <1>0 DEF Reg!Beats!Created, Reg!Beats!Doc, Reg!Beats!AllZero, Reg!Beats!Unheard
<1>2. ASSUME NEW m \in Reg!Beats!Doc
      PROVE  Reg!Beats!JoinMatch(m, p) \in Reg!Beats!Doc
  <2> DEFINE n      == Reg!Beats!Joined(m, p)
             steps  == [n.progressByPlayer EXCEPT ![p] = 0]
             rounds == [n.roundScoresByPlayer EXCEPT ![p] = 0]
             scores == [n.scores EXCEPT ![p] = 0]
  <2>1. n \in Reg!Beats!Doc
    BY OneMore DEF Reg!Beats!Joined, Reg!Beats!Doc
  <2> HIDE DEF n
  <2>2. /\ steps \in [Player -> 0..PatternLength]
        /\ rounds \in [Player -> Nat] /\ scores \in [Player -> Nat]
    BY <1>0, <2>1 DEF Reg!Beats!Doc
  <2>3. Reg!Beats!JoinMatch(m, p) \in {m, [n EXCEPT !.progressByPlayer = steps,
                                            !.roundScoresByPlayer = rounds, !.scores = scores]}
    BY <2>1 DEF Reg!Beats!JoinMatch, Reg!Beats!Doc, n
  <2> HIDE DEF steps, rounds, scores
  <2>4. [n EXCEPT !.progressByPlayer = steps, !.roundScoresByPlayer = rounds,
                  !.scores = scores] \in Reg!Beats!Doc
    BY <2>1, <2>2 DEF Reg!Beats!Doc
  <2> QED
    BY <2>3, <2>4
<1>3. ASSUME NEW m \in Reg!Beats!Doc
      PROVE  Reg!Beats!ReconnectPlayer(m, p) \in Reg!Beats!Doc
  BY OneMore DEF Reg!Beats!ReconnectPlayer, Reg!Beats!Reconnected, Reg!Beats!WithPlayer,
       Reg!Beats!Doc
<1>4. ASSUME NEW m \in Reg!Beats!Doc
      PROVE  Reg!Beats!RoundCompleted(m) \in Reg!Beats!Doc
  <2> DEFINE rounds == Append(m.completedRounds, m.roundScoresByPlayer)
             closed == [m EXCEPT !.completedRounds = rounds]
             over   == [closed EXCEPT !.isCompleted = TRUE,
                                      !.winnerPlayerIds = Reg!Beats!Winning(closed)
                                                            \cap Reg!Beats!PlayersOf(m)]
             next   == [closed EXCEPT !.currentRoundNumber = m.currentRoundNumber + 1,
                                      !.progressByPlayer = Reg!Beats!AllZero,
                                      !.roundScoresByPlayer = Reg!Beats!AllZero]
  <2>1. Reg!Beats!RoundCompleted(m) = IF m.currentRoundNumber >= TotalRounds THEN over ELSE next
    BY DEF Reg!Beats!RoundCompleted
  <2>2. rounds \in Seq([Player -> Nat])
    BY DEF Reg!Beats!Doc
  <2> HIDE DEF rounds
  <2>3. closed \in Reg!Beats!Doc
    BY <2>2 DEF Reg!Beats!Doc
  <2>4. Reg!Beats!PlayersOf(m) \subseteq Player
    BY PlayersOfSeq DEF Reg!Beats!Doc, Reg!Beats!PlayersOf
  <2> HIDE DEF closed
  <2>5. over \in Reg!Beats!Doc
    BY <2>3, <2>4 DEF Reg!Beats!Doc
  <2>6. /\ Reg!Beats!AllZero \in [Player -> 0..PatternLength]
        /\ Reg!Beats!AllZero \in [Player -> Nat]
    BY <1>0 DEF Reg!Beats!AllZero
  <2>7. m.currentRoundNumber \in 1..TotalRounds
    BY DEF Reg!Beats!Doc
  <2>8. ~(m.currentRoundNumber >= TotalRounds) => m.currentRoundNumber + 1 \in 1..TotalRounds
    BY <2>7
  <2>9. ~(m.currentRoundNumber >= TotalRounds) => next \in Reg!Beats!Doc
    BY <2>3, <2>6, <2>8 DEF Reg!Beats!Doc
  <2> QED
    BY <2>1, <2>5, <2>9
<1>5. ASSUME NEW m \in Reg!Beats!Doc, NEW lane \in Reg!Beats!Moves, Reg!Beats!HasCue(m, p)
      PROVE  Reg!Beats!Tapped(m, p, lane) \in Reg!Beats!Doc
  <2> DEFINE points == IF lane = Reg!Beats!Cue(m, p) THEN Reg!Beats!LanePoints[lane] ELSE 0
             steps  == [m.progressByPlayer EXCEPT ![p] = m.progressByPlayer[p] + 1]
             rounds == [m.roundScoresByPlayer EXCEPT ![p] = m.roundScoresByPlayer[p] + points]
             scores == [m.scores EXCEPT ![p] = m.scores[p] + points]
             after  == [m EXCEPT !.progressByPlayer = steps, !.roundScoresByPlayer = rounds,
                                 !.scores = scores]
  <2>1. points \in Nat
    BY DEF Reg!Beats!Moves, Reg!Beats!Lane, Reg!Beats!LanePoints
  <2>2. Reg!Beats!Tapped(m, p, lane)
          = IF Reg!Beats!AllThrough(after) THEN Reg!Beats!RoundCompleted(after) ELSE after
    BY DEF Reg!Beats!Tapped, Reg!Beats!Doc
  <2> HIDE DEF points
  <2>3. m.progressByPlayer[p] + 1 \in 0..PatternLength
    <3>1. m.progressByPlayer[p] \in 0..PatternLength
      BY DEF Reg!Beats!Doc
    <3> QED
      BY <1>5, <3>1 DEF Reg!Beats!HasCue
  <2>4. steps \in [Player -> 0..PatternLength]
    BY <2>3 DEF Reg!Beats!Doc
  <2>5. rounds \in [Player -> Nat] /\ scores \in [Player -> Nat]
    BY <2>1 DEF Reg!Beats!Doc
  <2> HIDE DEF steps, rounds, scores
  <2>6. after \in Reg!Beats!Doc
    BY <2>4, <2>5 DEF Reg!Beats!Doc
  <2> QED
    BY <1>4, <2>2, <2>6
<1>6. ASSUME NEW m \in Reg!Beats!Doc, NEW seq \in Nat, NEW move \in Reg!Beats!Moves
      PROVE  Reg!Beats!Played(m, p, seq, move) \in Reg!Beats!Doc
  <2> DEFINE h == Reg!Beats!Heard(m, p, seq)
  <2>1. h \in Reg!Beats!Doc /\ (Reg!Beats!HasCue(h, p) <=> Reg!Beats!HasCue(m, p))
    BY DEF Reg!Beats!Doc, Reg!Beats!Heard, Reg!Beats!HasCue
  <2> HIDE DEF h
  <2> QED
    BY <1>5, <2>1 DEF Reg!Beats!Played, h
<1> QED
  BY <1>1, <1>2, <1>3, <1>6

-----------------------------------------------------------------------------
(* The types of the matches of every game.                                 *)

\* The boards and decks are as large as the games' adapters need them: something to play
\* for, and no more than the tables of the source hold.
BoardFits(g) ==
  /\ g \in {"quiz-duel", "word-rally", "airline-trivia-teams", "tap-beat-battle"} =>
       TotalRounds \in Nat \ {0}
  /\ g = "tap-beat-battle" => PatternLength \in Nat
  /\ g = "skyline-defense-lite" =>
       /\ SkylineNodes \subseteq DOMAIN Reg!Skyline!NodeTable
       /\ IsFiniteSet(SkylineNodes) /\ SkylineNodes # {}
  /\ g = "seat-map-strategy" => CabinRows \in Nat \ {0} /\ CabinCols \in Nat \ {0}
  /\ g = "route-builder-duel" =>
       /\ RouteLegs \subseteq DOMAIN Reg!Routes!LegTable
       /\ IsFiniteSet(RouteLegs) /\ RouteLegs # {}
  /\ g = "crew-coordination" => CrewTasks \subseteq DOMAIN Reg!Crew!TaskTable
  /\ g = "cabin-card-clash" => CardRounds \in Nat \ {0}
  /\ g = "baggage-sort-showdown" => TotalBags \in 1..6
  /\ g = "memory-match-duel" => TotalPairs \in 1..3 /\ MaxRevision \in Nat \ {0}
  /\ g = "puzzle-race-grid" => TargetCount \in 1..5
  /\ g = "signal-scramble" => TargetCount \in 1..4

BoardsFit == \A s \in Setups : BoardFits(s.game)

\* The payloads, the pages and the documents are those of the registry.
PagesAreUsed ==
  \A g \in Reg!GameId :
    /\ LegalMoves(g) = Reg!AdapterMoves(g)
    /\ MatchDoc(g) = Reg!AdapterDoc(g)
    /\ \A v, players, p : OfferedMoves(g, v, players, p) = Reg!PageOffers(g, v, players, p)

\* Whichever game's adapter the registry gives makes documents of documents.
LEMMA RegistryKeepsDocuments ==
  ASSUME NEW g \in Reg!GameId, BoardFits(g), MatchDoc(g) = Reg!AdapterDoc(g),
         NEW p \in Player, NEW m, NEW seq \in Nat, NEW move
  PROVE  /\ Reg!AdapterCreate(g, p) \in Documents(g)
         /\ m \in Documents(g) => /\ Reg!AdapterJoin(g, m, p) \in Documents(g)
                                  /\ Reg!AdapterReconnect(g, m, p) \in Documents(g)
         /\ m \in Documents(g) /\ move \in Reg!AdapterMoves(g)
              => Reg!AdapterAction(g, m, p, seq, move) \in Documents(g)
<1> USE DEF Documents, Fit, BoardFits, Reg!AdapterDoc, Reg!AdapterMoves,
         Reg!AdapterCreate, Reg!AdapterJoin, Reg!AdapterReconnect, Reg!AdapterAction
<1>1. CASE g = "quiz-duel"
  BY <1>1, QuizDocuments
<1>2. CASE g = "word-rally"
  BY <1>2, WordsDocuments
<1>3. CASE g = "mini-gomoku"
  BY <1>3, GomokuDocuments
<1>4. CASE g = "crew-coordination"
  BY <1>4, CrewDocuments
<1>5. CASE g = "cabin-card-clash"
  BY <1>5, CardsDocuments
<1>6. CASE g = "puzzle-race-grid"
  BY <1>6, GridDocuments
<1>7. CASE g = "signal-scramble"
  BY <1>7, SignalsDocuments
<1>8. CASE g = "spot-the-difference-race"
  BY <1>8, SpottingDocuments
<1>9. CASE g = "tap-beat-battle"
  BY <1>9, BeatsDocuments
<1> HIDE DEF Documents, Fit, BoardFits, Reg!AdapterDoc, Reg!AdapterMoves,
          Reg!AdapterCreate, Reg!AdapterJoin, Reg!AdapterReconnect, Reg!AdapterAction
<1>10. CASE g = "airline-trivia-teams"
  <2>1. Documents(g) = Reg!Trivia!Doc
    BY <1>10 DEF Documents, Fit, Reg!AdapterDoc
  <2>2. /\ Reg!AdapterCreate(g, p) = Reg!Trivia!Created(p)
        /\ Reg!AdapterMoves(g) = Reg!Trivia!Moves
        /\ \A k : /\ Reg!AdapterJoin(g, k, p) = Reg!Trivia!JoinMatch(k, p)
                  /\ Reg!AdapterReconnect(g, k, p) = Reg!Trivia!ReconnectPlayer(k, p)
                  /\ \A i, x : Reg!AdapterAction(g, k, p, i, x)
                                       = Reg!Trivia!Played(k, p, i, x)
    BY <1>10 DEF Reg!AdapterCreate, Reg!AdapterMoves, Reg!AdapterJoin,
         Reg!AdapterReconnect, Reg!AdapterAction
  <2> QED
    BY <1>10, <2>1, <2>2, TriviaDocuments DEF BoardFits
<1>11. CASE g = "skyline-defense-lite"
  <2>1. Documents(g) = SkylineDocs
    BY <1>11 DEF Documents, Fit, Reg!AdapterDoc, SkylineDocs
  <2>2. /\ Reg!AdapterCreate(g, p) = Reg!Skyline!Created(p)
        /\ Reg!AdapterMoves(g) = Reg!Skyline!Moves
        /\ \A k : /\ Reg!AdapterJoin(g, k, p) = Reg!Skyline!JoinMatch(k, p)
                  /\ Reg!AdapterReconnect(g, k, p) = Reg!Skyline!ReconnectPlayer(k, p)
                  /\ \A i, x : Reg!AdapterAction(g, k, p, i, x)
                                       = Reg!Skyline!Played(k, p, i, x)
    BY <1>11 DEF Reg!AdapterCreate, Reg!AdapterMoves, Reg!AdapterJoin,
         Reg!AdapterReconnect, Reg!AdapterAction
  <2> QED
    BY <1>11, <2>1, <2>2, SkylineDocuments DEF BoardFits
<1>12. CASE g = "seat-map-strategy"
  <2>1. Documents(g) = SeatMapDocs
    BY <1>12 DEF Documents, Fit, Reg!AdapterDoc, SeatMapDocs
  <2>2. /\ Reg!AdapterCreate(g, p) = Reg!Seats!Created(p)
        /\ Reg!AdapterMoves(g) = Reg!Seats!Moves
        /\ \A k : /\ Reg!AdapterJoin(g, k, p) = Reg!Seats!JoinMatch(k, p)
                  /\ Reg!AdapterReconnect(g, k, p) = Reg!Seats!ReconnectPlayer(k, p)
                  /\ \A i, x : Reg!AdapterAction(g, k, p, i, x)
                                       = Reg!Seats!Played(k, p, i, x)
    BY <1>12 DEF Reg!AdapterCreate, Reg!AdapterMoves, Reg!AdapterJoin,
         Reg!AdapterReconnect, Reg!AdapterAction
  <2> QED
    BY <1>12, <2>1, <2>2, SeatMapDocuments DEF BoardFits
<1>13. CASE g = "route-builder-duel"
  <2>1. Documents(g) = RoutesDocs
    BY <1>13 DEF Documents, Fit, Reg!AdapterDoc, RoutesDocs
  <2>2. /\ Reg!AdapterCreate(g, p) = Reg!Routes!Created(p)
        /\ Reg!AdapterMoves(g) = Reg!Routes!Moves
        /\ \A k : /\ Reg!AdapterJoin(g, k, p) = Reg!Routes!JoinMatch(k, p)
                  /\ Reg!AdapterReconnect(g, k, p) = Reg!Routes!ReconnectPlayer(k, p)
                  /\ \A i, x : Reg!AdapterAction(g, k, p, i, x)
                                       = Reg!Routes!Played(k, p, i, x)
    BY <1>13 DEF Reg!AdapterCreate, Reg!AdapterMoves, Reg!AdapterJoin,
         Reg!AdapterReconnect, Reg!AdapterAction
  <2> QED
    BY <1>13, <2>1, <2>2, RoutesDocuments DEF BoardFits
<1>14. CASE g = "baggage-sort-showdown"
  <2>1. Documents(g) = Reg!Bags!Doc
    BY <1>14 DEF Documents, Fit, Reg!AdapterDoc
  <2>2. /\ Reg!AdapterCreate(g, p) = Reg!Bags!Created(p)
        /\ Reg!AdapterMoves(g) = Reg!Bags!Moves
        /\ \A k : /\ Reg!AdapterJoin(g, k, p) = Reg!Bags!JoinMatch(k, p)
                  /\ Reg!AdapterReconnect(g, k, p) = Reg!Bags!ReconnectPlayer(k, p)
                  /\ \A i, x : Reg!AdapterAction(g, k, p, i, x)
                                       = Reg!Bags!Played(k, p, i, x)
    BY <1>14 DEF Reg!AdapterCreate, Reg!AdapterMoves, Reg!AdapterJoin,
         Reg!AdapterReconnect, Reg!AdapterAction
  <2> QED
    BY <1>14, <2>1, <2>2, BagsDocuments DEF BoardFits
<1>15. CASE g = "memory-match-duel"
  <2>1. Documents(g) = MemoryDocs
    BY <1>15 DEF Documents, Fit, Reg!AdapterDoc, MemoryDocs
  <2>2. /\ Reg!AdapterCreate(g, p) = Reg!Memory!Created(p)
        /\ Reg!AdapterMoves(g) = Reg!Memory!Moves
        /\ \A k : /\ Reg!AdapterJoin(g, k, p) = Reg!Memory!JoinMatch(k, p)
                  /\ Reg!AdapterReconnect(g, k, p) = Reg!Memory!ReconnectPlayer(k, p)
                  /\ \A i, x : Reg!AdapterAction(g, k, p, i, x)
                                       = Reg!Memory!Played(k, p, i, x)
    BY <1>15 DEF Reg!AdapterCreate, Reg!AdapterMoves, Reg!AdapterJoin,
         Reg!AdapterReconnect, Reg!AdapterAction
  <2> QED
    BY <1>15, <2>1, <2>2, MemoryDocuments DEF BoardFits
<1> QED
  BY <1>1, <1>2, <1>3, <1>4, <1>5, <1>6, <1>7, <1>8, <1>9,
     <1>10, <1>11, <1>12, <1>13, <1>14, <1>15 DEF Reg!GameId

\* The one game that has a deadline keeps its documents when it passes.
LEMMA DeadlineKeepsDocuments ==
  ASSUME NEW g \in Reg!GameId, MatchDoc(g) = Reg!AdapterDoc(g), NEW m \in Documents(g)
  PROVE  /\ Reg!AdapterObserved(g, m) \in Documents(g)
         /\ Reg!AdapterElapsed(g, m) \in Documents(g)
<1>1. CASE g = "spot-the-difference-race"
  <2>1. Documents(g) = Reg!Spotting!Doc
    BY <1>1 DEF Documents, Fit, Reg!AdapterDoc
  <2>2. /\ Reg!AdapterObserved(g, m) = Reg!Spotting!Observed(m)
        /\ Reg!AdapterElapsed(g, m) = Reg!Spotting!DeadlinePasses(m)
    BY <1>1 DEF Reg!AdapterObserved, Reg!AdapterElapsed
  <2> QED
    BY <2>1, <2>2, SpottingEnds
<1>2. CASE g # "spot-the-difference-race"
  BY <1>2 DEF Reg!AdapterObserved, Reg!AdapterElapsed
<1> QED
  BY <1>1, <1>2

\* Whichever game's page is open, it offers payloads that parse.
LEMMA RegistryOffersLegalMoves ==
  ASSUME NEW g \in Reg!GameId, NEW v, NEW players, NEW p
  PROVE  Reg!PageOffers(g, v, players, p) \subseteq Reg!AdapterMoves(g)
<1> USE DEF Reg!PageOffers, Reg!AdapterMoves
<1>1. CASE g = "quiz-duel"
  BY <1>1 DEF Reg!Quiz!Offered
<1>2. CASE g = "word-rally"
  BY <1>2 DEF Reg!Words!Offered
<1>3. CASE g = "airline-trivia-teams"
  BY <1>3 DEF Reg!Trivia!Offered
<1>4. CASE g = "skyline-defense-lite"
  BY <1>4 DEF Reg!Skyline!Offered
<1>5. CASE g = "seat-map-strategy"
  BY <1>5 DEF Reg!Seats!Offered
<1>6. CASE g = "route-builder-duel"
  BY <1>6 DEF Reg!Routes!Offered
<1>7. CASE g = "mini-gomoku"
  BY <1>7 DEF Reg!Gomoku!Offered
<1>8. CASE g = "crew-coordination"
  BY <1>8 DEF Reg!Crew!Offered
<1>9. CASE g = "cabin-card-clash"
  BY <1>9 DEF Reg!Cards!Offered
<1>10. CASE g = "baggage-sort-showdown"
  BY <1>10 DEF Reg!Bags!Offered
<1>11. CASE g = "memory-match-duel"
  BY <1>11 DEF Reg!Memory!Offered
<1>12. CASE g = "puzzle-race-grid"
  BY <1>12 DEF Reg!Grid!Offered
<1>13. CASE g = "signal-scramble"
  BY <1>13 DEF Reg!Signals!Offered
<1>14. CASE g = "spot-the-difference-race"
  BY <1>14 DEF Reg!Spotting!Offered, Reg!Spotting!Moves
<1>15. CASE g = "tap-beat-battle"
  BY <1>15 DEF Reg!Beats!Offered
<1> HIDE DEF Reg!PageOffers, Reg!AdapterMoves
<1> QED
  BY <1>1, <1>2, <1>3, <1>4, <1>5, <1>6, <1>7, <1>8, <1>9,
     <1>10, <1>11, <1>12, <1>13, <1>14, <1>15 DEF Reg!GameId

\* The registry's adapters and pages are of the kind the types rely on.
LEMMA RegistryIsTyped ==
  ASSUME RegistryIsUsed, PagesAreUsed, BoardsFit
  PROVE  AdaptersKeepTypes
<1> SUFFICES ASSUME NEW s \in Setups
             PROVE  LET g == s.game
                    IN /\ \A p \in Player : CreateMatch(g, p) \in Documents(g)
                       /\ \A m \in Documents(g) :
                            /\ StateObserved(g, m) \in Documents(g)
                            /\ Elapsed(g, m) \in Documents(g)
                            /\ \A p \in Player :
                                 /\ JoinGame(g, m, p) \in Documents(g)
                                 /\ RejoinGame(g, m, p) \in Documents(g)
                                 /\ \A seq \in Nat, move \in LegalMoves(g) :
                                      HandlePlayerAction(g, m, p, seq, move) \in Documents(g)
                       /\ \A v, players, p : OfferedMoves(g, v, players, p) \subseteq LegalMoves(g)
  BY DEF AdaptersKeepTypes
<1> DEFINE g == s.game
<1>1. g \in Reg!GameId /\ BoardFits(g)
  BY DEF RegistryIsUsed, BoardsFit
<1>2. /\ MatchDoc(g) = Reg!AdapterDoc(g) /\ LegalMoves(g) = Reg!AdapterMoves(g)
      /\ \A v, players, p : OfferedMoves(g, v, players, p) = Reg!PageOffers(g, v, players, p)
  BY <1>1 DEF PagesAreUsed
<1>3. \A p \in Player :
        /\ CreateMatch(g, p) = Reg!AdapterCreate(g, p)
        /\ \A m : /\ JoinGame(g, m, p) = Reg!AdapterJoin(g, m, p)
                  /\ RejoinGame(g, m, p) = Reg!AdapterReconnect(g, m, p)
                  /\ \A seq, move : HandlePlayerAction(g, m, p, seq, move)
                                       = Reg!AdapterAction(g, m, p, seq, move)
  BY <1>1 DEF RegistryIsUsed
<1>4. \A m : /\ StateObserved(g, m) = Reg!AdapterObserved(g, m)
             /\ Elapsed(g, m) = Reg!AdapterElapsed(g, m)
  BY <1>1 DEF RegistryIsUsed
<1> HIDE DEF g
<1>5. ASSUME NEW m \in Documents(g)
      PROVE  StateObserved(g, m) \in Documents(g) /\ Elapsed(g, m) \in Documents(g)
  BY <1>1, <1>2, <1>4, <1>5, DeadlineKeepsDocuments
<1>6. ASSUME NEW p \in Player
      PROVE  CreateMatch(g, p) \in Documents(g)
  BY <1>1, <1>2, <1>3, RegistryKeepsDocuments
<1>7. ASSUME NEW p \in Player, NEW m \in Documents(g)
      PROVE  /\ JoinGame(g, m, p) \in Documents(g) /\ RejoinGame(g, m, p) \in Documents(g)
             /\ \A seq \in Nat, move \in LegalMoves(g) :
                  HandlePlayerAction(g, m, p, seq, move) \in Documents(g)
  <2>1. /\ Reg!AdapterJoin(g, m, p) \in Documents(g)
        /\ Reg!AdapterReconnect(g, m, p) \in Documents(g)
        /\ \A seq \in Nat, move \in Reg!AdapterMoves(g) :
             Reg!AdapterAction(g, m, p, seq, move) \in Documents(g)
    BY <1>1, <1>2, RegistryKeepsDocuments
  <2> QED
    BY <1>2, <1>3, <2>1
<1>8. \A v, players, p : OfferedMoves(g, v, players, p) \subseteq LegalMoves(g)
  BY <1>1, <1>2, RegistryOffersLegalMoves
<1> QED
  BY <1>5, <1>6, <1>7, <1>8 DEF g

\* Whichever of the platform's 15 multiplayer games is played, with either driver, by any
\* passengers and on boards of any size the source's tables allow: what is stored and what
\* a handler holds between its read and its write is a document of that game, with all its
\* fields in their ranges, whatever faults, restarts and payloads that parse there are.
THEOREM DocumentsOfTheGames ==
  ASSUME RegistryIsUsed, PagesAreUsed, BoardsFit
  PROVE  Spec => []TypeOK
BY RegistryIsTyped, RuntimeKeepsTypes

-----------------------------------------------------------------------------
(* The order of tasks.  With the memory driver a match is created only     *)
(* where there is none, and who plays is one of its players: so whatever   *)
(* adapters keep of the documents they are given is kept of the match.     *)

Sowing(task) == task.kind \in {"seed", "create"}

Marked(t) == \E i \in DOMAIN t : t[i].kind = "mark"

\* What is known of tasks still to be done, with the members M of the room and the match
\* m: a match is created first of all and where there is none, and its key will be put in;
\* who plays is a member, and nobody is seated after a task that seeds or plays.
Orderly(M, m, t) ==
  /\ Listed(t)
  /\ \A i \in DOMAIN t :
       /\ Sowing(t[i]) => i = 1 /\ m = None
       /\ t[i].kind = "create" => Marked(t)
       /\ t[i].kind = "play" => t[i].who \in M
       /\ t[i].kind \in {"seed", "play"} => \A j \in DOMAIN t : i < j => t[j].kind # "join"

\* The handler of room.reconnected, or what is left of it.
Returning(t) == \A i \in DOMAIN t : t[i].kind \in {"reconnect", "mark"}

OrderInv ==
  /\ Orderly(Members, match, slots[1].todo) /\ Orderly(Members, match, slots[2].todo)
  /\ slots[1] # Idle /\ slots[2] # Idle => Returning(slots[1].todo)
  /\ match # None => initialized \/ Marked(Front)

\* Nothing to be done is in order.
LEMMA NothingOrderly ==
  ASSUME NEW M, NEW m
  PROVE  Orderly(M, m, <<>>) /\ ~Marked(<<>>)
BY NoTask DEF Orderly, Marked

\* A task in order, by itself.
LEMMA OrderlyTask ==
  ASSUME NEW M, NEW m, NEW x, Sowing(x) => m = None, x.kind # "create",
         x.kind = "play" => x.who \in M
  PROVE  Orderly(M, m, <<x>>)
BY OneTask DEF Orderly

\* A list of tasks in order and a list that neither creates nor seats.
LEMMA OrderlyLists ==
  ASSUME NEW M, NEW m, NEW t, Orderly(M, m, t), NEW u, Orderly(M, m, u),
         \A i \in DOMAIN u : ~Sowing(u[i]) /\ u[i].kind # "join"
  PROVE  Orderly(M, m, t \o u)
<1> DEFINE v == t \o u
<1>1. Listed(t) /\ Listed(u) /\ Len(t) \in Nat /\ Len(u) \in Nat
      /\ DOMAIN t = 1..Len(t) /\ DOMAIN u = 1..Len(u)
  BY ListFacts DEF Orderly
<1>2. /\ Listed(v) /\ DOMAIN v = 1..(Len(t) + Len(u))
      /\ \A i \in DOMAIN t : i \in DOMAIN v /\ v[i] = t[i]
      /\ \A i \in DOMAIN u : Len(t) + i \in DOMAIN v /\ v[Len(t) + i] = u[i]
      /\ \A i \in DOMAIN v :
           \/ i \in DOMAIN t /\ v[i] = t[i]
           \/ i - Len(t) \in DOMAIN u /\ v[i] = u[i - Len(t)]
  <2>1. Listed(t) /\ Listed(u)
    BY <1>1
  <2>2. /\ Listed(v) /\ DOMAIN v = 1..(Len(t) + Len(u))
        /\ \A i \in DOMAIN t : i \in DOMAIN v /\ v[i] = t[i]
    BY <2>1, TwoLists
  <2>3. \A i \in DOMAIN u : Len(t) + i \in DOMAIN v /\ v[Len(t) + i] = u[i]
    BY <2>1, TwoLists
  <2>4. \A i \in DOMAIN v : \/ i \in DOMAIN t /\ v[i] = t[i]
                            \/ i - Len(t) \in DOMAIN u /\ v[i] = u[i - Len(t)]
    BY <2>1, TwoLists
  <2> QED
    BY <2>2, <2>3, <2>4
<1> HIDE DEF v
<1>3. Marked(t) => Marked(v)
  BY <1>2 DEF Marked
<1>4. ASSUME NEW i \in DOMAIN v
      PROVE  /\ Sowing(v[i]) => i = 1 /\ m = None
             /\ v[i].kind = "create" => Marked(v)
             /\ v[i].kind = "play" => v[i].who \in M
             /\ v[i].kind \in {"seed", "play"} =>
                  \A j \in DOMAIN v : i < j => v[j].kind # "join"
  <2>1. CASE i \in DOMAIN t /\ v[i] = t[i]
    <3>1. ASSUME t[i].kind \in {"seed", "play"}, NEW j \in DOMAIN v, i < j PROVE v[j].kind # "join"
      BY <1>2, <2>1, <3>1 DEF Orderly
    <3> QED
      BY <1>3, <2>1, <3>1 DEF Orderly
  <2>2. CASE i - Len(t) \in DOMAIN u /\ v[i] = u[i - Len(t)]
    <3>1. v[i].kind \notin {"seed", "create"}
      BY <2>2 DEF Sowing
    <3>2. v[i].kind = "play" => v[i].who \in M
      BY <2>2 DEF Orderly
    <3>3. ASSUME NEW j \in DOMAIN v, i < j PROVE v[j].kind # "join"
      <4>1. j \notin DOMAIN t
        BY <1>1, <1>2, <2>2, <3>3
      <4> QED
        BY <1>2, <4>1
    <3> QED
      BY <3>1, <3>2, <3>3 DEF Sowing
  <2> QED
    BY <1>2, <2>1, <2>2
<1> QED
  BY <1>2, <1>4 DEF Orderly, v

\* The rest of a list in order is in order, and creates nothing.
LEMMA OrderlyRest ==
  ASSUME NEW M, NEW m, NEW t, Orderly(M, m, t), t # <<>>, NEW n
  PROVE  /\ Orderly(M, n, Tail(t))
         /\ Sowing(Head(t)) => m = None
         /\ Head(t).kind = "create" => Marked(Tail(t))
         /\ Head(t).kind # "mark" /\ Marked(t) => Marked(Tail(t))
         /\ Head(t).kind = "play" => Head(t).who \in M /\ Joining(t) = {}
         /\ \A i \in DOMAIN Tail(t) : ~Sowing(Tail(t)[i])
         /\ Head(t).kind = "seed" => \A i \in DOMAIN Tail(t) : Tail(t)[i].kind # "join"
<1> DEFINE u == Tail(t)
<1>1. Listed(t) /\ Len(t) \in Nat /\ DOMAIN t = 1..Len(t)
  BY ListFacts DEF Orderly
<1>2. /\ Listed(u) /\ DOMAIN u = 1..(Len(t) - 1)
      /\ \A i \in DOMAIN u : i + 1 \in DOMAIN t /\ u[i] = t[i + 1]
      /\ 1 \in DOMAIN t /\ Head(t) = t[1]
  BY <1>1, RestOfList
<1>3. \A i \in DOMAIN t : i # 1 => i - 1 \in DOMAIN u /\ u[i - 1] = t[i]
  BY <1>1, <1>2
<1> HIDE DEF u
<1>4. \A i \in DOMAIN u : ~Sowing(u[i])
  <2>1. \A i \in DOMAIN u : i + 1 # 1
    BY <1>2
  <2> QED
    BY <1>2, <2>1 DEF Orderly
<1>5. Head(t).kind # "mark" /\ Marked(t) => Marked(u)
  BY <1>2, <1>3 DEF Marked
<1>6. Head(t).kind = "play" => Head(t).who \in M /\ Joining(t) = {}
  <2> SUFFICES ASSUME t[1].kind = "play" PROVE t[1].who \in M /\ Joining(t) = {}
    BY <1>2
  <2>1. ASSUME NEW j \in DOMAIN t PROVE t[j].kind # "join"
    <3>1. CASE j = 1
      BY <3>1
    <3>2. CASE j # 1
      <4>1. 1 < j
        BY <1>1, <3>2
      <4> QED
        BY <1>2, <4>1 DEF Orderly
    <3> QED
      BY <3>1, <3>2
  <2> QED
    BY <1>2, <2>1 DEF Orderly, Joining
<1>7. Orderly(M, n, u)
  <2>1. ASSUME NEW i \in DOMAIN u, u[i].kind = "play"
        PROVE  u[i].who \in M
    BY <1>2, <2>1 DEF Orderly
  <2>2. ASSUME NEW i \in DOMAIN u, u[i].kind = "play"
        PROVE  \A j \in DOMAIN u : i < j => u[j].kind # "join"
    <3>1. i + 1 \in DOMAIN t /\ t[i + 1].kind = "play"
      BY <1>2, <2>2
    <3>2. \A j \in DOMAIN u : j + 1 \in DOMAIN t /\ u[j] = t[j + 1] /\ (i < j => i + 1 < j + 1)
      BY <1>2
    <3> QED
      BY <1>2, <2>2, <3>1, <3>2 DEF Orderly
  <2> QED
    BY <1>2, <1>4, <2>1, <2>2 DEF Orderly, Sowing
<1>8. Head(t).kind = "seed" => \A i \in DOMAIN u : u[i].kind # "join"
  <2>1. \A i \in DOMAIN u : i + 1 \in DOMAIN t /\ 1 < i + 1 /\ u[i] = t[i + 1]
    BY <1>2
  <2> QED
    BY <1>2, <2>1 DEF Orderly
<1> QED
  BY <1>2, <1>4, <1>5, <1>6, <1>7, <1>8 DEF Orderly, u

\* As long as no match comes where there was none, tasks stay in order.
LEMMA OrderlyStays ==
  ASSUME NEW M, NEW m, NEW n, NEW t, Orderly(M, m, t), n = None \/ m # None
  PROVE  Orderly(M, n, t)
BY DEF Orderly

\* The lists the actions begin.
LEMMA OrderlyBeginnings ==
  ASSUME NEW M, NEW m
  PROVE  /\ \A p : /\ m = None => Orderly(M, m, Create(p) \o Mark)
                   /\ Orderly(M, m, Join(p) \o Mark)
                   /\ Orderly(M, m, Rejoin(p) \o Mark) /\ Returning(Rejoin(p) \o Mark)
         /\ Orderly(M, m, Finish \o Unmark)
         /\ \A p : (m # None => initialized) => Orderly(M, m, Ensure \o SendTo(p))
         /\ \A p, seq, move : (m # None => initialized) /\ p \in M =>
              Orderly(M, m, Ensure \o Play(p, seq, move) \o SendTo(None))
<1>1. ASSUME NEW p, NEW kind \in {"join", "reconnect", "mark", "finish", "unmark", "send", "skip"}
      PROVE  /\ Orderly(M, m, <<Task(kind, p)>>)
             /\ kind # "join" => \A i \in DOMAIN <<Task(kind, p)>> :
                  ~Sowing(<<Task(kind, p)>>[i]) /\ <<Task(kind, p)>>[i].kind # "join"
  BY OrderlyTask, TaskFacts, OneTask DEF Sowing
<1>2. ASSUME NEW p, m = None PROVE Orderly(M, m, Create(p) \o Mark)
  <2> DEFINE x == Task("create", p)
             y == Task("mark", None)
             v == <<x>> \o <<y>>
  <2>1. /\ Listed(<<x>>) /\ DOMAIN <<x>> = {1} /\ <<x>>[1] = x /\ Len(<<x>>) = 1
        /\ Listed(<<y>>) /\ DOMAIN <<y>> = {1} /\ <<y>>[1] = y /\ Len(<<y>>) = 1
    BY OneTask
  <2>2. /\ Listed(v) /\ DOMAIN v = 1..(1 + 1)
        /\ v[1] = x /\ v[1 + 1] = y
    BY <2>1, TwoLists
  <2>3. x.kind = "create" /\ y.kind = "mark"
    BY TaskFacts
  <2>4. Create(p) \o Mark = v
    BY DEF Create, Mark
  <2> HIDE DEF v, x, y
  <2>5. DOMAIN v = {1, 2} /\ v[2] = y
    BY <2>2
  <2> QED
    BY <1>2, <2>2, <2>3, <2>4, <2>5 DEF Orderly, Sowing, Marked
<1>3. ASSUME NEW p PROVE Orderly(M, m, Join(p) \o Mark) /\ Orderly(M, m, Rejoin(p) \o Mark)
  BY <1>1, OrderlyLists DEF Join, Rejoin, Mark
<1>4. Orderly(M, m, Finish \o Unmark)
  BY <1>1, OrderlyLists DEF Finish, Unmark
<1>5. ASSUME NEW p
      PROVE  Orderly(M, m, SendTo(p)) /\ \A i \in DOMAIN SendTo(p) :
               ~Sowing(SendTo(p)[i]) /\ SendTo(p)[i].kind # "join"
  BY <1>1, NoTask, NothingOrderly DEF SendTo
<1>6. ASSUME m # None => initialized PROVE Orderly(M, m, Ensure)
  <2>1. m = None => Orderly(M, m, <<Task("seed", None)>>)
    BY OrderlyTask, TaskFacts
  <2> QED
    BY <1>6, <2>1, NothingOrderly DEF Ensure
<1>7. ASSUME NEW p \in M, NEW seq, NEW move
      PROVE  /\ Orderly(M, m, Play(p, seq, move))
             /\ \A i \in DOMAIN Play(p, seq, move) :
                  ~Sowing(Play(p, seq, move)[i]) /\ Play(p, seq, move)[i].kind # "join"
  BY OrderlyTask, OneTask DEF Play, Sowing
<1>8. ASSUME NEW p PROVE Returning(Rejoin(p) \o Mark)
  <2> DEFINE v == Rejoin(p) \o Mark
  <2>1. Listed(Rejoin(p)) /\ Listed(Mark)
    BY OneTask DEF Rejoin, Mark
  <2>2. \A i \in DOMAIN v : \/ i \in DOMAIN Rejoin(p) /\ v[i] = Rejoin(p)[i]
                            \/ i - Len(Rejoin(p)) \in DOMAIN Mark /\ v[i] = Mark[i - Len(Rejoin(p))]
    BY <2>1, TwoLists
  <2>3. /\ \A i \in DOMAIN Rejoin(p) : Rejoin(p)[i].kind = "reconnect"
        /\ \A i \in DOMAIN Mark : Mark[i].kind = "mark"
    BY OneTask, TaskFacts DEF Rejoin, Mark
  <2> HIDE DEF v
  <2>4. Returning(v)
    BY <2>2, <2>3 DEF Returning
  <2> QED
    BY <2>4 DEF v
<1> QED
  BY <1>2, <1>3, <1>4, <1>5, <1>6, <1>7, <1>8, OrderlyLists

\* ensureRoomInitialized's tasks are in order, where there is no match.
LEMMA OrderlySeating ==
  ASSUME room \in RoomDoc, NEW M, NEW rest, Orderly(M, None, rest),
         \A i \in DOMAIN rest : ~Sowing(rest[i]) /\ rest[i].kind # "join"
  PROVE  Orderly(M, None, Seating \o rest)
<1> DEFINE L == [i \in DOMAIN room.players |->
                   Task(IF room.players[i] = room.host THEN "skip" ELSE "join", room.players[i])]
           C == Create(room.host)
           a == C \o L
           b == a \o Mark
<1>1. Len(room.players) \in Nat /\ DOMAIN room.players = 1..Len(room.players)
  BY LenProperties DEF RoomDoc
<1>2. Listed(L)
  <2> DEFINE S == {L[i] : i \in DOMAIN L}
  <2>1. L \in [1..Len(room.players) -> S]
    BY <1>1
  <2>2. L \in Seq(S)
    BY <1>1, <2>1, SeqDef
  <2> QED
    BY <2>2, ListOf
<1>3. \A i \in DOMAIN L : L[i].kind \in {"skip", "join"}
  BY TaskFacts
<1>4. Listed(C) /\ DOMAIN C = {1} /\ C[1].kind = "create" /\ Len(C) = 1
  BY OneTask, TaskFacts DEF Create
<1>5. Listed(Mark) /\ DOMAIN Mark = {1} /\ Mark[1].kind = "mark"
  BY OneTask, TaskFacts DEF Mark
<1>6. Seating = b
  BY DEF Seating
<1> HIDE DEF L, C
<1>7. Listed(a) /\ \A i \in DOMAIN a : \/ i = 1 /\ a[i].kind = "create"
                                       \/ a[i].kind \in {"skip", "join"}
  <2>1. /\ Listed(a)
        /\ \A i \in DOMAIN a : \/ i \in DOMAIN C /\ a[i] = C[i]
                               \/ i - Len(C) \in DOMAIN L /\ a[i] = L[i - Len(C)]
    BY <1>2, <1>4, TwoLists
  <2> QED
    BY <1>3, <1>4, <2>1
<1> HIDE DEF a
<1>8. /\ Listed(b) /\ Marked(b)
      /\ \A i \in DOMAIN b : \/ i = 1 /\ b[i].kind = "create"
                             \/ b[i].kind \in {"skip", "join", "mark"}
  <2>1. /\ Listed(b)
        /\ \A i \in DOMAIN b : \/ i \in DOMAIN a /\ b[i] = a[i]
                               \/ i - Len(a) \in DOMAIN Mark /\ b[i] = Mark[i - Len(a)]
    BY <1>5, <1>7, TwoLists
  <2>3. \A i \in DOMAIN Mark : Len(a) + i \in DOMAIN b /\ b[Len(a) + i] = Mark[i]
    BY <1>5, <1>7, TwoLists
  <2>2. Marked(b)
    BY <1>5, <2>3 DEF Marked
  <2> QED
    BY <1>5, <1>7, <2>1, <2>2
<1> HIDE DEF b
<1>9. Orderly(M, None, b)
  BY <1>8 DEF Orderly, Sowing
<1> QED
  BY <1>6, <1>9, OrderlyLists

\* Between handlers, the key of a room that has a match is there.
LEMMA KeyIsThere ==
  ASSUME SeatsInv, OrderInv, Free = Slot
  PROVE  match # None => initialized
BY AllQuiet, NothingOrderly DEF OrderInv

\* A handler begins.
LEMMA OrderBegins ==
  ASSUME SeatsInv, OrderInv, InMemory, NEW t, Start(t),
         match' = match, initialized' = initialized, Orderly(Members', match, t)
  PROVE  OrderInv'
<1>1. Free = Slot
  BY DEF Start, Taken, Quiet
<1>2. /\ slots' = IF t = <<>> THEN slots
                  ELSE [slots EXCEPT ![1] = [todo |-> t, held |-> None]]
      /\ \A s \in Slot : slots[s] = Idle
  BY <1>1, AllQuiet DEF Start
<1>3. DOMAIN slots = Slot
  BY DEF SeatsInv, Handlers
<1>4. slots'[2] = Idle /\ slots'[1].todo = t
  BY <1>2, <1>3, TwoSlots, EmptySlot
<1>5. slots'[2].todo = <<>>
  BY <1>4, EmptySlot
<1>6. match' # None => initialized'
  BY <1>1, KeyIsThere
<1>7. Orderly(Members', match', <<>>)
  BY NothingOrderly
<1> QED
  BY <1>4, <1>5, <1>6, <1>7 DEF OrderInv

\* Two handlers begin, when a page comes back.
LEMMA OrderBeginsTwice ==
  ASSUME SeatsInv, OrderInv, InMemory, NEW t, NEW u, StartBoth(t, u),
         room' = room, match' = match, initialized' = initialized,
         Orderly(Members, match, t), Orderly(Members, match, u), Returning(t)
  PROVE  OrderInv'
<1>1. /\ Free = Slot
      /\ slots' = [slots EXCEPT ![1] = [todo |-> t, held |-> None],
                                ![2] = [todo |-> u, held |-> None]]
  BY DEF StartBoth
<1>2. DOMAIN slots = Slot
  BY DEF SeatsInv, Handlers
<1>3. slots'[1].todo = t /\ slots'[2].todo = u
  BY <1>1, <1>2, TwoSlots
<1>4. match' # None => initialized'
  BY <1>1, KeyIsThere
<1>5. Members' = Members
  BY DEF Members
<1> QED
  BY <1>3, <1>4, <1>5 DEF OrderInv

\* A step of a handler, that leaves it the tasks t.
LEMMA OrderGoesOn ==
  ASSUME SeatsInv, OrderInv, InMemory, NEW s \in Slot, Running(s), NEW t, Goes(s, t, None),
         room' = room, Orderly(Members, match', t),
         \/ match' = None
         \/ match # None
         \/ Head(Front).kind \notin {"reconnect", "mark"},
         match' # None => initialized' \/ Marked(t),
         Returning(Front) => Returning(t)
  PROVE  OrderInv'
<1>1. /\ slots' = [slots EXCEPT ![s] = [todo |-> t, held |-> None]]
      /\ DOMAIN slots = Slot
  BY DEF Goes, SeatsInv, Handlers
<1>2. /\ slots'[s] = [todo |-> t, held |-> None]
      /\ \A r \in Slot : r # s => slots'[r] = slots[r]
  BY <1>1
<1>3. Members' = Members
  BY DEF Members
<1>4. s = 1 \/ s = 2
  BY TwoSlots DEF SeatsInv, Handlers, Running, Slot
<1>5. slots'[s].todo = t /\ (slots'[s] = Idle <=> t = <<>>)
  BY <1>2, EmptySlot
<1>6. Front # <<>> /\ slots[s].todo = Front
  BY RunningFront
<1>7. CASE s = 1
  <2>1. slots[1] # Idle /\ Front = slots[1].todo /\ slots'[2] = slots[2]
    BY <1>2, <1>7, TwoSlots DEF Running, Front
  <2>2. Orderly(Members, match', slots[2].todo)
    <3>1. CASE slots[2] = Idle
      BY <3>1, EmptySlot, NothingOrderly
    <3>2. CASE slots[2] # Idle
      <4>1. Returning(Front) /\ Listed(Front)
        BY <2>1, <3>2 DEF OrderInv, Orderly
      <4>2. Head(Front).kind \in {"reconnect", "mark"}
        BY <1>6, <4>1, RestOfList DEF Returning
      <4> QED
        BY <4>2, OrderlyStays DEF OrderInv
    <3> QED
      BY <3>1, <3>2
  <2>3. Front' = IF t = <<>> THEN slots[2].todo ELSE t
    BY <1>5, <1>7, <2>1 DEF Front
  <2>4. match' # None => initialized' \/ Marked(Front')
    BY <2>3, NothingOrderly
  <2>5. slots'[1] # Idle /\ slots'[2] # Idle => Returning(slots'[1].todo)
    <3>1. ASSUME slots[2] # Idle PROVE Returning(t)
      BY <2>1, <3>1 DEF OrderInv
    <3> QED
      BY <1>5, <1>7, <2>1, <3>1
  <2> QED
    BY <1>3, <1>5, <1>7, <2>1, <2>2, <2>4, <2>5 DEF OrderInv
<1>8. CASE s = 2
  <2>1. slots[1] = Idle /\ slots'[1] = Idle
    BY <1>2, <1>8, TwoSlots DEF Running
  <2>2. Front' = t
    BY <1>5, <1>8, <2>1 DEF Front
  <2>3. Orderly(Members, match', slots'[1].todo)
    BY <2>1, EmptySlot, NothingOrderly
  <2> QED
    BY <1>3, <1>5, <1>8, <2>1, <2>2, <2>3 DEF OrderInv
<1> QED
  BY <1>4, <1>7, <1>8

\* What is known of the handler that takes a step.
LEMMA OrderInHand ==
  ASSUME SeatsInv, OrderInv, InMemory, NEW s \in Slot, Running(s)
  PROVE  /\ slots[s].todo = Front /\ Current(s) = Head(Front) /\ Front # <<>>
         /\ Story(Members, match, initialized, Front)
         /\ Orderly(Members, match, Front)
         /\ Returning(Front) => Returning(Tail(Front)) /\ Returning(<<>>)
         /\ Returning(Front) => Head(Front).kind \in {"reconnect", "mark"}
<1>1. /\ slots[s].todo = Front /\ Current(s) = Head(Front) /\ Front # <<>>
      /\ Story(Members, match, initialized, Front)
  BY TaskInHand
<1>2. Orderly(Members, match, Front)
  BY DEF OrderInv, Front
<1>3. Returning(Front) => /\ Returning(Tail(Front)) /\ Returning(<<>>)
                          /\ Head(Front).kind \in {"reconnect", "mark"}
  BY <1>1, <1>2, RestOfList, NoTask DEF Returning, Orderly
<1> QED
  BY <1>1, <1>2, <1>3

\* A page offers moves only to a passenger that the room has.
PagesNeedSeats ==
  \A s \in Setups : \A v, players, p :
    OfferedMoves(s.game, v, players, p) # {} => players # None /\ p \in Elements(players)

\* What comes from outside leaves tasks in order.
LEMMA OrderOutside ==
  ASSUME PagesNeedSeats, setup \in Setups, SeatsInv, OrderInv, InMemory, NEW p \in Player
  PROVE  /\ CreateRoom(p) => OrderInv'
         /\ JoinRoom(p) => OrderInv'
         /\ LeaveRoom(p) => OrderInv'
         /\ ReconnectRoom(p) => OrderInv'
         /\ OpenPage(p) => OrderInv'
         /\ RequestState(p) => OrderInv'
         /\ PlayPage(p) => OrderInv'
         /\ PlayAny(p) => OrderInv'
<1>1. ASSUME CreateRoom(p) PROVE OrderInv'
  <2>1. match = None /\ match' = match /\ initialized' = initialized /\ Start(Create(p) \o Mark)
    BY <1>1 DEF CreateRoom
  <2>2. Orderly(Members', match, Create(p) \o Mark)
    BY <2>1, OrderlyBeginnings
  <2> QED
    BY <2>1, <2>2, OrderBegins
<1>2. ASSUME JoinRoom(p) PROVE OrderInv'
  <2>1. match' = match /\ initialized' = initialized /\ Start(Join(p) \o Mark)
    BY <1>2 DEF JoinRoom
  <2>2. Orderly(Members', match, Join(p) \o Mark)
    BY OrderlyBeginnings
  <2> QED
    BY <2>1, <2>2, OrderBegins
<1>3. ASSUME LeaveRoom(p) PROVE OrderInv'
  <2>1. match' = match /\ initialized' = initialized
        /\ Start(IF Without(p) = <<>> THEN Finish \o Unmark ELSE <<>>)
    BY <1>3 DEF LeaveRoom
  <2>2. Orderly(Members', match, Finish \o Unmark) /\ Orderly(Members', match, <<>>)
    BY OrderlyBeginnings, NothingOrderly
  <2>3. CASE Without(p) = <<>>
    BY <2>1, <2>2, <2>3, OrderBegins
  <2>4. CASE Without(p) # <<>>
    BY <2>1, <2>2, <2>4, OrderBegins
  <2> QED
    BY <2>3, <2>4
<1>4. ASSUME ReconnectRoom(p) PROVE OrderInv'
  <2>1. match' = match /\ initialized' = initialized /\ Start(Rejoin(p) \o Mark)
    BY <1>4 DEF ReconnectRoom
  <2>2. Orderly(Members', match, Rejoin(p) \o Mark)
    BY OrderlyBeginnings
  <2> QED
    BY <2>1, <2>2, OrderBegins
<1>5. ASSUME Free = Slot
      PROVE  /\ Orderly(Members, match, Ensure \o SendTo(p))
             /\ \A seq, move : p \in Members =>
                  Orderly(Members, match, Ensure \o Play(p, seq, move) \o SendTo(None))
  BY <1>5, KeyIsThere, OrderlyBeginnings
<1>6. ASSUME OpenPage(p) PROVE OrderInv'
  <2>1. room' = room /\ match' = match /\ initialized' = initialized
    BY <1>6 DEF OpenPage
  <2>2. ASSUME Start(Ensure \o SendTo(p)) PROVE OrderInv'
    <3>1. Free = Slot /\ Members' = Members
      BY <2>1, <2>2 DEF Start, Taken, Quiet, Members
    <3>2. Orderly(Members', match, Ensure \o SendTo(p))
      BY <1>5, <3>1
    <3> QED
      BY <2>1, <2>2, <3>2, OrderBegins
  <2>3. ASSUME StartBoth(Rejoin(p) \o Mark, Ensure \o SendTo(p)) PROVE OrderInv'
    <3>1. Free = Slot
      BY <2>3 DEF StartBoth
    <3>2. Orderly(Members, match, Rejoin(p) \o Mark) /\ Returning(Rejoin(p) \o Mark)
      BY OrderlyBeginnings
    <3> QED
      BY <1>5, <2>1, <2>3, <3>1, <3>2, OrderBeginsTwice
  <2> QED
    BY <1>6, <2>2, <2>3 DEF OpenPage
<1>7. ASSUME RequestState(p) PROVE OrderInv'
  <2>1. room' = room /\ match' = match /\ initialized' = initialized
        /\ Start(Ensure \o SendTo(p))
    BY <1>7 DEF RequestState
  <2>2. Free = Slot /\ Members' = Members
    BY <2>1 DEF Start, Taken, Quiet, Members
  <2>3. Orderly(Members', match, Ensure \o SendTo(p))
    BY <1>5, <2>2
  <2> QED
    BY <2>1, <2>3, OrderBegins
<1>8. ASSUME p \in Members, NEW seq, NEW move, GameEvent(p, seq, move),
             room' = room, match' = match, initialized' = initialized
      PROVE  OrderInv'
  <2>1. Start(Ensure \o Play(p, seq, move) \o SendTo(None))
    BY <1>8 DEF GameEvent
  <2>2. Free = Slot /\ Members' = Members
    BY <1>8, <2>1 DEF Start, Taken, Quiet, Members
  <2>3. Orderly(Members', match, Ensure \o Play(p, seq, move) \o SendTo(None))
    BY <1>5, <1>8, <2>2
  <2> QED
    BY <1>8, <2>1, <2>3, OrderBegins
<1>9. ASSUME PlayPage(p) PROVE OrderInv'
  <2>1. room' = room /\ match' = match /\ initialized' = initialized
    BY <1>9 DEF PlayPage
  <2>2. PICK move \in OfferedMoves(game, pages[p].view, SeatsShown, p) :
          GameEvent(p, pages[p].seq + 1, move)
    BY <1>9 DEF PlayPage
  <2>3. SeatsShown # None /\ p \in Elements(SeatsShown)
    BY <2>2 DEF PagesNeedSeats, game
  <2>4. p \in Members
    BY <2>3 DEF SeatsShown, Members
  <2> QED
    BY <1>8, <2>1, <2>2, <2>4
<1>10. ASSUME PlayAny(p) PROVE OrderInv'
  BY <1>8, <1>10 DEF PlayAny
<1> QED
  BY <1>1, <1>2, <1>3, <1>4, <1>6, <1>7, <1>9, <1>10

\* What handlers do leaves tasks in order.
LEMMA OrderOfTasks ==
  ASSUME AdaptersKeepSeats, setup \in Setups, SeatsInv, OrderInv, InMemory, NEW s \in Slot
  PROVE  /\ CreateTask(s) => OrderInv' /\ match = None
         /\ FinishTask(s) => OrderInv'
         /\ KeyTask(s) => OrderInv'
         /\ SeedTask(s) => OrderInv'
         /\ WriteMatch(s) => OrderInv'
<1> DEFINE task == Head(Front)
           rest == Tail(Front)
<1>0. ASSUME Running(s)
      PROVE  /\ slots[s].todo = Front /\ Current(s) = task /\ Front # <<>>
             /\ Story(Members, match, initialized, Front)
             /\ \A n : Orderly(Members, n, rest)
             /\ Sowing(task) => match = None
             /\ task.kind = "create" => Marked(rest)
             /\ task.kind # "mark" /\ Marked(Front) => Marked(rest)
             /\ \A i \in DOMAIN rest : ~Sowing(rest[i])
             /\ task.kind = "seed" => \A i \in DOMAIN rest : rest[i].kind # "join"
             /\ Returning(Front) => Returning(rest) /\ Returning(<<>>)
             /\ Returning(Front) => task.kind \in {"reconnect", "mark"}
             /\ match # None => initialized \/ Marked(Front)
  <2>1. /\ slots[s].todo = Front /\ Current(s) = task /\ Front # <<>>
        /\ Story(Members, match, initialized, Front)
        /\ Orderly(Members, match, Front)
        /\ Returning(Front) => Returning(rest) /\ Returning(<<>>)
        /\ Returning(Front) => task.kind \in {"reconnect", "mark"}
    BY <1>0, OrderInHand
  <2>2. /\ Sowing(task) => match = None
        /\ task.kind = "create" => Marked(rest)
        /\ task.kind # "mark" /\ Marked(Front) => Marked(rest)
        /\ \A i \in DOMAIN rest : ~Sowing(rest[i])
        /\ task.kind = "seed" => \A i \in DOMAIN rest : rest[i].kind # "join"
    BY <2>1, OrderlyRest
  <2>3. ASSUME NEW n PROVE Orderly(Members, n, rest)
    BY <2>1, OrderlyRest
  <2> QED
    BY <2>1, <2>2, <2>3 DEF OrderInv
<1> HIDE DEF task, rest
<1>1. ASSUME CreateTask(s) PROVE OrderInv' /\ match = None
  <2>1. /\ Running(s) /\ Current(s).kind = "create"
        /\ Goes(s, Tail(slots[s].todo), None) /\ room' = room
    BY <1>1 DEF CreateTask, Done
  <2>2. task.kind = "create" /\ Goes(s, rest, None)
    BY <1>0, <2>1 DEF rest
  <2>3. Marked(rest) /\ match = None /\ Orderly(Members, match', rest)
        /\ task.kind \notin {"reconnect", "mark"} /\ (Returning(Front) => Returning(rest))
    BY <1>0, <2>1, <2>2 DEF Sowing
  <2> QED
    BY <2>1, <2>2, <2>3, OrderGoesOn DEF task
<1>2. ASSUME FinishTask(s) PROVE OrderInv'
  <2>1. /\ Running(s) /\ match' = None
        /\ Goes(s, Tail(slots[s].todo), None) /\ room' = room
    BY <1>2 DEF FinishTask, Done
  <2>2. Goes(s, rest, None) /\ Orderly(Members, match', rest)
        /\ (Returning(Front) => Returning(rest))
    BY <1>0, <2>1 DEF rest
  <2> QED
    BY <2>1, <2>2, OrderGoesOn
<1>3. ASSUME KeyTask(s) PROVE OrderInv'
  <2>1. /\ Running(s) /\ Current(s).kind \in {"mark", "unmark", "skip"}
        /\ initialized' = IF Current(s).kind = "skip" THEN initialized
                          ELSE Current(s).kind = "mark"
        /\ Goes(s, Tail(slots[s].todo), None) /\ room' = room /\ match' = match
    BY <1>3 DEF KeyTask, Done
  <2>2. Goes(s, rest, None) /\ Orderly(Members, match', rest)
        /\ (Returning(Front) => Returning(rest)) /\ task = Current(s)
    BY <1>0, <2>1 DEF rest
  <2>3. task.kind = "unmark" => match = None
    BY <1>0, <2>1, FirstTask DEF task
  <2>4. match' # None => initialized' \/ Marked(rest)
    BY <1>0, <2>1, <2>2, <2>3
  <2>5. match' = None \/ match # None
    BY <2>1
  <2> QED
    BY <2>1, <2>2, <2>4, <2>5, OrderGoesOn
<1>4. ASSUME SeedTask(s) PROVE OrderInv'
  <2>1. /\ Running(s) /\ Current(s).kind = "seed"
        /\ room = None => Goes(s, <<>>, None)
        /\ room # None => Goes(s, Seating \o Tail(slots[s].todo), None)
        /\ room' = room /\ match' = match /\ initialized' = initialized
    BY <1>4 DEF SeedTask, Throws
  <2>2. task.kind = "seed" /\ match = None /\ match' = None /\ ~Returning(Front)
    BY <1>0, <2>1 DEF Sowing
  <2>3. CASE room = None
    <3>1. Orderly(Members, match', <<>>)
      BY NothingOrderly
    <3> QED
      BY <2>1, <2>2, <2>3, <3>1, OrderGoesOn
  <2>4. CASE room # None
    <3>1. room \in RoomDoc
      BY <2>4 DEF SeatsInv
    <3>2. Goes(s, Seating \o rest, None) /\ Orderly(Members, None, rest)
      BY <1>0, <2>1, <2>4 DEF rest
    <3>3. \A i \in DOMAIN rest : ~Sowing(rest[i]) /\ rest[i].kind # "join"
      BY <1>0, <2>1, <2>2
    <3>4. Orderly(Members, match', Seating \o rest)
      BY <2>2, <3>1, <3>2, <3>3, OrderlySeating
    <3> QED
      BY <2>1, <2>2, <3>2, <3>4, OrderGoesOn
  <2> QED
    BY <2>3, <2>4
<1>5. ASSUME WriteMatch(s) PROVE OrderInv'
  <2>1. /\ Running(s) /\ Reads(Current(s)) /\ room' = room /\ initialized' = initialized
        /\ match = None => Goes(s, <<>>, None) /\ match' = match
        /\ match # None => Goes(s, Tail(slots[s].todo), None)
    BY <1>5 DEF WriteMatch, Throws, Done
  <2>2. task.kind \in {"join", "reconnect", "play", "send"}
    BY <1>0, <2>1 DEF Reads
  <2>3. CASE match = None
    <3>1. Orderly(Members, match', <<>>) /\ (Returning(Front) => Returning(<<>>))
      BY <1>0, <2>1, NothingOrderly
    <3> QED
      BY <2>1, <2>3, <3>1, OrderGoesOn
  <2>4. CASE match # None
    <3>1. Goes(s, rest, None) /\ Orderly(Members, match', rest)
          /\ (Returning(Front) => Returning(rest))
      BY <1>0, <2>1, <2>4 DEF rest
    <3>2. initialized' \/ Marked(rest)
      BY <1>0, <2>1, <2>2, <2>4
    <3> QED
      BY <2>1, <2>4, <3>1, <3>2, OrderGoesOn
  <2> QED
    BY <2>3, <2>4
<1> QED
  BY <1>1, <1>2, <1>3, <1>4, <1>5

-----------------------------------------------------------------------------
(* Results.                                                                *)

\* What a completed match m gave, n gives: who had points has them still.
Stands(m, n) ==
  m.isCompleted => /\ n.isCompleted
                   /\ \A q \in Player : Points(m)[q] \in {Points(n)[q], 0}

\* The documents Good of the game g are kept by its adapter, and the results in them.
AdapterStands(Good, g) ==
  /\ \A p \in Player : CreateMatch(g, p) \in Good[g]
  /\ \A m \in Good[g] :
       /\ StateObserved(g, m) \in Good[g] /\ Stands(m, StateObserved(g, m))
       /\ Elapsed(g, m) \in Good[g] /\ Stands(m, Elapsed(g, m))
       /\ \A p \in Player :
            /\ JoinGame(g, m, p) \in Good[g] /\ Stands(m, JoinGame(g, m, p))
            /\ RejoinGame(g, m, p) \in Good[g] /\ Stands(m, RejoinGame(g, m, p))
            /\ p \in Elements(m.players) => \A seq \in Nat, move \in LegalMoves(g) :
                 /\ HandlePlayerAction(g, m, p, seq, move) \in Good[g]
                 /\ Stands(m, HandlePlayerAction(g, m, p, seq, move))

AdaptersStand(Good) == \A s \in Setups : AdapterStands(Good, s.game)

\* The match is one of the documents Good, and tasks are in order.
GoodInv(Good) == InMemory => OrderInv /\ (match # None => match \in Good[game])

\* An adapter's operation is done: who plays is one of the players.
LEMMA GoodWrite ==
  ASSUME NEW Good, AdaptersKeepSeats, AdaptersStand(Good), IInv, TypesInv, InMemory, OrderInv,
         match # None, match \in Good[game], NEW s \in Slot, WriteMatch(s)
  PROVE  match' \in Good[game] /\ Stands(match, match')
<1> DEFINE task == Head(Front)
<1>1. /\ Running(s) /\ Reads(Current(s)) /\ match' = Applied(Current(s), match)
  BY DEF WriteMatch
<1>2. /\ Current(s) = task /\ Front # <<>>
      /\ Story(Members, match, initialized, Front)
      /\ Orderly(Members, match, Front)
  BY <1>1, OrderInHand DEF IInv
<1>3. TaskTyped(task)
  BY <1>1, <1>2, TypedInHand DEF TypesInv
<1>4. task.kind = "play" => task.who \in Members /\ Joining(Front) = {}
  BY <1>2, OrderlyRest
<1>5. task.kind = "play" => Members \subseteq Elements(match.players) \cup Joining(Front)
  BY <1>2, FirstTask
<1> HIDE DEF task
<1>6. match' = Applied(task, match) /\ Reads(task)
  BY <1>1, <1>2
<1>7. /\ StateObserved(game, match) \in Good[game] /\ Stands(match, StateObserved(game, match))
      /\ \A p \in Player :
           /\ JoinGame(game, match, p) \in Good[game] /\ Stands(match, JoinGame(game, match, p))
           /\ RejoinGame(game, match, p) \in Good[game]
           /\ Stands(match, RejoinGame(game, match, p))
           /\ p \in Elements(match.players) => \A seq \in Nat, move \in LegalMoves(game) :
                /\ HandlePlayerAction(game, match, p, seq, move) \in Good[game]
                /\ Stands(match, HandlePlayerAction(game, match, p, seq, move))
  BY DEF AdaptersStand, AdapterStands, IInv, game
<1>8. CASE task.kind = "join"
  BY <1>3, <1>6, <1>7, <1>8 DEF Applied, TaskTyped
<1>9. CASE task.kind = "reconnect"
  BY <1>3, <1>6, <1>7, <1>9 DEF Applied, TaskTyped
<1>10. CASE task.kind = "play"
  <2>1. task.who \in Player /\ task.seq \in Nat /\ task.move \in LegalMoves(game)
    BY <1>3, <1>10 DEF TaskTyped
  <2>2. task.who \in Elements(match.players)
    BY <1>4, <1>5, <1>10
  <2>3. match' = HandlePlayerAction(game, match, task.who, task.seq, task.move)
    BY <1>6, <1>10 DEF Applied
  <2> QED
    BY <1>7, <2>1, <2>2, <2>3
<1>11. CASE task.kind = "send"
  BY <1>6, <1>7, <1>11 DEF Applied
<1> QED
  BY <1>6, <1>8, <1>9, <1>10, <1>11 DEF Reads

\* With the memory driver every step keeps good documents and what a result gave.
LEMMA GoodStep ==
  ASSUME NEW Good, AdaptersKeepSeats, PagesNeedSeats, AdaptersStand(Good),
         IInv, TypesInv, InMemory, GoodInv(Good), Next
  PROVE  /\ OrderInv' /\ (match' # None => match' \in Good[game])
         /\ match # None /\ match' # None => Stands(match, match')
<1> DEFINE Still == /\ OrderInv' /\ (match' # None => match' \in Good[game])
                    /\ match # None /\ match' # None => Stands(match, match')
<1>0. /\ setup \in Setups /\ SeatsInv /\ OrderInv
      /\ match # None => match \in Good[game]
  BY DEF IInv, GoodInv
<1>1. ASSUME match' = match \/ match' = None, OrderInv' PROVE Still
  BY <1>0, <1>1 DEF Stands
<1> SUFFICES Still
  BY DEF Still
<1> HIDE DEF Still
<1>2. ASSUME NEW p \in Player,
             \/ CreateRoom(p) \/ JoinRoom(p) \/ LeaveRoom(p) \/ ReconnectRoom(p)
             \/ OpenPage(p) \/ RequestState(p) \/ PlayPage(p) \/ PlayAny(p)
      PROVE  Still
  <2>1. OrderInv'
    BY <1>0, <1>2, OrderOutside
  <2>2. match' = match
    BY <1>2 DEF CreateRoom, JoinRoom, LeaveRoom, ReconnectRoom, OpenPage,
         RequestState, PlayPage, PlayAny
  <2> QED
    BY <1>1, <2>1, <2>2
<1>3. CASE DeleteRoom
  <2>1. match' = match /\ initialized' = initialized /\ Start(Finish \o Unmark)
    BY <1>3 DEF DeleteRoom
  <2>2. Orderly(Members', match, Finish \o Unmark)
    BY OrderlyBeginnings
  <2>3. OrderInv'
    BY <1>0, <2>1, <2>2, OrderBegins
  <2> QED
    BY <1>1, <2>1, <2>3
<1>4. ASSUME NEW p \in Player, ClosePage(p) PROVE Still
  <2>1. UNCHANGED <<room, match, initialized, slots>>
    BY <1>4 DEF ClosePage
  <2>2. OrderInv'
    BY <1>0, <2>1 DEF OrderInv, Members, Front
  <2> QED
    BY <1>1, <2>1, <2>2
<1>5. ASSUME NEW s \in Slot, CreateTask(s) PROVE Still
  <2>1. OrderInv' /\ match = None
    BY <1>0, <1>5, OrderOfTasks
  <2>2. /\ Running(s) /\ Current(s).kind = "create"
        /\ match' = CreateMatch(game, Current(s).who)
    BY <1>5 DEF CreateTask
  <2>3. Current(s).who \in Player
    BY <1>0, <2>2, TaskInHand, FirstTask
  <2>4. match' \in Good[game]
    BY <1>0, <2>2, <2>3 DEF AdaptersStand, AdapterStands, game
  <2> QED
    BY <2>1, <2>4 DEF Still
<1>6. ASSUME NEW s \in Slot, FinishTask(s) \/ KeyTask(s) \/ SeedTask(s) PROVE Still
  <2>1. OrderInv'
    BY <1>0, <1>6, OrderOfTasks
  <2>2. match' = match \/ match' = None
    BY <1>6 DEF FinishTask, KeyTask, SeedTask
  <2> QED
    BY <1>1, <2>1, <2>2
<1>7. ASSUME NEW s \in Slot, WriteMatch(s) PROVE Still
  <2>1. OrderInv'
    BY <1>0, <1>7, OrderOfTasks
  <2>2. CASE match = None
    <3>1. match' = match
      BY <1>7, <2>2 DEF WriteMatch
    <3> QED
      BY <1>1, <2>1, <3>1
  <2>3. CASE match # None
    BY <1>0, <1>7, <2>1, <2>3, GoodWrite DEF Still
  <2> QED
    BY <2>2, <2>3
<1>8. CASE TimePasses
  <2>1. /\ match # None /\ match' = Elapsed(game, match) /\ Free = Slot
        /\ UNCHANGED <<setup, room, initialized, slots>>
    BY <1>8 DEF TimePasses, Quiet
  <2>2. match' \in Good[game] /\ Stands(match, match')
    BY <1>0, <2>1 DEF AdaptersStand, AdapterStands, game
  <2>3. slots[1] = Idle /\ slots[2] = Idle /\ initialized
    BY <1>0, <2>1, AllQuiet, TwoSlots, KeyIsThere
  <2>4. \A M, m : Orderly(M, m, <<>>)
    BY NothingOrderly
  <2>5. OrderInv'
    BY <2>1, <2>3, <2>4, EmptySlot DEF OrderInv
  <2> QED
    BY <2>2, <2>5 DEF Still
<1>9. ~Restart /\ \A s \in Slot : ~ReadMatch(s)
  BY DEF Restart, ReadMatch
<1> QED
  BY <1>2, <1>3, <1>4, <1>5, <1>6, <1>7, <1>8, <1>9 DEF Next

\* With the memory driver, a match is always a good document, and a completed one keeps
\* what it gave: whatever the good documents are that the adapters keep.
LEMMA ResultsStand ==
  ASSUME NEW Good, AdaptersKeepSeats, AdaptersKeepTypes, PagesNeedSeats, AdaptersStand(Good)
  PROVE  Spec => []GoodInv(Good) /\ ResultStands
<1>1. Init => IInv /\ TypesInv /\ GoodInv(Good)
  <2> SUFFICES ASSUME Init PROVE IInv /\ TypesInv /\ GoodInv(Good)
    OBVIOUS
  <2>1. match = None /\ slots = [s \in Slot |-> Idle]
    BY DEF Init
  <2>2. slots[1] = Idle /\ slots[2] = Idle
    BY <2>1, TwoSlots
  <2>3. \A M, m : Orderly(M, m, <<>>)
    BY NothingOrderly
  <2>4. OrderInv
    BY <2>1, <2>2, <2>3, EmptySlot DEF OrderInv
  <2> QED
    BY <2>1, <2>4, InvInit, TypesInit DEF GoodInv
<1>2. IInv /\ TypesInv /\ GoodInv(Good) /\ [Next]_vars
        => /\ IInv' /\ TypesInv' /\ GoodInv(Good)'
           /\ InMemory /\ match # None /\ match' # None => Stands(match, match')
  <2> SUFFICES ASSUME IInv, TypesInv, GoodInv(Good), [Next]_vars
               PROVE  /\ IInv' /\ TypesInv' /\ GoodInv(Good)'
                      /\ InMemory /\ match # None /\ match' # None => Stands(match, match')
    OBVIOUS
  <2>1. IInv' /\ TypesInv'
    BY InvStep, TypesStep
  <2>2. game' = game /\ InMemory' = InMemory
    BY SetupStays DEF game
  <2>3. CASE Next
    BY <2>2, <2>3, GoodStep, <2>1 DEF GoodInv
  <2>4. CASE UNCHANGED vars
    <3>1. UNCHANGED <<room, match, initialized, slots>>
      BY <2>4 DEF vars
    <3>2. OrderInv => OrderInv'
      BY <3>1 DEF OrderInv, Members, Front
    <3> QED
      BY <2>1, <2>2, <3>1, <3>2 DEF GoodInv, Stands
  <2> QED
    BY <2>3, <2>4
<1>3. IInv /\ TypesInv /\ GoodInv(Good) /\ [Next]_vars
        => [InMemory /\ match # None /\ match' # None /\ match.isCompleted =>
              /\ match'.isCompleted
              /\ \A p \in Player : Points(match)[p] \in {Points(match')[p], 0}]_vars
  BY <1>2 DEF Stands
<1> QED
  BY <1>1, <1>2, <1>3, PTL DEF Spec, ResultStands

-----------------------------------------------------------------------------
(* The results of the platform's games.                                    *)

\* Who is not of the match has no points in it.
OnlyPlayersScore(m) == \A q \in Player \ Elements(m.players) : Points(m)[q] = 0

\* The result of n is that of m.
Same(m, n) == n.isCompleted = m.isCompleted /\ Points(n) = Points(m)

\* Players of m, which is not over yet, may have more points in n.
Scores(m, n) ==
  ~m.isCompleted /\ \A q \in Player \ Elements(m.players) : Points(n)[q] = Points(m)[q]

\* What is the same, or scored while the match lasted, stands.
LEMMA ScoresStand ==
  ASSUME NEW m, NEW n, OnlyPlayersScore(m), Elements(m.players) \subseteq Elements(n.players),
         Same(m, n) \/ Scores(m, n)
  PROVE  OnlyPlayersScore(n) /\ Stands(m, n)
BY DEF OnlyPlayersScore, Stands, Same, Scores

\* The points of skyline-defense-lite.
LEMMA SkylineResults ==
  ASSUME NEW m \in Reg!Skyline!Doc, NEW p \in Player
  PROVE  /\ Same(m, Reg!Skyline!JoinMatch(m, p))
         /\ Same(m, Reg!Skyline!ReconnectPlayer(m, p))
         /\ p \in Elements(m.players) => \A seq, move :
              \/ Same(m, Reg!Skyline!Played(m, p, seq, move))
              \/ Scores(m, Reg!Skyline!Played(m, p, seq, move))
<1>1. Same(m, Reg!Skyline!JoinMatch(m, p))
  BY DEF Same, Points, Reg!Skyline!Doc, Reg!Skyline!JoinMatch, Reg!Skyline!WithBadge,
       Reg!Skyline!Joined
<1>2. Same(m, Reg!Skyline!ReconnectPlayer(m, p))
  BY DEF Same, Points, Reg!Skyline!Doc, Reg!Skyline!ReconnectPlayer,
       Reg!Skyline!WithBadge, Reg!Skyline!Reconnected
<1>3. ASSUME p \in Elements(m.players), NEW seq, NEW move
      PROVE  \/ Same(m, Reg!Skyline!Played(m, p, seq, move))
             \/ Scores(m, Reg!Skyline!Played(m, p, seq, move))
  BY <1>3 DEF Same, Scores, Points, Reg!Skyline!Doc, Reg!Skyline!Played,
       Reg!Skyline!Heard, Reg!Skyline!NotToMove, Reg!Skyline!Deployed
<1> QED
  BY <1>1, <1>2, <1>3

\* The points of seat-map-strategy.
LEMMA SeatMapResults ==
  ASSUME NEW m \in Reg!Seats!Doc, NEW p \in Player
  PROVE  /\ Same(m, Reg!Seats!JoinMatch(m, p))
         /\ Same(m, Reg!Seats!ReconnectPlayer(m, p))
         /\ p \in Elements(m.players) => \A seq, move :
              \/ Same(m, Reg!Seats!Played(m, p, seq, move))
              \/ Scores(m, Reg!Seats!Played(m, p, seq, move))
<1>1. Same(m, Reg!Seats!JoinMatch(m, p))
  BY DEF Same, Points, Reg!Seats!Doc, Reg!Seats!JoinMatch, Reg!Seats!WithMark,
       Reg!Seats!Joined
<1>2. Same(m, Reg!Seats!ReconnectPlayer(m, p))
  BY DEF Same, Points, Reg!Seats!Doc, Reg!Seats!ReconnectPlayer, Reg!Seats!WithMark,
       Reg!Seats!Reconnected
<1>3. ASSUME p \in Elements(m.players), NEW seq, NEW move
      PROVE  \/ Same(m, Reg!Seats!Played(m, p, seq, move))
             \/ Scores(m, Reg!Seats!Played(m, p, seq, move))
  BY <1>3 DEF Same, Scores, Points, Reg!Seats!Doc, Reg!Seats!Played, Reg!Seats!Heard,
       Reg!Seats!NotToMove, Reg!Seats!Claimed
<1> QED
  BY <1>1, <1>2, <1>3

\* The points of route-builder-duel.
LEMMA RoutesResults ==
  ASSUME NEW m \in Reg!Routes!Doc, NEW p \in Player
  PROVE  /\ Same(m, Reg!Routes!JoinMatch(m, p))
         /\ Same(m, Reg!Routes!ReconnectPlayer(m, p))
         /\ p \in Elements(m.players) => \A seq, move :
              \/ Same(m, Reg!Routes!Played(m, p, seq, move))
              \/ Scores(m, Reg!Routes!Played(m, p, seq, move))
<1>1. Same(m, Reg!Routes!JoinMatch(m, p))
  BY DEF Same, Points, Reg!Routes!Doc, Reg!Routes!JoinMatch, Reg!Routes!WithMark,
       Reg!Routes!Joined
<1>2. Same(m, Reg!Routes!ReconnectPlayer(m, p))
  BY DEF Same, Points, Reg!Routes!Doc, Reg!Routes!ReconnectPlayer, Reg!Routes!WithMark,
       Reg!Routes!Reconnected
<1>3. ASSUME p \in Elements(m.players), NEW seq, NEW move
      PROVE  \/ Same(m, Reg!Routes!Played(m, p, seq, move))
             \/ Scores(m, Reg!Routes!Played(m, p, seq, move))
  BY <1>3 DEF Same, Scores, Points, Reg!Routes!Doc, Reg!Routes!Played, Reg!Routes!Heard,
       Reg!Routes!NotToMove, Reg!Routes!Selected
<1> QED
  BY <1>1, <1>2, <1>3

\* The points of mini-gomoku.
LEMMA GomokuResults ==
  ASSUME NEW m \in Reg!Gomoku!Doc, NEW p \in Player
  PROVE  /\ Same(m, Reg!Gomoku!JoinMatch(m, p))
         /\ Same(m, Reg!Gomoku!ReconnectPlayer(m, p))
         /\ p \in Elements(m.players) => \A seq, move :
              \/ Same(m, Reg!Gomoku!Played(m, p, seq, move))
              \/ Scores(m, Reg!Gomoku!Played(m, p, seq, move))
<1>1. Same(m, Reg!Gomoku!JoinMatch(m, p))
  BY DEF Same, Points, Reg!Gomoku!Doc, Reg!Gomoku!JoinMatch, Reg!Gomoku!WithMark,
       Reg!Gomoku!Joined
<1>2. Same(m, Reg!Gomoku!ReconnectPlayer(m, p))
  BY DEF Same, Points, Reg!Gomoku!Doc, Reg!Gomoku!ReconnectPlayer, Reg!Gomoku!WithMark,
       Reg!Gomoku!Reconnected
<1>3. ASSUME p \in Elements(m.players), NEW seq, NEW move
      PROVE  \/ Same(m, Reg!Gomoku!Played(m, p, seq, move))
             \/ Scores(m, Reg!Gomoku!Played(m, p, seq, move))
  BY <1>3 DEF Same, Scores, Points, Reg!Gomoku!Doc, Reg!Gomoku!Played, Reg!Gomoku!Heard,
       Reg!Gomoku!NotToMove, Reg!Gomoku!Placed
<1> QED
  BY <1>1, <1>2, <1>3

\* The points of crew-coordination.
LEMMA CrewResults ==
  ASSUME NEW m \in Reg!Crew!Doc, NEW p \in Player
  PROVE  /\ Same(m, Reg!Crew!JoinMatch(m, p))
         /\ Same(m, Reg!Crew!ReconnectPlayer(m, p))
         /\ p \in Elements(m.players) => \A seq, move :
              \/ Same(m, Reg!Crew!Played(m, p, seq, move))
              \/ Scores(m, Reg!Crew!Played(m, p, seq, move))
<1>1. Same(m, Reg!Crew!JoinMatch(m, p))
  BY DEF Same, Points, Reg!Crew!Doc, Reg!Crew!JoinMatch, Reg!Crew!WithRole,
       Reg!Crew!Joined
<1>2. Same(m, Reg!Crew!ReconnectPlayer(m, p))
  BY DEF Same, Points, Reg!Crew!Doc, Reg!Crew!ReconnectPlayer, Reg!Crew!WithRole,
       Reg!Crew!Reconnected
<1>3. ASSUME p \in Elements(m.players), NEW seq, NEW move
      PROVE  \/ Same(m, Reg!Crew!Played(m, p, seq, move))
             \/ Scores(m, Reg!Crew!Played(m, p, seq, move))
  BY <1>3 DEF Same, Scores, Points, Reg!Crew!Doc, Reg!Crew!Played, Reg!Crew!Heard,
       Reg!Crew!NotToMove, Reg!Crew!TaskClaimed, Reg!Crew!MissionEnded
<1> QED
  BY <1>1, <1>2, <1>3

\* The points of cabin-card-clash.
LEMMA CardsResults ==
  ASSUME NEW m \in Reg!Cards!Doc, OnlyPlayersScore(m), NEW p \in Player
  PROVE  /\ Same(m, Reg!Cards!JoinMatch(m, p))
         /\ Same(m, Reg!Cards!ReconnectPlayer(m, p))
         /\ p \in Elements(m.players) => \A seq, move :
              \/ Same(m, Reg!Cards!Played(m, p, seq, move))
              \/ Scores(m, Reg!Cards!Played(m, p, seq, move))
<1>1. Same(m, Reg!Cards!JoinMatch(m, p))
  BY DEF Same, Points, OnlyPlayersScore, Elements, Reg!Cards!Doc, Reg!Cards!JoinMatch,
       Reg!Cards!Seated
<1>2. Same(m, Reg!Cards!ReconnectPlayer(m, p))
  BY SMTT(30) DEF Same, Points, Reg!Cards!Doc, Reg!Cards!ReconnectPlayer
<1>3. ASSUME p \in Elements(m.players), NEW seq, NEW move
      PROVE  \/ Same(m, Reg!Cards!Played(m, p, seq, move))
             \/ Scores(m, Reg!Cards!Played(m, p, seq, move))
  BY <1>3, ZenonT(30) DEF Same, Scores, Points, Elements, Reg!Cards!Doc, Reg!Cards!Played,
       Reg!Cards!Heard, Reg!Cards!NotToMove, Reg!Cards!CardPlayed,
       Reg!Cards!RoundResolved, Reg!Cards!PlayersOf
<1> QED
  BY <1>1, <1>2, <1>3

\* The points of baggage-sort-showdown.
LEMMA BagsResults ==
  ASSUME NEW m \in Reg!Bags!Doc, OnlyPlayersScore(m), NEW p \in Player
  PROVE  /\ Same(m, Reg!Bags!JoinMatch(m, p))
         /\ Same(m, Reg!Bags!ReconnectPlayer(m, p))
         /\ p \in Elements(m.players) => \A seq, move :
              \/ Same(m, Reg!Bags!Played(m, p, seq, move))
              \/ Scores(m, Reg!Bags!Played(m, p, seq, move))
<1>1. Same(m, Reg!Bags!JoinMatch(m, p))
  BY DEF Same, Points, OnlyPlayersScore, Elements, Reg!Bags!Doc, Reg!Bags!JoinMatch,
       Reg!Bags!Joined, Reg!Bags!Seated
<1>2. Same(m, Reg!Bags!ReconnectPlayer(m, p))
  BY DEF Same, Points, Reg!Bags!Doc, Reg!Bags!ReconnectPlayer, Reg!Bags!Reconnected
<1>3. ASSUME p \in Elements(m.players), NEW seq, NEW move
      PROVE  \/ Same(m, Reg!Bags!Played(m, p, seq, move))
             \/ Scores(m, Reg!Bags!Played(m, p, seq, move))
  BY <1>3 DEF Same, Scores, Points, Reg!Bags!Doc, Reg!Bags!Played, Reg!Bags!Heard,
       Reg!Bags!Sorted, Reg!Bags!Missorted, Reg!Bags!Settled
<1> QED
  BY <1>1, <1>2, <1>3

\* The points of memory-match-duel.
LEMMA MemoryResults ==
  ASSUME NEW m \in Reg!Memory!Doc, NEW p \in Player
  PROVE  /\ Same(m, Reg!Memory!JoinMatch(m, p))
         /\ Same(m, Reg!Memory!ReconnectPlayer(m, p))
         /\ p \in Elements(m.players) => \A seq, move :
              \/ Same(m, Reg!Memory!Played(m, p, seq, move))
              \/ Scores(m, Reg!Memory!Played(m, p, seq, move))
<1>1. Same(m, Reg!Memory!JoinMatch(m, p))
  BY DEF Same, Points, Reg!Memory!Doc, Reg!Memory!JoinMatch, Reg!Memory!Joined,
       Reg!Memory!Bumped
<1>2. Same(m, Reg!Memory!ReconnectPlayer(m, p))
  BY DEF Same, Points, Reg!Memory!Doc, Reg!Memory!ReconnectPlayer, Reg!Memory!Reconnected,
       Reg!Memory!Bumped
<1>3. ASSUME p \in Elements(m.players), NEW seq, NEW move
      PROVE  \/ Same(m, Reg!Memory!Played(m, p, seq, move))
             \/ Scores(m, Reg!Memory!Played(m, p, seq, move))
  BY <1>3 DEF Same, Scores, Points, Reg!Memory!Doc, Reg!Memory!Played, Reg!Memory!Heard,
       Reg!Memory!Bumped, Reg!Memory!Flipped, Reg!Memory!TurnResolved
<1> QED
  BY <1>1, <1>2, <1>3

\* The points of puzzle-race-grid.
LEMMA GridResults ==
  ASSUME NEW m \in Reg!Grid!Doc, OnlyPlayersScore(m), NEW p \in Player
  PROVE  /\ Same(m, Reg!Grid!JoinMatch(m, p))
         /\ Same(m, Reg!Grid!ReconnectPlayer(m, p))
         /\ p \in Elements(m.players) => \A seq, move :
              \/ Same(m, Reg!Grid!Played(m, p, seq, move))
              \/ Scores(m, Reg!Grid!Played(m, p, seq, move))
<1>1. Same(m, Reg!Grid!JoinMatch(m, p))
  BY DEF Same, Points, OnlyPlayersScore, Elements, Reg!Grid!Doc, Reg!Grid!JoinMatch,
       Reg!Grid!Joined, Reg!Grid!Seated
<1>2. Same(m, Reg!Grid!ReconnectPlayer(m, p))
  BY DEF Same, Points, Reg!Grid!Doc, Reg!Grid!ReconnectPlayer, Reg!Grid!Reconnected
<1>3. ASSUME p \in Elements(m.players), NEW seq, NEW move
      PROVE  \/ Same(m, Reg!Grid!Played(m, p, seq, move))
             \/ Scores(m, Reg!Grid!Played(m, p, seq, move))
  BY <1>3 DEF Same, Scores, Points, Reg!Grid!Doc, Reg!Grid!Played, Reg!Grid!Heard,
       Reg!Grid!Taken
<1> QED
  BY <1>1, <1>2, <1>3

\* The points of signal-scramble.
LEMMA SignalsResults ==
  ASSUME NEW m \in Reg!Signals!Doc, OnlyPlayersScore(m), NEW p \in Player
  PROVE  /\ Same(m, Reg!Signals!JoinMatch(m, p))
         /\ Same(m, Reg!Signals!ReconnectPlayer(m, p))
         /\ p \in Elements(m.players) => \A seq, move :
              \/ Same(m, Reg!Signals!Played(m, p, seq, move))
              \/ Scores(m, Reg!Signals!Played(m, p, seq, move))
<1>1. Same(m, Reg!Signals!JoinMatch(m, p))
  BY DEF Same, Points, OnlyPlayersScore, Elements, Reg!Signals!Doc, Reg!Signals!JoinMatch,
       Reg!Signals!Joined, Reg!Signals!Seated
<1>2. Same(m, Reg!Signals!ReconnectPlayer(m, p))
  BY DEF Same, Points, Reg!Signals!Doc, Reg!Signals!ReconnectPlayer,
       Reg!Signals!Reconnected
<1>3. ASSUME p \in Elements(m.players), NEW seq, NEW move
      PROVE  \/ Same(m, Reg!Signals!Played(m, p, seq, move))
             \/ Scores(m, Reg!Signals!Played(m, p, seq, move))
  BY <1>3 DEF Same, Scores, Points, Reg!Signals!Doc, Reg!Signals!Played,
       Reg!Signals!Heard, Reg!Signals!Activated
<1> QED
  BY <1>1, <1>2, <1>3

\* The bonus of spot-the-difference-race is for players.
LEMMA SpottingBonus ==
  ASSUME NEW m \in Reg!Spotting!Doc, OnlyPlayersScore(m)
  PROVE  /\ Reg!Spotting!Completed(m).players = m.players
         /\ \A q \in Player \ Elements(m.players) :
              Points(Reg!Spotting!Completed(m))[q] = Points(m)[q]
<1> DEFINE bonus == IF m.winnerBonusGranted THEN {} ELSE Reg!Spotting!Winning(m)
           n     == Reg!Spotting!Completed(m)
<1>1. n.players = m.players /\ DOMAIN n = DOMAIN m
  BY DEF Reg!Spotting!Completed, Reg!Spotting!Doc
<1>2. n.scores = [q \in Player |->
                    m.scores[q] + (IF q \in bonus THEN Reg!Spotting!WINNER_BONUS_POINTS ELSE 0)]
  BY DEF Reg!Spotting!Completed, Reg!Spotting!Doc
<1>3. Points(m) = m.scores /\ Points(n) = n.scores /\ m.scores \in [Player -> Nat]
  BY <1>1 DEF Points, Reg!Spotting!Doc
<1>4. ASSUME NEW q \in Player \ Elements(m.players) PROVE q \notin bonus
  <2>1. ~(m.scores[q] > 0)
    BY <1>3, <1>4 DEF OnlyPlayersScore
  <2> QED
    BY <1>4, <2>1 DEF Reg!Spotting!Winning, Reg!Spotting!Leaders, Reg!Spotting!PlayersOf,
         Elements
<1> HIDE DEF bonus, n
<1> QED
  BY <1>1, <1>2, <1>3, <1>4 DEF n

\* The deadline of spot-the-difference-race and its end.
LEMMA SpottingDeadline ==
  ASSUME NEW m \in Reg!Spotting!Doc, OnlyPlayersScore(m)
  PROVE  /\ Same(m, Reg!Spotting!DeadlinePasses(m))
         /\ \A n \in {Reg!Spotting!CompletedIfExpired(m), Reg!Spotting!Observed(m)} :
              /\ n.players = m.players
              /\ Same(m, n) \/ Scores(m, n)
<1>1. Same(m, Reg!Spotting!DeadlinePasses(m))
  BY DEF Same, Points, Reg!Spotting!DeadlinePasses, Reg!Spotting!Doc
<1>2. LET n == Reg!Spotting!CompletedIfExpired(m)
      IN n.players = m.players /\ (Same(m, n) \/ Scores(m, n))
  BY SpottingBonus DEF Reg!Spotting!CompletedIfExpired, Same, Scores
<1> QED
  BY <1>1, <1>2 DEF Reg!Spotting!Observed

\* The points of spot-the-difference-race.
LEMMA SpottingResults ==
  ASSUME NEW m \in Reg!Spotting!Doc, OnlyPlayersScore(m), NEW p \in Player
  PROVE  /\ Same(m, Reg!Spotting!JoinMatch(m, p))
         /\ Same(m, Reg!Spotting!ReconnectPlayer(m, p))
         /\ p \in Elements(m.players) => \A seq \in Nat, move \in Reg!Spotting!Moves :
              \/ Same(m, Reg!Spotting!Played(m, p, seq, move))
              \/ Scores(m, Reg!Spotting!Played(m, p, seq, move))
<1>1. Same(m, Reg!Spotting!JoinMatch(m, p))
  BY DEF Same, Points, Reg!Spotting!Doc, Reg!Spotting!JoinMatch, Reg!Spotting!Joined
<1>2. Same(m, Reg!Spotting!ReconnectPlayer(m, p))
  BY DEF Same, Points, Reg!Spotting!Doc, Reg!Spotting!ReconnectPlayer,
       Reg!Spotting!Reconnected
<1>3. ASSUME p \in Elements(m.players), NEW seq \in Nat, NEW move \in Reg!Spotting!Moves
      PROVE  \/ Same(m, Reg!Spotting!Played(m, p, seq, move))
             \/ Scores(m, Reg!Spotting!Played(m, p, seq, move))
  <2> DEFINE h == Reg!Spotting!Heard(m, p, seq)
             now == Reg!Spotting!CompletedIfExpired(h)
             c == Reg!Spotting!Claimed(now, p, move)
  <2>1. h \in Reg!Spotting!Doc /\ Same(m, h) /\ h.players = m.players /\ OnlyPlayersScore(h)
    BY DEF Reg!Spotting!Heard, Reg!Spotting!Doc, Same, OnlyPlayersScore, Points
  <2>2. Reg!Spotting!Played(m, p, seq, move) \in
          {m, IF now.isCompleted THEN now ELSE Reg!Spotting!CompletedIfFinished(c)}
    BY DEF Reg!Spotting!Played
  <2> HIDE DEF h
  <2>3. now \in Reg!Spotting!Doc /\ now.players = m.players /\ (Same(h, now) \/ Scores(h, now))
    BY <2>1, SpottingDeadline, SpottingEnds
  <2>4. Same(m, now) \/ Scores(m, now)
    BY <2>1, <2>3 DEF Same, Scores
  <2> HIDE DEF now
  <2>5. ASSUME ~now.isCompleted
        PROVE  Scores(m, Reg!Spotting!CompletedIfFinished(c))
    <3>1. ~m.isCompleted /\ \A q \in Player \ Elements(m.players) : Points(now)[q] = Points(m)[q]
      BY <2>4, <2>5 DEF Same, Scores
    <3>2. /\ c.players = m.players
          /\ \A q \in Player \ Elements(m.players) : Points(c)[q] = Points(m)[q]
      BY <1>3, <2>3, <3>1 DEF Reg!Spotting!Claimed, Reg!Spotting!Doc, Points
    <3>3. c \in Reg!Spotting!Doc
      <4> DEFINE found  == [now.foundSpots EXCEPT ![move] = p]
                 scores == [now.scores EXCEPT ![p] = now.scores[p]
                                                       + Reg!Spotting!CLAIM_POINTS]
      <4>1. found \in [Spots -> Player \cup {None}] /\ scores \in [Player -> Nat]
        BY <2>3 DEF Reg!Spotting!Moves, Reg!Spotting!CLAIM_POINTS, Reg!Spotting!Doc
      <4>2. c \in {now, [now EXCEPT !.foundSpots = found, !.scores = scores]}
        BY <2>3 DEF Reg!Spotting!Claimed, Reg!Spotting!Doc
      <4> HIDE DEF found, scores
      <4>3. [now EXCEPT !.foundSpots = found, !.scores = scores] \in Reg!Spotting!Doc
        BY <2>3, <4>1 DEF Reg!Spotting!Doc
      <4> QED
        BY <2>3, <4>2, <4>3
    <3> HIDE DEF c
    <3>4. OnlyPlayersScore(c)
      BY <3>1, <3>2 DEF OnlyPlayersScore
    <3> QED
      BY <3>1, <3>2, <3>3, <3>4, SpottingBonus DEF Reg!Spotting!CompletedIfFinished, Scores
  <2> QED
    BY <2>2, <2>4, <2>5 DEF Same
<1> QED
  BY <1>1, <1>2, <1>3

\* The points of tap-beat-battle.
LEMMA BeatsResults ==
  ASSUME NEW m \in Reg!Beats!Doc, OnlyPlayersScore(m), NEW p \in Player
  PROVE  /\ Same(m, Reg!Beats!JoinMatch(m, p))
         /\ Same(m, Reg!Beats!ReconnectPlayer(m, p))
         /\ p \in Elements(m.players) => \A seq, move :
              \/ Same(m, Reg!Beats!Played(m, p, seq, move))
              \/ Scores(m, Reg!Beats!Played(m, p, seq, move))
<1>1. Same(m, Reg!Beats!JoinMatch(m, p))
  BY DEF Same, Points, OnlyPlayersScore, Elements, Reg!Beats!Doc, Reg!Beats!JoinMatch,
       Reg!Beats!Joined, Reg!Beats!Seated
<1>2. Same(m, Reg!Beats!ReconnectPlayer(m, p))
  BY SMTT(30) DEF Same, Points, Reg!Beats!Doc, Reg!Beats!ReconnectPlayer, Reg!Beats!Reconnected
<1>3. ASSUME p \in Elements(m.players), NEW seq, NEW move
      PROVE  \/ Same(m, Reg!Beats!Played(m, p, seq, move))
             \/ Scores(m, Reg!Beats!Played(m, p, seq, move))
  BY <1>3, ZenonT(30) DEF Same, Scores, Points, Reg!Beats!Doc, Reg!Beats!Played, Reg!Beats!Heard,
       Reg!Beats!Tapped, Reg!Beats!RoundCompleted
<1> QED
  BY <1>1, <1>2, <1>3

\* In a game of rounds that is over the last answers stand, and who has none has no points.
RoundsStand(m) ==
  /\ OnlyPlayersScore(m)
  /\ m.isCompleted => /\ m.currentRoundNumber >= TotalRounds
                      /\ \A q \in Player : m.answersByPlayer[q] = None => m.scores[q] = 0

\* An answer of p makes n of m: it ends the round when it was the last one missing.
Answers(m, n, p) ==
  /\ n.players = m.players
  /\ \A q \in Player \ {p} : n.scores[q] = m.scores[q]
  /\ m.answersByPlayer[p] = None
  /\ \/ /\ n.isCompleted = m.isCompleted /\ n.currentRoundNumber = m.currentRoundNumber
        /\ n.answersByPlayer[p] # None
        /\ \A q \in Player \ {p} : n.answersByPlayer[q] = m.answersByPlayer[q]
     \/ /\ n.isCompleted /\ n.currentRoundNumber = m.currentRoundNumber
        /\ m.currentRoundNumber >= TotalRounds
        /\ \A q \in Elements(m.players) : n.answersByPlayer[q] # None
     \/ ~n.isCompleted /\ ~(m.currentRoundNumber >= TotalRounds)

\* An answer lets a result stand, and a game of rounds as it should be.
LEMMA AnswersStand ==
  ASSUME NEW m, NEW n, NEW p \in Elements(m.players), RoundsStand(m), Answers(m, n, p),
         Points(m) = m.scores, Points(n) = n.scores
  PROVE  RoundsStand(n) /\ Stands(m, n)
<1>1. OnlyPlayersScore(n)
  BY DEF RoundsStand, OnlyPlayersScore, Answers
<1>2. \A q \in Player : n.isCompleted /\ n.answersByPlayer[q] = None => n.scores[q] = 0
  BY <1>1 DEF RoundsStand, OnlyPlayersScore, Answers
<1>3. n.isCompleted => n.currentRoundNumber >= TotalRounds
  BY DEF RoundsStand, Answers
<1>4. Stands(m, n)
  BY DEF RoundsStand, Answers, Stands
<1> QED
  BY <1>1, <1>2, <1>3, <1>4 DEF RoundsStand

\* A document that differs in nothing that matters lets a result stand too.
LEMMA NothingAnswered ==
  ASSUME NEW m, NEW n, RoundsStand(m), Elements(m.players) \subseteq Elements(n.players),
         Points(m) = m.scores, Points(n) = n.scores, n.scores = m.scores,
         n.isCompleted = m.isCompleted, n.currentRoundNumber = m.currentRoundNumber,
         \A q \in Player : n.answersByPlayer[q] = None =>
                             (m.answersByPlayer[q] = None \/ n.scores[q] = 0)
  PROVE  RoundsStand(n) /\ Stands(m, n)
<1>1. OnlyPlayersScore(n)
  BY DEF RoundsStand, OnlyPlayersScore
<1>2. n.isCompleted => (n.currentRoundNumber >= TotalRounds /\
                       \A q \in Player : n.answersByPlayer[q] = None => n.scores[q] = 0)
  BY DEF RoundsStand
<1>3. Stands(m, n)
  BY DEF Stands
<1>4. RoundsStand(n)
  BY <1>1, <1>2 DEF RoundsStand
<1>5. QED
  BY <1>3, <1>4

\* The points of quiz-duel.
LEMMA QuizResults ==
  ASSUME None \notin {"right", "wrong"}, NEW m \in Reg!Quiz!Doc, RoundsStand(m),
         NEW p \in Player
  PROVE  /\ LET n == Reg!Quiz!JoinMatch(m, p) IN RoundsStand(n) /\ Stands(m, n)
         /\ LET n == Reg!Quiz!ReconnectPlayer(m, p) IN RoundsStand(n) /\ Stands(m, n)
         /\ p \in Elements(m.players) => \A seq \in Nat, move \in Reg!Quiz!Moves :
              LET n == Reg!Quiz!Played(m, p, seq, move) IN RoundsStand(n) /\ Stands(m, n)
<1>1. IsDocument(m) /\ Points(m) = m.scores
  BY DEF IsDocument, Points, Reg!Quiz!Doc, Reg!Quiz!Game!Doc
<1>2. LET n == Reg!Quiz!JoinMatch(m, p) IN RoundsStand(n) /\ Stands(m, n)
  <2> DEFINE n == Reg!Quiz!JoinMatch(m, p)
  <2>1. Elements(m.players) \subseteq Elements(n.players)
    BY <1>1, QuizKeepsSeats DEF Seats
  <2>2. /\ Points(n) = n.scores /\ n.scores = m.scores /\ n.isCompleted = m.isCompleted
        /\ n.currentRoundNumber = m.currentRoundNumber
        /\ n.answersByPlayer = m.answersByPlayer
    BY DEF Points, Reg!Quiz!JoinMatch, Reg!Quiz!Joined, Reg!Quiz!Doc, Reg!Quiz!Game!Doc
  <2> HIDE DEF n
  <2>3. RoundsStand(n) /\ Stands(m, n)
    BY <1>1, <2>1, <2>2, NothingAnswered
  <2> QED
    BY <2>3 DEF n
<1>3. LET n == Reg!Quiz!ReconnectPlayer(m, p) IN RoundsStand(n) /\ Stands(m, n)
  <2> DEFINE n == Reg!Quiz!ReconnectPlayer(m, p)
  <2>1. Elements(m.players) \subseteq Elements(n.players)
    BY <1>1, QuizKeepsSeats DEF Seats
  <2>2. /\ Points(n) = n.scores /\ n.scores = m.scores /\ n.isCompleted = m.isCompleted
        /\ n.currentRoundNumber = m.currentRoundNumber
        /\ n.answersByPlayer = m.answersByPlayer
    BY DEF Points, Reg!Quiz!ReconnectPlayer, Reg!Quiz!Reconnected, Reg!Quiz!Doc,
         Reg!Quiz!Game!Doc
  <2> HIDE DEF n
  <2>3. RoundsStand(n) /\ Stands(m, n)
    BY <1>1, <2>1, <2>2, NothingAnswered
  <2> QED
    BY <2>3 DEF n
<1>4. ASSUME p \in Elements(m.players), NEW seq, NEW move \in Reg!Quiz!Moves
      PROVE  LET n == Reg!Quiz!Played(m, p, seq, move) IN RoundsStand(n) /\ Stands(m, n)
  <2> DEFINE h == Reg!Quiz!Game!Heard(m, p, seq)
             a == Reg!Quiz!Game!Answered(m, p, seq, move)
  <2>1. Reg!Quiz!Played(m, p, seq, move) =
          IF Reg!Quiz!Game!Stale(m, p, seq) THEN m
          ELSE IF m.answersByPlayer[p] # None THEN h ELSE a
    BY DEF Reg!Quiz!Played, Reg!Quiz!Game!Played
  <2>2. RoundsStand(m) /\ Stands(m, m)
    BY DEF Stands
  <2>3. RoundsStand(h) /\ Stands(m, h)
    BY DEF RoundsStand, OnlyPlayersScore, Stands, Points, Reg!Quiz!Game!Heard,
       Reg!Quiz!Doc, Reg!Quiz!Game!Doc
  <2>4. ASSUME m.answersByPlayer[p] = None
        PROVE  RoundsStand(a) /\ Stands(m, a)
    <3> DEFINE heard  == [m EXCEPT !.lastSeqByPlayer[p] = seq, !.answersByPlayer[p] = move]
               scored == IF move = "right" THEN [heard EXCEPT !.scores[p] = m.scores[p] + 10]
                         ELSE heard
    <3>1. a = IF Reg!Quiz!Game!AllAnswered(scored) THEN Reg!Quiz!Game!RoundCompleted(scored)
              ELSE scored
      BY DEF Reg!Quiz!Game!Answered
    <3>2. move # None
      BY DEF Reg!Quiz!Moves, Reg!Quiz!Game!Choice
    <3>3. /\ scored.players = m.players /\ DOMAIN scored = DOMAIN m
          /\ \A q \in Player \ {p} : scored.scores[q] = m.scores[q]
          /\ scored.isCompleted = m.isCompleted
          /\ scored.currentRoundNumber = m.currentRoundNumber
          /\ scored.answersByPlayer[p] # None
          /\ \A q \in Player \ {p} : scored.answersByPlayer[q] = m.answersByPlayer[q]
      BY <3>2 DEF Reg!Quiz!Doc, Reg!Quiz!Game!Doc, Reg!Quiz!Game!Answers
    <3> HIDE DEF scored
    <3>4. ASSUME Reg!Quiz!Game!AllAnswered(scored)
          PROVE  Answers(m, Reg!Quiz!Game!RoundCompleted(scored), p)
                 /\ DOMAIN Reg!Quiz!Game!RoundCompleted(scored) = DOMAIN m
      <4>1. \A q \in Elements(m.players) : scored.answersByPlayer[q] # None
        BY <3>3, <3>4 DEF Reg!Quiz!Game!AllAnswered, Reg!Quiz!Game!PlayersOf, Elements
      <4>2. {"isCompleted", "currentRoundNumber", "answersByPlayer", "players", "scores",
             "completedRounds"} \subseteq DOMAIN scored
        BY <3>3 DEF Reg!Quiz!Doc, Reg!Quiz!Game!Doc
      <4> QED
        BY <2>4, <3>3, <4>1, <4>2 DEF Answers, Reg!Quiz!Game!RoundCompleted
    <3>5. Answers(m, scored, p)
      BY <2>4, <3>3 DEF Answers
    <3>6. Answers(m, a, p) /\ DOMAIN a = DOMAIN m
      BY <3>1, <3>3, <3>4, <3>5
    <3> HIDE DEF a
    <3>7. Points(m) = m.scores /\ Points(a) = a.scores
      BY <3>6 DEF Points, Reg!Quiz!Doc, Reg!Quiz!Game!Doc
    <3> QED
      BY <1>4, <3>6, <3>7, AnswersStand
  <2> HIDE DEF h, a
  <2> QED
    BY <2>1, <2>2, <2>3, <2>4
<1> QED
  BY <1>2, <1>3, <1>4

\* The points of word-rally.
LEMMA WordsResults ==
  ASSUME None \notin {"right", "wrong"}, NEW m \in Reg!Words!Doc, RoundsStand(m),
         NEW p \in Player
  PROVE  /\ LET n == Reg!Words!JoinMatch(m, p) IN RoundsStand(n) /\ Stands(m, n)
         /\ LET n == Reg!Words!ReconnectPlayer(m, p) IN RoundsStand(n) /\ Stands(m, n)
         /\ p \in Elements(m.players) => \A seq \in Nat, move \in Reg!Words!Moves :
              LET n == Reg!Words!Played(m, p, seq, move) IN RoundsStand(n) /\ Stands(m, n)
<1>1. IsDocument(m) /\ Points(m) = m.scores
  BY DEF IsDocument, Points, Reg!Words!Doc, Reg!Words!Game!Doc
<1>2. LET n == Reg!Words!JoinMatch(m, p) IN RoundsStand(n) /\ Stands(m, n)
  <2> DEFINE n == Reg!Words!JoinMatch(m, p)
  <2>1. Elements(m.players) \subseteq Elements(n.players)
    BY <1>1, WordsKeepsSeats DEF Seats
  <2>2. /\ Points(n) = n.scores /\ n.scores = m.scores /\ n.isCompleted = m.isCompleted
        /\ n.currentRoundNumber = m.currentRoundNumber
        /\ n.answersByPlayer = m.answersByPlayer
    BY DEF Points, Reg!Words!JoinMatch, Reg!Words!Joined, Reg!Words!Doc, Reg!Words!Game!Doc
  <2> HIDE DEF n
  <2>3. RoundsStand(n) /\ Stands(m, n)
    BY <1>1, <2>1, <2>2, NothingAnswered
  <2> QED
    BY <2>3 DEF n
<1>3. LET n == Reg!Words!ReconnectPlayer(m, p) IN RoundsStand(n) /\ Stands(m, n)
  <2> DEFINE n == Reg!Words!ReconnectPlayer(m, p)
  <2>1. Elements(m.players) \subseteq Elements(n.players)
    BY <1>1, WordsKeepsSeats DEF Seats
  <2>2. /\ Points(n) = n.scores /\ n.scores = m.scores /\ n.isCompleted = m.isCompleted
        /\ n.currentRoundNumber = m.currentRoundNumber
        /\ n.answersByPlayer = m.answersByPlayer
    BY DEF Points, Reg!Words!ReconnectPlayer, Reg!Words!Reconnected, Reg!Words!Doc,
         Reg!Words!Game!Doc
  <2> HIDE DEF n
  <2>3. RoundsStand(n) /\ Stands(m, n)
    BY <1>1, <2>1, <2>2, NothingAnswered
  <2> QED
    BY <2>3 DEF n
<1>4. ASSUME p \in Elements(m.players), NEW seq, NEW move \in Reg!Words!Moves
      PROVE  LET n == Reg!Words!Played(m, p, seq, move) IN RoundsStand(n) /\ Stands(m, n)
  <2> DEFINE h == Reg!Words!Game!Heard(m, p, seq)
             a == Reg!Words!Game!Answered(m, p, seq, move)
  <2>1. Reg!Words!Played(m, p, seq, move) =
          IF Reg!Words!Game!Stale(m, p, seq) THEN m
          ELSE IF m.answersByPlayer[p] # None THEN h ELSE a
    BY DEF Reg!Words!Played, Reg!Words!Game!Played
  <2>2. RoundsStand(m) /\ Stands(m, m)
    BY DEF Stands
  <2>3. RoundsStand(h) /\ Stands(m, h)
    BY DEF RoundsStand, OnlyPlayersScore, Stands, Points, Reg!Words!Game!Heard,
       Reg!Words!Doc, Reg!Words!Game!Doc
  <2>4. ASSUME m.answersByPlayer[p] = None
        PROVE  RoundsStand(a) /\ Stands(m, a)
    <3> DEFINE heard  == [m EXCEPT !.lastSeqByPlayer[p] = seq, !.answersByPlayer[p] = move]
               scored == IF move = "right" THEN [heard EXCEPT !.scores[p] = m.scores[p] + 10]
                         ELSE heard
    <3>1. a = IF Reg!Words!Game!AllAnswered(scored) THEN Reg!Words!Game!RoundCompleted(scored)
              ELSE scored
      BY DEF Reg!Words!Game!Answered
    <3>2. move # None
      BY DEF Reg!Words!Moves, Reg!Words!Game!Choice
    <3>3. /\ scored.players = m.players /\ DOMAIN scored = DOMAIN m
          /\ \A q \in Player \ {p} : scored.scores[q] = m.scores[q]
          /\ scored.isCompleted = m.isCompleted
          /\ scored.currentRoundNumber = m.currentRoundNumber
          /\ scored.answersByPlayer[p] # None
          /\ \A q \in Player \ {p} : scored.answersByPlayer[q] = m.answersByPlayer[q]
      BY <3>2 DEF Reg!Words!Doc, Reg!Words!Game!Doc, Reg!Words!Game!Answers
    <3> HIDE DEF scored
    <3>4. ASSUME Reg!Words!Game!AllAnswered(scored)
          PROVE  Answers(m, Reg!Words!Game!RoundCompleted(scored), p)
                 /\ DOMAIN Reg!Words!Game!RoundCompleted(scored) = DOMAIN m
      <4>1. \A q \in Elements(m.players) : scored.answersByPlayer[q] # None
        BY <3>3, <3>4 DEF Reg!Words!Game!AllAnswered, Reg!Words!Game!PlayersOf, Elements
      <4>2. {"isCompleted", "currentRoundNumber", "answersByPlayer", "players", "scores",
             "completedRounds"} \subseteq DOMAIN scored
        BY <3>3 DEF Reg!Words!Doc, Reg!Words!Game!Doc
      <4> QED
        BY <2>4, <3>3, <4>1, <4>2 DEF Answers, Reg!Words!Game!RoundCompleted
    <3>5. Answers(m, scored, p)
      BY <2>4, <3>3 DEF Answers
    <3>6. Answers(m, a, p) /\ DOMAIN a = DOMAIN m
      BY <3>1, <3>3, <3>4, <3>5
    <3> HIDE DEF a
    <3>7. Points(m) = m.scores /\ Points(a) = a.scores
      BY <3>6 DEF Points, Reg!Words!Doc, Reg!Words!Game!Doc
    <3> QED
      BY <1>4, <3>6, <3>7, AnswersStand
  <2> HIDE DEF h, a
  <2> QED
    BY <2>1, <2>2, <2>3, <2>4
<1> QED
  BY <1>2, <1>3, <1>4

\* The points of airline-trivia-teams.
LEMMA TriviaResults ==
  ASSUME None \notin {"right", "wrong"}, NEW m \in Reg!Trivia!Doc, RoundsStand(m),
         NEW p \in Player
  PROVE  /\ LET n == Reg!Trivia!JoinMatch(m, p) IN RoundsStand(n) /\ Stands(m, n)
         /\ LET n == Reg!Trivia!ReconnectPlayer(m, p) IN RoundsStand(n) /\ Stands(m, n)
         /\ p \in Elements(m.players) => \A seq \in Nat, move \in Reg!Trivia!Moves :
              LET n == Reg!Trivia!Played(m, p, seq, move) IN RoundsStand(n) /\ Stands(m, n)
<1>1. IsDocument(m) /\ Points(m) = m.scores
  BY DEF IsDocument, Points, Reg!Trivia!Doc
<1>2. LET n == Reg!Trivia!JoinMatch(m, p) IN RoundsStand(n) /\ Stands(m, n)
  <2> DEFINE n == Reg!Trivia!JoinMatch(m, p)
  <2>1. Elements(m.players) \subseteq Elements(n.players)
    BY <1>1, TriviaKeepsSeats DEF Seats
  <2>2. /\ Points(n) = n.scores /\ n.isCompleted = m.isCompleted
        /\ n.currentRoundNumber = m.currentRoundNumber
    BY DEF Points, Reg!Trivia!JoinMatch, Reg!Trivia!Doc
  <2>3. \/ n.scores = m.scores /\ n.answersByPlayer = m.answersByPlayer
        \/ /\ p \notin Elements(m.players) /\ n.scores = [m.scores EXCEPT ![p] = 0]
           /\ n.answersByPlayer = [m.answersByPlayer EXCEPT ![p] = None]
    BY DEF Reg!Trivia!JoinMatch, Reg!Trivia!Seated, Elements, Reg!Trivia!Doc
  <2>4. n.scores = m.scores
    BY <1>1, <2>3 DEF RoundsStand, OnlyPlayersScore, Reg!Trivia!Doc
  <2>5. \A q \in Player : n.answersByPlayer[q] = None =>
                            m.answersByPlayer[q] = None \/ n.scores[q] = 0
    BY <2>3 DEF Reg!Trivia!Doc, Reg!Trivia!Game!Answers
  <2> HIDE DEF n
  <2>6. RoundsStand(n) /\ Stands(m, n)
    BY <1>1, <2>1, <2>2, <2>4, <2>5, NothingAnswered
  <2> QED
    BY <2>6 DEF n
<1>3. LET n == Reg!Trivia!ReconnectPlayer(m, p) IN RoundsStand(n) /\ Stands(m, n)
  <2> DEFINE n == Reg!Trivia!ReconnectPlayer(m, p)
  <2>1. Elements(m.players) \subseteq Elements(n.players)
    BY <1>1, TriviaKeepsSeats DEF Seats
  <2>2. /\ Points(n) = n.scores /\ n.scores = m.scores /\ n.isCompleted = m.isCompleted
        /\ n.currentRoundNumber = m.currentRoundNumber
        /\ n.answersByPlayer = m.answersByPlayer
    BY DEF Points, Reg!Trivia!ReconnectPlayer, Reg!Trivia!Doc
  <2> HIDE DEF n
  <2>3. RoundsStand(n) /\ Stands(m, n)
    BY <1>1, <2>1, <2>2, NothingAnswered
  <2> QED
    BY <2>3 DEF n
<1>4. ASSUME p \in Elements(m.players), NEW seq, NEW move \in Reg!Trivia!Moves
      PROVE  LET n == Reg!Trivia!Played(m, p, seq, move) IN RoundsStand(n) /\ Stands(m, n)
  <2> DEFINE h == Reg!Trivia!Game!Heard(m, p, seq)
             a == Reg!Trivia!Game!Answered(m, p, seq, move)
  <2>1. Reg!Trivia!Game!Played(m, p, seq, move) =
          IF Reg!Trivia!Game!Stale(m, p, seq) THEN m
          ELSE IF m.answersByPlayer[p] # None THEN h ELSE a
    BY DEF Reg!Trivia!Game!Played
  <2>2. RoundsStand(m) /\ Stands(m, m)
    BY DEF Stands
  <2>3. RoundsStand(h) /\ Stands(m, h)
    BY DEF RoundsStand, OnlyPlayersScore, Stands, Points, Reg!Trivia!Game!Heard,
       Reg!Trivia!Doc
  <2>4. ASSUME m.answersByPlayer[p] = None
        PROVE  RoundsStand(a) /\ Stands(m, a)
    <3> DEFINE heard  == [m EXCEPT !.lastSeqByPlayer[p] = seq, !.answersByPlayer[p] = move]
               scored == IF move = "right" THEN [heard EXCEPT !.scores[p] = m.scores[p] + 6]
                         ELSE heard
    <3>1. a = IF Reg!Trivia!Game!AllAnswered(scored) THEN Reg!Trivia!Game!RoundCompleted(scored)
              ELSE scored
      BY DEF Reg!Trivia!Game!Answered
    <3>2. move # None
      BY DEF Reg!Trivia!Moves, Reg!Trivia!Game!Choice
    <3>3. /\ scored.players = m.players /\ DOMAIN scored = DOMAIN m
          /\ \A q \in Player \ {p} : scored.scores[q] = m.scores[q]
          /\ scored.isCompleted = m.isCompleted
          /\ scored.currentRoundNumber = m.currentRoundNumber
          /\ scored.answersByPlayer[p] # None
          /\ \A q \in Player \ {p} : scored.answersByPlayer[q] = m.answersByPlayer[q]
      BY <3>2 DEF Reg!Trivia!Doc, Reg!Trivia!Game!Answers
    <3> HIDE DEF scored
    <3>4. ASSUME Reg!Trivia!Game!AllAnswered(scored)
          PROVE  Answers(m, Reg!Trivia!Game!RoundCompleted(scored), p)
                 /\ DOMAIN Reg!Trivia!Game!RoundCompleted(scored) = DOMAIN m
      <4>1. \A q \in Elements(m.players) : scored.answersByPlayer[q] # None
        BY <3>3, <3>4 DEF Reg!Trivia!Game!AllAnswered, Reg!Trivia!Game!PlayersOf, Elements
      <4>2. {"isCompleted", "currentRoundNumber", "answersByPlayer", "players", "scores",
             "completedRounds"} \subseteq DOMAIN scored
        BY <3>3 DEF Reg!Trivia!Doc
      <4> QED
        BY <2>4, <3>3, <4>1, <4>2 DEF Answers, Reg!Trivia!Game!RoundCompleted
    <3>5. Answers(m, scored, p)
      BY <2>4, <3>3 DEF Answers
    <3>6. Answers(m, a, p) /\ DOMAIN a = DOMAIN m
      BY <3>1, <3>3, <3>4, <3>5
    <3> HIDE DEF a
    <3>7. Points(m) = m.scores /\ Points(a) = a.scores
      BY <3>6 DEF Points, Reg!Trivia!Doc
    <3> QED
      BY <1>4, <3>6, <3>7, AnswersStand
  <2>5. DOMAIN h = DOMAIN m /\ DOMAIN a = DOMAIN m
    BY DEF Reg!Trivia!Game!Heard, Reg!Trivia!Game!Answered, Reg!Trivia!Game!RoundCompleted
  <2> HIDE DEF h, a
  <2> DEFINE after == Reg!Trivia!Game!Played(m, p, seq, move)
             n     == Reg!Trivia!Played(m, p, seq, move)
  <2>6. RoundsStand(after) /\ Stands(m, after) /\ DOMAIN after = DOMAIN m
    BY <2>1, <2>2, <2>3, <2>4, <2>5
  <2>7. \E score : n \in {after, [after EXCEPT !.teamScores = score]}
    BY DEF Reg!Trivia!Played
  <2> HIDE DEF after, n
  <2>8. PICK score : n \in {after, [after EXCEPT !.teamScores = score]}
    BY <2>7
  <2>9. /\ n.players = after.players /\ n.scores = after.scores
        /\ n.isCompleted = after.isCompleted /\ n.answersByPlayer = after.answersByPlayer
        /\ n.currentRoundNumber = after.currentRoundNumber /\ Points(n) = Points(after)
    BY <2>6, <2>8 DEF Points, Reg!Trivia!Doc
  <2>10. RoundsStand(n) /\ Stands(m, n)
    BY <2>6, <2>9 DEF RoundsStand, OnlyPlayersScore, Stands
  <2> QED
    BY <2>10 DEF n
<1> QED
  BY <1>2, <1>3, <1>4

GamesOfRounds == {"quiz-duel", "word-rally", "airline-trivia-teams"}

\* In every game that is not one of rounds, the adapter gives points only to players, and
\* only while the match lasts.
LEMMA RegistryScores ==
  ASSUME NEW g \in Reg!GameId \ GamesOfRounds, NEW m \in Reg!AdapterDoc(g),
         OnlyPlayersScore(m), NEW p \in Player
  PROVE  /\ Same(m, Reg!AdapterJoin(g, m, p))
         /\ Same(m, Reg!AdapterReconnect(g, m, p))
         /\ p \in Elements(m.players) => \A seq \in Nat, move \in Reg!AdapterMoves(g) :
              \/ Same(m, Reg!AdapterAction(g, m, p, seq, move))
              \/ Scores(m, Reg!AdapterAction(g, m, p, seq, move))
<1> USE DEF Reg!AdapterDoc, Reg!AdapterMoves, Reg!AdapterJoin, Reg!AdapterReconnect,
         Reg!AdapterAction
<1>1. CASE g = "skyline-defense-lite"
  BY <1>1, SkylineResults
<1>2. CASE g = "seat-map-strategy"
  BY <1>2, SeatMapResults
<1>3. CASE g = "route-builder-duel"
  BY <1>3, RoutesResults
<1>4. CASE g = "mini-gomoku"
  BY <1>4, GomokuResults
<1>5. CASE g = "crew-coordination"
  BY <1>5, CrewResults
<1>6. CASE g = "cabin-card-clash"
  BY <1>6, CardsResults
<1>7. CASE g = "baggage-sort-showdown"
  BY <1>7, BagsResults
<1>8. CASE g = "memory-match-duel"
  BY <1>8, MemoryResults
<1>9. CASE g = "puzzle-race-grid"
  BY <1>9, GridResults
<1>10. CASE g = "signal-scramble"
  BY <1>10, SignalsResults
<1>11. CASE g = "spot-the-difference-race"
  BY <1>11, SpottingResults
<1>12. CASE g = "tap-beat-battle"
  BY <1>12, BeatsResults
<1> HIDE DEF Reg!AdapterDoc, Reg!AdapterMoves, Reg!AdapterJoin, Reg!AdapterReconnect,
          Reg!AdapterAction
<1> QED
  BY <1>1, <1>2, <1>3, <1>4, <1>5, <1>6, <1>7, <1>8, <1>9, <1>10, <1>11, <1>12
     DEF Reg!GameId, GamesOfRounds

\* In the games of rounds, what the adapter makes of a match lets its result stand.
LEMMA RegistryRounds ==
  ASSUME None \notin {"right", "wrong"}, NEW g \in GamesOfRounds, NEW m \in Reg!AdapterDoc(g),
         RoundsStand(m), NEW p \in Player
  PROVE  /\ LET n == Reg!AdapterJoin(g, m, p) IN RoundsStand(n) /\ Stands(m, n)
         /\ LET n == Reg!AdapterReconnect(g, m, p) IN RoundsStand(n) /\ Stands(m, n)
         /\ p \in Elements(m.players) => \A seq \in Nat, move \in Reg!AdapterMoves(g) :
              LET n == Reg!AdapterAction(g, m, p, seq, move)
              IN RoundsStand(n) /\ Stands(m, n)
<1> USE DEF Reg!AdapterDoc, Reg!AdapterMoves, Reg!AdapterJoin, Reg!AdapterReconnect,
         Reg!AdapterAction
<1>1. CASE g = "quiz-duel"
  BY <1>1, QuizResults
<1>2. CASE g = "word-rally"
  BY <1>2, WordsResults
<1>3. CASE g = "airline-trivia-teams"
  BY <1>3, TriviaResults
<1> HIDE DEF Reg!AdapterDoc, Reg!AdapterMoves, Reg!AdapterJoin, Reg!AdapterReconnect,
          Reg!AdapterAction
<1> QED
  BY <1>1, <1>2, <1>3 DEF GamesOfRounds

\* What is known of the documents of a game that lets results stand.
Kept(g, m) == IF g \in GamesOfRounds THEN RoundsStand(m) ELSE OnlyPlayersScore(m)

\* In whichever game, a match begins without points.
LEMMA RegistryStart ==
  ASSUME NEW g \in Reg!GameId, NEW p \in Player
  PROVE  Kept(g, Reg!AdapterCreate(g, p))
<1> USE DEF Kept, GamesOfRounds, RoundsStand, OnlyPlayersScore, Points, Reg!AdapterCreate
<1>1. CASE g = "quiz-duel"
  BY <1>1 DEF Reg!Quiz!Created, Reg!Quiz!Game!Created, Reg!Quiz!Game!AllZero
<1>2. CASE g = "word-rally"
  BY <1>2 DEF Reg!Words!Created, Reg!Words!Game!Created, Reg!Words!Game!AllZero
<1>3. CASE g = "airline-trivia-teams"
  BY <1>3 DEF Reg!Trivia!Created, Reg!Trivia!AllZero
<1>4. CASE g = "skyline-defense-lite"
  BY <1>4 DEF Reg!Skyline!Created, Reg!Skyline!AllZero
<1>5. CASE g = "seat-map-strategy"
  BY <1>5 DEF Reg!Seats!Created, Reg!Seats!AllZero
<1>6. CASE g = "route-builder-duel"
  BY <1>6 DEF Reg!Routes!Created, Reg!Routes!AllZero
<1>7. CASE g = "mini-gomoku"
  BY <1>7 DEF Reg!Gomoku!Created
<1>8. CASE g = "crew-coordination"
  BY <1>8 DEF Reg!Crew!Created, Reg!Crew!AllZero
<1>9. CASE g = "cabin-card-clash"
  BY <1>9 DEF Reg!Cards!Created, Reg!Cards!AllZero
<1>10. CASE g = "baggage-sort-showdown"
  BY <1>10 DEF Reg!Bags!Created, Reg!Bags!AllZero
<1>11. CASE g = "memory-match-duel"
  BY <1>11 DEF Reg!Memory!Created, Reg!Memory!AllZero
<1>12. CASE g = "puzzle-race-grid"
  BY <1>12 DEF Reg!Grid!Created, Reg!Grid!AllZero
<1>13. CASE g = "signal-scramble"
  BY <1>13 DEF Reg!Signals!Created, Reg!Signals!AllZero
<1>14. CASE g = "spot-the-difference-race"
  BY <1>14 DEF Reg!Spotting!Created, Reg!Spotting!AllZero
<1>15. CASE g = "tap-beat-battle"
  BY <1>15 DEF Reg!Beats!Created, Reg!Beats!AllZero
<1> HIDE DEF Kept, GamesOfRounds, RoundsStand, OnlyPlayersScore, Points, Reg!AdapterCreate
<1> QED
  BY <1>1, <1>2, <1>3, <1>4, <1>5, <1>6, <1>7, <1>8,
     <1>9, <1>10, <1>11, <1>12, <1>13, <1>14, <1>15 DEF Reg!GameId

\* The documents of every game have players.
LEMMA RegistryHasPlayers ==
  ASSUME NEW g \in Reg!GameId, NEW m \in Reg!AdapterDoc(g)
  PROVE  IsDocument(m)
<1> USE DEF IsDocument, Reg!AdapterDoc
<1>1. CASE g = "quiz-duel"
  BY <1>1 DEF Reg!Quiz!Doc, Reg!Quiz!Game!Doc
<1>2. CASE g = "word-rally"
  BY <1>2 DEF Reg!Words!Doc, Reg!Words!Game!Doc
<1>3. CASE g = "airline-trivia-teams"
  BY <1>3 DEF Reg!Trivia!Doc
<1>4. CASE g = "skyline-defense-lite"
  BY <1>4 DEF Reg!Skyline!Doc
<1>5. CASE g = "seat-map-strategy"
  BY <1>5 DEF Reg!Seats!Doc
<1>6. CASE g = "route-builder-duel"
  BY <1>6 DEF Reg!Routes!Doc
<1>7. CASE g = "mini-gomoku"
  BY <1>7 DEF Reg!Gomoku!Doc
<1>8. CASE g = "crew-coordination"
  BY <1>8 DEF Reg!Crew!Doc
<1>9. CASE g = "cabin-card-clash"
  BY <1>9 DEF Reg!Cards!Doc
<1>10. CASE g = "baggage-sort-showdown"
  BY <1>10 DEF Reg!Bags!Doc
<1>11. CASE g = "memory-match-duel"
  BY <1>11 DEF Reg!Memory!Doc
<1>12. CASE g = "puzzle-race-grid"
  BY <1>12 DEF Reg!Grid!Doc
<1>13. CASE g = "signal-scramble"
  BY <1>13 DEF Reg!Signals!Doc
<1>14. CASE g = "spot-the-difference-race"
  BY <1>14 DEF Reg!Spotting!Doc
<1>15. CASE g = "tap-beat-battle"
  BY <1>15 DEF Reg!Beats!Doc
<1> HIDE DEF IsDocument, Reg!AdapterDoc
<1> QED
  BY <1>1, <1>2, <1>3, <1>4, <1>5, <1>6, <1>7, <1>8,
     <1>9, <1>10, <1>11, <1>12, <1>13, <1>14, <1>15 DEF Reg!GameId

\* Whichever game's adapter the registry gives, results stand.
LEMMA RegistryStands ==
  ASSUME None \notin {"right", "wrong"}, NEW g \in Reg!GameId, NEW m \in Reg!AdapterDoc(g),
         IsDocument(m), Kept(g, m), NEW p \in Player
  PROVE  /\ \A n \in {Reg!AdapterJoin(g, m, p), Reg!AdapterReconnect(g, m, p)} :
              Kept(g, n) /\ Stands(m, n)
         /\ p \in Elements(m.players) => \A seq \in Nat, move \in Reg!AdapterMoves(g) :
              LET n == Reg!AdapterAction(g, m, p, seq, move)
              IN Kept(g, n) /\ Stands(m, n)
<1>1. CASE g \in GamesOfRounds
  BY <1>1, RegistryRounds DEF Kept
<1>2. CASE g \notin GamesOfRounds
  <2>1. OnlyPlayersScore(m) /\ g \in Reg!GameId \ GamesOfRounds
    BY <1>2 DEF Kept
  <2>2. ASSUME NEW n \in {Reg!AdapterJoin(g, m, p), Reg!AdapterReconnect(g, m, p)}
        PROVE  Kept(g, n) /\ Stands(m, n)
    <3>1. Same(m, n)
      BY <2>1, <2>2, RegistryScores
    <3>2. Elements(m.players) \subseteq Elements(n.players)
      BY <2>2, RegistryKeepsSeats DEF Seats
    <3> QED
      BY <1>2, <2>1, <3>1, <3>2, ScoresStand DEF Kept
  <2>3. ASSUME p \in Elements(m.players), NEW seq \in Nat, NEW move \in Reg!AdapterMoves(g)
        PROVE  LET n == Reg!AdapterAction(g, m, p, seq, move)
               IN Kept(g, n) /\ Stands(m, n)
    <3> DEFINE n == Reg!AdapterAction(g, m, p, seq, move)
    <3>1. Same(m, n) \/ Scores(m, n)
      BY <2>1, <2>3, RegistryScores
    <3>2. n.players = m.players
      BY RegistryKeepsSeats DEF SamePlayers, HasPlayers
    <3> HIDE DEF n
    <3>3. Kept(g, n) /\ Stands(m, n)
      BY <1>2, <2>1, <3>1, <3>2, ScoresStand DEF Kept
    <3> QED
      BY <3>3 DEF n
  <2> QED
    BY <2>2, <2>3
<1> QED
  BY <1>1, <1>2

\* The deadline and its end let results stand.
LEMMA DeadlineStands ==
  ASSUME NEW g \in Reg!GameId, NEW m \in Reg!AdapterDoc(g), IsDocument(m), Kept(g, m),
         NEW n \in {Reg!AdapterObserved(g, m), Reg!AdapterElapsed(g, m)}
  PROVE  Kept(g, n) /\ Stands(m, n)
<1>1. CASE g = "spot-the-difference-race"
  <2>1. g \notin GamesOfRounds /\ m \in Reg!Spotting!Doc
    BY <1>1 DEF GamesOfRounds, Reg!AdapterDoc
  <2>2. n \in {Reg!Spotting!Observed(m), Reg!Spotting!DeadlinePasses(m)}
    BY <1>1 DEF Reg!AdapterObserved, Reg!AdapterElapsed
  <2>3. OnlyPlayersScore(m)
    BY <2>1 DEF Kept
  <2>4. Same(m, n) \/ Scores(m, n)
    BY <2>1, <2>2, <2>3, SpottingDeadline
  <2>5. n.players = m.players
    BY DeadlineKeepsSeats DEF SamePlayers, HasPlayers
  <2> QED
    BY <2>1, <2>3, <2>4, <2>5, ScoresStand DEF Kept
<1>2. CASE g # "spot-the-difference-race"
  BY <1>2 DEF Reg!AdapterObserved, Reg!AdapterElapsed, Stands
<1> QED
  BY <1>1, <1>2

\* Whichever game's page is open, it offers moves only to a passenger that the room has.
LEMMA RegistryNeedsSeats ==
  ASSUME NEW g \in Reg!GameId, NEW v, NEW players, NEW p,
         Reg!PageOffers(g, v, players, p) # {}
  PROVE  players # None /\ p \in Elements(players)
<1> USE DEF Elements, Reg!PageOffers
<1>1. CASE g = "quiz-duel"
  BY <1>1 DEF Reg!Quiz!Offered, Reg!Quiz!Connected, Reg!Quiz!Seated
<1>2. CASE g = "word-rally"
  BY <1>2 DEF Reg!Words!Offered, Reg!Words!Connected, Reg!Words!Seated
<1>3. CASE g = "airline-trivia-teams"
  BY <1>3 DEF Reg!Trivia!Offered, Reg!Trivia!Connected, Reg!Trivia!Seated
<1>4. CASE g = "skyline-defense-lite"
  BY <1>4 DEF Reg!Skyline!Offered, Reg!Skyline!OnTurn, Reg!Skyline!Connected, Reg!Skyline!Seated
<1>5. CASE g = "seat-map-strategy"
  BY <1>5 DEF Reg!Seats!Offered, Reg!Seats!OnTurn, Reg!Seats!Connected, Reg!Seats!Seated
<1>6. CASE g = "route-builder-duel"
  BY <1>6 DEF Reg!Routes!Offered, Reg!Routes!OnTurn, Reg!Routes!Connected, Reg!Routes!Seated
<1>7. CASE g = "mini-gomoku"
  BY <1>7 DEF Reg!Gomoku!Offered, Reg!Gomoku!OnTurn, Reg!Gomoku!Connected, Reg!Gomoku!Seated
<1>8. CASE g = "crew-coordination"
  BY <1>8 DEF Reg!Crew!Offered, Reg!Crew!OnTurn, Reg!Crew!Connected, Reg!Crew!Seated
<1>9. CASE g = "cabin-card-clash"
  BY <1>9 DEF Reg!Cards!Offered, Reg!Cards!OnTurn, Reg!Cards!Connected, Reg!Cards!Seated
<1>10. CASE g = "baggage-sort-showdown"
  BY <1>10 DEF Reg!Bags!Offered, Reg!Bags!Connected, Reg!Bags!Seated
<1>11. CASE g = "memory-match-duel"
  BY <1>11 DEF Reg!Memory!Offered, Reg!Memory!Connected, Reg!Memory!Seated
<1>12. CASE g = "puzzle-race-grid"
  BY <1>12 DEF Reg!Grid!Offered, Reg!Grid!Connected, Reg!Grid!Seated
<1>13. CASE g = "signal-scramble"
  BY <1>13 DEF Reg!Signals!Offered, Reg!Signals!Connected, Reg!Signals!Seated
<1>14. CASE g = "spot-the-difference-race"
  BY <1>14 DEF Reg!Spotting!Offered, Reg!Spotting!Connected, Reg!Spotting!Seated
<1>15. CASE g = "tap-beat-battle"
  BY <1>15 DEF Reg!Beats!Offered, Reg!Beats!Connected, Reg!Beats!Seated
<1> HIDE DEF Elements, Reg!PageOffers
<1> QED
  BY <1>1, <1>2, <1>3, <1>4, <1>5, <1>6, <1>7, <1>8,
     <1>9, <1>10, <1>11, <1>12, <1>13, <1>14, <1>15 DEF Reg!GameId

\* The documents of each game that let results stand.
KeptDocuments == [g \in Reg!GameId |-> {m \in Documents(g) : Kept(g, m)}]

\* The registry's adapters let results stand.
LEMMA RegistryLetsStand ==
  ASSUME None \notin {"right", "wrong"}, RegistryIsUsed, PagesAreUsed, BoardsFit
  PROVE  AdaptersStand(KeptDocuments) /\ PagesNeedSeats
<1>1. ASSUME NEW s \in Setups, NEW v, NEW players, NEW p, OfferedMoves(s.game, v, players, p) # {}
      PROVE  players # None /\ p \in Elements(players)
  <2>1. s.game \in Reg!GameId
    BY DEF RegistryIsUsed
  <2>2. Reg!PageOffers(s.game, v, players, p) # {}
    BY <1>1, <2>1 DEF PagesAreUsed
  <2> QED
    BY <2>1, <2>2, RegistryNeedsSeats
<1>2. ASSUME NEW s \in Setups
      PROVE  AdapterStands(KeptDocuments, s.game)
  <2> DEFINE g == s.game
  <2>1. g \in Reg!GameId /\ BoardFits(g)
    BY DEF RegistryIsUsed, BoardsFit
  <2>2. MatchDoc(g) = Reg!AdapterDoc(g) /\ LegalMoves(g) = Reg!AdapterMoves(g)
    BY <2>1 DEF PagesAreUsed
  <2>3. \A p \in Player :
          /\ CreateMatch(g, p) = Reg!AdapterCreate(g, p)
          /\ \A m : /\ JoinGame(g, m, p) = Reg!AdapterJoin(g, m, p)
                    /\ RejoinGame(g, m, p) = Reg!AdapterReconnect(g, m, p)
                    /\ \A seq, move : HandlePlayerAction(g, m, p, seq, move)
                                         = Reg!AdapterAction(g, m, p, seq, move)
    BY <2>1 DEF RegistryIsUsed
  <2>4. \A m : /\ StateObserved(g, m) = Reg!AdapterObserved(g, m)
               /\ Elapsed(g, m) = Reg!AdapterElapsed(g, m)
    BY <2>1 DEF RegistryIsUsed
  <2> HIDE DEF g
  <2>5. KeptDocuments[g] = {m \in Documents(g) : Kept(g, m)}
    BY <2>1 DEF KeptDocuments
  <2>6. \A m \in Documents(g) : m \in Reg!AdapterDoc(g) /\ IsDocument(m)
    BY <2>1, <2>2, RegistryHasPlayers DEF Documents
  <2>7. ASSUME NEW m \in KeptDocuments[g]
        PROVE  /\ StateObserved(g, m) \in KeptDocuments[g] /\ Stands(m, StateObserved(g, m))
               /\ Elapsed(g, m) \in KeptDocuments[g] /\ Stands(m, Elapsed(g, m))
    BY <2>1, <2>2, <2>4, <2>5, <2>6, DeadlineKeepsDocuments, DeadlineStands
  <2>8. ASSUME NEW p \in Player
        PROVE  CreateMatch(g, p) \in KeptDocuments[g]
    BY <2>1, <2>2, <2>3, <2>5, RegistryKeepsDocuments, RegistryStart
  <2>9. ASSUME NEW m \in KeptDocuments[g], NEW p \in Player
        PROVE  /\ JoinGame(g, m, p) \in KeptDocuments[g] /\ Stands(m, JoinGame(g, m, p))
               /\ RejoinGame(g, m, p) \in KeptDocuments[g] /\ Stands(m, RejoinGame(g, m, p))
    BY <2>1, <2>2, <2>3, <2>5, <2>6, RegistryKeepsDocuments, RegistryStands
  <2>10. ASSUME NEW m \in KeptDocuments[g], NEW p \in Player, p \in Elements(m.players),
                NEW seq \in Nat, NEW move \in LegalMoves(g)
         PROVE  /\ HandlePlayerAction(g, m, p, seq, move) \in KeptDocuments[g]
                /\ Stands(m, HandlePlayerAction(g, m, p, seq, move))
    <3>1. m \in Documents(g) /\ Kept(g, m) /\ move \in Reg!AdapterMoves(g)
      BY <2>2, <2>5
    <3>2. Reg!AdapterAction(g, m, p, seq, move) \in Documents(g)
      BY <2>1, <2>2, <3>1, RegistryKeepsDocuments
    <3>3. LET n == Reg!AdapterAction(g, m, p, seq, move) IN Kept(g, n) /\ Stands(m, n)
      BY <2>1, <2>6, <2>10, <3>1, RegistryStands
    <3> QED
      BY <2>3, <2>5, <3>2, <3>3
  <2>11. AdapterStands(KeptDocuments, g)
    BY <2>7, <2>8, <2>9, <2>10 DEF AdapterStands
  <2> QED
    BY <2>11 DEF g
<1>3. AdaptersStand(KeptDocuments)
  BY <1>2 DEF AdaptersStand
<1>4. PagesNeedSeats
  BY <1>1 DEF PagesNeedSeats
<1> QED
  BY <1>3, <1>4

\* Whichever of the platform's 15 multiplayer games is played: with the memory driver a
\* completed match stays completed, and whoever had points in it has exactly those, whatever
\* joins, reconnections and messages come after it.  (null is not an answer.)
THEOREM ResultsOfTheGamesStand ==
  ASSUME None \notin {"right", "wrong"}, RegistryIsUsed, PagesAreUsed, BoardsFit
  PROVE  Spec => ResultStands
BY RegistryLetsStand, RegistryIsFit, RegistryIsTyped, ResultsStand

-----------------------------------------------------------------------------
(* Reports.  A page reports when it gets the state of a match that is over *)
(* and names the report by what it got: so the platform credits a match    *)
(* once when nothing the name is made of changes afterwards.               *)

\* The id of the report the page of p makes of the match m.
ReportId(g, m, p) == ReportOf(g, StateView(g, m), p).report_id

\* When m is over so is n, and it is reported under the same ids.
SameReports(g, m, n) ==
  m.isCompleted => n.isCompleted /\ \A q \in Player : ReportId(g, n, q) = ReportId(g, m, q)

\* A match ends by a move alone, and a page that knows it is over offers no move.
EndsByMove(Good, g) ==
  /\ \A v, players, p : v = None \/ v.isCompleted => OfferedMoves(g, v, players, p) = {}
  /\ \A m \in Good[g] :
       /\ StateObserved(g, m) = m /\ Elapsed(g, m) = m
       /\ \A p \in Player : /\ JoinGame(g, m, p).isCompleted = m.isCompleted
                            /\ RejoinGame(g, m, p).isCompleted = m.isCompleted

\* The documents Good of the game g are reported under ids that stay.
AdapterReports(Good, g) ==
  /\ \A p \in Player : ~CreateMatch(g, p).isCompleted
  /\ \A m \in Good[g] :
       /\ StateView(g, m).isCompleted = m.isCompleted
       /\ SameReports(g, m, StateObserved(g, m)) /\ SameReports(g, m, Elapsed(g, m))
       /\ \A p \in Player : /\ SameReports(g, m, JoinGame(g, m, p))
                            /\ SameReports(g, m, RejoinGame(g, m, p))
  /\ \/ EndsByMove(Good, g)
     \/ \A m \in Good[g], p \in Player : \A seq, move :
          SameReports(g, m, HandlePlayerAction(g, m, p, seq, move))

AdaptersReport(Good) ==
  \A s \in Setups : s.game # "memory-match-duel" => AdapterReports(Good, s.game)

\* The tasks of a message: after a move the room gets the state, and that is all.
Spoken(t) ==
  \A i \in DOMAIN t : t[i].kind = "play" => i + 1 = Len(t) /\ t[i + 1] = Task("send", None)

Silent(t) == \A i \in DOMAIN t : t[i].kind # "play"

Told(t) == \E i \in DOMAIN t : t[i] = Task("send", None)

\* The rest of what is said.
LEMMA SpokenRest ==
  ASSUME NEW t, Listed(t), t # <<>>
  PROVE  /\ Spoken(t) => Spoken(Tail(t))
         /\ Silent(t) => Silent(Tail(t)) /\ Head(t).kind # "play"
         /\ Spoken(t) /\ Head(t).kind = "play" => Silent(Tail(t)) /\ Told(Tail(t))
         /\ Told(t) /\ Head(t) # Task("send", None) => Told(Tail(t))
<1> DEFINE u == Tail(t)
<1>1. /\ Listed(u) /\ DOMAIN u = 1..(Len(t) - 1) /\ Head(t) = t[1] /\ 1 \in DOMAIN t
      /\ \A i \in DOMAIN u : i + 1 \in DOMAIN t /\ u[i] = t[i + 1]
  BY RestOfList
<1>2. Len(t) \in Nat /\ DOMAIN t = 1..Len(t) /\ Len(u) = Len(t) - 1
  <2>1. Len(t) \in Nat /\ DOMAIN t = 1..Len(t)
    BY ListFacts
  <2>2. Len(u) = Len(t) - 1
    BY HeadTailProperties DEF Listed
  <2> QED
    BY <2>1, <2>2
<1> HIDE DEF u
<1>3. Spoken(t) => Spoken(u)
  BY <1>1, <1>2 DEF Spoken
<1>4. Silent(t) => Silent(u) /\ Head(t).kind # "play"
  BY <1>1 DEF Silent
<1>5. ASSUME Spoken(t), Head(t).kind = "play" PROVE Silent(u) /\ Told(u)
  <2>1. Len(t) = 2 /\ t[2] = Task("send", None)
    BY <1>1, <1>2, <1>5 DEF Spoken
  <2>2. DOMAIN u = {1} /\ u[1] = Task("send", None)
    BY <1>1, <2>1
  <2> QED
    BY <2>2, TaskFacts DEF Silent, Told
<1>6. ASSUME Told(t), Head(t) # Task("send", None) PROVE Told(u)
  <2>1. PICK i \in DOMAIN t : t[i] = Task("send", None)
    BY <1>6 DEF Told
  <2>2. i - 1 \in DOMAIN u /\ u[i - 1] = t[i]
    BY <1>1, <1>2, <1>6, <2>1
  <2> QED
    BY <2>1, <2>2 DEF Told
<1> QED
  BY <1>3, <1>4, <1>5, <1>6 DEF u

\* Something said after tasks that are silent.
LEMMA SpokenLists ==
  ASSUME NEW t, Listed(t), Silent(t), NEW u, Listed(u)
  PROVE  (Spoken(u) => Spoken(t \o u)) /\ (Silent(u) => Silent(t \o u))
<1> DEFINE v == t \o u
<1>1. /\ Listed(v) /\ DOMAIN v = 1..(Len(t) + Len(u))
      /\ \A i \in DOMAIN v : \/ i \in DOMAIN t /\ v[i] = t[i]
                             \/ i - Len(t) \in DOMAIN u /\ v[i] = u[i - Len(t)]
  BY TwoLists
<1>2. \A i \in DOMAIN u : Len(t) + i \in DOMAIN v /\ v[Len(t) + i] = u[i]
  BY TwoLists
<1>3. /\ Len(t) \in Nat /\ Len(u) \in Nat /\ DOMAIN u = 1..Len(u)
      /\ Len(v) \in Nat /\ 1..Len(v) = 1..(Len(t) + Len(u))
  BY <1>1, ListFacts
<1> HIDE DEF v
<1>4. Len(v) = Len(t) + Len(u)
  BY <1>3
<1>5. Silent(u) => Silent(v)
  BY <1>1 DEF Silent
<1>6. ASSUME Spoken(u), NEW i \in DOMAIN v, v[i].kind = "play"
      PROVE  i + 1 = Len(v) /\ v[i + 1] = Task("send", None)
  <2>1. PICK j \in DOMAIN u : j = i - Len(t) /\ v[i] = u[j]
    BY <1>1, <1>6 DEF Silent
  <2>2. j + 1 = Len(u) /\ u[j + 1] = Task("send", None)
    BY <1>6, <2>1 DEF Spoken
  <2>3. j \in Nat /\ i = Len(t) + j
    BY <1>1, <1>3, <2>1
  <2>4. j + 1 \in DOMAIN u
    BY <1>3, <2>2, <2>3
  <2>5. v[Len(t) + (j + 1)] = u[j + 1] /\ Len(t) + (j + 1) = i + 1
    BY <1>2, <1>3, <2>3, <2>4
  <2> QED
    BY <1>3, <1>4, <2>2, <2>3, <2>5
<1> QED
  BY <1>5, <1>6 DEF Spoken, v

\* One task, and none.
LEMMA SilentTask ==
  /\ \A x : x.kind # "play" => Silent(<<x>>) /\ Listed(<<x>>)
  /\ Silent(<<>>) /\ ~Told(<<>>)
  /\ \A t : Silent(t) => Spoken(t)
BY OneTask, NoTask DEF Silent, Told, Spoken

\* The lists the actions begin are silent, but for a move, after which the room is told.
LEMMA SpokenBeginnings ==
  ASSUME setup.clients = "pages"
  PROVE  /\ \A p : Silent(Create(p) \o Mark) /\ Silent(Join(p) \o Mark)
         /\ \A p : Silent(Rejoin(p) \o Mark) /\ Silent(Ensure \o SendTo(p))
         /\ Silent(Finish \o Unmark)
         /\ \A p, seq, move : Spoken(Ensure \o Play(p, seq, move) \o SendTo(None))
         /\ room \in RoomDoc => Silent(Seating) /\ Listed(Seating)
<1>1. /\ \A p : /\ Listed(Create(p)) /\ Silent(Create(p)) /\ Listed(Join(p)) /\ Silent(Join(p))
                /\ Listed(Rejoin(p)) /\ Silent(Rejoin(p))
      /\ Listed(Mark) /\ Silent(Mark) /\ Listed(Unmark) /\ Silent(Unmark)
      /\ Listed(Finish) /\ Silent(Finish)
  BY SilentTask, TaskFacts DEF Create, Join, Rejoin, Mark, Unmark, Finish
<1>2. /\ Listed(Ensure) /\ Silent(Ensure)
      /\ \A p : Listed(SendTo(p)) /\ Silent(SendTo(p)) /\ SendTo(p) = <<Task("send", p)>>
  BY SilentTask, TaskFacts, NoTask DEF Ensure, SendTo
<1>3. /\ \A p : Silent(Create(p) \o Mark) /\ Silent(Join(p) \o Mark)
      /\ \A p : Silent(Rejoin(p) \o Mark) /\ Silent(Ensure \o SendTo(p))
      /\ Silent(Finish \o Unmark)
  BY <1>1, <1>2, SpokenLists
<1>4. ASSUME NEW p, NEW seq, NEW move PROVE Spoken(Ensure \o Play(p, seq, move) \o SendTo(None))
  <2> DEFINE t == Ensure
             y == Play(p, seq, move)
             u == SendTo(None)
             v == t \o y
             w == v \o u
  <2>1. Listed(y) /\ Len(y) = 1 /\ DOMAIN y = {1}
    BY OneTask DEF Play
  <2>2. /\ Listed(v) /\ DOMAIN v = 1..(Len(t) + Len(y))
        /\ \A i \in DOMAIN v : \/ i \in DOMAIN t /\ v[i] = t[i]
                               \/ i - Len(t) \in DOMAIN y /\ v[i] = y[i - Len(t)]
    <3> HIDE DEF t, y
    <3>1. Listed(t) /\ Listed(y)
      BY <1>2, <2>1 DEF t
    <3> QED
      BY <3>1, TwoLists
  <2>3. Len(t) \in Nat
    BY <1>2, ListFacts
  <2>4. Listed(u) /\ Silent(u) /\ Len(u) = 1 /\ DOMAIN u = {1} /\ u[1] = Task("send", None)
    BY <1>2, OneTask
  <2> HIDE DEF t, y, u
  <2>5. Len(v) \in Nat /\ 1..Len(v) = 1..(Len(t) + 1)
    BY <2>1, <2>2, ListFacts
  <2> HIDE DEF v
  <2>6. Len(v) = Len(t) + 1
    BY <2>3, <2>5
  <2>7. /\ Listed(w) /\ DOMAIN w = 1..(Len(v) + Len(u))
        /\ \A i \in DOMAIN w : \/ i \in DOMAIN v /\ w[i] = v[i]
                               \/ i - Len(v) \in DOMAIN u /\ w[i] = u[i - Len(v)]
    BY <2>2, <2>4, TwoLists
  <2>8. w[Len(v) + 1] = Task("send", None)
    BY <2>2, <2>4, TwoLists
  <2> HIDE DEF w
  <2>9. Len(w) = Len(v) + 1
    <3>1. Len(w) \in Nat /\ 1..Len(w) = 1..(Len(v) + 1)
      BY <2>4, <2>7, ListFacts
    <3> QED
      BY <2>3, <2>6, <3>1
  <2>10. ASSUME NEW i \in DOMAIN w, w[i].kind = "play" PROVE i = Len(v)
    <3>1. i \in DOMAIN v /\ w[i] = v[i]
      BY <2>4, <2>7, <2>10 DEF Silent
    <3>2. ~(i \in DOMAIN t /\ v[i] = t[i])
      BY <1>2, <2>10, <3>1 DEF Silent, t
    <3>3. i - Len(t) = 1
      BY <2>1, <2>2, <3>1, <3>2
    <3> QED
      BY <2>1, <2>2, <2>3, <2>6, <3>1, <3>3
  <2>11. Spoken(w)
    BY <2>8, <2>9, <2>10 DEF Spoken
  <2> QED
    BY <2>11 DEF w, v, t, y, u
<1>5. ASSUME room \in RoomDoc PROVE Silent(Seating) /\ Listed(Seating)
  <2> DEFINE L == [i \in DOMAIN room.players |->
                     Task(IF room.players[i] = room.host THEN "skip" ELSE "join",
                          room.players[i])]
             C == Create(room.host)
             a == C \o L
  <2>1. Len(room.players) \in Nat /\ DOMAIN room.players = 1..Len(room.players)
    BY <1>5, LenProperties DEF RoomDoc
  <2>2. Listed(L)
    <3> DEFINE S == {L[i] : i \in DOMAIN L}
    <3>1. L \in [1..Len(room.players) -> S]
      BY <2>1
    <3>2. L \in Seq(S)
      BY <2>1, <3>1, SeqDef
    <3> QED
      BY <3>2, ListOf
  <2>3. Silent(L)
    BY TaskFacts DEF Silent
  <2>4. Seating = a \o Mark
    BY DEF Seating
  <2> HIDE DEF L
  <2>5. Listed(C) /\ Silent(C)
    BY <1>1
  <2> HIDE DEF C
  <2>6. Listed(a) /\ Silent(a)
    BY <2>2, <2>3, <2>5, TwoLists, SpokenLists
  <2> HIDE DEF a
  <2>7. Listed(a \o Mark) /\ Silent(a \o Mark)
    BY <1>1, <2>6, TwoLists, SpokenLists
  <2> QED
    BY <2>4, <2>7
<1> QED
  BY <1>3, <1>4, <1>5

\* The match that is stored is over.
IsOver == match # None /\ match.isCompleted

\* No page that is open has the state of a match that goes on.
PagesKnow ==
  \A p \in Player : pages[p].status = "open" => pages[p].view = None \/ pages[p].view.isCompleted

\* When the match is over no move is under way, and the pages know it or will be told.
ShownInv ==
  /\ Spoken(Front)
  /\ IsOver => Silent(Front) /\ (Told(Front) \/ PagesKnow)

\* p has reported nothing, or once: under the id it would report by again.
ReportedOnce(p) ==
  \/ reports[p] = {}
  \/ match = None /\ \E id : reports[p] = {id}
  \/ IsOver /\ reports[p] = {ReportId(game, match, p)}

\* Of clients that are not pages nothing is followed.
OnceInv(Good) ==
  /\ setup.clients = "any" => \A p \in Player : pages[p].status # "open" /\ reports[p] = {}
  /\ setup.clients = "pages" /\ game # "memory-match-duel" =>
       /\ EndsByMove(Good, game) => ShownInv
       /\ \A p \in Player : ReportedOnce(p)

\* A handler begins, when none is under way.
LEMMA ShownBegins ==
  ASSUME SeatsInv, InMemory, NEW t, Start(t), Spoken(t), IsOver' => Silent(t) /\ PagesKnow'
  PROVE  ShownInv'
<1>1. Free = Slot /\ DOMAIN slots = Slot /\ \A s \in Slot : slots[s] = Idle
  BY AllQuiet DEF Start, Taken, Quiet, SeatsInv, Handlers
<1>2. slots' = IF t = <<>> THEN slots ELSE [slots EXCEPT ![1] = [todo |-> t, held |-> None]]
  BY <1>1, AllQuiet DEF Start
<1>3. Front' = t
  BY <1>1, <1>2, TwoSlots, EmptySlot DEF Front
<1> QED
  BY <1>3 DEF ShownInv

\* Two handlers begin, when a page comes back.
LEMMA ShownBeginsTwice ==
  ASSUME SeatsInv, InMemory, NEW t, NEW u, StartBoth(t, u), Silent(t), Silent(u),
         IsOver' => PagesKnow'
  PROVE  ShownInv'
<1>1. /\ slots' = [slots EXCEPT ![1] = [todo |-> t, held |-> None],
                                ![2] = [todo |-> u, held |-> None]]
      /\ DOMAIN slots = Slot
  BY DEF StartBoth, SeatsInv, Handlers
<1>2. Front' = t \/ Front' = u
  BY <1>1, TwoSlots DEF Front
<1> QED
  BY <1>2, SilentTask DEF ShownInv

\* A step of a handler, that leaves it the tasks t.
LEMMA ShownGoesOn ==
  ASSUME SeatsInv, InMemory, NEW s \in Slot, Running(s), NEW t, Goes(s, t, None), Spoken(t),
         IsOver' => Silent(t) /\ (Told(t) \/ PagesKnow')
  PROVE  ShownInv'
<1>1. /\ slots' = [slots EXCEPT ![s] = [todo |-> t, held |-> None]]
      /\ DOMAIN slots = Slot
  BY DEF Goes, SeatsInv, Handlers
<1>2. /\ slots'[s] = [todo |-> t, held |-> None]
      /\ \A r \in Slot : r # s => slots'[r] = slots[r]
  BY <1>1
<1>3. s = 1 \/ s = 2
  BY TwoSlots DEF SeatsInv, Handlers, Running, Slot
<1>4. CASE s = 1
  <2>1. slots[1] # Idle /\ Waiting(slots[2].todo) /\ slots'[2] = slots[2]
    BY <1>2, <1>4, TwoSlots DEF Running, SeatsInv, Handlers
  <2>2. Silent(slots[2].todo)
    BY <2>1 DEF Waiting, Silent
  <2>3. Front' = IF t = <<>> THEN slots[2].todo ELSE t
    BY <1>2, <1>4, <2>1, EmptySlot DEF Front
  <2>4. CASE t = <<>>
    BY <2>2, <2>3, <2>4, SilentTask DEF ShownInv
  <2>5. CASE t # <<>>
    BY <2>3, <2>5 DEF ShownInv
  <2> QED
    BY <2>4, <2>5
<1>5. CASE s = 2
  <2>1. slots'[1] = Idle
    BY <1>2, <1>5, TwoSlots DEF Running
  <2>2. Front' = t
    BY <1>2, <1>5, <2>1, EmptySlot DEF Front
  <2> QED
    BY <2>2 DEF ShownInv
<1> QED
  BY <1>3, <1>4, <1>5

\* What comes from outside a game that ends by a move.
LEMMA ShownOutside ==
  ASSUME NEW Good, EndsByMove(Good, game), IInv, TypesInv, InMemory,
         setup.clients = "pages", ShownInv, NEW p \in Player
  PROVE  /\ CreateRoom(p) \/ JoinRoom(p) \/ LeaveRoom(p) \/ DeleteRoom => ShownInv'
         /\ ReconnectRoom(p) \/ OpenPage(p) \/ ClosePage(p) \/ PlayPage(p) => ShownInv'
<1>0. SeatsInv /\ DOMAIN pages = Player
  BY DEF IInv, TypesInv
<1>1. Free = Slot /\ IsOver => PagesKnow
  BY <1>0, AllQuiet, SilentTask DEF ShownInv
<1>2. ASSUME NEW t, Start(t), Silent(t), match' = match, IsOver /\ PagesKnow => PagesKnow'
      PROVE  ShownInv'
  <2>1. Free = Slot
    BY <1>2 DEF Start, Taken, Quiet
  <2> QED
    BY <1>0, <1>1, <1>2, <2>1, ShownBegins, SilentTask DEF IsOver
<1>3. ASSUME CreateRoom(p) \/ JoinRoom(p) \/ LeaveRoom(p) \/ DeleteRoom \/ ReconnectRoom(p)
      PROVE  ShownInv'
  <2>1. match' = match /\ pages' = pages
    BY <1>3 DEF CreateRoom, JoinRoom, LeaveRoom, DeleteRoom, ReconnectRoom
  <2>2. \E t : Silent(t) /\ Start(t)
    BY <1>3, SpokenBeginnings, SilentTask
       DEF CreateRoom, JoinRoom, LeaveRoom, DeleteRoom, ReconnectRoom
  <2>3. PagesKnow => PagesKnow'
    BY <2>1 DEF PagesKnow
  <2> QED
    BY <1>2, <2>1, <2>2, <2>3
<1>4. ASSUME OpenPage(p) PROVE ShownInv'
  <2>1. match' = match /\ pages' = [pages EXCEPT ![p] = Page("open", 0, None)]
    BY <1>4 DEF OpenPage
  <2>2. PagesKnow => PagesKnow'
    BY <1>0, <2>1 DEF PagesKnow, Page
  <2>3. ASSUME Start(Ensure \o SendTo(p)) PROVE ShownInv'
    BY <1>2, <2>1, <2>2, <2>3, SpokenBeginnings
  <2>4. ASSUME StartBoth(Rejoin(p) \o Mark, Ensure \o SendTo(p)) PROVE ShownInv'
    <3>1. IsOver' => PagesKnow'
      BY <1>1, <2>1, <2>2, <2>4 DEF StartBoth, IsOver
    <3> QED
      BY <1>0, <2>4, <3>1, SpokenBeginnings, ShownBeginsTwice
  <2> QED
    BY <1>4, <2>3, <2>4 DEF OpenPage
<1>5. ASSUME ClosePage(p) PROVE ShownInv'
  <2>1. match' = match /\ slots' = slots /\ pages' = [pages EXCEPT ![p] = Page("away", 0, None)]
    BY <1>5 DEF ClosePage
  <2>2. PagesKnow => PagesKnow'
    BY <1>0, <2>1 DEF PagesKnow, Page
  <2>3. Front' = Front /\ (IsOver' <=> IsOver)
    BY <2>1 DEF Front, IsOver
  <2> QED
    BY <2>2, <2>3 DEF ShownInv
<1>6. ASSUME PlayPage(p) PROVE ShownInv'
  <2>1. match' = match
    BY <1>6 DEF PlayPage
  <2>2. PICK move \in OfferedMoves(game, pages[p].view, SeatsShown, p) :
          GameEvent(p, pages[p].seq + 1, move)
    BY <1>6 DEF PlayPage
  <2>3. Start(Ensure \o Play(p, pages[p].seq + 1, move) \o SendTo(None)) /\ Free = Slot
    BY <2>2 DEF GameEvent, Start, Taken, Quiet
  <2>4. ~IsOver
    <3>1. ~(pages[p].view = None \/ pages[p].view.isCompleted)
      BY <2>2 DEF EndsByMove
    <3>2. pages[p].status = "open"
      BY <1>6 DEF PlayPage
    <3> QED
      BY <1>1, <2>3, <3>1, <3>2 DEF PagesKnow
  <2>5. ~IsOver' /\ Spoken(Ensure \o Play(p, pages[p].seq + 1, move) \o SendTo(None))
    BY <2>1, <2>4, SpokenBeginnings DEF IsOver
  <2> QED
    BY <1>0, <2>3, <2>5, ShownBegins
<1> QED
  BY <1>3, <1>4, <1>5, <1>6

\* What handlers do in a game that ends by a move.
LEMMA ShownTasks ==
  ASSUME NEW Good, EndsByMove(Good, game), AdapterReports(Good, game), IInv, TypesInv, InMemory,
         setup.clients = "pages", OrderInv, match # None => match \in Good[game], ShownInv,
         NEW s \in Slot
  PROVE  /\ CreateTask(s) \/ FinishTask(s) \/ KeyTask(s) => ShownInv'
         /\ SeedTask(s) \/ WriteMatch(s) => ShownInv'
<1> DEFINE task == Head(Front)
           rest == Tail(Front)
<1>0. SeatsInv /\ DOMAIN pages = Player
  BY DEF IInv, TypesInv
<1>1. ASSUME Running(s)
      PROVE  /\ slots[s].todo = Front /\ Current(s) = task
             /\ Sowing(task) => match = None
             /\ Listed(rest) /\ Spoken(rest)
             /\ IsOver => Silent(rest) /\ task.kind # "play"
             /\ task.kind = "play" => Silent(rest) /\ Told(rest)
             /\ task # Task("send", None) => (IsOver => Told(rest) \/ PagesKnow)
  <2>1. /\ slots[s].todo = Front /\ Current(s) = task /\ Front # <<>>
        /\ Orderly(Members, match, Front)
    BY <1>0, <1>1, OrderInHand
  <2>2. Listed(Front)
    BY <2>1 DEF Orderly
  <2>3. Sowing(task) => match = None
    BY <2>1, OrderlyRest
  <2>4. Listed(rest)
    BY <2>1, <2>2, RestOfList
  <2> QED
    BY <2>1, <2>2, <2>3, <2>4, SpokenRest DEF ShownInv
<1> HIDE DEF task, rest
<1>2. ASSUME CreateTask(s) PROVE ShownInv'
  <2>1. /\ Running(s) /\ Goes(s, rest, None) /\ match' = CreateMatch(game, Current(s).who)
        /\ Current(s).kind = "create"
    BY <1>1, <1>2 DEF CreateTask, Done, rest
  <2>2. Current(s).who \in Player
    BY <1>0, <2>1, TaskInHand, FirstTask
  <2>3. ~IsOver'
    BY <2>1, <2>2 DEF AdapterReports, IsOver
  <2> QED
    BY <1>0, <1>1, <2>1, <2>3, ShownGoesOn
<1>3. ASSUME FinishTask(s) PROVE ShownInv'
  <2>1. Running(s) /\ Goes(s, rest, None) /\ ~IsOver'
    BY <1>1, <1>3 DEF FinishTask, Done, rest, IsOver
  <2> QED
    BY <1>0, <1>1, <2>1, ShownGoesOn
<1>4. ASSUME KeyTask(s) PROVE ShownInv'
  <2>1. Running(s) /\ Goes(s, rest, None) /\ match' = match /\ pages' = pages
    BY <1>1, <1>4 DEF KeyTask, Done, rest
  <2>2. task.kind # "send"
    BY <1>1, <1>4 DEF KeyTask
  <2>3. IsOver' => Silent(rest) /\ (Told(rest) \/ PagesKnow')
    BY <1>1, <2>1, <2>2, TaskFacts DEF IsOver, PagesKnow
  <2> QED
    BY <1>0, <1>1, <2>1, <2>3, ShownGoesOn
<1>5. ASSUME SeedTask(s) PROVE ShownInv'
  <2>1. Running(s) /\ match = None /\ match' = None
    BY <1>1, <1>5 DEF SeedTask, Sowing
  <2>2. ~IsOver'
    BY <2>1 DEF IsOver
  <2>3. CASE room = None
    BY <1>0, <1>5, <2>1, <2>2, <2>3, SilentTask, ShownGoesOn DEF SeedTask, Throws
  <2>4. CASE room # None
    <3>1. Goes(s, Seating \o rest, None) /\ Spoken(Seating \o rest)
      BY <1>0, <1>1, <1>5, <2>1, <2>4, SpokenBeginnings, SpokenLists DEF SeedTask, rest, SeatsInv
    <3> QED
      BY <1>0, <2>1, <2>2, <3>1, ShownGoesOn
  <2> QED
    BY <2>3, <2>4
<1>6. ASSUME WriteMatch(s) PROVE ShownInv'
  <2>1. Running(s) /\ Reads(task)
    BY <1>1, <1>6 DEF WriteMatch
  <2>2. CASE match = None
    <3>1. Goes(s, <<>>, None) /\ ~IsOver'
      BY <1>6, <2>2 DEF WriteMatch, Throws, IsOver
    <3> QED
      BY <1>0, <2>1, <3>1, SilentTask, ShownGoesOn
  <2>3. CASE match # None
    <3>1. Goes(s, rest, None) /\ match' = Applied(task, match)
      BY <1>1, <1>6, <2>1, <2>3 DEF WriteMatch, Done, rest
    <3>2. /\ task.kind # "send" => pages' = pages
          /\ task.kind = "send" => Delivered(task, match')
      BY <1>1, <1>6, <2>1, <2>3 DEF WriteMatch
    <3>3. TaskTyped(task)
      BY <1>0, <1>1, <2>1, OrderInHand, TypedInHand DEF TypesInv
    <3>4. CASE task.kind \in {"join", "reconnect"}
      <4>1. task.who \in Player /\ match \in Good[game]
        BY <2>3, <3>3, <3>4 DEF TaskTyped
      <4>2. match'.isCompleted = match.isCompleted
        BY <3>1, <3>4, <4>1 DEF Applied, EndsByMove
      <4>3. IsOver' => IsOver
        BY <2>3, <4>2 DEF IsOver
      <4>4. IsOver' => Silent(rest) /\ (Told(rest) \/ PagesKnow')
        BY <1>1, <2>1, <3>2, <3>4, <4>3, TaskFacts DEF PagesKnow
      <4> QED
        BY <1>0, <1>1, <2>1, <3>1, <4>4, ShownGoesOn
    <3>5. CASE task.kind = "play"
      BY <1>0, <1>1, <2>1, <3>1, <3>5, ShownGoesOn
    <3>6. CASE task.kind = "send"
      <4>1. match' = match /\ (IsOver' <=> IsOver)
        BY <2>3, <3>1, <3>6 DEF Applied, EndsByMove, IsOver
      <4>2. ASSUME IsOver PROVE Told(rest) \/ PagesKnow'
        <5>1. StateView(game, match).isCompleted
          BY <2>3, <4>2 DEF AdapterReports, IsOver
        <5>2. pages' = [q \in Player |-> IF Receives(task, q)
                                         THEN [pages[q] EXCEPT !.view = StateView(game, match)]
                                         ELSE pages[q]]
          BY <3>2, <3>6, <4>1 DEF Delivered
        <5>3. \A q \in Player : Receives(task, q) => pages'[q].view = StateView(game, match)
          BY <5>2 DEF TypesInv, PageTyped, Page
        <5>4. \A q \in Player : pages'[q].status = pages[q].status
          BY <5>2 DEF TypesInv, PageTyped, Page
        <5>5. \A q \in Player : ~Receives(task, q) => pages'[q] = pages[q]
          BY <5>2
        <5>6. CASE task = Task("send", None)
          <6>1. \A q \in Player : pages[q].status = "open" => Receives(task, q)
            BY <5>6, TaskFacts DEF Receives
          <6> QED
            BY <5>1, <5>3, <5>4, <6>1 DEF PagesKnow
        <5>7. CASE task # Task("send", None)
          BY <1>1, <2>1, <4>2, <5>1, <5>3, <5>4, <5>5, <5>7 DEF PagesKnow
        <5> QED
          BY <5>6, <5>7
      <4> QED
        BY <1>0, <1>1, <2>1, <3>1, <4>1, <4>2, ShownGoesOn
    <3> QED
      BY <2>1, <3>4, <3>5, <3>6 DEF Reads
  <2> QED
    BY <2>2, <2>3
<1> QED
  BY <1>2, <1>3, <1>4, <1>5, <1>6

\* Pages are looked at with the memory driver.
PagesInMemory == \A s \in Setups : s.clients = "pages" => s.driver = "memory"

\* Nothing is followed of clients that are not pages.
LEMMA UnseenStep ==
  ASSUME TypesInv, setup.clients = "any",
         \A p \in Player : pages[p].status # "open" /\ reports[p] = {}, Next
  PROVE  \A p \in Player : pages'[p].status # "open" /\ reports'[p] = {}
<1> DEFINE Unseen == \A p \in Player : pages'[p].status # "open" /\ reports'[p] = {}
<1> SUFFICES Unseen
  OBVIOUS
<1>1. ASSUME pages' = pages, reports' = reports PROVE Unseen
  BY <1>1
<1> HIDE DEF Unseen
<1>2. ASSUME NEW p \in Player PROVE ~OpenPage(p) /\ ~ClosePage(p) /\ ~PlayPage(p)
  BY DEF OpenPage, ClosePage, PlayPage
<1>3. ASSUME NEW p \in Player,
             \/ CreateRoom(p) \/ JoinRoom(p) \/ LeaveRoom(p) \/ ReconnectRoom(p)
             \/ RequestState(p) \/ PlayAny(p)
      PROVE  Unseen
  BY <1>1, <1>3 DEF CreateRoom, JoinRoom, LeaveRoom, ReconnectRoom, RequestState, PlayAny
<1>4. ASSUME NEW s \in Slot, CreateTask(s) PROVE Unseen
  BY <1>4 DEF CreateTask, Unseen
<1>5. ASSUME NEW s \in Slot, FinishTask(s) \/ KeyTask(s) \/ SeedTask(s) \/ ReadMatch(s)
      PROVE  Unseen
  BY <1>1, <1>5 DEF FinishTask, KeyTask, SeedTask, ReadMatch
<1>6. ASSUME NEW s \in Slot, WriteMatch(s) PROVE Unseen
  <2>1. CASE UNCHANGED <<pages, reports>>
    BY <1>1, <2>1
  <2>2. ASSUME NEW m, Delivered(Current(s), m) PROVE Unseen
    <3>1. \A p \in Player : ~Receives(Current(s), p)
      BY DEF Receives
    <3>2. \A p \in Player : pages'[p] = pages[p] /\ reports'[p] = reports[p]
      BY <2>2, <3>1 DEF Delivered
    <3> QED
      BY <3>2 DEF Unseen
  <2> QED
    BY <1>6, <2>1, <2>2 DEF WriteMatch
<1>7. CASE TimePasses
  BY <1>1, <1>7 DEF TimePasses
<1>8. CASE Restart
  BY <1>8 DEF Restart, Page, Unseen
<1>9. DeleteRoom => Unseen
  BY <1>1 DEF DeleteRoom
<1> QED
  BY <1>2, <1>3, <1>4, <1>5, <1>6, <1>7, <1>8, <1>9 DEF Next

\* When an adapter's operation is done, whoever has reported reported what it would again.
LEMMA OnceWritten ==
  ASSUME NEW Good, AdapterReports(Good, game), IInv, TypesInv, InMemory, OrderInv,
         match # None, match \in Good[game], EndsByMove(Good, game) => ShownInv,
         match' # None, match' \in Good[game], NEW s \in Slot, WriteMatch(s),
         NEW p \in Player, ReportedOnce(p)
  PROVE  ReportedOnce(p)'
<1> DEFINE task == Head(Front)
<1>1. /\ Running(s) /\ Reads(task) /\ match' = Applied(task, match)
      /\ Current(s) = task /\ Listed(Front) /\ Front # <<>> /\ TaskTyped(task)
  <2>1. Running(s) /\ Reads(Current(s)) /\ match' = Applied(Current(s), match)
    BY DEF WriteMatch
  <2>2. Current(s) = task /\ Orderly(Members, match, Front) /\ Front # <<>>
    BY <2>1, OrderInHand DEF IInv
  <2>3. TaskTyped(task)
    BY <2>1, <2>2, TypedInHand DEF TypesInv
  <2> QED
    BY <2>1, <2>2, <2>3 DEF Orderly
<1>2. task.kind = "play" /\ EndsByMove(Good, game) => ~IsOver
  BY <1>1, SpokenRest DEF ShownInv
<1> HIDE DEF task
<1>3. /\ game' = game
      /\ task.kind # "send" => reports' = reports
      /\ task.kind = "send" => Delivered(task, match')
  BY <1>1 DEF WriteMatch, game
<1>4. SameReports(game, match, match')
  <2>1. CASE task.kind \in {"join", "reconnect"}
    BY <1>1, <2>1 DEF Applied, TaskTyped, AdapterReports
  <2>2. CASE task.kind = "play"
    <3>1. task.who \in Player
      BY <1>1, <2>2 DEF TaskTyped
    <3>2. match' = HandlePlayerAction(game, match, task.who, task.seq, task.move)
      BY <1>1, <2>2 DEF Applied
    <3>3. CASE EndsByMove(Good, game)
      BY <1>2, <2>2, <3>3 DEF IsOver, SameReports
    <3>4. CASE ~EndsByMove(Good, game)
      BY <3>1, <3>2, <3>4 DEF AdapterReports
    <3> QED
      BY <3>3, <3>4
  <2>3. CASE task.kind = "send"
    BY <1>1, <2>3 DEF Applied, AdapterReports
  <2> QED
    BY <1>1, <2>1, <2>2, <2>3 DEF Reads
<1>5. reports[p] # {} => /\ match'.isCompleted
                         /\ reports[p] = {ReportId(game, match', p)}
  BY <1>4 DEF ReportedOnce, SameReports, IsOver
<1>6. \/ reports'[p] = reports[p]
      \/ match'.isCompleted /\ reports'[p] = reports[p] \cup {ReportId(game, match', p)}
  <2>1. CASE task.kind # "send"
    BY <1>3, <2>1
  <2>2. CASE task.kind = "send"
    <3>1. StateView(game, match').isCompleted <=> match'.isCompleted
      BY DEF AdapterReports
    <3>2. reports'[p] = IF Receives(task, p) /\ StateView(game, match').isCompleted
                        THEN reports[p] \cup {ReportId(game, match', p)} ELSE reports[p]
      BY <1>3, <2>2 DEF Delivered, ReportId
    <3> QED
      BY <3>1, <3>2
  <2> QED
    BY <2>1, <2>2
<1>7. \/ reports'[p] = {}
      \/ match'.isCompleted /\ reports'[p] = {ReportId(game, match', p)}
  BY <1>5, <1>6
<1> QED
  BY <1>3, <1>7 DEF ReportedOnce, IsOver, ReportId

\* No operation of an adapter ends in null.
LEMMA MatchStays ==
  ASSUME AdaptersKeepSeats, IInv, TypesInv, InMemory, match # None,
         TimePasses \/ \E s \in Slot : WriteMatch(s)
  PROVE  match' # None
<1>1. IsDocument(match) /\ setup \in Setups /\ ~IsDocument(None)
  BY DEF IInv, SeatsInv, AdaptersKeepSeats
<1>2. CASE TimePasses
  <2>1. SamePlayers(match, match')
    BY <1>1, <1>2 DEF TimePasses, AdaptersKeepSeats, game
  <2> QED
    BY <1>1, <2>1 DEF SamePlayers, HasPlayers, IsDocument
<1>3. ASSUME NEW s \in Slot, WriteMatch(s) PROVE match' # None
  <2>1. Running(s) /\ Reads(Current(s)) /\ match' = Applied(Current(s), match)
    BY <1>3 DEF WriteMatch
  <2>2. TaskTyped(Current(s))
    BY <2>1, TypedInHand DEF TypesInv
  <2>3. IsDocument(match')
    BY <1>1, <2>1, <2>2, Rewritten DEF TaskTyped
  <2> QED
    BY <1>1, <2>3
<1> QED
  BY <1>2, <1>3

\* Every step keeps what pages know and report.
LEMMA OnceStep ==
  ASSUME NEW Good, AdaptersKeepSeats, PagesNeedSeats, AdaptersStand(Good), AdaptersReport(Good),
         PagesInMemory, IInv, TypesInv, GoodInv(Good), OnceInv(Good), Next
  PROVE  OnceInv(Good)'
<1>1. setup \in Setups /\ setup' = setup /\ game' = game
  BY SetupStays DEF IInv, game
<1>2. ASSUME setup.clients = "any"
      PROVE  \A p \in Player : pages'[p].status # "open" /\ reports'[p] = {}
  BY <1>2, UnseenStep DEF OnceInv
<1>3. ASSUME setup.clients = "pages", game # "memory-match-duel"
      PROVE  /\ EndsByMove(Good, game) => ShownInv'
             /\ \A p \in Player : ReportedOnce(p)'
  <2>1. /\ InMemory /\ AdapterReports(Good, game)
        /\ OrderInv /\ (match # None => match \in Good[game])
        /\ match' # None => match' \in Good[game]
        /\ EndsByMove(Good, game) => ShownInv
        /\ \A p \in Player : ReportedOnce(p)
    <3>1. InMemory /\ AdapterReports(Good, game)
      BY <1>1, <1>3 DEF PagesInMemory, InMemory, AdaptersReport, game
    <3>2. match' # None => match' \in Good[game]
      BY <3>1, GoodStep
    <3> QED
      BY <1>3, <3>1, <3>2 DEF GoodInv, OnceInv
  <2> DEFINE KeepsOnce == /\ EndsByMove(Good, game) => ShownInv'
                          /\ \A p \in Player : ReportedOnce(p)'
  <2>2. ASSUME EndsByMove(Good, game) => ShownInv', match' = match, reports' = reports
        PROVE  KeepsOnce
    <3>1. \A p \in Player : ReportedOnce(p)'
      BY <1>1, <2>1, <2>2 DEF ReportedOnce, IsOver, ReportId
    <3> QED
      BY <2>2, <3>1
  <2> SUFFICES KeepsOnce
    OBVIOUS
  <2> HIDE DEF KeepsOnce
  <2>3. ASSUME NEW p \in Player, CreateRoom(p) \/ JoinRoom(p) \/ LeaveRoom(p) \/ DeleteRoom
        PROVE  KeepsOnce
    <3>1. match' = match /\ reports' = reports
      BY <2>3 DEF CreateRoom, JoinRoom, LeaveRoom, DeleteRoom
    <3> QED
      BY <1>3, <2>1, <2>2, <2>3, <3>1, ShownOutside
  <2>11. DeleteRoom => KeepsOnce
    <3>1. DeleteRoom => \E p \in Player : TRUE
      BY <2>1 DEF DeleteRoom, IInv, SeatsInv, RoomDoc
    <3> QED
      BY <2>3, <3>1
  <2>4. ASSUME NEW p \in Player, ReconnectRoom(p) \/ OpenPage(p) \/ ClosePage(p) \/ PlayPage(p)
        PROVE  KeepsOnce
    <3>1. match' = match /\ reports' = reports
      BY <2>4 DEF ReconnectRoom, OpenPage, ClosePage, PlayPage
    <3> QED
      BY <1>3, <2>1, <2>2, <2>4, <3>1, ShownOutside
  <2>5. ASSUME NEW s \in Slot, CreateTask(s) \/ FinishTask(s) \/ KeyTask(s)
        PROVE  KeepsOnce
    <3>1. EndsByMove(Good, game) => ShownInv'
      BY <1>3, <2>1, <2>5, ShownTasks
    <3>2. CASE CreateTask(s)
      BY <3>1, <3>2 DEF CreateTask, ReportedOnce, KeepsOnce
    <3>3. CASE FinishTask(s)
      <4>1. match' = None /\ reports' = reports
        BY <3>3 DEF FinishTask
      <4>2. \A p \in Player : ReportedOnce(p)'
        BY <2>1, <4>1 DEF ReportedOnce
      <4> QED
        BY <3>1, <4>2 DEF KeepsOnce
    <3>4. CASE KeyTask(s)
      BY <2>2, <3>1, <3>4 DEF KeyTask
    <3> QED
      BY <2>5, <3>2, <3>3, <3>4
  <2>6. ASSUME NEW s \in Slot, SeedTask(s) PROVE KeepsOnce
    <3>1. EndsByMove(Good, game) => ShownInv'
      BY <1>3, <2>1, <2>6, ShownTasks
    <3> QED
      BY <2>2, <2>6, <3>1 DEF SeedTask
  <2>7. ASSUME NEW s \in Slot, WriteMatch(s) PROVE KeepsOnce
    <3>1. EndsByMove(Good, game) => ShownInv'
      BY <1>3, <2>1, <2>7, ShownTasks
    <3>2. CASE match = None
      <4>1. match' = match /\ reports' = reports
        BY <2>1, <2>7, <3>2 DEF WriteMatch
      <4> QED
        BY <2>2, <3>1, <4>1
    <3>3. CASE match # None
      <4>1. match' # None
        BY <2>1, <2>7, <3>3, MatchStays
      <4>2. \A p \in Player : ReportedOnce(p)'
        BY <2>1, <2>7, <3>3, <4>1, OnceWritten
      <4> QED
        BY <3>1, <4>2 DEF KeepsOnce
    <3> QED
      BY <3>2, <3>3
  <2>8. CASE TimePasses
    <3>1. match # None /\ match' = Elapsed(game, match) /\ match' # match /\ reports' = reports
      BY <2>8 DEF TimePasses
    <3>2. ~EndsByMove(Good, game)
      BY <2>1, <3>1 DEF EndsByMove
    <3>3. SameReports(game, match, match')
      BY <2>1, <3>1 DEF AdapterReports
    <3>4. \A p \in Player : ReportedOnce(p)'
      <4>1. match' # None
        BY <2>1, <2>8, <3>1, MatchStays
      <4> QED
        BY <1>1, <2>1, <3>1, <3>3, <4>1 DEF ReportedOnce, IsOver, SameReports, ReportId
    <3> QED
      BY <3>2, <3>4 DEF KeepsOnce
  <2>9. ~Restart /\ \A s \in Slot : ~ReadMatch(s)
    BY <2>1 DEF Restart, ReadMatch
  <2>10. \A p \in Player : ~RequestState(p) /\ ~PlayAny(p)
    BY <1>3 DEF RequestState, PlayAny
  <2> QED
    BY <2>3, <2>4, <2>5, <2>6, <2>7, <2>8, <2>9, <2>10, <2>11
       DEF Next
<1> QED
  BY <1>1, <1>2, <1>3 DEF OnceInv

\* Whatever the adapters are that keep good documents and their reports' ids: a page that
\* reports a match reports it under one id.
LEMMA ReportsStand ==
  ASSUME NEW Good, AdaptersKeepSeats, AdaptersKeepTypes, PagesNeedSeats, AdaptersStand(Good),
         AdaptersReport(Good), PagesInMemory
  PROVE  Spec => []RewardedOnceElsewhere
<1>1. Init => OnceInv(Good)
  <2> SUFFICES ASSUME Init PROVE OnceInv(Good)
    OBVIOUS
  <2>1. /\ match = None /\ slots = [s \in Slot |-> Idle]
        /\ \A p \in Player : pages[p].status # "open" /\ reports[p] = {}
    BY DEF Init, Page
  <2>2. Front = <<>>
    BY <2>1, TwoSlots, EmptySlot DEF Front
  <2>3. ShownInv
    BY <2>1, <2>2, SilentTask DEF ShownInv, IsOver
  <2> QED
    BY <2>1, <2>3 DEF OnceInv, ReportedOnce
<1>2. IInv /\ TypesInv /\ GoodInv(Good) /\ OnceInv(Good) /\ [Next]_vars => OnceInv(Good)'
  <2>1. ASSUME IInv, TypesInv, GoodInv(Good), OnceInv(Good), Next PROVE OnceInv(Good)'
    BY <2>1, OnceStep
  <2>2. ASSUME OnceInv(Good), UNCHANGED vars PROVE OnceInv(Good)'
    <3>1. UNCHANGED <<setup, match, slots, pages, reports>>
      BY <2>2 DEF vars
    <3>2. game' = game /\ Front' = Front /\ (IsOver' <=> IsOver) /\ (PagesKnow' <=> PagesKnow)
      BY <3>1 DEF game, Front, IsOver, PagesKnow
    <3> QED
      BY <2>2, <3>1, <3>2 DEF OnceInv, ShownInv, ReportedOnce, ReportId
  <2> QED
    BY <2>1, <2>2
<1>3. OnceInv(Good) /\ IInv => RewardedOnceElsewhere
  <2> SUFFICES ASSUME OnceInv(Good), IInv, game # "memory-match-duel", NEW p \in Player
               PROVE  Cardinality(reports[p]) <= 1
    BY DEF RewardedOnceElsewhere, RewardedOnce
  <2>1. setup.clients \in {"pages", "any"}
    BY RuntimeAssumption DEF IInv
  <2>2. reports[p] = {} \/ \E id : reports[p] = {id}
    BY <2>1 DEF OnceInv, ReportedOnce
  <2>3. ASSUME reports[p] = {} PROVE Cardinality(reports[p]) <= 1
    BY <2>3, FS_EmptySet
  <2>4. ASSUME NEW id, reports[p] = {id} PROVE Cardinality(reports[p]) <= 1
    <3>1. Cardinality({id}) = 1
      BY FS_Singleton
    <3> QED
      BY <2>4, <3>1
  <2> QED
    BY <2>2, <2>3, <2>4
<1>4. Spec => [](IInv /\ TypesInv)
  BY InvInit, TypesInit, InvStep, TypesStep, PTL DEF Spec
<1>5. Spec => []GoodInv(Good)
  BY ResultsStand
<1> QED
  BY <1>1, <1>2, <1>3, <1>4, <1>5, PTL DEF Spec

\* quiz-duel: what its reports are named by stays at joins and returns.
LEMMA QuizReports ==
  ASSUME NEW m \in Reg!Quiz!Doc, NEW p \in Player, NEW q \in Player,
         NEW n \in {Reg!Quiz!JoinMatch(m, p), Reg!Quiz!ReconnectPlayer(m, p)}
  PROVE  /\ n.isCompleted = m.isCompleted
         /\ Reg!Quiz!Reported(Reg!Quiz!Parsed(Reg!Quiz!Snapshot(n)), q).report_id
              = Reg!Quiz!Reported(Reg!Quiz!Parsed(Reg!Quiz!Snapshot(m)), q).report_id
BY DEF Reg!Quiz!Doc, Reg!Quiz!JoinMatch, Reg!Quiz!ReconnectPlayer, Reg!Quiz!Joined,
     Reg!Quiz!Reconnected, Reg!Quiz!Game!Doc, Reg!Quiz!Reported, Reg!Quiz!Report,
     Reg!Quiz!Parsed, Reg!Quiz!Snapshot, Reg!Quiz!Game!Snapshot, Reg!Quiz!Game!Parsed

\* word-rally: what its reports are named by stays at joins and returns.
LEMMA WordsReports ==
  ASSUME NEW m \in Reg!Words!Doc, NEW p \in Player, NEW q \in Player,
         NEW n \in {Reg!Words!JoinMatch(m, p), Reg!Words!ReconnectPlayer(m, p)}
  PROVE  /\ n.isCompleted = m.isCompleted
         /\ Reg!Words!Reported(Reg!Words!Parsed(Reg!Words!Snapshot(n)), q).report_id
              = Reg!Words!Reported(Reg!Words!Parsed(Reg!Words!Snapshot(m)), q).report_id
BY DEF Reg!Words!Doc, Reg!Words!JoinMatch, Reg!Words!ReconnectPlayer, Reg!Words!Joined,
     Reg!Words!Reconnected, Reg!Words!Game!Doc, Reg!Words!Reported, Reg!Words!Report,
     Reg!Words!Parsed, Reg!Words!Snapshot, Reg!Words!Game!Snapshot, Reg!Words!Game!Parsed

\* airline-trivia-teams: what its reports are named by stays at joins and returns.
LEMMA TriviaReports ==
  ASSUME NEW m \in Reg!Trivia!Doc, NEW p \in Player, NEW q \in Player,
         NEW n \in {Reg!Trivia!JoinMatch(m, p), Reg!Trivia!ReconnectPlayer(m, p)}
  PROVE  /\ n.isCompleted = m.isCompleted
         /\ Reg!Trivia!Reported(Reg!Trivia!Parsed(Reg!Trivia!Snapshot(n)), q).report_id
              = Reg!Trivia!Reported(Reg!Trivia!Parsed(Reg!Trivia!Snapshot(m)), q).report_id
BY DEF Reg!Trivia!Doc, Reg!Trivia!JoinMatch, Reg!Trivia!ReconnectPlayer,
     Reg!Trivia!Reported, Reg!Trivia!Report, Reg!Trivia!Parsed, Reg!Trivia!Snapshot

\* skyline-defense-lite: what its reports are named by stays at joins and returns.
LEMMA SkylineReports ==
  ASSUME NEW m \in Reg!Skyline!Doc, NEW p \in Player, NEW q \in Player,
         NEW n \in {Reg!Skyline!JoinMatch(m, p), Reg!Skyline!ReconnectPlayer(m, p)}
  PROVE  /\ n.isCompleted = m.isCompleted
         /\ Reg!Skyline!Reported(Reg!Skyline!Parsed(Reg!Skyline!Snapshot(n)), q).report_id
              = Reg!Skyline!Reported(Reg!Skyline!Parsed(Reg!Skyline!Snapshot(m)), q).report_id
BY DEF Reg!Skyline!Doc, Reg!Skyline!JoinMatch, Reg!Skyline!ReconnectPlayer,
     Reg!Skyline!Joined, Reg!Skyline!Reconnected, Reg!Skyline!WithBadge,
     Reg!Skyline!Reported, Reg!Skyline!Report, Reg!Skyline!Parsed, Reg!Skyline!Snapshot

\* seat-map-strategy: what its reports are named by stays at joins and returns.
LEMMA SeatsReports ==
  ASSUME NEW m \in Reg!Seats!Doc, NEW p \in Player, NEW q \in Player,
         NEW n \in {Reg!Seats!JoinMatch(m, p), Reg!Seats!ReconnectPlayer(m, p)}
  PROVE  /\ n.isCompleted = m.isCompleted
         /\ Reg!Seats!Reported(Reg!Seats!Parsed(Reg!Seats!Snapshot(n)), q).report_id
              = Reg!Seats!Reported(Reg!Seats!Parsed(Reg!Seats!Snapshot(m)), q).report_id
BY DEF Reg!Seats!Doc, Reg!Seats!JoinMatch, Reg!Seats!ReconnectPlayer, Reg!Seats!Joined,
     Reg!Seats!Reconnected, Reg!Seats!WithMark, Reg!Seats!Reported, Reg!Seats!Report,
     Reg!Seats!Parsed, Reg!Seats!Snapshot

\* route-builder-duel: what its reports are named by stays at joins and returns.
LEMMA RoutesReports ==
  ASSUME NEW m \in Reg!Routes!Doc, NEW p \in Player, NEW q \in Player,
         NEW n \in {Reg!Routes!JoinMatch(m, p), Reg!Routes!ReconnectPlayer(m, p)}
  PROVE  /\ n.isCompleted = m.isCompleted
         /\ Reg!Routes!Reported(Reg!Routes!Parsed(Reg!Routes!Snapshot(n)), q).report_id
              = Reg!Routes!Reported(Reg!Routes!Parsed(Reg!Routes!Snapshot(m)), q).report_id
BY DEF Reg!Routes!Doc, Reg!Routes!JoinMatch, Reg!Routes!ReconnectPlayer,
     Reg!Routes!Joined, Reg!Routes!Reconnected, Reg!Routes!WithMark, Reg!Routes!Reported,
     Reg!Routes!Report, Reg!Routes!Parsed, Reg!Routes!Snapshot

\* mini-gomoku: what its reports are named by stays at joins and returns.
LEMMA GomokuReports ==
  ASSUME NEW m \in Reg!Gomoku!Doc, NEW p \in Player, NEW q \in Player,
         NEW n \in {Reg!Gomoku!JoinMatch(m, p), Reg!Gomoku!ReconnectPlayer(m, p)}
  PROVE  /\ n.isCompleted = m.isCompleted
         /\ Reg!Gomoku!Reported(Reg!Gomoku!Parsed(Reg!Gomoku!Snapshot(n)), q).report_id
              = Reg!Gomoku!Reported(Reg!Gomoku!Parsed(Reg!Gomoku!Snapshot(m)), q).report_id
<1>1. n.isCompleted = m.isCompleted /\ n.board = m.board
  BY DEF Reg!Gomoku!Doc, Reg!Gomoku!JoinMatch, Reg!Gomoku!ReconnectPlayer,
       Reg!Gomoku!Joined, Reg!Gomoku!Reconnected, Reg!Gomoku!WithMark
<1>2. Reg!Gomoku!MoveCount(n) = Reg!Gomoku!MoveCount(m)
  BY <1>1 DEF Reg!Gomoku!MoveCount
<1> QED
  BY <1>1, <1>2 DEF Reg!Gomoku!Reported, Reg!Gomoku!Report, Reg!Gomoku!Parsed,
       Reg!Gomoku!Snapshot

\* crew-coordination: what its reports are named by stays at joins and returns.
LEMMA CrewReports ==
  ASSUME NEW m \in Reg!Crew!Doc, NEW p \in Player, NEW q \in Player,
         NEW n \in {Reg!Crew!JoinMatch(m, p), Reg!Crew!ReconnectPlayer(m, p)}
  PROVE  /\ n.isCompleted = m.isCompleted
         /\ Reg!Crew!Reported(Reg!Crew!Parsed(Reg!Crew!Snapshot(n)), q).report_id
              = Reg!Crew!Reported(Reg!Crew!Parsed(Reg!Crew!Snapshot(m)), q).report_id
BY DEF Reg!Crew!Doc, Reg!Crew!JoinMatch, Reg!Crew!ReconnectPlayer, Reg!Crew!Joined,
     Reg!Crew!Reconnected, Reg!Crew!WithRole, Reg!Crew!Reported, Reg!Crew!Report,
     Reg!Crew!Parsed, Reg!Crew!Snapshot

\* cabin-card-clash: what its reports are named by stays at joins and returns.
LEMMA CardsReports ==
  ASSUME NEW m \in Reg!Cards!Doc, NEW p \in Player, NEW q \in Player,
         NEW n \in {Reg!Cards!JoinMatch(m, p), Reg!Cards!ReconnectPlayer(m, p)}
  PROVE  /\ n.isCompleted = m.isCompleted
         /\ Reg!Cards!Reported(Reg!Cards!Parsed(Reg!Cards!Snapshot(n)), q).report_id
              = Reg!Cards!Reported(Reg!Cards!Parsed(Reg!Cards!Snapshot(m)), q).report_id
BY DEF Reg!Cards!Doc, Reg!Cards!JoinMatch, Reg!Cards!ReconnectPlayer, Reg!Cards!Reported,
     Reg!Cards!Report, Reg!Cards!Parsed, Reg!Cards!Snapshot

\* baggage-sort-showdown: what its reports are named by stays at joins and returns.
LEMMA BagsReports ==
  ASSUME NEW m \in Reg!Bags!Doc, NEW p \in Player, NEW q \in Player,
         NEW n \in {Reg!Bags!JoinMatch(m, p), Reg!Bags!ReconnectPlayer(m, p)}
  PROVE  /\ n.isCompleted = m.isCompleted
         /\ Reg!Bags!Reported(Reg!Bags!Parsed(Reg!Bags!Snapshot(n)), q).report_id
              = Reg!Bags!Reported(Reg!Bags!Parsed(Reg!Bags!Snapshot(m)), q).report_id
BY DEF Reg!Bags!Doc, Reg!Bags!JoinMatch, Reg!Bags!ReconnectPlayer, Reg!Bags!Joined,
     Reg!Bags!Reconnected, Reg!Bags!Reported, Reg!Bags!Report, Reg!Bags!Parsed,
     Reg!Bags!Snapshot

\* puzzle-race-grid: what its reports are named by stays at joins and returns.
LEMMA GridReports ==
  ASSUME NEW m \in Reg!Grid!Doc, NEW p \in Player, NEW q \in Player,
         \A r \in Player \ Elements(m.players) : m.progressByPlayer[r] = 0,
         NEW n \in {Reg!Grid!JoinMatch(m, p), Reg!Grid!ReconnectPlayer(m, p)}
  PROVE  /\ n.isCompleted = m.isCompleted
         /\ Reg!Grid!Reported(Reg!Grid!Parsed(Reg!Grid!Snapshot(n)), q).report_id
              = Reg!Grid!Reported(Reg!Grid!Parsed(Reg!Grid!Snapshot(m)), q).report_id
<1>1. n.isCompleted = m.isCompleted
  BY DEF Reg!Grid!Doc, Reg!Grid!JoinMatch, Reg!Grid!ReconnectPlayer, Reg!Grid!Joined,
       Reg!Grid!Reconnected
<1>2. n.progressByPlayer[q] = m.progressByPlayer[q]
  <2>1. CASE n = Reg!Grid!ReconnectPlayer(m, p) \/ Reg!Grid!Seated(m.players, p)
    BY <2>1 DEF Reg!Grid!Doc, Reg!Grid!JoinMatch, Reg!Grid!ReconnectPlayer,
         Reg!Grid!Reconnected
  <2>2. CASE n = Reg!Grid!JoinMatch(m, p) /\ ~Reg!Grid!Seated(m.players, p)
    <3>1. m.progressByPlayer[p] = 0
      BY <2>2 DEF Elements, Reg!Grid!Seated
    <3>2. n.progressByPlayer = [m.progressByPlayer EXCEPT ![p] = 0]
      BY <2>2 DEF Reg!Grid!Doc, Reg!Grid!JoinMatch, Reg!Grid!Joined
    <3> QED
      BY <3>1, <3>2 DEF Reg!Grid!Doc
  <2> QED
    BY <2>1, <2>2
<1> QED
  BY <1>1, <1>2 DEF Reg!Grid!Reported, Reg!Grid!Report, Reg!Grid!Parsed, Reg!Grid!Snapshot

\* signal-scramble: what its reports are named by stays at joins and returns.
LEMMA SignalsReports ==
  ASSUME NEW m \in Reg!Signals!Doc, NEW p \in Player, NEW q \in Player,
         \A r \in Player \ Elements(m.players) : m.progressByPlayer[r] = 0,
         NEW n \in {Reg!Signals!JoinMatch(m, p), Reg!Signals!ReconnectPlayer(m, p)}
  PROVE  /\ n.isCompleted = m.isCompleted
         /\ Reg!Signals!Reported(Reg!Signals!Parsed(Reg!Signals!Snapshot(n)), q).report_id
              = Reg!Signals!Reported(Reg!Signals!Parsed(Reg!Signals!Snapshot(m)), q).report_id
<1>1. n.isCompleted = m.isCompleted
  BY DEF Reg!Signals!Doc, Reg!Signals!JoinMatch, Reg!Signals!ReconnectPlayer,
       Reg!Signals!Joined, Reg!Signals!Reconnected
<1>2. n.progressByPlayer[q] = m.progressByPlayer[q]
  <2>1. CASE n = Reg!Signals!ReconnectPlayer(m, p) \/ Reg!Signals!Seated(m.players, p)
    BY <2>1 DEF Reg!Signals!Doc, Reg!Signals!JoinMatch, Reg!Signals!ReconnectPlayer,
         Reg!Signals!Reconnected
  <2>2. CASE n = Reg!Signals!JoinMatch(m, p) /\ ~Reg!Signals!Seated(m.players, p)
    <3>1. m.progressByPlayer[p] = 0
      BY <2>2 DEF Elements, Reg!Signals!Seated
    <3>2. n.progressByPlayer = [m.progressByPlayer EXCEPT ![p] = 0]
      BY <2>2 DEF Reg!Signals!Doc, Reg!Signals!JoinMatch, Reg!Signals!Joined
    <3> QED
      BY <3>1, <3>2 DEF Reg!Signals!Doc
  <2> QED
    BY <2>1, <2>2
<1> QED
  BY <1>1, <1>2 DEF Reg!Signals!Reported, Reg!Signals!Report, Reg!Signals!Parsed,
       Reg!Signals!Snapshot

\* spot-the-difference-race: what its reports are named by stays at joins and returns.
LEMMA SpottingReports ==
  ASSUME NEW m \in Reg!Spotting!Doc, NEW p \in Player, NEW q \in Player,
         NEW n \in {Reg!Spotting!JoinMatch(m, p), Reg!Spotting!ReconnectPlayer(m, p)}
  PROVE  /\ n.isCompleted = m.isCompleted
         /\ Reg!Spotting!Reported(Reg!Spotting!Parsed(Reg!Spotting!Snapshot(n)), q).report_id
              = Reg!Spotting!Reported(Reg!Spotting!Parsed(Reg!Spotting!Snapshot(m)), q).report_id
BY DEF Reg!Spotting!Doc, Reg!Spotting!JoinMatch, Reg!Spotting!ReconnectPlayer,
     Reg!Spotting!Joined, Reg!Spotting!Reconnected, Reg!Spotting!FoundSpots,
     Reg!Spotting!Reported, Reg!Spotting!Report, Reg!Spotting!Parsed,
     Reg!Spotting!Snapshot

\* tap-beat-battle: what its reports are named by stays at joins and returns.
LEMMA BeatsReports ==
  ASSUME NEW m \in Reg!Beats!Doc, NEW p \in Player, NEW q \in Player, OnlyPlayersScore(m),
         NEW n \in {Reg!Beats!JoinMatch(m, p), Reg!Beats!ReconnectPlayer(m, p)}
  PROVE  /\ n.isCompleted = m.isCompleted
         /\ Reg!Beats!Reported(Reg!Beats!Parsed(Reg!Beats!Snapshot(n)), q).report_id
              = Reg!Beats!Reported(Reg!Beats!Parsed(Reg!Beats!Snapshot(m)), q).report_id
<1>1. n.isCompleted = m.isCompleted
  BY DEF Reg!Beats!Doc, Reg!Beats!JoinMatch, Reg!Beats!ReconnectPlayer,
       Reg!Beats!Joined, Reg!Beats!Reconnected
<1>2. n.scores[q] = m.scores[q]
  <2>1. CASE n = Reg!Beats!ReconnectPlayer(m, p) \/ Reg!Beats!Seated(m.players, p)
    BY <2>1 DEF Reg!Beats!Doc, Reg!Beats!JoinMatch, Reg!Beats!ReconnectPlayer,
         Reg!Beats!Reconnected
  <2>2. CASE n = Reg!Beats!JoinMatch(m, p) /\ ~Reg!Beats!Seated(m.players, p)
    <3>1. m.scores[p] = 0
      BY <2>2 DEF OnlyPlayersScore, Points, Elements, Reg!Beats!Seated, Reg!Beats!Doc
    <3>2. n.scores = [m.scores EXCEPT ![p] = 0]
      BY <2>2 DEF Reg!Beats!Doc, Reg!Beats!JoinMatch, Reg!Beats!Joined
    <3> QED
      BY <3>1, <3>2 DEF Reg!Beats!Doc
  <2> QED
    BY <2>1, <2>2
<1> QED
  BY <1>1, <1>2 DEF Reg!Beats!Reported, Reg!Beats!Report, Reg!Beats!Parsed,
       Reg!Beats!Snapshot

\* In the two races who is not in the match has not moved.
OnlyPlayersProgress(g, m) ==
  g \in {"puzzle-race-grid", "signal-scramble"} =>
    \A q \in Player \ Elements(m.players) : m.progressByPlayer[q] = 0

\* The documents that let results stand, in the races with that much more.
ReportedDocuments ==
  [g \in Reg!GameId |-> {m \in KeptDocuments[g] : OnlyPlayersProgress(g, m)}]

\* puzzle-race-grid: nobody moves but who is in the match.
LEMMA GridProgress ==
  ASSUME NEW m \in Reg!Grid!Doc, OnlyPlayersProgress("puzzle-race-grid", m), NEW p \in Player
  PROVE  /\ \A n \in {Reg!Grid!JoinMatch(m, p), Reg!Grid!ReconnectPlayer(m, p)} :
              OnlyPlayersProgress("puzzle-race-grid", n)
         /\ p \in Elements(m.players) => \A seq, c :
              OnlyPlayersProgress("puzzle-race-grid", Reg!Grid!Played(m, p, seq, c))
<1>1. \A q \in Player \ Elements(m.players) : m.progressByPlayer[q] = 0
  BY DEF OnlyPlayersProgress
<1>2. ASSUME NEW n \in {Reg!Grid!JoinMatch(m, p), Reg!Grid!ReconnectPlayer(m, p)}
      PROVE  OnlyPlayersProgress("puzzle-race-grid", n)
  <2>1. Elements(m.players) \subseteq Elements(n.players)
    <3>1. IsDocument(m)
      BY DEF IsDocument, Reg!Grid!Doc
    <3> QED
      BY <3>1, GridKeepsSeats DEF Seats
  <2>2. \/ n.progressByPlayer = m.progressByPlayer
        \/ n.progressByPlayer = [m.progressByPlayer EXCEPT ![p] = 0]
    BY DEF Reg!Grid!Doc, Reg!Grid!JoinMatch, Reg!Grid!ReconnectPlayer, Reg!Grid!Joined,
         Reg!Grid!Reconnected
  <2> QED
    BY <1>1, <2>1, <2>2 DEF OnlyPlayersProgress, Reg!Grid!Doc
<1>3. ASSUME p \in Elements(m.players), NEW seq, NEW c
      PROVE  OnlyPlayersProgress("puzzle-race-grid", Reg!Grid!Played(m, p, seq, c))
  <2> DEFINE n == Reg!Grid!Played(m, p, seq, c)
  <2>1. n.players = m.players /\ \E x : n.progressByPlayer = [m.progressByPlayer EXCEPT ![p] = x]
    BY DEF Reg!Grid!Doc, Reg!Grid!Played, Reg!Grid!Taken, Reg!Grid!Heard
  <2> HIDE DEF n
  <2>2. OnlyPlayersProgress("puzzle-race-grid", n)
    BY <1>1, <1>3, <2>1 DEF OnlyPlayersProgress, Reg!Grid!Doc
  <2> QED
    BY <2>2 DEF n
<1> QED
  BY <1>2, <1>3

\* signal-scramble: nobody moves but who is in the match.
LEMMA SignalsProgress ==
  ASSUME NEW m \in Reg!Signals!Doc, OnlyPlayersProgress("signal-scramble", m), NEW p \in Player
  PROVE  /\ \A n \in {Reg!Signals!JoinMatch(m, p), Reg!Signals!ReconnectPlayer(m, p)} :
              OnlyPlayersProgress("signal-scramble", n)
         /\ p \in Elements(m.players) => \A seq, c :
              OnlyPlayersProgress("signal-scramble", Reg!Signals!Played(m, p, seq, c))
<1>1. \A q \in Player \ Elements(m.players) : m.progressByPlayer[q] = 0
  BY DEF OnlyPlayersProgress
<1>2. ASSUME NEW n \in {Reg!Signals!JoinMatch(m, p), Reg!Signals!ReconnectPlayer(m, p)}
      PROVE  OnlyPlayersProgress("signal-scramble", n)
  <2>1. Elements(m.players) \subseteq Elements(n.players)
    <3>1. IsDocument(m)
      BY DEF IsDocument, Reg!Signals!Doc
    <3> QED
      BY <3>1, SignalsKeepsSeats DEF Seats
  <2>2. \/ n.progressByPlayer = m.progressByPlayer
        \/ n.progressByPlayer = [m.progressByPlayer EXCEPT ![p] = 0]
    BY DEF Reg!Signals!Doc, Reg!Signals!JoinMatch, Reg!Signals!ReconnectPlayer,
           Reg!Signals!Joined, Reg!Signals!Reconnected
  <2> QED
    BY <1>1, <2>1, <2>2 DEF OnlyPlayersProgress, Reg!Signals!Doc
<1>3. ASSUME p \in Elements(m.players), NEW seq, NEW c
      PROVE  OnlyPlayersProgress("signal-scramble", Reg!Signals!Played(m, p, seq, c))
  <2> DEFINE n == Reg!Signals!Played(m, p, seq, c)
  <2>1. n.players = m.players /\ \E x : n.progressByPlayer = [m.progressByPlayer EXCEPT ![p] = x]
    BY DEF Reg!Signals!Doc, Reg!Signals!Played, Reg!Signals!Activated, Reg!Signals!Heard
  <2> HIDE DEF n
  <2>2. OnlyPlayersProgress("signal-scramble", n)
    BY <1>1, <1>3, <2>1 DEF OnlyPlayersProgress, Reg!Signals!Doc
  <2> QED
    BY <2>2 DEF n
<1> QED
  BY <1>2, <1>3

\* spot-the-difference-race: nothing of a match that is over changes but what was heard last.
LEMMA SpottingIsOver ==
  ASSUME NEW m \in Reg!Spotting!Doc, m.isCompleted, NEW p, NEW q, NEW seq, NEW move,
         NEW n \in {Reg!Spotting!Observed(m), Reg!Spotting!DeadlinePasses(m),
                    Reg!Spotting!Played(m, p, seq, move)}
  PROVE  /\ n.isCompleted
         /\ Reg!Spotting!Reported(Reg!Spotting!Parsed(Reg!Spotting!Snapshot(n)), q).report_id
              = Reg!Spotting!Reported(Reg!Spotting!Parsed(Reg!Spotting!Snapshot(m)), q).report_id
<1>1. n.isCompleted /\ n.foundSpots = m.foundSpots /\ n.scores = m.scores
  BY DEF Reg!Spotting!Doc, Reg!Spotting!Observed, Reg!Spotting!DeadlinePasses,
       Reg!Spotting!Played, Reg!Spotting!Heard, Reg!Spotting!CompletedIfExpired
<1>2. Reg!Spotting!FoundSpots(n) = Reg!Spotting!FoundSpots(m)
  BY <1>1 DEF Reg!Spotting!FoundSpots
<1> QED
  BY <1>1, <1>2 DEF Reg!Spotting!Reported, Reg!Spotting!Report, Reg!Spotting!Parsed,
       Reg!Spotting!Snapshot

\* No game begins completed.
LEMMA RegistryBegins ==
  ASSUME NEW g \in Reg!GameId, g # "memory-match-duel", NEW p
  PROVE  ~Reg!AdapterCreate(g, p).isCompleted
<1> USE DEF Reg!AdapterCreate
<1>1. CASE g = "quiz-duel"
  BY <1>1 DEF Reg!Quiz!Created, Reg!Quiz!Game!Created
<1>2. CASE g = "word-rally"
  BY <1>2 DEF Reg!Words!Created, Reg!Words!Game!Created
<1>3. CASE g = "airline-trivia-teams"
  BY <1>3 DEF Reg!Trivia!Created
<1>4. CASE g = "skyline-defense-lite"
  BY <1>4 DEF Reg!Skyline!Created
<1>5. CASE g = "seat-map-strategy"
  BY <1>5 DEF Reg!Seats!Created
<1>6. CASE g = "route-builder-duel"
  BY <1>6 DEF Reg!Routes!Created
<1>7. CASE g = "mini-gomoku"
  BY <1>7 DEF Reg!Gomoku!Created
<1>8. CASE g = "crew-coordination"
  BY <1>8 DEF Reg!Crew!Created
<1>9. CASE g = "cabin-card-clash"
  BY <1>9 DEF Reg!Cards!Created
<1>10. CASE g = "baggage-sort-showdown"
  BY <1>10 DEF Reg!Bags!Created
<1>11. CASE g = "puzzle-race-grid"
  BY <1>11 DEF Reg!Grid!Created
<1>12. CASE g = "signal-scramble"
  BY <1>12 DEF Reg!Signals!Created
<1>13. CASE g = "spot-the-difference-race"
  BY <1>13 DEF Reg!Spotting!Created
<1>14. CASE g = "tap-beat-battle"
  BY <1>14 DEF Reg!Beats!Created
<1> HIDE DEF Reg!AdapterCreate
<1> QED
  BY <1>1, <1>2, <1>3, <1>4, <1>5, <1>6, <1>7, <1>8,
     <1>9, <1>10, <1>11, <1>12, <1>13, <1>14 DEF Reg!GameId

\* What a page makes of a state tells whether the match is over.
LEMMA RegistryShows ==
  ASSUME NEW g \in Reg!GameId, g # "memory-match-duel", NEW m
  PROVE  Reg!AdapterView(g, m).isCompleted = m.isCompleted
<1> USE DEF Reg!AdapterView
<1>1. CASE g = "quiz-duel"
  BY <1>1 DEF Reg!Quiz!Snapshot, Reg!Quiz!Parsed, Reg!Quiz!Game!Snapshot, Reg!Quiz!Game!Parsed
<1>2. CASE g = "word-rally"
  BY <1>2 DEF Reg!Words!Snapshot, Reg!Words!Parsed, Reg!Words!Game!Snapshot, Reg!Words!Game!Parsed
<1>3. CASE g = "airline-trivia-teams"
  BY <1>3 DEF Reg!Trivia!Snapshot, Reg!Trivia!Parsed
<1>4. CASE g = "skyline-defense-lite"
  BY <1>4 DEF Reg!Skyline!Snapshot, Reg!Skyline!Parsed
<1>5. CASE g = "seat-map-strategy"
  BY <1>5 DEF Reg!Seats!Snapshot, Reg!Seats!Parsed
<1>6. CASE g = "route-builder-duel"
  BY <1>6 DEF Reg!Routes!Snapshot, Reg!Routes!Parsed
<1>7. CASE g = "mini-gomoku"
  BY <1>7 DEF Reg!Gomoku!Snapshot, Reg!Gomoku!Parsed
<1>8. CASE g = "crew-coordination"
  BY <1>8 DEF Reg!Crew!Snapshot, Reg!Crew!Parsed
<1>9. CASE g = "cabin-card-clash"
  BY <1>9 DEF Reg!Cards!Snapshot, Reg!Cards!Parsed
<1>10. CASE g = "baggage-sort-showdown"
  BY <1>10 DEF Reg!Bags!Snapshot, Reg!Bags!Parsed
<1>11. CASE g = "puzzle-race-grid"
  BY <1>11 DEF Reg!Grid!Snapshot, Reg!Grid!Parsed
<1>12. CASE g = "signal-scramble"
  BY <1>12 DEF Reg!Signals!Snapshot, Reg!Signals!Parsed
<1>13. CASE g = "spot-the-difference-race"
  BY <1>13 DEF Reg!Spotting!Snapshot, Reg!Spotting!Parsed
<1>14. CASE g = "tap-beat-battle"
  BY <1>14 DEF Reg!Beats!Snapshot, Reg!Beats!Parsed
<1> HIDE DEF Reg!AdapterView
<1> QED
  BY <1>1, <1>2, <1>3, <1>4, <1>5, <1>6, <1>7, <1>8,
     <1>9, <1>10, <1>11, <1>12, <1>13, <1>14 DEF Reg!GameId

\* A page that has no state, or the state of a match that is over, offers no move.
LEMMA RegistryFallsSilent ==
  ASSUME NEW g \in Reg!GameId, g # "memory-match-duel", NEW v, NEW players, NEW p,
         v = None \/ v.isCompleted
  PROVE  Reg!PageOffers(g, v, players, p) = {}
<1> USE DEF Reg!PageOffers
<1>1. CASE g = "quiz-duel"
  BY <1>1 DEF Reg!Quiz!Offered
<1>2. CASE g = "word-rally"
  BY <1>2 DEF Reg!Words!Offered
<1>3. CASE g = "airline-trivia-teams"
  BY <1>3 DEF Reg!Trivia!Offered
<1>4. CASE g = "skyline-defense-lite"
  BY <1>4 DEF Reg!Skyline!Offered, Reg!Skyline!OnTurn
<1>5. CASE g = "seat-map-strategy"
  BY <1>5 DEF Reg!Seats!Offered, Reg!Seats!OnTurn
<1>6. CASE g = "route-builder-duel"
  BY <1>6 DEF Reg!Routes!Offered, Reg!Routes!OnTurn
<1>7. CASE g = "mini-gomoku"
  BY <1>7 DEF Reg!Gomoku!Offered, Reg!Gomoku!OnTurn
<1>8. CASE g = "crew-coordination"
  BY <1>8 DEF Reg!Crew!Offered, Reg!Crew!OnTurn
<1>9. CASE g = "cabin-card-clash"
  BY <1>9 DEF Reg!Cards!Offered, Reg!Cards!OnTurn
<1>10. CASE g = "baggage-sort-showdown"
  BY <1>10 DEF Reg!Bags!Offered
<1>11. CASE g = "puzzle-race-grid"
  BY <1>11 DEF Reg!Grid!Offered
<1>12. CASE g = "signal-scramble"
  BY <1>12 DEF Reg!Signals!Offered
<1>13. CASE g = "spot-the-difference-race"
  BY <1>13 DEF Reg!Spotting!Offered
<1>14. CASE g = "tap-beat-battle"
  BY <1>14 DEF Reg!Beats!Offered
<1> HIDE DEF Reg!PageOffers
<1> QED
  BY <1>1, <1>2, <1>3, <1>4, <1>5, <1>6, <1>7, <1>8,
     <1>9, <1>10, <1>11, <1>12, <1>13, <1>14 DEF Reg!GameId

\* Whoever joins a match or comes back to it, it is reported under the same ids.
LEMMA RegistryReports ==
  ASSUME NEW g \in Reg!GameId, g # "memory-match-duel", NEW m \in Reg!AdapterDoc(g),
         Kept(g, m), OnlyPlayersProgress(g, m), NEW p \in Player, NEW q \in Player,
         NEW n \in {Reg!AdapterJoin(g, m, p), Reg!AdapterReconnect(g, m, p)}
  PROVE  /\ n.isCompleted = m.isCompleted
         /\ Reg!PageReport(g, Reg!AdapterView(g, n), q).report_id
              = Reg!PageReport(g, Reg!AdapterView(g, m), q).report_id
<1> USE DEF Reg!AdapterDoc, Reg!AdapterJoin, Reg!AdapterReconnect, Reg!PageReport,
         Reg!AdapterView
<1>1. CASE g = "quiz-duel"
  BY <1>1, QuizReports
<1>2. CASE g = "word-rally"
  BY <1>2, WordsReports
<1>3. CASE g = "airline-trivia-teams"
  BY <1>3, TriviaReports
<1>4. CASE g = "skyline-defense-lite"
  BY <1>4, SkylineReports
<1>5. CASE g = "seat-map-strategy"
  BY <1>5, SeatsReports
<1>6. CASE g = "route-builder-duel"
  BY <1>6, RoutesReports
<1>7. CASE g = "mini-gomoku"
  BY <1>7, GomokuReports
<1>8. CASE g = "crew-coordination"
  BY <1>8, CrewReports
<1>9. CASE g = "cabin-card-clash"
  BY <1>9, CardsReports
<1> HIDE DEF Reg!AdapterDoc, Reg!AdapterJoin, Reg!AdapterReconnect, Reg!PageReport,
          Reg!AdapterView
<1>10. CASE g = "baggage-sort-showdown"
  <2>1. /\ m \in Reg!Bags!Doc
        /\ n \in {Reg!Bags!JoinMatch(m, p), Reg!Bags!ReconnectPlayer(m, p)}
        /\ \A k : Reg!PageReport(g, Reg!AdapterView(g, k), q)
                   = Reg!Bags!Reported(Reg!Bags!Parsed(Reg!Bags!Snapshot(k)), q)
    BY <1>10 DEF Reg!AdapterDoc, Reg!AdapterJoin, Reg!AdapterReconnect, Reg!PageReport,
         Reg!AdapterView
  <2> QED
    BY <2>1, BagsReports
<1>11. CASE g = "puzzle-race-grid"
  <2>1. /\ m \in Reg!Grid!Doc
        /\ n \in {Reg!Grid!JoinMatch(m, p), Reg!Grid!ReconnectPlayer(m, p)}
        /\ \A k : Reg!PageReport(g, Reg!AdapterView(g, k), q)
                   = Reg!Grid!Reported(Reg!Grid!Parsed(Reg!Grid!Snapshot(k)), q)
    BY <1>11 DEF Reg!AdapterDoc, Reg!AdapterJoin, Reg!AdapterReconnect, Reg!PageReport,
         Reg!AdapterView
  <2>2. \A r \in Player \ Elements(m.players) : m.progressByPlayer[r] = 0
    BY <1>11 DEF OnlyPlayersProgress
  <2> QED
    BY <2>1, <2>2, GridReports
<1>12. CASE g = "signal-scramble"
  <2>1. /\ m \in Reg!Signals!Doc
        /\ n \in {Reg!Signals!JoinMatch(m, p), Reg!Signals!ReconnectPlayer(m, p)}
        /\ \A k : Reg!PageReport(g, Reg!AdapterView(g, k), q)
                   = Reg!Signals!Reported(Reg!Signals!Parsed(Reg!Signals!Snapshot(k)), q)
    BY <1>12 DEF Reg!AdapterDoc, Reg!AdapterJoin, Reg!AdapterReconnect, Reg!PageReport,
         Reg!AdapterView
  <2>2. \A r \in Player \ Elements(m.players) : m.progressByPlayer[r] = 0
    BY <1>12 DEF OnlyPlayersProgress
  <2> QED
    BY <2>1, <2>2, SignalsReports
<1>13. CASE g = "spot-the-difference-race"
  <2>1. /\ m \in Reg!Spotting!Doc
        /\ n \in {Reg!Spotting!JoinMatch(m, p), Reg!Spotting!ReconnectPlayer(m, p)}
        /\ \A k : Reg!PageReport(g, Reg!AdapterView(g, k), q)
                   = Reg!Spotting!Reported(Reg!Spotting!Parsed(Reg!Spotting!Snapshot(k)), q)
    BY <1>13 DEF Reg!AdapterDoc, Reg!AdapterJoin, Reg!AdapterReconnect, Reg!PageReport,
         Reg!AdapterView
  <2> QED
    BY <2>1, SpottingReports
<1>14. CASE g = "tap-beat-battle"
  <2>1. /\ m \in Reg!Beats!Doc
        /\ n \in {Reg!Beats!JoinMatch(m, p), Reg!Beats!ReconnectPlayer(m, p)}
        /\ \A k : Reg!PageReport(g, Reg!AdapterView(g, k), q)
                   = Reg!Beats!Reported(Reg!Beats!Parsed(Reg!Beats!Snapshot(k)), q)
    BY <1>14 DEF Reg!AdapterDoc, Reg!AdapterJoin, Reg!AdapterReconnect, Reg!PageReport,
         Reg!AdapterView
  <2>2. OnlyPlayersScore(m)
    BY <1>14 DEF Kept, GamesOfRounds
  <2> QED
    BY <2>1, <2>2, BeatsReports
<1> QED
  BY <1>1, <1>2, <1>3, <1>4, <1>5, <1>6, <1>7, <1>8,
     <1>9, <1>10, <1>11, <1>12, <1>13, <1>14 DEF Reg!GameId

\* The pages' states and reports are those of the registry.
ReportsAreUsed ==
  \A g \in Reg!GameId :
    /\ \A m : StateView(g, m) = Reg!AdapterView(g, m)
    /\ \A v, p : ReportOf(g, v, p) = Reg!PageReport(g, v, p)

\* The registry's adapters keep the documents that are reported once.
LEMMA RegistryKeepsReported ==
  ASSUME None \notin {"right", "wrong"}, RegistryIsUsed, PagesAreUsed, BoardsFit
  PROVE  AdaptersStand(ReportedDocuments)
<1> SUFFICES ASSUME NEW s \in Setups
             PROVE  AdapterStands(ReportedDocuments, s.game)
  BY DEF AdaptersStand
<1> DEFINE g == s.game
<1>1. g \in Reg!GameId
  BY DEF RegistryIsUsed
<1>2. MatchDoc(g) = Reg!AdapterDoc(g)
  BY <1>1 DEF PagesAreUsed
<1>3. AdapterStands(KeptDocuments, g)
  BY RegistryLetsStand DEF AdaptersStand
<1> HIDE DEF g
<1>4. ReportedDocuments[g] = {m \in KeptDocuments[g] : OnlyPlayersProgress(g, m)}
  BY <1>1 DEF ReportedDocuments
<1>5. \A m \in KeptDocuments[g] : m \in Reg!AdapterDoc(g)
  BY <1>1, <1>2 DEF KeptDocuments, Documents
<1>6. ASSUME NEW p \in Player
      PROVE  OnlyPlayersProgress(g, CreateMatch(g, p))
  <2>1. CreateMatch(g, p) = Reg!AdapterCreate(g, p)
    BY <1>1 DEF RegistryIsUsed
  <2>2. CASE g = "puzzle-race-grid"
    BY <2>1, <2>2 DEF OnlyPlayersProgress, Reg!AdapterCreate, Reg!Grid!Created,
         Reg!Grid!AllZero
  <2>3. CASE g = "signal-scramble"
    BY <2>1, <2>3 DEF OnlyPlayersProgress, Reg!AdapterCreate, Reg!Signals!Created,
         Reg!Signals!AllZero
  <2> QED
    BY <2>2, <2>3 DEF OnlyPlayersProgress
<1>7. ASSUME NEW m \in ReportedDocuments[g]
      PROVE  /\ OnlyPlayersProgress(g, StateObserved(g, m))
             /\ OnlyPlayersProgress(g, Elapsed(g, m))
  <2>1. /\ StateObserved(g, m) = Reg!AdapterObserved(g, m)
        /\ Elapsed(g, m) = Reg!AdapterElapsed(g, m)
    BY <1>1 DEF RegistryIsUsed
  <2>2. CASE g = "spot-the-difference-race"
    BY <2>2 DEF OnlyPlayersProgress
  <2> QED
    BY <1>4, <2>1, <2>2 DEF Reg!AdapterObserved, Reg!AdapterElapsed
<1>8. ASSUME NEW m \in ReportedDocuments[g], NEW p \in Player
      PROVE  /\ OnlyPlayersProgress(g, JoinGame(g, m, p))
             /\ OnlyPlayersProgress(g, RejoinGame(g, m, p))
             /\ p \in Elements(m.players) => \A seq, move :
                  OnlyPlayersProgress(g, HandlePlayerAction(g, m, p, seq, move))
  <2>1. /\ JoinGame(g, m, p) = Reg!AdapterJoin(g, m, p)
        /\ RejoinGame(g, m, p) = Reg!AdapterReconnect(g, m, p)
        /\ \A seq, move : HandlePlayerAction(g, m, p, seq, move)
                             = Reg!AdapterAction(g, m, p, seq, move)
    BY <1>1 DEF RegistryIsUsed
  <2>2. m \in Reg!AdapterDoc(g) /\ OnlyPlayersProgress(g, m)
    BY <1>4, <1>5
  <2>3. CASE g = "puzzle-race-grid"
    <3>1. m \in Reg!Grid!Doc
      BY <2>2, <2>3 DEF Reg!AdapterDoc
    <3> QED
      BY <2>1, <2>2, <2>3, <3>1, GridProgress
         DEF Reg!AdapterJoin, Reg!AdapterReconnect, Reg!AdapterAction
  <2>4. CASE g = "signal-scramble"
    <3>1. m \in Reg!Signals!Doc
      BY <2>2, <2>4 DEF Reg!AdapterDoc
    <3> QED
      BY <2>1, <2>2, <2>4, <3>1, SignalsProgress
         DEF Reg!AdapterJoin, Reg!AdapterReconnect, Reg!AdapterAction
  <2> QED
    BY <2>3, <2>4 DEF OnlyPlayersProgress
<1>9. AdapterStands(ReportedDocuments, g)
  BY <1>3, <1>4, <1>6, <1>7, <1>8 DEF AdapterStands
<1> QED
  BY <1>9 DEF g

\* The registry's adapters report a match under ids that stay.
LEMMA RegistryReportsOnce ==
  ASSUME RegistryIsUsed, PagesAreUsed, ReportsAreUsed
  PROVE  AdaptersReport(ReportedDocuments)
<1> SUFFICES ASSUME NEW s \in Setups, s.game # "memory-match-duel"
             PROVE  AdapterReports(ReportedDocuments, s.game)
  BY DEF AdaptersReport
<1> DEFINE g == s.game
<1>1. g \in Reg!GameId /\ g # "memory-match-duel"
  BY DEF RegistryIsUsed
<1>2. /\ MatchDoc(g) = Reg!AdapterDoc(g)
      /\ \A v, players, p : OfferedMoves(g, v, players, p) = Reg!PageOffers(g, v, players, p)
  BY <1>1 DEF PagesAreUsed
<1>3. \A p \in Player :
        /\ CreateMatch(g, p) = Reg!AdapterCreate(g, p)
        /\ \A m : /\ JoinGame(g, m, p) = Reg!AdapterJoin(g, m, p)
                  /\ RejoinGame(g, m, p) = Reg!AdapterReconnect(g, m, p)
                  /\ \A seq, move : HandlePlayerAction(g, m, p, seq, move)
                                       = Reg!AdapterAction(g, m, p, seq, move)
  BY <1>1 DEF RegistryIsUsed
<1>4. \A m : /\ StateObserved(g, m) = Reg!AdapterObserved(g, m)
             /\ Elapsed(g, m) = Reg!AdapterElapsed(g, m)
  BY <1>1 DEF RegistryIsUsed
<1>5. /\ \A m : StateView(g, m) = Reg!AdapterView(g, m)
      /\ \A m, q : ReportId(g, m, q) = Reg!PageReport(g, Reg!AdapterView(g, m), q).report_id
  BY <1>1 DEF ReportsAreUsed, ReportId
<1> HIDE DEF g
<1>6. \A m \in ReportedDocuments[g] :
        m \in Reg!AdapterDoc(g) /\ Kept(g, m) /\ OnlyPlayersProgress(g, m)
  BY <1>1, <1>2 DEF ReportedDocuments, KeptDocuments, Documents
<1>7. \A p \in Player : ~CreateMatch(g, p).isCompleted
  BY <1>1, <1>3, RegistryBegins
<1>8. \A m : StateView(g, m).isCompleted = m.isCompleted
  BY <1>1, <1>5, RegistryShows
<1>9. ASSUME NEW m \in ReportedDocuments[g], NEW p \in Player,
             NEW n \in {JoinGame(g, m, p), RejoinGame(g, m, p)}
      PROVE  n.isCompleted = m.isCompleted /\ SameReports(g, m, n)
  <2>1. /\ n.isCompleted = m.isCompleted
        /\ \A q \in Player : ReportId(g, n, q) = ReportId(g, m, q)
    BY <1>1, <1>3, <1>5, <1>6, RegistryReports
  <2> QED
    BY <2>1 DEF SameReports
<1>10. \A m \in ReportedDocuments[g], p \in Player :
         SameReports(g, m, JoinGame(g, m, p)) /\ SameReports(g, m, RejoinGame(g, m, p))
  BY <1>9
<1>11. ASSUME g = "spot-the-difference-race" PROVE AdapterReports(ReportedDocuments, g)
  <2>1. ASSUME NEW m \in ReportedDocuments[g], NEW p \in Player, NEW seq, NEW move
        PROVE  SameReports(g, m, HandlePlayerAction(g, m, p, seq, move))
    <3>1. m \in Reg!Spotting!Doc
      BY <1>6, <1>11 DEF Reg!AdapterDoc
    <3>2. HandlePlayerAction(g, m, p, seq, move) = Reg!Spotting!Played(m, p, seq, move)
      BY <1>3, <1>11 DEF Reg!AdapterAction
    <3>3. \A k, q : ReportId(g, k, q)
            = Reg!Spotting!Reported(Reg!Spotting!Parsed(Reg!Spotting!Snapshot(k)), q).report_id
      BY <1>5, <1>11 DEF Reg!PageReport, Reg!AdapterView
    <3> QED
      BY <3>1, <3>2, <3>3, SpottingIsOver DEF SameReports
  <2>2. ASSUME NEW m \in ReportedDocuments[g]
        PROVE  SameReports(g, m, StateObserved(g, m)) /\ SameReports(g, m, Elapsed(g, m))
    <3>1. m \in Reg!Spotting!Doc
      BY <1>6, <1>11 DEF Reg!AdapterDoc
    <3>2. /\ StateObserved(g, m) = Reg!Spotting!Observed(m)
          /\ Elapsed(g, m) = Reg!Spotting!DeadlinePasses(m)
      BY <1>4, <1>11 DEF Reg!AdapterObserved, Reg!AdapterElapsed
    <3>3. \A k, q : ReportId(g, k, q)
            = Reg!Spotting!Reported(Reg!Spotting!Parsed(Reg!Spotting!Snapshot(k)), q).report_id
      BY <1>5, <1>11 DEF Reg!PageReport, Reg!AdapterView
    <3> QED
      BY <3>1, <3>2, <3>3, SpottingIsOver DEF SameReports
  <2> QED
    BY <1>7, <1>8, <1>10, <2>1, <2>2 DEF AdapterReports
<1>12. ASSUME g # "spot-the-difference-race" PROVE AdapterReports(ReportedDocuments, g)
  <2>1. \A m : StateObserved(g, m) = m /\ Elapsed(g, m) = m
    BY <1>4, <1>12 DEF Reg!AdapterObserved, Reg!AdapterElapsed
  <2>2. \A v, players, p : v = None \/ v.isCompleted => OfferedMoves(g, v, players, p) = {}
    BY <1>1, <1>2, RegistryFallsSilent
  <2>3. EndsByMove(ReportedDocuments, g)
    BY <1>9, <2>1, <2>2 DEF EndsByMove
  <2>4. \A m : SameReports(g, m, m)
    BY DEF SameReports
  <2> QED
    BY <1>7, <1>8, <1>10, <2>1, <2>3, <2>4 DEF AdapterReports
<1>13. AdapterReports(ReportedDocuments, g)
  BY <1>11, <1>12
<1> QED
  BY <1>13 DEF g

\* Whichever of the platform's multiplayer games is played on its pages, with the memory driver
\* and by any passengers: a page reports the match under one id, however often it is told that
\* the match is over and whoever joins, leaves and comes back meanwhile, so the platform
\* credits it once.  (memory-match-duel is the exception that another run finds.)
THEOREM MatchesAreReportedOnce ==
  ASSUME None \notin {"right", "wrong"}, RegistryIsUsed, PagesAreUsed, ReportsAreUsed, BoardsFit,
         PagesInMemory
  PROVE  Spec => []RewardedOnceElsewhere
BY RegistryKeepsReported, RegistryReportsOnce, RegistryLetsStand, RegistryIsFit, RegistryIsTyped,
   ReportsStand

-----------------------------------------------------------------------------
(* Pages.  A page that has the match as it is offers what the adapter      *)
(* takes: game by game, and then with what the registry's matches keep.    *)

\* The page of p has the match m as it is, and the match is under way.
Shows(m, v, players, p) ==
  /\ ~m.isCompleted /\ Len(m.players) >= 2 /\ v # None /\ None \notin Player
  /\ players # None /\ p \in Elements(players) /\ p \in Player

\* Being heard of is no change of the position, and another value of a field is.
LEMMA Positions ==
  ASSUME NEW m
  PROVE  /\ \A p, seq : Position([m EXCEPT !.lastSeqByPlayer[p] = seq]) = Position(m)
         /\ \A k, x : Position(k) = Position(m) => Position([k EXCEPT !.revision = x]) = Position(m)
         /\ \A n, f : f \in DOMAIN m \ {"lastSeqByPlayer", "revision"} /\ n[f] # m[f]
                        => Position(n) # Position(m)
<1>1. ASSUME NEW n, NEW f \in DOMAIN m \ {"lastSeqByPlayer", "revision"}, n[f] # m[f],
             Position(n) = Position(m)
      PROVE  FALSE
  <2>1. /\ DOMAIN Position(m) = DOMAIN m \ {"lastSeqByPlayer", "revision"}
        /\ DOMAIN Position(n) = DOMAIN n \ {"lastSeqByPlayer", "revision"}
        /\ Position(m)[f] = m[f]
    BY DEF Position
  <2>2. Position(n)[f] = n[f]
    BY <1>1, <2>1 DEF Position
  <2> QED
    BY <1>1, <2>1, <2>2
<1>2. ASSUME NEW p, NEW seq
      PROVE  Position([m EXCEPT !.lastSeqByPlayer[p] = seq]) = Position(m)
  BY DEF Position
<1>3. ASSUME NEW k, NEW x, Position(k) = Position(m)
      PROVE  Position([k EXCEPT !.revision = x]) = Position(m)
  <2>1. Position([k EXCEPT !.revision = x]) = Position(k)
    BY DEF Position
  <2> QED
    BY <1>3, <2>1
<1> QED
  BY <1>1, <1>2, <1>3

\* skyline-defense-lite: its page offers what the adapter takes.
LEMMA SkylineAgrees ==
  ASSUME NEW m \in Reg!Skyline!Doc, NEW players, NEW p, NEW move \in Reg!Skyline!Moves,
         Shows(m, Reg!Skyline!Parsed(Reg!Skyline!Snapshot(m)), players, p)
  PROVE  LET n == Reg!Skyline!Played(m, p, m.lastSeqByPlayer[p] + 1, move)
             v == Reg!Skyline!Parsed(Reg!Skyline!Snapshot(m))
         IN move \in Reg!Skyline!Offered(v, players, p) <=> Position(n) # Position(m)
<1> DEFINE h == Reg!Skyline!Heard(m, p, m.lastSeqByPlayer[p] + 1)
           n == Reg!Skyline!Played(m, p, m.lastSeqByPlayer[p] + 1, move)
           takes == ~(Reg!Skyline!NotToMove(m, p) \/ m.owner[move.nodeId] # None)
<1>1. move \in Reg!Skyline!Offered(Reg!Skyline!Parsed(Reg!Skyline!Snapshot(m)), players, p)
     <=> takes
  BY DEF Shows, Elements, Reg!Skyline!Offered, Reg!Skyline!OnTurn, Reg!Skyline!NotToMove,
       Reg!Skyline!Connected, Reg!Skyline!Seated, Reg!Skyline!Parsed,
       Reg!Skyline!Snapshot
<1>2. n = IF takes THEN Reg!Skyline!Deployed(h, p, move.nodeId, move.defenseType) ELSE h
  <2>1. m.lastSeqByPlayer[p] \in Int
    BY DEF Shows, Reg!Skyline!Doc
  <2> QED
    BY <2>1 DEF Reg!Skyline!Played, Reg!Skyline!Stale
<1>3. Reg!Skyline!Deployed(h, p, move.nodeId, move.defenseType).owner
        = [m.owner EXCEPT ![move.nodeId] = p]
  BY DEF Reg!Skyline!Doc, Reg!Skyline!Heard, Reg!Skyline!Deployed
<1>4. /\ takes => n.owner[move.nodeId] # m.owner[move.nodeId]
      /\ "owner" \in DOMAIN m \ {"lastSeqByPlayer", "revision"}
  BY <1>2, <1>3 DEF Shows, Reg!Skyline!Doc, Reg!Skyline!Moves
<1>5. Position(h) = Position(m)
  BY Positions DEF Reg!Skyline!Heard
<1> HIDE DEF n, h, takes
<1>6. takes <=> Position(n) # Position(m)
  BY <1>2, <1>4, <1>5, Positions
<1> QED
  BY <1>1, <1>6 DEF n

\* seat-map-strategy: its page offers what the adapter takes.
LEMMA SeatsAgrees ==
  ASSUME NEW m \in Reg!Seats!Doc, NEW players, NEW p, NEW move \in Reg!Seats!Moves,
         Shows(m, Reg!Seats!Parsed(Reg!Seats!Snapshot(m)), players, p)
  PROVE  LET n == Reg!Seats!Played(m, p, m.lastSeqByPlayer[p] + 1, move)
             v == Reg!Seats!Parsed(Reg!Seats!Snapshot(m))
         IN move \in Reg!Seats!Offered(v, players, p) <=> Position(n) # Position(m)
<1> DEFINE h == Reg!Seats!Heard(m, p, m.lastSeqByPlayer[p] + 1)
           n == Reg!Seats!Played(m, p, m.lastSeqByPlayer[p] + 1, move)
           takes == ~(Reg!Seats!NotToMove(m, p) \/ m.seats[move] # None)
<1>1. move \in Reg!Seats!Offered(Reg!Seats!Parsed(Reg!Seats!Snapshot(m)), players, p) <=> takes
  BY DEF Shows, Elements, Reg!Seats!Offered, Reg!Seats!OnTurn, Reg!Seats!NotToMove,
       Reg!Seats!Connected, Reg!Seats!Seated, Reg!Seats!Parsed, Reg!Seats!Snapshot
<1>2. n = IF takes THEN Reg!Seats!Claimed(h, p, move) ELSE h
  <2>1. m.lastSeqByPlayer[p] \in Int
    BY DEF Shows, Reg!Seats!Doc
  <2> QED
    BY <2>1 DEF Reg!Seats!Played, Reg!Seats!Stale
<1>3. Reg!Seats!Claimed(h, p, move).seats = [m.seats EXCEPT ![move] = p]
  BY DEF Reg!Seats!Doc, Reg!Seats!Heard, Reg!Seats!Claimed
<1>4. /\ takes => n.seats[move] # m.seats[move]
      /\ "seats" \in DOMAIN m \ {"lastSeqByPlayer", "revision"}
  BY <1>2, <1>3 DEF Shows, Reg!Seats!Doc, Reg!Seats!Moves
<1>5. Position(h) = Position(m)
  BY Positions DEF Reg!Seats!Heard
<1> HIDE DEF n, h, takes
<1>6. takes <=> Position(n) # Position(m)
  BY <1>2, <1>4, <1>5, Positions
<1> QED
  BY <1>1, <1>6 DEF n

\* route-builder-duel: its page offers what the adapter takes.
LEMMA RoutesAgrees ==
  ASSUME NEW m \in Reg!Routes!Doc, NEW players, NEW p, NEW move \in Reg!Routes!Moves,
         Shows(m, Reg!Routes!Parsed(Reg!Routes!Snapshot(m)), players, p)
  PROVE  LET n == Reg!Routes!Played(m, p, m.lastSeqByPlayer[p] + 1, move)
             v == Reg!Routes!Parsed(Reg!Routes!Snapshot(m))
         IN move \in Reg!Routes!Offered(v, players, p) <=> Position(n) # Position(m)
<1> DEFINE h == Reg!Routes!Heard(m, p, m.lastSeqByPlayer[p] + 1)
           n == Reg!Routes!Played(m, p, m.lastSeqByPlayer[p] + 1, move)
           takes == ~(Reg!Routes!NotToMove(m, p) \/ m.legs[move] # None)
<1>1. move \in Reg!Routes!Offered(Reg!Routes!Parsed(Reg!Routes!Snapshot(m)), players, p) <=> takes
  BY DEF Shows, Elements, Reg!Routes!Offered, Reg!Routes!OnTurn, Reg!Routes!NotToMove,
       Reg!Routes!Connected, Reg!Routes!Seated, Reg!Routes!Parsed, Reg!Routes!Snapshot
<1>2. n = IF takes THEN Reg!Routes!Selected(h, p, move) ELSE h
  <2>1. m.lastSeqByPlayer[p] \in Int
    BY DEF Shows, Reg!Routes!Doc
  <2> QED
    BY <2>1 DEF Reg!Routes!Played, Reg!Routes!Stale
<1>3. Reg!Routes!Selected(h, p, move).legs = [m.legs EXCEPT ![move] = p]
  BY DEF Reg!Routes!Doc, Reg!Routes!Heard, Reg!Routes!Selected
<1>4. /\ takes => n.legs[move] # m.legs[move]
      /\ "legs" \in DOMAIN m \ {"lastSeqByPlayer", "revision"}
  BY <1>2, <1>3 DEF Shows, Reg!Routes!Doc, Reg!Routes!Moves
<1>5. Position(h) = Position(m)
  BY Positions DEF Reg!Routes!Heard
<1> HIDE DEF n, h, takes
<1>6. takes <=> Position(n) # Position(m)
  BY <1>2, <1>4, <1>5, Positions
<1> QED
  BY <1>1, <1>6 DEF n

\* mini-gomoku: its page offers what the adapter takes.
LEMMA GomokuAgrees ==
  ASSUME NEW m \in Reg!Gomoku!Doc, NEW players, NEW p, NEW move \in Reg!Gomoku!Moves,
         Shows(m, Reg!Gomoku!Parsed(Reg!Gomoku!Snapshot(m)), players, p),
         m.playerMarks[p] # None
  PROVE  LET n == Reg!Gomoku!Played(m, p, m.lastSeqByPlayer[p] + 1, move)
             v == Reg!Gomoku!Parsed(Reg!Gomoku!Snapshot(m))
         IN move \in Reg!Gomoku!Offered(v, players, p) <=> Position(n) # Position(m)
<1> DEFINE h == Reg!Gomoku!Heard(m, p, m.lastSeqByPlayer[p] + 1)
           n == Reg!Gomoku!Played(m, p, m.lastSeqByPlayer[p] + 1, move)
           takes == ~(Reg!Gomoku!NotToMove(m, p) \/ m.playerMarks[p] = None
                      \/ m.board[move] # None)
<1>1. move \in Reg!Gomoku!Offered(Reg!Gomoku!Parsed(Reg!Gomoku!Snapshot(m)), players, p) <=> takes
  BY DEF Shows, Elements, Reg!Gomoku!Offered, Reg!Gomoku!OnTurn, Reg!Gomoku!NotToMove,
       Reg!Gomoku!Connected, Reg!Gomoku!Seated, Reg!Gomoku!Parsed, Reg!Gomoku!Snapshot
<1>2. n = IF takes THEN Reg!Gomoku!Placed(h, p, move) ELSE h
  <2>1. m.lastSeqByPlayer[p] \in Int
    BY DEF Shows, Reg!Gomoku!Doc
  <2> QED
    BY <2>1 DEF Reg!Gomoku!Played, Reg!Gomoku!Stale
<1>3. Reg!Gomoku!Placed(h, p, move).board = [m.board EXCEPT ![move] = m.playerMarks[p]]
  BY DEF Reg!Gomoku!Doc, Reg!Gomoku!Heard, Reg!Gomoku!Placed
<1>4. /\ takes => n.board[move] # m.board[move]
      /\ "board" \in DOMAIN m \ {"lastSeqByPlayer", "revision"}
  BY <1>2, <1>3 DEF Shows, Reg!Gomoku!Doc, Reg!Gomoku!Moves
<1>5. Position(h) = Position(m)
  BY Positions DEF Reg!Gomoku!Heard
<1> HIDE DEF n, h, takes
<1>6. takes <=> Position(n) # Position(m)
  BY <1>2, <1>4, <1>5, Positions
<1> QED
  BY <1>1, <1>6 DEF n

\* crew-coordination: its page offers what the adapter takes.
LEMMA CrewAgrees ==
  ASSUME NEW m \in Reg!Crew!Doc, NEW players, NEW p, NEW move \in Reg!Crew!Moves,
         Shows(m, Reg!Crew!Parsed(Reg!Crew!Snapshot(m)), players, p)
  PROVE  LET n == Reg!Crew!Played(m, p, m.lastSeqByPlayer[p] + 1, move)
             v == Reg!Crew!Parsed(Reg!Crew!Snapshot(m))
         IN move \in Reg!Crew!Offered(v, players, p) <=> Position(n) # Position(m)
<1> DEFINE h == Reg!Crew!Heard(m, p, m.lastSeqByPlayer[p] + 1)
           n == Reg!Crew!Played(m, p, m.lastSeqByPlayer[p] + 1, move)
           takes == ~(Reg!Crew!NotToMove(m, p) \/ m.tasks[move] # None)
<1>1. move \in Reg!Crew!Offered(Reg!Crew!Parsed(Reg!Crew!Snapshot(m)), players, p) <=> takes
  BY DEF Shows, Elements, Reg!Crew!Offered, Reg!Crew!OnTurn, Reg!Crew!NotToMove,
       Reg!Crew!Connected, Reg!Crew!Seated, Reg!Crew!Parsed, Reg!Crew!Snapshot
<1>2. n = IF takes THEN Reg!Crew!TaskClaimed(h, p, move) ELSE h
  <2>1. m.lastSeqByPlayer[p] \in Int
    BY DEF Shows, Reg!Crew!Doc
  <2> QED
    BY <2>1 DEF Reg!Crew!Played, Reg!Crew!Stale
<1>3. Reg!Crew!TaskClaimed(h, p, move).tasks = [m.tasks EXCEPT ![move] = p]
  BY DEF Reg!Crew!Doc, Reg!Crew!Heard, Reg!Crew!TaskClaimed, Reg!Crew!MissionEnded
<1>4. /\ takes => n.tasks[move] # m.tasks[move]
      /\ "tasks" \in DOMAIN m \ {"lastSeqByPlayer", "revision"}
  BY <1>2, <1>3 DEF Shows, Reg!Crew!Doc, Reg!Crew!Moves
<1>5. Position(h) = Position(m)
  BY Positions DEF Reg!Crew!Heard
<1> HIDE DEF n, h, takes
<1>6. takes <=> Position(n) # Position(m)
  BY <1>2, <1>4, <1>5, Positions
<1> QED
  BY <1>1, <1>6 DEF n

\* cabin-card-clash: its page offers what the adapter takes.
LEMMA CardsAgrees ==
  ASSUME NEW m \in Reg!Cards!Doc, NEW players, NEW p, NEW move \in Reg!Cards!Moves,
         Shows(m, Reg!Cards!Parsed(Reg!Cards!Snapshot(m)), players, p)
  PROVE  LET n == Reg!Cards!Played(m, p, m.lastSeqByPlayer[p] + 1, move)
             v == Reg!Cards!Parsed(Reg!Cards!Snapshot(m))
         IN move \in Reg!Cards!Offered(v, players, p) <=> Position(n) # Position(m)
<1> DEFINE h == Reg!Cards!Heard(m, p, m.lastSeqByPlayer[p] + 1)
           n == Reg!Cards!Played(m, p, m.lastSeqByPlayer[p] + 1, move)
           takes == ~(Reg!Cards!NotToMove(m, p) \/ m.handsByPlayer[p] = None
                      \/ move \in m.playedCardIdsByPlayer[p])
<1>1. move \in Reg!Cards!Offered(Reg!Cards!Parsed(Reg!Cards!Snapshot(m)), players, p) <=> takes
  BY DEF Shows, Elements, Reg!Cards!Offered, Reg!Cards!OnTurn, Reg!Cards!NotToMove,
       Reg!Cards!Connected, Reg!Cards!Seated, Reg!Cards!Parsed, Reg!Cards!Snapshot
<1>2. n = IF takes THEN Reg!Cards!CardPlayed(h, p, move) ELSE h
  <2>1. m.lastSeqByPlayer[p] \in Int
    BY DEF Shows, Reg!Cards!Doc
  <2> QED
    BY <2>1 DEF Reg!Cards!Played, Reg!Cards!Stale
<1>3. Reg!Cards!CardPlayed(h, p, move).playedCardIdsByPlayer
        = [m.playedCardIdsByPlayer EXCEPT ![p] = m.playedCardIdsByPlayer[p] \cup {move}]
  BY DEF Reg!Cards!Doc, Reg!Cards!Heard, Reg!Cards!CardPlayed, Reg!Cards!RoundResolved
<1>4. /\ takes => n.playedCardIdsByPlayer[p] # m.playedCardIdsByPlayer[p]
      /\ "playedCardIdsByPlayer" \in DOMAIN m \ {"lastSeqByPlayer", "revision"}
  BY <1>2, <1>3 DEF Shows, Reg!Cards!Doc, Reg!Cards!Moves
<1>5. Position(h) = Position(m)
  BY Positions DEF Reg!Cards!Heard
<1> HIDE DEF n, h, takes
<1>6. takes <=> Position(n) # Position(m)
  BY <1>2, <1>4, <1>5, Positions
<1> QED
  BY <1>1, <1>6 DEF n

\* quiz-duel: its page offers whatever the adapter takes.
LEMMA QuizAgrees ==
  ASSUME NEW m \in Reg!Quiz!Doc, NEW players, NEW p, NEW move \in Reg!Quiz!Moves,
         Shows(m, Reg!Quiz!Parsed(Reg!Quiz!Snapshot(m)), players, p)
  PROVE  LET n == Reg!Quiz!Played(m, p, m.lastSeqByPlayer[p] + 1, move)
             v == Reg!Quiz!Parsed(Reg!Quiz!Snapshot(m))
         IN Position(n) # Position(m) => move \in Reg!Quiz!Offered(v, players, p)
<1> DEFINE h == Reg!Quiz!Heard(m, p, m.lastSeqByPlayer[p] + 1)
           n == Reg!Quiz!Played(m, p, m.lastSeqByPlayer[p] + 1, move)
           takes == m.answersByPlayer[p] = None
<1>1. takes => move \in Reg!Quiz!Offered(Reg!Quiz!Parsed(Reg!Quiz!Snapshot(m)), players, p)
  BY DEF Shows, Elements, Reg!Quiz!Offered, Reg!Quiz!Connected, Reg!Quiz!Seated,
       Reg!Quiz!Parsed, Reg!Quiz!Snapshot, Reg!Quiz!Game!Snapshot, Reg!Quiz!Game!Parsed
<1>2. takes \/ n = h
  <2>1. m.lastSeqByPlayer[p] \in Int
    BY DEF Shows, Reg!Quiz!Doc, Reg!Quiz!Game!Doc
  <2> QED
    BY <2>1 DEF Shows, Reg!Quiz!Played, Reg!Quiz!Game!Played, Reg!Quiz!Game!Stale,
         Reg!Quiz!Game!Heard, Reg!Quiz!Heard
<1>3. Position(h) = Position(m)
  BY Positions DEF Reg!Quiz!Heard
<1> HIDE DEF n, h, takes
<1> QED
  BY <1>1, <1>2, <1>3 DEF n

\* word-rally: its page offers whatever the adapter takes.
LEMMA WordsAgrees ==
  ASSUME NEW m \in Reg!Words!Doc, NEW players, NEW p, NEW move \in Reg!Words!Moves,
         Shows(m, Reg!Words!Parsed(Reg!Words!Snapshot(m)), players, p)
  PROVE  LET n == Reg!Words!Played(m, p, m.lastSeqByPlayer[p] + 1, move)
             v == Reg!Words!Parsed(Reg!Words!Snapshot(m))
         IN Position(n) # Position(m) => move \in Reg!Words!Offered(v, players, p)
<1> DEFINE h == Reg!Words!Heard(m, p, m.lastSeqByPlayer[p] + 1)
           n == Reg!Words!Played(m, p, m.lastSeqByPlayer[p] + 1, move)
           takes == m.answersByPlayer[p] = None
<1>1. takes => move \in Reg!Words!Offered(Reg!Words!Parsed(Reg!Words!Snapshot(m)), players, p)
  BY DEF Shows, Elements, Reg!Words!Offered, Reg!Words!Connected, Reg!Words!Seated,
       Reg!Words!Parsed, Reg!Words!Snapshot, Reg!Words!Game!Snapshot,
       Reg!Words!Game!Parsed
<1>2. takes \/ n = h
  <2>1. m.lastSeqByPlayer[p] \in Int
    BY DEF Shows, Reg!Words!Doc, Reg!Words!Game!Doc
  <2> QED
    BY <2>1 DEF Shows, Reg!Words!Played, Reg!Words!Game!Played, Reg!Words!Game!Stale,
         Reg!Words!Game!Heard, Reg!Words!Heard
<1>3. Position(h) = Position(m)
  BY Positions DEF Reg!Words!Heard
<1> HIDE DEF n, h, takes
<1> QED
  BY <1>1, <1>2, <1>3 DEF n

\* baggage-sort-showdown: its page offers whatever the adapter takes.
LEMMA BagsAgrees ==
  ASSUME NEW m \in Reg!Bags!Doc, NEW players, NEW p, NEW move \in Reg!Bags!Moves,
         Shows(m, Reg!Bags!Parsed(Reg!Bags!Snapshot(m)), players, p), None \notin Nat
  PROVE  LET n == Reg!Bags!Played(m, p, m.lastSeqByPlayer[p] + 1, move)
             v == Reg!Bags!Parsed(Reg!Bags!Snapshot(m))
         IN Position(n) # Position(m) => move \in Reg!Bags!Offered(v, players, p)
<1> DEFINE h == Reg!Bags!Heard(m, p, m.lastSeqByPlayer[p] + 1)
           n == Reg!Bags!Played(m, p, m.lastSeqByPlayer[p] + 1, move)
           takes == Reg!Bags!BagsLeft(m)
<1>1. takes => move \in Reg!Bags!Offered(Reg!Bags!Parsed(Reg!Bags!Snapshot(m)), players, p)
  BY DEF Shows, Elements, Reg!Bags!Offered, Reg!Bags!Connected, Reg!Bags!Seated,
       Reg!Bags!Parsed, Reg!Bags!Snapshot, Reg!Bags!BagsLeft, Reg!Bags!CurrentBag,
       Reg!Bags!Doc
<1>2. takes \/ n = h
  <2>1. m.lastSeqByPlayer[p] \in Int
    BY DEF Shows, Reg!Bags!Doc
  <2> QED
    BY <2>1 DEF Shows, Reg!Bags!Played, Reg!Bags!Stale
<1>3. Position(h) = Position(m)
  BY Positions DEF Reg!Bags!Heard
<1> HIDE DEF n, h, takes
<1> QED
  BY <1>1, <1>2, <1>3 DEF n

\* puzzle-race-grid: its page offers whatever the adapter takes.
LEMMA GridAgrees ==
  ASSUME NEW m \in Reg!Grid!Doc, NEW players, NEW p, NEW move \in Reg!Grid!Moves,
         Shows(m, Reg!Grid!Parsed(Reg!Grid!Snapshot(m)), players, p)
  PROVE  LET n == Reg!Grid!Played(m, p, m.lastSeqByPlayer[p] + 1, move)
             v == Reg!Grid!Parsed(Reg!Grid!Snapshot(m))
         IN Position(n) # Position(m) => move \in Reg!Grid!Offered(v, players, p)
<1> DEFINE h == Reg!Grid!Heard(m, p, m.lastSeqByPlayer[p] + 1)
           n == Reg!Grid!Played(m, p, m.lastSeqByPlayer[p] + 1, move)
           takes == move = Reg!Grid!Decoy \/ m.cells[move] = None
<1>1. takes => move \in Reg!Grid!Offered(Reg!Grid!Parsed(Reg!Grid!Snapshot(m)), players, p)
  BY DEF Shows, Elements, Reg!Grid!Offered, Reg!Grid!Connected, Reg!Grid!Seated,
       Reg!Grid!Parsed, Reg!Grid!Snapshot, Reg!Grid!Moves
<1>2. takes \/ n = h
  <2>1. m.lastSeqByPlayer[p] \in Int
    BY DEF Shows, Reg!Grid!Doc
  <2> QED
    BY <2>1 DEF Shows, Reg!Grid!Played, Reg!Grid!Stale
<1>3. Position(h) = Position(m)
  BY Positions DEF Reg!Grid!Heard
<1> HIDE DEF n, h, takes
<1> QED
  BY <1>1, <1>2, <1>3 DEF n

\* signal-scramble: its page offers whatever the adapter takes.
LEMMA SignalsAgrees ==
  ASSUME NEW m \in Reg!Signals!Doc, NEW players, NEW p, NEW move \in Reg!Signals!Moves,
         Shows(m, Reg!Signals!Parsed(Reg!Signals!Snapshot(m)), players, p)
  PROVE  LET n == Reg!Signals!Played(m, p, m.lastSeqByPlayer[p] + 1, move)
             v == Reg!Signals!Parsed(Reg!Signals!Snapshot(m))
         IN Position(n) # Position(m) => move \in Reg!Signals!Offered(v, players, p)
<1> DEFINE h == Reg!Signals!Heard(m, p, m.lastSeqByPlayer[p] + 1)
           n == Reg!Signals!Played(m, p, m.lastSeqByPlayer[p] + 1, move)
           takes == TRUE
<1>1. takes => move \in Reg!Signals!Offered(Reg!Signals!Parsed(Reg!Signals!Snapshot(m)), players, p)
  BY DEF Shows, Elements, Reg!Signals!Offered, Reg!Signals!Connected, Reg!Signals!Seated,
       Reg!Signals!Parsed, Reg!Signals!Snapshot
<1>2. takes \/ n = h
  <2>1. m.lastSeqByPlayer[p] \in Int
    BY DEF Shows, Reg!Signals!Doc
  <2> QED
    BY <2>1 DEF Shows, Reg!Signals!Played, Reg!Signals!Stale
<1>3. Position(h) = Position(m)
  BY Positions DEF Reg!Signals!Heard
<1> HIDE DEF n, h, takes
<1> QED
  BY <1>1, <1>2, <1>3 DEF n

\* tap-beat-battle: its page offers whatever the adapter takes.
LEMMA BeatsAgrees ==
  ASSUME NEW m \in Reg!Beats!Doc, NEW players, NEW p, NEW move \in Reg!Beats!Moves,
         Shows(m, Reg!Beats!Parsed(Reg!Beats!Snapshot(m)), players, p),
         p \in Elements(m.players)
  PROVE  LET n == Reg!Beats!Played(m, p, m.lastSeqByPlayer[p] + 1, move)
             v == Reg!Beats!Parsed(Reg!Beats!Snapshot(m))
         IN Position(n) # Position(m) => move \in Reg!Beats!Offered(v, players, p)
<1> DEFINE h == Reg!Beats!Heard(m, p, m.lastSeqByPlayer[p] + 1)
           n == Reg!Beats!Played(m, p, m.lastSeqByPlayer[p] + 1, move)
           takes == Reg!Beats!HasCue(m, p)
<1>1. takes => move \in Reg!Beats!Offered(Reg!Beats!Parsed(Reg!Beats!Snapshot(m)), players, p)
  BY DEF Shows, Elements, Reg!Beats!Offered, Reg!Beats!Connected, Reg!Beats!Seated,
       Reg!Beats!Parsed, Reg!Beats!Snapshot, Reg!Beats!PlayersOf
<1>2. takes \/ n = h
  <2>1. m.lastSeqByPlayer[p] \in Int
    BY DEF Shows, Reg!Beats!Doc
  <2> QED
    BY <2>1 DEF Shows, Reg!Beats!Played, Reg!Beats!Stale
<1>3. Position(h) = Position(m)
  BY Positions DEF Reg!Beats!Heard
<1> HIDE DEF n, h, takes
<1> QED
  BY <1>1, <1>2, <1>3 DEF n

\* Who is in a match of teams has a team, and the first two are different passengers.
TeamsDealt(m) ==
  /\ Len(m.players) >= 1
  /\ Len(m.players) >= 2 => m.players[1] # m.players[2]
  /\ \A q \in Elements(m.players) : m.playerTeams[q] # None

\* Everybody of the match has a mark.
MarksGiven(m) == \A q \in Elements(m.players) : m.playerMarks[q] # None

\* An open card is somebody's.
SelectionOwned(m) == m.selection = <<>> <=> m.selectionOwnerPlayerId = None

\* A match that nothing has ended is one that nothing ends by itself.
NotFinished(m) ==
  /\ ~m.isCompleted => Reg!Spotting!FoundSpots(m) # Spots /\ ~Reg!Spotting!Majority(m)
  /\ \A s \in Spots : m.foundSpots[s] \in Elements(m.players) \cup {None}

\* airline-trivia-teams: its page offers whatever the adapter takes.
LEMMA TriviaAgrees ==
  ASSUME NEW m \in Reg!Trivia!Doc, NEW players, NEW p, NEW move \in Reg!Trivia!Moves,
         Shows(m, Reg!Trivia!Parsed(Reg!Trivia!Snapshot(m)), players, p),
         TeamsDealt(m), IsFiniteSet(Player)
  PROVE  LET n == Reg!Trivia!Played(m, p, m.lastSeqByPlayer[p] + 1, move)
             v == Reg!Trivia!Parsed(Reg!Trivia!Snapshot(m))
         IN Position(n) # Position(m) => move \in Reg!Trivia!Offered(v, players, p)
<1> DEFINE h == Reg!Trivia!Heard(m, p, m.lastSeqByPlayer[p] + 1)
           n == Reg!Trivia!Played(m, p, m.lastSeqByPlayer[p] + 1, move)
           takes == m.answersByPlayer[p] = None
           S == {q \in Player : m.playerTeams[q] # None}
<1>1. IsFiniteSet(S) /\ Cardinality(S) >= 2
  <2>1. {m.players[1], m.players[2]} \subseteq S /\ m.players[1] # m.players[2]
    BY DEF Shows, TeamsDealt, Elements, Reg!Trivia!Doc
  <2>2. Cardinality({m.players[1], m.players[2]}) = 2
    <3> DEFINE a == m.players[1]
               b == m.players[2]
    <3> HIDE DEF a, b
    <3>1. Cardinality({a}) = 1 /\ IsFiniteSet({a}) /\ {a, b} = {a} \cup {b}
      BY FS_Singleton
    <3>2. Cardinality({a} \cup {b}) = IF b \in {a} THEN Cardinality({a}) ELSE Cardinality({a}) + 1
      BY <3>1, FS_AddElement
    <3>3. a # b
      BY <2>1 DEF a, b
    <3> QED
      BY <3>1, <3>2, <3>3 DEF a, b
  <2>3. IsFiniteSet(S)
    BY FS_Subset
  <2>4. Cardinality(S) \in Nat /\ Cardinality({m.players[1], m.players[2]}) <= Cardinality(S)
    BY <2>1, <2>3, FS_Subset, FS_CardinalityType
  <2> HIDE DEF S
  <2> QED
    BY <2>2, <2>3, <2>4
<1>2. takes => move \in Reg!Trivia!Offered(Reg!Trivia!Parsed(Reg!Trivia!Snapshot(m)), players, p)
  <2> DEFINE v == Reg!Trivia!Parsed(Reg!Trivia!Snapshot(m))
  <2>1. /\ v.playerTeams = m.playerTeams /\ v.answersByPlayer = m.answersByPlayer
        /\ v.isCompleted = m.isCompleted /\ v # None
        /\ Reg!Trivia!Connected(players, p)
    BY DEF Shows, Elements, Reg!Trivia!Connected, Reg!Trivia!Seated, Reg!Trivia!Parsed,
         Reg!Trivia!Snapshot
  <2>2. ~m.isCompleted
    BY DEF Shows
  <2> HIDE DEF v
  <2>3. {q \in Player : v.playerTeams[q] # None} = S
    BY <2>1
  <2> HIDE DEF S
  <2>4. Reg!Trivia!Cardinality(S) = Cardinality(S)
    BY DEF Reg!Trivia!Cardinality, Cardinality
  <2>5. takes => move \in Reg!Trivia!Offered(v, players, p)
    BY <1>1, <2>1, <2>2, <2>3, <2>4 DEF Reg!Trivia!Offered
  <2> QED
    BY <2>5 DEF v
<1>3. takes \/ n = h
  <2>1. m.lastSeqByPlayer[p] \in Int
    BY DEF Shows, Reg!Trivia!Doc
  <2>2. ~takes => Reg!Trivia!Game!Played(m, p, m.lastSeqByPlayer[p] + 1, move) = h
    BY <2>1 DEF Reg!Trivia!Game!Played, Reg!Trivia!Game!Stale, Reg!Trivia!Game!Heard,
         Reg!Trivia!Heard
  <2>3. h.scores = m.scores
    BY DEF Reg!Trivia!Doc, Reg!Trivia!Heard
  <2> QED
    BY <2>2, <2>3 DEF Reg!Trivia!Played
<1>4. Position(h) = Position(m)
  BY Positions DEF Reg!Trivia!Heard
<1> HIDE DEF n, h, takes
<1> QED
  BY <1>2, <1>3, <1>4 DEF n

\* memory-match-duel: its page offers what the adapter takes.
LEMMA MemoryAgrees ==
  ASSUME NEW m \in Reg!Memory!Doc, NEW players, NEW p, NEW move \in Reg!Memory!Moves,
         Shows(m, Reg!Memory!Parsed(Reg!Memory!Snapshot(m)), players, p),
         SelectionOwned(m)
  PROVE  LET n == Reg!Memory!Played(m, p, m.lastSeqByPlayer[p] + 1, move)
             v == Reg!Memory!Parsed(Reg!Memory!Snapshot(m))
         IN move \in Reg!Memory!Offered(v, players, p) <=> Position(n) # Position(m)
<1> DEFINE h == Reg!Memory!Heard(m, p, m.lastSeqByPlayer[p] + 1)
           n == Reg!Memory!Played(m, p, m.lastSeqByPlayer[p] + 1, move)
           takes == /\ m.currentTurnPlayerId = p /\ m.board[move] = "hidden"
                    /\ m.selectionOwnerPlayerId \in {None, p}
<1>1. move \in Reg!Memory!Offered(Reg!Memory!Parsed(Reg!Memory!Snapshot(m)), players, p) <=> takes
  BY DEF Shows, Elements, Reg!Memory!Offered, Reg!Memory!Connected,
       Reg!Memory!Seated, Reg!Memory!Parsed, Reg!Memory!Snapshot
<1>2. takes \/ n = Reg!Memory!Bumped(h)
  <2>1. m.lastSeqByPlayer[p] \in Int
    BY DEF Shows, Reg!Memory!Doc
  <2>2. /\ h.selection = m.selection /\ h.selectionOwnerPlayerId = m.selectionOwnerPlayerId
    BY DEF Reg!Memory!Doc, Reg!Memory!Heard
  <2> QED
    BY <2>1, <2>2 DEF Shows, SelectionOwned, Reg!Memory!Played, Reg!Memory!Stale,
         Reg!Memory!Flipped
<1>3. takes => n.selection # m.selection
  <2> DEFINE k == Reg!Memory!Flipped(h, p, move)
  <2>1. m.lastSeqByPlayer[p] \in Int
    BY DEF Shows, Reg!Memory!Doc
  <2>2. /\ h.selection = m.selection /\ h.selectionOwnerPlayerId = m.selectionOwnerPlayerId
        /\ "selection" \in DOMAIN h
    BY DEF Reg!Memory!Doc, Reg!Memory!Heard
  <2>3. ~Reg!Memory!Stale(m, p, m.lastSeqByPlayer[p] + 1) /\ ~m.isCompleted
    BY <2>1 DEF Shows, Reg!Memory!Stale
  <2>4. takes => n = Reg!Memory!Bumped(k)
    BY <2>3 DEF Reg!Memory!Played
  <2> HIDE DEF h
  <2>5. takes => k.selection # m.selection
    <3>1. CASE m.selection = <<>>
      <4>1. k.selection = <<move>>
        BY <2>2, <3>1 DEF Reg!Memory!Flipped
      <4> QED
        BY <3>1, <4>1
    <3>2. CASE m.selection # <<>>
      <4>1. takes => m.selectionOwnerPlayerId = p
        BY <3>2 DEF SelectionOwned
      <4>2. Reg!Memory!TurnResolved(h, p, h.selection[1], move).selection = <<>>
        BY <2>2 DEF Reg!Memory!TurnResolved
      <4> QED
        BY <2>2, <3>2, <4>1, <4>2 DEF Reg!Memory!Flipped
    <3> QED
      BY <3>1, <3>2
  <2>6. k.selection = Reg!Memory!Bumped(k).selection
    BY DEF Reg!Memory!Bumped
  <2> HIDE DEF n, k
  <2> QED
    BY <2>4, <2>5, <2>6
<1>4. Position(Reg!Memory!Bumped(h)) = Position(m)
  <2>1. Position(h) = Position(m)
    BY Positions DEF Reg!Memory!Heard
  <2> HIDE DEF h
  <2> QED
    BY <2>1, Positions DEF Reg!Memory!Bumped
<1>5. "selection" \in DOMAIN m \ {"lastSeqByPlayer", "revision"}
  BY DEF Reg!Memory!Doc
<1> HIDE DEF n, h, takes
<1>6. takes <=> Position(n) # Position(m)
  BY <1>2, <1>3, <1>4, <1>5, Positions
<1> QED
  BY <1>1, <1>6 DEF n

\* spot-the-difference-race: its page offers whatever the adapter takes before the deadline.
LEMMA SpottingAgrees ==
  ASSUME NEW m \in Reg!Spotting!Doc, NEW players, NEW p, NEW move \in Reg!Spotting!Moves,
         Shows(m, Reg!Spotting!Parsed(Reg!Spotting!Snapshot(m)), players, p),
         NotFinished(m), Reg!Spotting!Observed(m) = m
  PROVE  LET n == Reg!Spotting!Played(m, p, m.lastSeqByPlayer[p] + 1, move)
             v == Reg!Spotting!Parsed(Reg!Spotting!Snapshot(m))
         IN Position(n) # Position(m) => move \in Reg!Spotting!Offered(v, players, p)
<1> DEFINE h == Reg!Spotting!Heard(m, p, m.lastSeqByPlayer[p] + 1)
           n == Reg!Spotting!Played(m, p, m.lastSeqByPlayer[p] + 1, move)
           takes == m.foundSpots[move] = None
<1>1. takes => move \in Reg!Spotting!Offered(Reg!Spotting!Parsed(Reg!Spotting!Snapshot(m)), players, p)
  BY DEF Shows, Elements, Reg!Spotting!Offered, Reg!Spotting!Connected,
       Reg!Spotting!Seated, Reg!Spotting!Parsed, Reg!Spotting!Snapshot, Reg!Spotting!Moves
<1>2. takes \/ n = h
  <2>1. m.lastSeqByPlayer[p] \in Int
    BY DEF Shows, Reg!Spotting!Doc
  <2>2. /\ h.foundSpots = m.foundSpots /\ h.players = m.players
        /\ h.isCompleted = m.isCompleted /\ h.deadlinePassed = m.deadlinePassed
    BY DEF Reg!Spotting!Doc, Reg!Spotting!Heard
  <2>3. ~m.isCompleted /\ ~m.deadlinePassed
    BY DEF Shows, Reg!Spotting!Doc, Reg!Spotting!Observed, Reg!Spotting!CompletedIfExpired,
         Reg!Spotting!Completed
  <2>4. Reg!Spotting!CompletedIfExpired(h) = h
    BY <2>2, <2>3 DEF Reg!Spotting!CompletedIfExpired
  <2>5. Reg!Spotting!CompletedIfFinished(h) = h
    BY <2>2, <2>3 DEF NotFinished, Reg!Spotting!CompletedIfFinished, Reg!Spotting!FoundSpots,
         Reg!Spotting!Majority, Reg!Spotting!SpotsOf, Reg!Spotting!PlayersOf
  <2> HIDE DEF h
  <2>6. ~takes => Reg!Spotting!Claimed(h, p, move) = h
    BY <2>2 DEF Reg!Spotting!Claimed
  <2> QED
    BY <2>1, <2>2, <2>3, <2>4, <2>5, <2>6 DEF h, Reg!Spotting!Played, Reg!Spotting!Stale
<1>3. Position(h) = Position(m)
  BY Positions, ZenonT(30) DEF Reg!Spotting!Heard
<1> HIDE DEF n, h, takes
<1> QED
  BY <1>1, <1>2, <1>3 DEF n

\* null is none of what documents hold.
NullIsNothing ==
  /\ None \notin Player /\ None \notin Nat /\ None \notin Seq(Player)
  /\ None \notin {"right", "wrong"} /\ None \notin {"team-a", "team-b"} /\ None \notin {"X", "O"}
  /\ \A g \in Reg!GameId : \A m \in Reg!AdapterDoc(g) : Reg!AdapterView(g, m) # None

\* airline-trivia-teams: everybody of the match is given a team.
LEMMA TriviaDeals ==
  ASSUME None \notin {"team-a", "team-b"}, NEW p \in Player
  PROVE  /\ TeamsDealt(Reg!Trivia!Created(p))
         /\ \A m \in Reg!Trivia!Doc : TeamsDealt(m) =>
              /\ TeamsDealt(Reg!Trivia!JoinMatch(m, p))
              /\ TeamsDealt(Reg!Trivia!ReconnectPlayer(m, p))
              /\ \A seq, move : TeamsDealt(Reg!Trivia!Played(m, p, seq, move))
<1>1. TeamsDealt(Reg!Trivia!Created(p))
  BY DEF TeamsDealt, Elements, Reg!Trivia!Created
<1>2. ASSUME NEW m \in Reg!Trivia!Doc, TeamsDealt(m),
             NEW n \in {Reg!Trivia!JoinMatch(m, p), Reg!Trivia!ReconnectPlayer(m, p)}
      PROVE  TeamsDealt(n)
  <2>1. \A i : Reg!Trivia!AssignedTeam(i) # None
    BY DEF Reg!Trivia!AssignedTeam
  <2>2. Seats(m, n, p)
    <3>1. IsDocument(m)
      BY DEF IsDocument, Reg!Trivia!Doc
    <3> QED
      BY <1>2, <3>1, TriviaKeepsSeats
  <2>3. /\ n.players = WithSeat(m.players, p)
        /\ \A q \in Player \ {p} : n.playerTeams[q] = m.playerTeams[q]
        /\ n.playerTeams[p] # None \/ n = m
    <3>1. CASE n = Reg!Trivia!JoinMatch(m, p)
      BY <2>1, <3>1 DEF Reg!Trivia!JoinMatch, Reg!Trivia!Seated, WithSeat, Reg!Trivia!Doc
    <3>2. CASE n = Reg!Trivia!ReconnectPlayer(m, p)
      BY <2>1, <3>2 DEF Reg!Trivia!ReconnectPlayer, Reg!Trivia!WithPlayer,
           Reg!Trivia!Seated, WithSeat, Reg!Trivia!Doc
    <3> QED
      BY <1>2, <3>1, <3>2
  <2>4. Len(n.players) >= 1 /\ (Len(n.players) >= 2 => n.players[1] # n.players[2])
    BY <1>2, <2>3 DEF TeamsDealt, WithSeat, Reg!Trivia!Doc
  <2>5. Elements(m.players) \subseteq Player
    BY DEF Elements, Reg!Trivia!Doc
  <2> QED
    BY <1>2, <2>2, <2>3, <2>4, <2>5 DEF TeamsDealt, Seats
<1>3. ASSUME NEW m \in Reg!Trivia!Doc, TeamsDealt(m), NEW seq, NEW move
      PROVE  TeamsDealt(Reg!Trivia!Played(m, p, seq, move))
  <2> DEFINE n == Reg!Trivia!Played(m, p, seq, move)
             k == Reg!Trivia!Game!Played(m, p, seq, move)
  <2>1. k.playerTeams = m.playerTeams
    BY DEF Reg!Trivia!Doc, Reg!Trivia!Game!Played, Reg!Trivia!Game!Heard,
         Reg!Trivia!Game!Answered, Reg!Trivia!Game!RoundCompleted
  <2>2. n.playerTeams = k.playerTeams
    BY DEF Reg!Trivia!Played
  <2>3. n.players = m.players
    BY TriviaKeepsSeats DEF IsDocument, SamePlayers, HasPlayers, Reg!Trivia!Doc
  <2> HIDE DEF n
  <2>4. TeamsDealt(n)
    BY <1>3, <2>1, <2>2, <2>3 DEF TeamsDealt
  <2> QED
    BY <2>4 DEF n
<1> QED
  BY <1>1, <1>2, <1>3

\* mini-gomoku: everybody of the match is given a mark.
LEMMA GomokuMarks ==
  ASSUME None \notin {"X", "O"}, NEW p \in Player
  PROVE  /\ MarksGiven(Reg!Gomoku!Created(p))
         /\ \A m \in Reg!Gomoku!Doc : MarksGiven(m) =>
              /\ MarksGiven(Reg!Gomoku!JoinMatch(m, p))
              /\ MarksGiven(Reg!Gomoku!ReconnectPlayer(m, p))
              /\ \A seq, move : MarksGiven(Reg!Gomoku!Played(m, p, seq, move))
<1>1. MarksGiven(Reg!Gomoku!Created(p))
  BY DEF MarksGiven, Elements, Reg!Gomoku!Created
<1>2. ASSUME NEW m \in Reg!Gomoku!Doc, MarksGiven(m),
             NEW n \in {Reg!Gomoku!JoinMatch(m, p), Reg!Gomoku!ReconnectPlayer(m, p)}
      PROVE  MarksGiven(n)
  <2>1. Reg!Gomoku!MarkOf(m.playerMarks, p, "X", "O") # None
    BY DEF Reg!Gomoku!MarkOf, Reg!Gomoku!FreeMark
  <2>2. \/ n = m
        \/ n.playerMarks
             = [m.playerMarks EXCEPT ![p] = Reg!Gomoku!MarkOf(m.playerMarks, p, "X", "O")]
    BY <1>2 DEF Reg!Gomoku!JoinMatch, Reg!Gomoku!ReconnectPlayer, Reg!Gomoku!WithMark,
         Reg!Gomoku!Joined, Reg!Gomoku!Reconnected, Reg!Gomoku!Doc
  <2>3. Seats(m, n, p)
    <3>1. IsDocument(m)
      BY DEF IsDocument, Reg!Gomoku!Doc
    <3> QED
      BY <1>2, <3>1, GomokuKeepsSeats
  <2>4. Elements(m.players) \subseteq Player
    BY DEF Elements, Reg!Gomoku!Doc
  <2> QED
    BY <1>2, <2>1, <2>2, <2>3, <2>4 DEF MarksGiven, Seats, Reg!Gomoku!Doc
<1>3. ASSUME NEW m \in Reg!Gomoku!Doc, MarksGiven(m), NEW seq, NEW move
      PROVE  MarksGiven(Reg!Gomoku!Played(m, p, seq, move))
  <2> DEFINE n == Reg!Gomoku!Played(m, p, seq, move)
  <2>1. n.players = m.players /\ n.playerMarks = m.playerMarks
    BY DEF Reg!Gomoku!Doc, Reg!Gomoku!Played, Reg!Gomoku!Heard, Reg!Gomoku!Placed
  <2> HIDE DEF n
  <2>2. MarksGiven(n)
    BY <1>3, <2>1 DEF MarksGiven
  <2> QED
    BY <2>2 DEF n
<1> QED
  BY <1>1, <1>2, <1>3

\* memory-match-duel: the card that lies open belongs to somebody.
LEMMA MemorySelections ==
  ASSUME None \notin Player, NEW p \in Player
  PROVE  /\ SelectionOwned(Reg!Memory!Created(p))
         /\ \A m \in Reg!Memory!Doc : SelectionOwned(m) =>
              /\ SelectionOwned(Reg!Memory!JoinMatch(m, p))
              /\ SelectionOwned(Reg!Memory!ReconnectPlayer(m, p))
              /\ \A seq, move : SelectionOwned(Reg!Memory!Played(m, p, seq, move))
<1>1. SelectionOwned(Reg!Memory!Created(p))
  BY DEF SelectionOwned, Reg!Memory!Created
<1>2. ASSUME NEW m \in Reg!Memory!Doc, SelectionOwned(m),
             NEW n \in {Reg!Memory!JoinMatch(m, p), Reg!Memory!ReconnectPlayer(m, p)}
      PROVE  SelectionOwned(n)
  <2>1. n.selection = m.selection /\ n.selectionOwnerPlayerId = m.selectionOwnerPlayerId
    BY <1>2 DEF Reg!Memory!JoinMatch, Reg!Memory!ReconnectPlayer, Reg!Memory!Bumped,
         Reg!Memory!Joined, Reg!Memory!Reconnected, Reg!Memory!Doc
  <2> QED
    BY <1>2, <2>1 DEF SelectionOwned
<1>3. ASSUME NEW m \in Reg!Memory!Doc, SelectionOwned(m), NEW seq, NEW move
      PROVE  SelectionOwned(Reg!Memory!Played(m, p, seq, move))
  <2> DEFINE h == Reg!Memory!Heard(m, p, seq)
             k == Reg!Memory!Flipped(h, p, move)
  <2>1. /\ h.selection = m.selection /\ h.selectionOwnerPlayerId = m.selectionOwnerPlayerId
        /\ {"selection", "selectionOwnerPlayerId"} \subseteq DOMAIN h
    BY DEF Reg!Memory!Doc, Reg!Memory!Heard
  <2> HIDE DEF h
  <2>2. SelectionOwned(k)
    BY <1>3, <2>1 DEF SelectionOwned, Reg!Memory!Flipped, Reg!Memory!TurnResolved
  <2> HIDE DEF k
  <2>3. ASSUME NEW d, SelectionOwned(d) PROVE SelectionOwned(Reg!Memory!Bumped(d))
    BY <2>3 DEF SelectionOwned, Reg!Memory!Bumped
  <2>4. SelectionOwned(h)
    BY <1>3, <2>1 DEF SelectionOwned
  <2> QED
    BY <1>3, <2>2, <2>3, <2>4 DEF Reg!Memory!Played, h, k
<1> QED
  BY <1>1, <1>2, <1>3

\* spot-the-difference-race: a match that may have ended meanwhile is not finished either.
LEMMA SpottingStays ==
  ASSUME NEW m, NEW n, NotFinished(m), n.players = m.players, n.foundSpots = m.foundSpots,
         n.isCompleted \/ n.isCompleted = m.isCompleted
  PROVE  NotFinished(n)
<1>1. /\ Reg!Spotting!FoundSpots(n) = Reg!Spotting!FoundSpots(m)
      /\ Reg!Spotting!Majority(n) <=> Reg!Spotting!Majority(m)
  BY DEF Reg!Spotting!FoundSpots, Reg!Spotting!SpotsOf, Reg!Spotting!Majority,
       Reg!Spotting!PlayersOf
<1> QED
  BY <1>1 DEF NotFinished

\* spot-the-difference-race: nor is one whose clock goes on.
LEMMA SpottingStops ==
  ASSUME NEW m \in Reg!Spotting!Doc, NotFinished(m)
  PROVE  /\ NotFinished(Reg!Spotting!CompletedIfExpired(m))
         /\ NotFinished(Reg!Spotting!DeadlinePasses(m))
<1>1. ASSUME NEW n \in {Reg!Spotting!CompletedIfExpired(m), Reg!Spotting!DeadlinePasses(m)}
      PROVE  /\ n.players = m.players /\ n.foundSpots = m.foundSpots
             /\ n.isCompleted \/ n.isCompleted = m.isCompleted
  BY <1>1 DEF Reg!Spotting!CompletedIfExpired, Reg!Spotting!Completed,
       Reg!Spotting!DeadlinePasses, Reg!Spotting!Doc
<1> QED
  BY <1>1, SpottingStays

\* spot-the-difference-race: a match that is not over is not finished.
LEMMA SpottingGoesOn ==
  ASSUME None \notin Player, IsFiniteSet(Spots), Spots # {}, NEW p \in Player
  PROVE  /\ NotFinished(Reg!Spotting!Created(p))
         /\ \A m \in Reg!Spotting!Doc : NotFinished(m) =>
              /\ NotFinished(Reg!Spotting!JoinMatch(m, p))
              /\ NotFinished(Reg!Spotting!ReconnectPlayer(m, p))
              /\ p \in Elements(m.players) => \A seq, move :
                   NotFinished(Reg!Spotting!Played(m, p, seq, move))
<1>1. Reg!Spotting!Cardinality({}) = 0 /\ Reg!Spotting!Cardinality(Spots) \in Nat
  <2>1. \A S : Reg!Spotting!Cardinality(S) = Cardinality(S)
    BY DEF Reg!Spotting!Cardinality, Cardinality
  <2> QED
    BY <2>1, FS_EmptySet, FS_CardinalityType
<1>2. ~(0 >= (Reg!Spotting!Cardinality(Spots) \div 2) + 1)
  BY <1>1
<1>3. NotFinished(Reg!Spotting!Created(p))
  <2> DEFINE m == Reg!Spotting!Created(p)
  <2>1. /\ \A s \in Spots : m.foundSpots[s] = None
        /\ m.players = <<p>>
    BY DEF Reg!Spotting!Created
  <2> HIDE DEF m
  <2>2. Reg!Spotting!FoundSpots(m) = {} /\ \A q \in Player : Reg!Spotting!SpotsOf(m, q) = {}
    BY <2>1 DEF Reg!Spotting!FoundSpots, Reg!Spotting!SpotsOf
  <2>3. Reg!Spotting!PlayersOf(m) \subseteq Player
    BY <2>1 DEF Reg!Spotting!PlayersOf
  <2>4. ~Reg!Spotting!Majority(m)
    BY <1>1, <1>2, <2>2, <2>3 DEF Reg!Spotting!Majority
  <2>5. NotFinished(m)
    BY <2>1, <2>2, <2>4 DEF NotFinished
  <2> QED
    BY <2>5 DEF m
<1>4. ASSUME NEW m \in Reg!Spotting!Doc, NotFinished(m), NEW n,
             Seats(m, n, p), n.foundSpots = m.foundSpots, n.isCompleted = m.isCompleted
      PROVE  NotFinished(n)
  <2>1. Elements(n.players) = Elements(m.players) \cup {p}
    BY <1>4 DEF Seats
  <2>2. /\ Reg!Spotting!FoundSpots(n) = Reg!Spotting!FoundSpots(m)
        /\ \A q : Reg!Spotting!SpotsOf(n, q) = Reg!Spotting!SpotsOf(m, q)
    BY <1>4 DEF Reg!Spotting!FoundSpots, Reg!Spotting!SpotsOf
  <2>3. p \notin Elements(m.players) => Reg!Spotting!SpotsOf(m, p) = {}
    BY <1>4 DEF NotFinished, Reg!Spotting!SpotsOf
  <2>4. Reg!Spotting!Majority(n) => Reg!Spotting!Majority(m)
    BY <1>1, <1>2, <2>1, <2>2, <2>3 DEF Reg!Spotting!Majority, Reg!Spotting!PlayersOf, Elements
  <2> QED
    BY <1>4, <2>1, <2>2, <2>4 DEF NotFinished
<1>5. ASSUME NEW m \in Reg!Spotting!Doc, NotFinished(m),
             NEW n \in {Reg!Spotting!JoinMatch(m, p), Reg!Spotting!ReconnectPlayer(m, p)}
      PROVE  NotFinished(n)
  <2>1. n.foundSpots = m.foundSpots /\ n.isCompleted = m.isCompleted
    BY <1>5 DEF Reg!Spotting!JoinMatch, Reg!Spotting!ReconnectPlayer, Reg!Spotting!Joined,
         Reg!Spotting!Reconnected, Reg!Spotting!Doc
  <2>2. Seats(m, n, p)
    <3>1. IsDocument(m)
      BY DEF IsDocument, Reg!Spotting!Doc
    <3> QED
      BY <1>5, <3>1, SpottingKeepsSeats
  <2> QED
    BY <1>4, <1>5, <2>1, <2>2
<1>6. ASSUME NEW m \in Reg!Spotting!Doc, NotFinished(m), p \in Elements(m.players),
             NEW seq, NEW move
      PROVE  NotFinished(Reg!Spotting!Played(m, p, seq, move))
  <2> DEFINE h == Reg!Spotting!Heard(m, p, seq)
             now == Reg!Spotting!CompletedIfExpired(h)
             c == Reg!Spotting!Claimed(now, p, move)
             n == Reg!Spotting!CompletedIfFinished(c)
  <2>1. /\ h.players = m.players /\ h.foundSpots = m.foundSpots /\ h.isCompleted = m.isCompleted
        /\ DOMAIN h = DOMAIN m
    BY DEF Reg!Spotting!Heard, Reg!Spotting!Doc
  <2> HIDE DEF h
  <2>2. /\ now.players = m.players /\ now.foundSpots = m.foundSpots
        /\ now.isCompleted \/ now.isCompleted = m.isCompleted
        /\ DOMAIN now = DOMAIN m
    BY <2>1 DEF Reg!Spotting!CompletedIfExpired, Reg!Spotting!Completed, Reg!Spotting!Doc
  <2> HIDE DEF now
  <2>3. NotFinished(now)
    BY <1>6, <2>2, SpottingStays
  <2>4. /\ c.players = m.players /\ DOMAIN c = DOMAIN m
        /\ \A s \in Spots : c.foundSpots[s] \in Elements(m.players) \cup {None}
    BY <1>6, <2>2 DEF NotFinished, Reg!Spotting!Claimed, Reg!Spotting!Doc
  <2> HIDE DEF c
  <2>5. NotFinished(n)
    <3>1. CASE Reg!Spotting!FoundSpots(c) = Spots \/ Reg!Spotting!Majority(c)
      <4>1. n.isCompleted /\ n.players = m.players /\ n.foundSpots = c.foundSpots
        BY <2>4, <3>1 DEF Reg!Spotting!CompletedIfFinished, Reg!Spotting!Completed,
             Reg!Spotting!Doc
      <4> QED
        BY <2>4, <4>1 DEF NotFinished
    <3>2. CASE ~(Reg!Spotting!FoundSpots(c) = Spots \/ Reg!Spotting!Majority(c))
      <4>1. n = c
        BY <3>2 DEF Reg!Spotting!CompletedIfFinished
      <4> QED
        BY <2>4, <3>2, <4>1 DEF NotFinished
    <3> QED
      BY <3>1, <3>2
  <2> HIDE DEF n
  <2> QED
    BY <1>6, <2>3, <2>5 DEF Reg!Spotting!Played, h, now, c, n
<1> QED
  BY <1>3, <1>5, <1>6

\* What is to be known of a match of the game g for its pages to agree with its adapter.
Agreeing(g, m) ==
  /\ g = "airline-trivia-teams" => TeamsDealt(m)
  /\ g = "mini-gomoku" => MarksGiven(m)
  /\ g = "memory-match-duel" => SelectionOwned(m)
  /\ g = "spot-the-difference-race" => NotFinished(m)

\* The documents of each game whose pages agree with its adapter.
AgreedDocuments == [g \in Reg!GameId |-> {m \in KeptDocuments[g] : Agreeing(g, m)}]

\* Whichever game it is, its page offers whatever its adapter takes, and nothing else if it
\* is one of turns.
LEMMA RegistryAgrees ==
  ASSUME IsFiniteSet(Player), None \notin Nat, NEW g \in Reg!GameId,
         NEW m \in Reg!AdapterDoc(g), Agreeing(g, m), Reg!AdapterObserved(g, m) = m,
         NEW players, NEW p \in Elements(m.players), Shows(m, Reg!AdapterView(g, m), players, p),
         NEW move \in Reg!AdapterMoves(g)
  PROVE  LET n == Reg!AdapterAction(g, m, p, m.lastSeqByPlayer[p] + 1, move)
             offered == Reg!PageOffers(g, Reg!AdapterView(g, m), players, p)
         IN /\ Position(n) # Position(m) => move \in offered
            /\ g \in Reg!GamesOfTurns /\ move \in offered => Position(n) # Position(m)
<1> USE DEF Reg!AdapterDoc, Reg!AdapterMoves, Reg!AdapterView, Reg!AdapterAction,
         Reg!PageOffers, Reg!GamesOfTurns
<1>1. CASE g = "quiz-duel"
  BY <1>1, QuizAgrees
<1>2. CASE g = "skyline-defense-lite"
  BY <1>2, SkylineAgrees
<1>3. CASE g = "seat-map-strategy"
  BY <1>3, SeatsAgrees
<1>4. CASE g = "crew-coordination"
  BY <1>4, CrewAgrees
<1>5. CASE g = "cabin-card-clash"
  BY <1>5, CardsAgrees
<1>6. CASE g = "puzzle-race-grid"
  BY <1>6, GridAgrees
<1>7. CASE g = "tap-beat-battle"
  BY <1>7, BeatsAgrees
<1> HIDE DEF Reg!AdapterDoc, Reg!AdapterMoves, Reg!AdapterView, Reg!AdapterAction,
          Reg!PageOffers, Reg!GamesOfTurns
<1>8. CASE g = "word-rally"
  <2>1. /\ m \in Reg!Words!Doc /\ move \in Reg!Words!Moves
        /\ Reg!AdapterView(g, m) = Reg!Words!Parsed(Reg!Words!Snapshot(m))
        /\ \A seq : Reg!AdapterAction(g, m, p, seq, move) = Reg!Words!Played(m, p, seq, move)
        /\ \A v : Reg!PageOffers(g, v, players, p) = Reg!Words!Offered(v, players, p)
    BY <1>8 DEF Reg!AdapterDoc, Reg!AdapterMoves, Reg!AdapterView, Reg!AdapterAction,
         Reg!PageOffers
  <2> QED
    BY <1>8, <2>1, WordsAgrees DEF Reg!GamesOfTurns
<1>9. CASE g = "airline-trivia-teams"
  <2>1. /\ m \in Reg!Trivia!Doc /\ move \in Reg!Trivia!Moves
        /\ Reg!AdapterView(g, m) = Reg!Trivia!Parsed(Reg!Trivia!Snapshot(m))
        /\ \A seq : Reg!AdapterAction(g, m, p, seq, move) = Reg!Trivia!Played(m, p, seq, move)
        /\ \A v : Reg!PageOffers(g, v, players, p) = Reg!Trivia!Offered(v, players, p)
    BY <1>9 DEF Reg!AdapterDoc, Reg!AdapterMoves, Reg!AdapterView, Reg!AdapterAction,
         Reg!PageOffers
  <2>2. TeamsDealt(m)
    BY <1>9 DEF Agreeing
  <2> QED
    BY <1>9, <2>1, <2>2, TriviaAgrees DEF Reg!GamesOfTurns
<1>10. CASE g = "route-builder-duel"
  <2>1. /\ m \in Reg!Routes!Doc /\ move \in Reg!Routes!Moves
        /\ Reg!AdapterView(g, m) = Reg!Routes!Parsed(Reg!Routes!Snapshot(m))
        /\ \A seq : Reg!AdapterAction(g, m, p, seq, move) = Reg!Routes!Played(m, p, seq, move)
        /\ \A v : Reg!PageOffers(g, v, players, p) = Reg!Routes!Offered(v, players, p)
    BY <1>10 DEF Reg!AdapterDoc, Reg!AdapterMoves, Reg!AdapterView, Reg!AdapterAction,
         Reg!PageOffers
  <2> QED
    BY <2>1, RoutesAgrees
<1>11. CASE g = "mini-gomoku"
  <2>1. /\ m \in Reg!Gomoku!Doc /\ move \in Reg!Gomoku!Moves
        /\ Reg!AdapterView(g, m) = Reg!Gomoku!Parsed(Reg!Gomoku!Snapshot(m))
        /\ \A seq : Reg!AdapterAction(g, m, p, seq, move) = Reg!Gomoku!Played(m, p, seq, move)
        /\ \A v : Reg!PageOffers(g, v, players, p) = Reg!Gomoku!Offered(v, players, p)
    BY <1>11 DEF Reg!AdapterDoc, Reg!AdapterMoves, Reg!AdapterView, Reg!AdapterAction,
         Reg!PageOffers
  <2>2. m.playerMarks[p] # None
    BY <1>11 DEF Agreeing, MarksGiven
  <2> QED
    BY <2>1, <2>2, GomokuAgrees
<1>12. CASE g = "baggage-sort-showdown"
  <2>1. /\ m \in Reg!Bags!Doc /\ move \in Reg!Bags!Moves
        /\ Reg!AdapterView(g, m) = Reg!Bags!Parsed(Reg!Bags!Snapshot(m))
        /\ \A seq : Reg!AdapterAction(g, m, p, seq, move) = Reg!Bags!Played(m, p, seq, move)
        /\ \A v : Reg!PageOffers(g, v, players, p) = Reg!Bags!Offered(v, players, p)
    BY <1>12 DEF Reg!AdapterDoc, Reg!AdapterMoves, Reg!AdapterView, Reg!AdapterAction,
         Reg!PageOffers
  <2> QED
    BY <1>12, <2>1, BagsAgrees DEF Reg!GamesOfTurns
<1>13. CASE g = "memory-match-duel"
  <2>1. /\ m \in Reg!Memory!Doc /\ move \in Reg!Memory!Moves
        /\ Reg!AdapterView(g, m) = Reg!Memory!Parsed(Reg!Memory!Snapshot(m))
        /\ \A seq : Reg!AdapterAction(g, m, p, seq, move) = Reg!Memory!Played(m, p, seq, move)
        /\ \A v : Reg!PageOffers(g, v, players, p) = Reg!Memory!Offered(v, players, p)
    BY <1>13 DEF Reg!AdapterDoc, Reg!AdapterMoves, Reg!AdapterView, Reg!AdapterAction,
         Reg!PageOffers
  <2>2. SelectionOwned(m)
    BY <1>13 DEF Agreeing
  <2> QED
    BY <2>1, <2>2, MemoryAgrees
<1>14. CASE g = "signal-scramble"
  <2>1. /\ m \in Reg!Signals!Doc /\ move \in Reg!Signals!Moves
        /\ Reg!AdapterView(g, m) = Reg!Signals!Parsed(Reg!Signals!Snapshot(m))
        /\ \A seq : Reg!AdapterAction(g, m, p, seq, move) = Reg!Signals!Played(m, p, seq, move)
        /\ \A v : Reg!PageOffers(g, v, players, p) = Reg!Signals!Offered(v, players, p)
    BY <1>14 DEF Reg!AdapterDoc, Reg!AdapterMoves, Reg!AdapterView, Reg!AdapterAction,
         Reg!PageOffers
  <2> QED
    BY <1>14, <2>1, SignalsAgrees DEF Reg!GamesOfTurns
<1>15. CASE g = "spot-the-difference-race"
  <2>1. /\ m \in Reg!Spotting!Doc /\ move \in Reg!Spotting!Moves
        /\ Reg!AdapterView(g, m) = Reg!Spotting!Parsed(Reg!Spotting!Snapshot(m))
        /\ \A seq : Reg!AdapterAction(g, m, p, seq, move) = Reg!Spotting!Played(m, p, seq, move)
        /\ \A v : Reg!PageOffers(g, v, players, p) = Reg!Spotting!Offered(v, players, p)
    BY <1>15 DEF Reg!AdapterDoc, Reg!AdapterMoves, Reg!AdapterView, Reg!AdapterAction,
         Reg!PageOffers
  <2>2. NotFinished(m) /\ Reg!Spotting!Observed(m) = m
    BY <1>15 DEF Agreeing, Reg!AdapterObserved
  <2> QED
    BY <1>15, <2>1, <2>2, SpottingAgrees DEF Reg!GamesOfTurns
<1> QED
  BY <1>1, <1>2, <1>3, <1>4, <1>5, <1>6, <1>7, <1>8,
     <1>9, <1>10, <1>11, <1>12, <1>13, <1>14, <1>15 DEF Reg!GameId

\* Whatever is done with such a match, that stays known of it.
LEMMA RegistryGoesOn ==
  ASSUME NullIsNothing, IsFiniteSet(Spots), Spots # {}, NEW g \in Reg!GameId,
         NEW m \in Reg!AdapterDoc(g), Agreeing(g, m), NEW p \in Player
  PROVE  /\ Agreeing(g, Reg!AdapterJoin(g, m, p)) /\ Agreeing(g, Reg!AdapterReconnect(g, m, p))
         /\ p \in Elements(m.players) => \A seq, move :
              Agreeing(g, Reg!AdapterAction(g, m, p, seq, move))
<1>1. CASE g \notin {"airline-trivia-teams", "mini-gomoku", "memory-match-duel",
                     "spot-the-difference-race"}
  BY <1>1 DEF Agreeing
<1>2. CASE g = "airline-trivia-teams"
  <2>1. /\ m \in Reg!Trivia!Doc /\ TeamsDealt(m)
        /\ \A n : Agreeing(g, n) <=> TeamsDealt(n)
    BY <1>2 DEF Reg!AdapterDoc, Agreeing
  <2>2. /\ Reg!AdapterJoin(g, m, p) = Reg!Trivia!JoinMatch(m, p)
        /\ Reg!AdapterReconnect(g, m, p) = Reg!Trivia!ReconnectPlayer(m, p)
        /\ \A seq, move : Reg!AdapterAction(g, m, p, seq, move)
                = Reg!Trivia!Played(m, p, seq, move)
    BY <1>2 DEF Reg!AdapterJoin, Reg!AdapterReconnect, Reg!AdapterAction
  <2> QED
    BY <2>1, <2>2, TriviaDeals DEF NullIsNothing
<1>3. CASE g = "mini-gomoku"
  <2>1. /\ m \in Reg!Gomoku!Doc /\ MarksGiven(m)
        /\ \A n : Agreeing(g, n) <=> MarksGiven(n)
    BY <1>3 DEF Reg!AdapterDoc, Agreeing
  <2>2. /\ Reg!AdapterJoin(g, m, p) = Reg!Gomoku!JoinMatch(m, p)
        /\ Reg!AdapterReconnect(g, m, p) = Reg!Gomoku!ReconnectPlayer(m, p)
        /\ \A seq, move : Reg!AdapterAction(g, m, p, seq, move)
                = Reg!Gomoku!Played(m, p, seq, move)
    BY <1>3 DEF Reg!AdapterJoin, Reg!AdapterReconnect, Reg!AdapterAction
  <2> QED
    BY <2>1, <2>2, GomokuMarks DEF NullIsNothing
<1>4. CASE g = "memory-match-duel"
  <2>1. /\ m \in Reg!Memory!Doc /\ SelectionOwned(m)
        /\ \A n : Agreeing(g, n) <=> SelectionOwned(n)
    BY <1>4 DEF Reg!AdapterDoc, Agreeing
  <2>2. /\ Reg!AdapterJoin(g, m, p) = Reg!Memory!JoinMatch(m, p)
        /\ Reg!AdapterReconnect(g, m, p) = Reg!Memory!ReconnectPlayer(m, p)
        /\ \A seq, move : Reg!AdapterAction(g, m, p, seq, move)
                = Reg!Memory!Played(m, p, seq, move)
    BY <1>4 DEF Reg!AdapterJoin, Reg!AdapterReconnect, Reg!AdapterAction
  <2> QED
    BY <2>1, <2>2, MemorySelections DEF NullIsNothing
<1>5. CASE g = "spot-the-difference-race"
  <2>1. /\ m \in Reg!Spotting!Doc /\ NotFinished(m)
        /\ \A n : Agreeing(g, n) <=> NotFinished(n)
    BY <1>5 DEF Reg!AdapterDoc, Agreeing
  <2>2. /\ Reg!AdapterJoin(g, m, p) = Reg!Spotting!JoinMatch(m, p)
        /\ Reg!AdapterReconnect(g, m, p) = Reg!Spotting!ReconnectPlayer(m, p)
        /\ \A seq, move : Reg!AdapterAction(g, m, p, seq, move)
                = Reg!Spotting!Played(m, p, seq, move)
    BY <1>5 DEF Reg!AdapterJoin, Reg!AdapterReconnect, Reg!AdapterAction
  <2> QED
    BY <2>1, <2>2, SpottingGoesOn DEF NullIsNothing
<1> QED
  BY <1>1, <1>2, <1>3, <1>4, <1>5

\* The registry's adapters keep the documents whose pages agree.
LEMMA RegistryKeepsAgreed ==
  ASSUME NullIsNothing, IsFiniteSet(Spots), Spots # {}, RegistryIsUsed, PagesAreUsed, BoardsFit
  PROVE  AdaptersStand(AgreedDocuments)
<1> SUFFICES ASSUME NEW s \in Setups
             PROVE  AdapterStands(AgreedDocuments, s.game)
  BY DEF AdaptersStand
<1> DEFINE g == s.game
<1>1. g \in Reg!GameId
  BY DEF RegistryIsUsed
<1>2. MatchDoc(g) = Reg!AdapterDoc(g)
  BY <1>1 DEF PagesAreUsed
<1>3. AdapterStands(KeptDocuments, g)
  BY RegistryLetsStand DEF AdaptersStand, NullIsNothing
<1> HIDE DEF g
<1>4. AgreedDocuments[g] = {m \in KeptDocuments[g] : Agreeing(g, m)}
  BY <1>1 DEF AgreedDocuments
<1>5. \A m \in KeptDocuments[g] : m \in Reg!AdapterDoc(g)
  BY <1>1, <1>2 DEF KeptDocuments, Documents
<1>6. /\ \A p \in Player : CreateMatch(g, p) = Reg!AdapterCreate(g, p)
      /\ \A p \in Player : \A m :
           /\ JoinGame(g, m, p) = Reg!AdapterJoin(g, m, p)
           /\ RejoinGame(g, m, p) = Reg!AdapterReconnect(g, m, p)
           /\ \A seq, move : HandlePlayerAction(g, m, p, seq, move)
                                = Reg!AdapterAction(g, m, p, seq, move)
      /\ \A m : /\ StateObserved(g, m) = Reg!AdapterObserved(g, m)
                /\ Elapsed(g, m) = Reg!AdapterElapsed(g, m)
  BY <1>1 DEF RegistryIsUsed
<1>7. \A p \in Player : Agreeing(g, CreateMatch(g, p))
  BY <1>6, TriviaDeals, GomokuMarks, MemorySelections, SpottingGoesOn
     DEF Agreeing, NullIsNothing, Reg!AdapterCreate
<1>8. ASSUME NEW m \in AgreedDocuments[g]
      PROVE  /\ Agreeing(g, StateObserved(g, m)) /\ Agreeing(g, Elapsed(g, m))
             /\ \A p \in Player :
                  /\ Agreeing(g, JoinGame(g, m, p)) /\ Agreeing(g, RejoinGame(g, m, p))
                  /\ p \in Elements(m.players) => \A seq, move :
                       Agreeing(g, HandlePlayerAction(g, m, p, seq, move))
  <2>1. m \in Reg!AdapterDoc(g) /\ Agreeing(g, m)
    BY <1>4, <1>5
  <2>2. Agreeing(g, Reg!AdapterObserved(g, m)) /\ Agreeing(g, Reg!AdapterElapsed(g, m))
    BY <2>1, SpottingStops DEF Agreeing, Reg!AdapterObserved, Reg!AdapterElapsed,
         Reg!AdapterDoc, Reg!Spotting!Observed
  <2>3. ASSUME NEW p \in Player
        PROVE  /\ Agreeing(g, JoinGame(g, m, p)) /\ Agreeing(g, RejoinGame(g, m, p))
               /\ p \in Elements(m.players) => \A seq, move :
                    Agreeing(g, HandlePlayerAction(g, m, p, seq, move))
    BY <1>1, <1>6, <2>1, RegistryGoesOn
  <2> QED
    BY <1>6, <2>2, <2>3
<1>9. AdapterStands(AgreedDocuments, g)
  BY <1>3, <1>4, <1>7, <1>8 DEF AdapterStands
<1> QED
  BY <1>9 DEF g

\* The pages of the game g, when they show a match that is under way, offer whatever its
\* adapter takes, and nothing else if it is a game of turns.
AdapterAgrees(Good, g) ==
  \A m \in Good[g], p \in Player, players \in Seq(Player) :
    (/\ ~m.isCompleted /\ Len(m.players) >= 2 /\ StateObserved(g, m) = m
     /\ p \in Elements(m.players) /\ p \in Elements(players))
    => \A move \in LegalMoves(g) :
         LET n == HandlePlayerAction(g, m, p, m.lastSeqByPlayer[p] + 1, move)
             offered == OfferedMoves(g, StateView(g, m), players, p)
         IN /\ Position(n) # Position(m) => move \in offered
            /\ g \in TurnGames /\ move \in offered => Position(n) # Position(m)

\* And so do those of whichever game is set up.
AdaptersAgree(Good) == \A s \in Setups : AdapterAgrees(Good, s.game)

\* Pages that agree with adapters agree with the match: who is in the room is a player.
LEMMA PagesStand ==
  ASSUME NEW Good, AdaptersKeepSeats, AdaptersKeepTypes, PagesNeedSeats, AdaptersStand(Good),
         AdaptersAgree(Good)
  PROVE  Spec => []PagesAgreeWithAdapters
<1>1. ASSUME IInv, GoodInv(Good), NEW p \in Members,
             InMemory, Free = Slot, UnderWay, StateObserved(game, match) = match,
             pages[p].view = StateView(game, match)
      PROVE  LET offered == OfferedMoves(game, pages[p].view, SeatsShown, p)
             IN /\ Effective(p) \subseteq offered
                /\ game \in TurnGames => offered \subseteq Effective(p)
  <2>1. /\ setup \in Setups /\ room # None /\ p \in Elements(room.players)
        /\ match # None /\ match \in Good[game]
    BY <1>1 DEF IInv, GoodInv, UnderWay, Members
  <2>2. room.players \in Seq(Player) /\ p \in Player
    BY <1>1, <2>1 DEF IInv, SeatsInv, RoomDoc, Elements
  <2>3. p \in Elements(match.players)
    <3>1. Story(Members, match, initialized, <<>>)
      BY <1>1, AllQuiet DEF IInv
    <3> QED
      BY <2>1, <3>1, NothingLeft
  <2>4. SeatsShown = room.players /\ LastSeq(p) = match.lastSeqByPlayer[p]
    BY <2>1 DEF SeatsShown, LastSeq
  <2>5. AdapterAgrees(Good, game)
    BY <2>1 DEF AdaptersAgree, game
  <2> DEFINE offered == OfferedMoves(game, StateView(game, match), room.players, p)
  <2>6. ASSUME NEW move \in LegalMoves(game)
        PROVE  /\ move \in Effective(p) => move \in offered
               /\ game \in TurnGames /\ move \in offered => move \in Effective(p)
    BY <1>1, <2>1, <2>2, <2>3, <2>4, <2>5 DEF AdapterAgrees, Effective, UnderWay
  <2>7. offered \subseteq LegalMoves(game) /\ Effective(p) \subseteq LegalMoves(game)
    BY <2>1 DEF AdaptersKeepTypes, Effective, game
  <2> QED
    BY <1>1, <2>4, <2>6, <2>7
<1>2. IInv /\ GoodInv(Good) => PagesAgreeWithAdapters
  BY <1>1 DEF PagesAgreeWithAdapters
<1>3. Spec => []GoodInv(Good)
  BY ResultsStand
<1>4. Spec => []IInv
  BY InvInit, InvStep, PTL DEF Spec
<1> QED
  BY <1>2, <1>3, <1>4, PTL

\* The registry's pages agree with its adapters.
LEMMA RegistryPagesAgree ==
  ASSUME NullIsNothing, IsFiniteSet(Player), RegistryIsUsed, PagesAreUsed, ReportsAreUsed,
         TurnGames = Reg!GamesOfTurns
  PROVE  AdaptersAgree(AgreedDocuments)
<1> SUFFICES ASSUME NEW s \in Setups PROVE AdapterAgrees(AgreedDocuments, s.game)
  BY DEF AdaptersAgree
<1> DEFINE g == s.game
<1>1. g \in Reg!GameId
  BY DEF RegistryIsUsed
<1> HIDE DEF g
<1>2. ASSUME NEW m \in AgreedDocuments[g], NEW p \in Player, NEW players \in Seq(Player),
             ~m.isCompleted, Len(m.players) >= 2, StateObserved(g, m) = m,
             p \in Elements(m.players), p \in Elements(players),
             NEW move \in LegalMoves(g)
      PROVE  LET n == HandlePlayerAction(g, m, p, m.lastSeqByPlayer[p] + 1, move)
                 offered == OfferedMoves(g, StateView(g, m), players, p)
             IN /\ Position(n) # Position(m) => move \in offered
                /\ g \in TurnGames /\ move \in offered => Position(n) # Position(m)
  <2>1. m \in Reg!AdapterDoc(g) /\ Agreeing(g, m)
    BY <1>1 DEF AgreedDocuments, KeptDocuments, Documents, PagesAreUsed
  <2>2. /\ LegalMoves(g) = Reg!AdapterMoves(g)
        /\ \A v : OfferedMoves(g, v, players, p) = Reg!PageOffers(g, v, players, p)
        /\ StateView(g, m) = Reg!AdapterView(g, m)
    BY <1>1 DEF PagesAreUsed, ReportsAreUsed
  <2>4. StateObserved(g, m) = Reg!AdapterObserved(g, m)
    BY <1>1 DEF RegistryIsUsed
  <2>3. \A seq, x : HandlePlayerAction(g, m, p, seq, x) = Reg!AdapterAction(g, m, p, seq, x)
    BY <1>1, <1>2 DEF RegistryIsUsed
  <2>5. players # None /\ Reg!AdapterView(g, m) # None /\ None \notin Player
    BY <1>1, <1>2, <2>1 DEF NullIsNothing
  <2>6. Shows(m, Reg!AdapterView(g, m), players, p)
    BY <1>2, <2>5, SMTT(30) DEF Shows
  <2>7. Reg!AdapterObserved(g, m) = m /\ move \in Reg!AdapterMoves(g) /\ None \notin Nat
    BY <1>2, <2>2, <2>4, ZenonT(30) DEF NullIsNothing
  <2>8. LET n == Reg!AdapterAction(g, m, p, m.lastSeqByPlayer[p] + 1, move)
            offered == Reg!PageOffers(g, Reg!AdapterView(g, m), players, p)
        IN /\ Position(n) # Position(m) => move \in offered
           /\ g \in Reg!GamesOfTurns /\ move \in offered => Position(n) # Position(m)
    BY <1>1, <1>2, <2>1, <2>6, <2>7, RegistryAgrees
  <2> QED
    BY <2>2, <2>3, <2>8
<1>3. AdapterAgrees(AgreedDocuments, g)
  BY <1>2 DEF AdapterAgrees
<1> QED
  BY <1>3 DEF g

\* Whichever of the platform's multiplayer games is played, with the memory driver and by any
\* passengers: a page that shows the match as it is offers its passenger every move the adapter
\* would take while the match lasts, and in the games of turns nothing else.
THEOREM PagesAgree ==
  ASSUME NullIsNothing, IsFiniteSet(Player), IsFiniteSet(Spots), Spots # {},
         RegistryIsUsed, PagesAreUsed, ReportsAreUsed, BoardsFit, TurnGames = Reg!GamesOfTurns
  PROVE  Spec => []PagesAgreeWithAdapters
<1>1. None \notin {"right", "wrong"}
  BY DEF NullIsNothing
<1> QED
  BY <1>1, RegistryKeepsAgreed, RegistryPagesAgree, RegistryLetsStand, RegistryIsFit,
     RegistryIsTyped, PagesStand
=============================================================================
