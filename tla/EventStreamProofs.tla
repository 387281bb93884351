-------------------------- MODULE EventStreamProofs --------------------------
(* Theorems about EventStream, for any number of connections, any limits of  *)
(* the history and any lengths of events. First what trimming takes away and *)
(* where a cursor starts, as lemmas about the operators; then the type       *)
(* invariant, what leaves the history, the order in which a daemon reads and *)
(* that it skips nothing, each with the invariant that makes it inductive.   *)
EXTENDS EventStream, TLAPS, SequenceTheorems, WellFoundedInduction

USE EventStreamAssumption DEF vars, outboxVars, endVars, daemonVars

-----------------------------------------------------------------------------
(* The history is trimmed from its beginning, to within its limits, and not  *)
(* at all when it is within them.                                            *)

LEMMA LeastExists ==
  ASSUME NEW S \in SUBSET Nat, S # {}
  PROVE  \E k \in S : \A j \in S : k <= j
  <1> DEFINE Less == OpToRel(<, Nat)
  <1>1. Less = {p \in Nat \X Nat : p[1] < p[2]}
    BY DEF OpToRel
  <1>2. IsWellFoundedOn(Less, Nat)
    BY NatLessThanWellFounded
  <1> HIDE DEF Less
  <1>3. PICK k \in S : \A j \in S : ~(<<j, k>> \in Less)
    BY <1>2, WFMin
  <1>4. ASSUME NEW j \in S PROVE k <= j
    <2>1. j \in Nat /\ k \in Nat
      OBVIOUS
    <2>2. SUFFICES ASSUME j < k PROVE FALSE
      BY <2>1
    <2> DEFINE pair == <<j, k>>
    <2>3. pair \in Nat \X Nat /\ pair[1] = j /\ pair[2] = k
      BY <2>1
    <2>4. pair \notin Less
      BY <1>3
    <2> HIDE DEF pair
    <2> QED  BY <1>1, <2>2, <2>3, <2>4
  <1> QED  BY <1>4

LEMMA TrimmedIsLeast ==
  ASSUME NEW first \in Nat \ {0}, NEW last \in Nat, first <= last + 1
  PROVE  /\ Trimmed(first, last) \in first..(last + 1)
         /\ ~Over(Trimmed(first, last), last)
         /\ ~Over(first, last) => Trimmed(first, last) = first
  <1> DEFINE S == {k \in first..(last + 1) : ~Over(k, last)}
  <1>1. ~Over(last + 1, last)
    BY DEF Over
  <1>2. S \in SUBSET Nat /\ S # {}
    BY <1>1
  <1>3. PICK k \in S : \A j \in S : k <= j
    BY <1>2, LeastExists
  <1>4. /\ k \in first..(last + 1) /\ ~Over(k, last)
        /\ \A j \in first..(k - 1) : Over(j, last)
    BY <1>3
  <1> HIDE DEF S
  <1> DEFINE T == Trimmed(first, last)
  <1>5. /\ T \in first..(last + 1) /\ ~Over(T, last)
        /\ \A j \in first..(T - 1) : Over(j, last)
    BY <1>4 DEF Trimmed
  <1> QED  BY <1>5

-----------------------------------------------------------------------------
(* The parts of the types. *)

Stage == {"free", "sent", "hello", "idle", "writing"}

LogTyped   == nextSeq \in 1..(MaxSeq + 1) /\ written \in 0..MaxSeq /\ kept \in 1..(MaxSeq + 1)
NamesTyped == /\ runner \in 1..MaxRunner /\ daemon \in 1..MaxDaemon /\ upsets \in 0..MaxUpset
              /\ current \in Conns \cup {None} /\ reading \in Conns \cup {None}
EndsTyped  == /\ stage \in [Conns -> Stage] /\ cursor \in [Conns -> 1..(MaxSeq + 1)]
              /\ claim \in [Conns -> Claims]
FlagsTyped == reached \in [Conns -> BOOLEAN] /\ up \in [Conns -> BOOLEAN]
WireTyped  == wire \in [Conns -> Seq(Events)]
ReadTyped  == lastEventId \in Claims /\ firstIdSeen \in BOOLEAN /\ got \in Seq(Events)
PastTyped  == given \subseteq 1..MaxSeq /\ passed \subseteq 1..MaxSeq /\ excused \subseteq Events

(* The history is within its limits and begins no later than what is written *)
(* ends; no cursor is beyond the log.                                        *)
Bounded == written < nextSeq /\ kept <= written + 1 /\ ~Over(kept, written)

CursorsBounded ==
  \A c \in Conns : cursor[c] <= nextSeq /\ (stage[c] = "writing" => cursor[c] < nextSeq)

Typed == /\ LogTyped /\ NamesTyped /\ EndsTyped /\ FlagsTyped /\ WireTyped /\ ReadTyped /\ PastTyped
         /\ Bounded /\ CursorsBounded

LEMMA TypedIsTypeOK == Typed => TypeOK
  <1>1. Typed => written < nextSeq /\ kept <= nextSeq
    BY DEF Typed, LogTyped, Bounded
  <1> QED  BY <1>1 DEF Typed, TypeOK, LogTyped, NamesTyped, EndsTyped, FlagsTyped, WireTyped,
                       ReadTyped, PastTyped, Stage

LEMMA ClaimParts ==
  ASSUME NEW l \in Claims, l # None
  PROVE  l.runner \in 1..MaxRunner /\ l.seq \in 1..MaxSeq
  BY DEF Claims, Events

LEMMA EventType ==
  ASSUME NEW r \in 1..MaxRunner, NEW s \in 1..MaxSeq
  PROVE  Event(r, s) \in Events /\ Event(r, s).runner = r /\ Event(r, s).seq = s
  BY DEF Event, Events

LEMMA InitTyped == Init => Typed
  <1> SUFFICES ASSUME Init PROVE Typed
    OBVIOUS
  <1>1. ~Over(1, 0)
    BY DEF Over
  <1>2. LogTyped /\ NamesTyped /\ Bounded /\ PastTyped
    BY <1>1 DEF Init, LogTyped, NamesTyped, Bounded, PastTyped
  <1>3. <<>> \in Seq(Events)
    BY EmptySeq
  <1>4. /\ EndsTyped
        /\ WireTyped
        /\ ReadTyped
    <2>1. EndsTyped
      BY DEF Init, EndsTyped, Stage, Claims
    <2>2. WireTyped
      BY <1>3 DEF Init, WireTyped
    <2>3. ReadTyped
      BY <1>3 DEF Init, ReadTyped, Claims
    <2> QED  BY <2>1, <2>2, <2>3
  <1>6. FlagsTyped
    BY Zenon DEF Init, FlagsTyped
  <1>5. CursorsBounded
    BY DEF Init, CursorsBounded
  <1> QED  BY <1>2, <1>4, <1>5, <1>6 DEF Typed

-----------------------------------------------------------------------------
(* The Outbox. *)

LEMMA WroteKeeps ==
  ASSUME LogTyped, Bounded, NEW seq \in 1..MaxSeq, seq < nextSeq, Wrote(seq)
  PROVE  /\ LogTyped' /\ Bounded' /\ nextSeq' = nextSeq
         /\ written' = IF seq > written THEN seq ELSE written
         /\ kept' >= kept /\ kept' <= written' + 1
         /\ seq <= written => kept' = kept
  <1> DEFINE w == IF seq > written THEN seq ELSE written
  <1>1. written' = w /\ kept' = Trimmed(kept, w) /\ nextSeq' = nextSeq
    BY DEF Wrote
  <1>2. /\ w \in 1..MaxSeq /\ w \in Nat /\ w < nextSeq /\ w >= written
        /\ kept \in Nat \ {0} /\ kept <= w + 1
        /\ seq <= written => w = written
    BY DEF LogTyped, Bounded
  <1> HIDE DEF w
  <1>3. /\ Trimmed(kept, w) \in kept..(w + 1) /\ ~Over(Trimmed(kept, w), w)
        /\ ~Over(kept, w) => Trimmed(kept, w) = kept
    BY <1>2, TrimmedIsLeast
  <1>4. seq <= written => kept' = kept
    BY <1>1, <1>2, <1>3 DEF Bounded
  <1>5. ~Over(kept', written')
    BY <1>1, <1>3
  <1>6. Bounded'
    BY <1>1, <1>2, <1>3, <1>5 DEF Bounded
  <1> QED  BY <1>1, <1>2, <1>3, <1>4, <1>6 DEF LogTyped, w

LEMMA StartCursorType ==
  ASSUME LogTyped, Bounded, NEW l \in Claims
  PROVE  StartCursor(l) \in 1..(MaxSeq + 1) /\ StartCursor(l) <= nextSeq
  BY ClaimParts DEF LogTyped, Bounded, StartCursor

LEMMA PassedByType ==
  ASSUME NEW l \in Claims
  PROVE  PassedBy(l) \subseteq 1..MaxSeq
  BY ClaimParts DEF PassedBy, StaleClaim

LEMMA ExcusesType == ASSUME Typed, NEW l \in Claims PROVE Excuses(l) \subseteq Events
  <1>1. PassedBy(l) \subseteq 1..MaxSeq /\ given \subseteq 1..MaxSeq /\ passed \subseteq 1..MaxSeq
    BY PassedByType DEF Typed, PastTyped
  <1>2. runner \in 1..MaxRunner
    BY DEF Typed, NamesTyped
  <1> QED  BY <1>1, <1>2, EventType DEF Excuses

-----------------------------------------------------------------------------
(* Types. *)

LEMMA SubscribeTyped ==
  ASSUME Typed, NEW c \in Conns, Subscribe(c)
  PROVE  Typed'
  <1>1. claim[c] \in Claims
    BY DEF Typed, EndsTyped
  <1>2. PastTyped'
    BY <1>1, ExcusesType, PassedByType DEF Subscribe, Typed, PastTyped
  <1>3. /\ StartCursor(claim[c]) \in 1..(MaxSeq + 1) /\ StartCursor(claim[c]) <= nextSeq
    BY <1>1, StartCursorType DEF Typed
  <1>4. EndsTyped' /\ CursorsBounded'
    BY <1>3 DEF Subscribe, Typed, EndsTyped, CursorsBounded, Stage, Claims
  <1>5. NamesTyped'
    BY DEF Subscribe, Typed, NamesTyped
  <1> QED  BY <1>2, <1>4, <1>5
           DEF Subscribe, Typed, LogTyped, FlagsTyped, WireTyped, ReadTyped, Bounded

LEMMA HandlerTyped ==
  ASSUME Typed, NEW c \in Conns, Hello(c) \/ Write(c) \/ Reach(c) \/ WriteFails(c) \/ LoopEnds(c)
  PROVE  Typed'
  <1>1. LogTyped' /\ Bounded' /\ ReadTyped' /\ PastTyped'
    BY DEF Hello, Write, Reach, WriteFails, LoopEnds, Typed, LogTyped, Bounded, ReadTyped, PastTyped
  <1>2. NamesTyped'
    BY DEF Hello, Write, Reach, WriteFails, LoopEnds, EndOf, Calm, Upset, Typed, NamesTyped
  <1>3. EndsTyped' /\ CursorsBounded'
    <2>1. Peek(c) \in 1..(MaxSeq + 1)
      BY DEF Peek, Typed, LogTyped, EndsTyped
    <2> USE DEF Typed, EndsTyped, CursorsBounded, Stage, LogTyped
    <2>2. CASE Hello(c)
      BY <2>2 DEF Hello
    <2>3. CASE Write(c)
      BY <2>1, <2>3 DEF Write
    <2>4. CASE Reach(c)
      BY <2>4 DEF Reach
    <2>5. CASE WriteFails(c) \/ LoopEnds(c)
      <3>1. /\ stage' = [stage EXCEPT ![c] = "free"] /\ cursor' = [cursor EXCEPT ![c] = 1]
            /\ claim' = claim /\ nextSeq' = nextSeq
        BY <2>5 DEF WriteFails, LoopEnds, EndOf
      <3> QED  BY <3>1
    <2> QED  BY <2>2, <2>3, <2>4, <2>5
  <1>4. WireTyped'
    <2>1. CASE Reach(c)
      <3>1. Event(runner, cursor[c]) \in Events
        BY <2>1, EventType DEF Reach, Typed, NamesTyped, EndsTyped, LogTyped, CursorsBounded
      <3> QED  BY <2>1, <3>1, AppendProperties DEF Reach, Typed, WireTyped
    <2>2. CASE ~Reach(c)
      BY <2>2 DEF Hello, Write, WriteFails, LoopEnds, Typed, WireTyped
    <2> QED  BY <2>1, <2>2
  <1>5. FlagsTyped'
    BY Zenon DEF Hello, Write, Reach, WriteFails, LoopEnds, EndOf, Typed, FlagsTyped
  <1> QED  BY <1>1, <1>2, <1>3, <1>4, <1>5 DEF Typed

LEMMA ReturnsTyped ==
  ASSUME Typed, NEW c \in Conns, WriteReturns(c)
  PROVE  Typed'
  <1>1. cursor[c] \in 1..MaxSeq /\ cursor[c] < nextSeq
    BY DEF WriteReturns, Typed, EndsTyped, LogTyped, CursorsBounded
  <1>2. LogTyped' /\ Bounded' /\ nextSeq' = nextSeq
    <2>1. CASE Superseded(c)
      BY <2>1 DEF WriteReturns, Returned, Typed, LogTyped, Bounded
    <2>2. CASE ~Superseded(c)
      BY <1>1, <2>2, WroteKeeps DEF WriteReturns, Returned, Typed
    <2> QED  BY <2>1, <2>2
  <1>3. NamesTyped' /\ WireTyped' /\ ReadTyped' /\ PastTyped'
    BY <1>1 DEF WriteReturns, EndOf, Typed, NamesTyped, WireTyped, ReadTyped, PastTyped
  <1>4. EndsTyped' /\ CursorsBounded'
    <2> USE DEF Typed, EndsTyped, CursorsBounded, Stage, LogTyped
    <2>1. CASE Superseded(c)
      <3>1. /\ stage' = [stage EXCEPT ![c] = "free"] /\ cursor' = [cursor EXCEPT ![c] = 1]
            /\ claim' = claim
        BY <2>1 DEF WriteReturns, EndOf
      <3> QED  BY <1>2, <3>1
    <2>2. CASE ~Superseded(c)
      <3>1. /\ stage' = [stage EXCEPT ![c] = "idle"]
            /\ cursor' = [cursor EXCEPT ![c] = cursor[c] + 1] /\ claim' = claim
        BY <2>2 DEF WriteReturns
      <3>2. cursor[c] + 1 \in 1..(MaxSeq + 1) /\ cursor[c] + 1 <= nextSeq
        BY <1>1 DEF Typed, LogTyped
      <3>3. EndsTyped'
        BY <3>1, <3>2
      <3>4. CursorsBounded'
        BY <1>2, <3>1, <3>2
      <3> QED  BY <3>3, <3>4
    <2> QED  BY <2>1, <2>2
  <1>5. FlagsTyped'
    BY Zenon DEF WriteReturns, EndOf, Typed, FlagsTyped
  <1> QED  BY <1>2, <1>3, <1>4, <1>5 DEF Typed

LEMMA ConnectNames ==
  ASSUME Typed, Connect
  PROVE  \E c \in Conns :
           /\ stage[c] = "free" /\ reading' = c /\ stage' = [stage EXCEPT ![c] = "sent"]
           /\ claim' = [claim EXCEPT ![c] = lastEventId]
           /\ up' = [up EXCEPT ![c] = TRUE] /\ wire' = [wire EXCEPT ![c] = <<>>]
  <1> DEFINE c == CHOOSE f \in FreeConns : \A g \in FreeConns : f <= g
  <1>1. FreeConns \in SUBSET Nat /\ FreeConns # {} /\ FreeConns \subseteq Conns
    BY DEF Connect, FreeConns
  <1>2. c \in FreeConns
    BY <1>1, LeastExists
  <1>3. c \in Conns /\ stage[c] = "free"
    BY <1>2 DEF FreeConns
  <1>4. /\ reading' = c /\ stage' = [stage EXCEPT ![c] = "sent"]
        /\ claim' = [claim EXCEPT ![c] = lastEventId]
        /\ up' = [up EXCEPT ![c] = TRUE] /\ wire' = [wire EXCEPT ![c] = <<>>]
    BY DEF Connect
  <1> QED  BY <1>3, <1>4

LEMMA DaemonTyped ==
  ASSUME Typed, Connect \/ Read \/ GiveUp
  PROVE  Typed'
  <1>0. <<>> \in Seq(Events)
    BY EmptySeq
  <1>1. LogTyped' /\ Bounded' /\ passed' = passed /\ excused' = excused
    BY DEF Connect, Read, GiveUp, Typed, LogTyped, Bounded
  <1>2. CASE Connect
    <2>1. PICK c \in Conns :
            /\ stage[c] = "free" /\ reading' = c /\ stage' = [stage EXCEPT ![c] = "sent"]
            /\ claim' = [claim EXCEPT ![c] = lastEventId]
            /\ up' = [up EXCEPT ![c] = TRUE] /\ wire' = [wire EXCEPT ![c] = <<>>]
      BY <1>2, ConnectNames
    <2>2. /\ UNCHANGED <<runner, outboxVars, current, cursor, reached, daemon, lastEventId, got>>
          /\ UNCHANGED <<upsets, given>> /\ firstIdSeen' = FALSE
      BY <1>2 DEF Connect
    <2>3. EndsTyped' /\ WireTyped' /\ CursorsBounded'
      BY <1>0, <2>1, <2>2 DEF Typed, EndsTyped, WireTyped, ReadTyped, CursorsBounded, Stage
    <2>4. FlagsTyped'
      BY <2>1, <2>2, Zenon DEF Typed, FlagsTyped
    <2> QED  BY <1>1, <2>1, <2>2, <2>3, <2>4 DEF Typed, NamesTyped, ReadTyped, PastTyped
  <1>3. CASE Read
    <2>1. reading \in Conns /\ wire[reading] \in Seq(Events) /\ wire[reading] # <<>>
      BY <1>3 DEF Read, Typed, NamesTyped, WireTyped
    <2>2. PICK e \in Events : e = Head(wire[reading])
      BY <2>1, HeadTailProperties
    <2>3. Tail(wire[reading]) \in Seq(Events)
      BY <2>1, HeadTailProperties
    <2>4. Append(got, e) \in Seq(Events)
      BY <2>2, AppendProperties DEF Typed, ReadTyped
    <2>5. LastId(e) \in Claims /\ e.seq \in 1..MaxSeq
      BY <2>2 DEF LastId, Claims, Typed, ReadTyped, Events
    <2>6. ReadTyped' /\ WireTyped' /\ PastTyped'
      BY <1>1, <1>3, <2>1, <2>2, <2>3, <2>4, <2>5
         DEF Read, Typed, ReadTyped, WireTyped, PastTyped
    <2> QED  BY <1>1, <1>3, <2>6 DEF Read, Typed, NamesTyped, EndsTyped, FlagsTyped, CursorsBounded
  <1>4. CASE GiveUp
    <2>1. WireTyped' /\ NamesTyped'
      BY <1>0, <1>4 DEF GiveUp, Calm, Upset, Typed, WireTyped, NamesTyped
    <2>2. FlagsTyped'
      BY <1>4, Zenon DEF GiveUp, Typed, FlagsTyped
    <2> QED  BY <1>1, <1>4, <2>1, <2>2 DEF GiveUp, Typed, EndsTyped, CursorsBounded, ReadTyped, PastTyped
  <1> QED  BY <1>2, <1>3, <1>4

LEMMA ProcessTyped ==
  ASSUME Typed, Push \/ RunnerRestarts \/ DaemonRestarts \/ UNCHANGED vars
  PROVE  Typed'
  <1>0. <<>> \in Seq(Events)
    BY EmptySeq
  <1>1. CASE Push
    <2>1. LogTyped' /\ Bounded' /\ nextSeq' = nextSeq + 1
      BY <1>1 DEF Push, Typed, LogTyped, Bounded
    <2>2. CursorsBounded'
      BY <1>1, <2>1 DEF Push, Typed, LogTyped, EndsTyped, CursorsBounded
    <2> QED  BY <1>1, <2>1, <2>2 DEF Push, Typed, NamesTyped, EndsTyped, FlagsTyped, WireTyped,
                                     ReadTyped, PastTyped
  <1>2. CASE RunnerRestarts
    <2>1. ~Over(1, 0)
      BY DEF Over
    <2>2. LogTyped' /\ Bounded' /\ NamesTyped' /\ PastTyped'
      BY <1>2, <2>1 DEF RunnerRestarts, Typed, LogTyped, Bounded, NamesTyped, PastTyped
    <2>3. EndsTyped' /\ CursorsBounded'
      BY <1>2 DEF RunnerRestarts, EndsTyped, CursorsBounded, Stage, Claims
    <2>4. FlagsTyped'
      BY <1>2, Zenon DEF RunnerRestarts, Typed, FlagsTyped
    <2> QED  BY <1>2, <2>2, <2>3, <2>4 DEF RunnerRestarts, Typed, WireTyped, ReadTyped
  <1>3. CASE DaemonRestarts
    <2>1. WireTyped' /\ ReadTyped' /\ NamesTyped' /\ PastTyped'
      <3>1. WireTyped' /\ ReadTyped'
        BY <1>0, <1>3 DEF DaemonRestarts, WireTyped, ReadTyped, Claims
      <3> QED  BY <1>3, <3>1 DEF DaemonRestarts, Typed, NamesTyped, PastTyped
    <2>2. FlagsTyped'
      BY <1>3, Zenon DEF DaemonRestarts, Typed, FlagsTyped
    <2> QED  BY <1>3, <2>1, <2>2 DEF DaemonRestarts, Typed, LogTyped, EndsTyped, Bounded, CursorsBounded
  <1>4. CASE UNCHANGED vars
    BY <1>4 DEF Typed, LogTyped, NamesTyped, EndsTyped, FlagsTyped, WireTyped, ReadTyped, PastTyped,
                Bounded, CursorsBounded
  <1> QED  BY <1>1, <1>2, <1>3, <1>4

LEMMA NetworkTyped ==
  ASSUME Typed, NEW c \in Conns, Cut(c) \/ RequestLost(c)
  PROVE  Typed'
  <1>0. <<>> \in Seq(Events)
    BY EmptySeq
  <1>1. CASE Cut(c)
    <2>1. WireTyped' /\ NamesTyped'
      BY <1>0, <1>1 DEF Cut, Upset, Typed, WireTyped, NamesTyped
    <2>2. FlagsTyped'
      BY <1>1, Zenon DEF Cut, Typed, FlagsTyped
    <2> QED  BY <1>1, <2>1, <2>2 DEF Cut, Typed, LogTyped, EndsTyped, Bounded, CursorsBounded, ReadTyped,
                               PastTyped
  <1>2. CASE RequestLost(c)
    BY <1>2 DEF RequestLost, Typed, LogTyped, NamesTyped, EndsTyped, FlagsTyped,
                WireTyped, ReadTyped, PastTyped, Bounded, CursorsBounded, Stage, Claims
  <1> QED  BY <1>1, <1>2

(* An action of Next, for a connection.                                      *)
LEMMA Actions ==
  ASSUME [Next]_vars
  PROVE  \/ Push \/ Connect \/ Read \/ GiveUp \/ RunnerRestarts \/ DaemonRestarts
         \/ \E c \in Conns : Subscribe(c) \/ Hello(c) \/ Write(c) \/ Reach(c) \/ WriteReturns(c)
                             \/ WriteFails(c) \/ LoopEnds(c) \/ Cut(c) \/ RequestLost(c)
         \/ UNCHANGED vars
  BY DEF Next, Handler

LEMMA TypedStep == Typed /\ [Next]_vars => Typed'
  <1> SUFFICES ASSUME Typed, [Next]_vars PROVE Typed'
    OBVIOUS
  <1>1. CASE \E c \in Conns : Subscribe(c) \/ Hello(c) \/ Write(c) \/ Reach(c) \/ WriteReturns(c)
                             \/ WriteFails(c) \/ LoopEnds(c) \/ Cut(c) \/ RequestLost(c)
    BY <1>1, SubscribeTyped, HandlerTyped, ReturnsTyped, NetworkTyped
  <1>2. CASE Connect \/ Read \/ GiveUp
    BY <1>2, DaemonTyped
  <1>3. CASE Push \/ RunnerRestarts \/ DaemonRestarts \/ UNCHANGED vars
    BY <1>3, ProcessTyped
  <1> QED  BY <1>1, <1>2, <1>3, Actions

(* The types and the bounds of the state.                                    *)
THEOREM TypesHold == Spec => []TypeOK
  <1>1. Init => Typed
    BY InitTyped
  <1>2. Typed /\ [Next]_vars => Typed'
    BY TypedStep
  <1>3. Typed => TypeOK
    BY TypedIsTypeOK
  <1> QED  BY <1>1, <1>2, <1>3, PTL DEF Spec

-----------------------------------------------------------------------------
(* What was given, or passed over. *)

Elems(s) == {s[k] : k \in 1..Len(s)}

LEMMA ElemsOfEmpty == Elems(<<>>) = {}
  BY DEF Elems

LEMMA ElemsOfAppend ==
  ASSUME NEW s \in Seq(Events), NEW e \in Events
  PROVE  Elems(Append(s, e)) = Elems(s) \cup {e}
  <1> DEFINE t == Append(s, e)
  <1>1. /\ Len(t) = Len(s) + 1 /\ Len(s) \in Nat
        /\ \A i \in 1..Len(s) : t[i] = s[i]
        /\ t[Len(s) + 1] = e
    BY AppendProperties, LenProperties
  <1> HIDE DEF t
  <1>2. ASSUME NEW k \in 1..Len(t) PROVE t[k] \in Elems(s) \cup {e}
    BY <1>1 DEF Elems
  <1>3. ASSUME NEW k \in 1..Len(s) PROVE s[k] \in Elems(t)
    BY <1>1 DEF Elems
  <1>4. e \in Elems(t)
    BY <1>1 DEF Elems
  <1> QED  BY <1>2, <1>3, <1>4 DEF Elems, t

LEMMA ElemsOfTail ==
  ASSUME NEW s \in Seq(Events), s # <<>>
  PROVE  /\ Head(s) \in Events /\ Elems(s) = Elems(Tail(s)) \cup {Head(s)}
  <1> DEFINE t == Tail(s)
  <1>1. /\ Len(t) = Len(s) - 1 /\ Len(s) \in Nat \ {0}
        /\ \A i \in 1..Len(t) : t[i] = s[i + 1]
        /\ Head(s) \in Events /\ Head(s) = s[1]
    BY HeadTailProperties, EmptySeq
  <1> HIDE DEF t
  <1>2. ASSUME NEW k \in 1..Len(s) PROVE s[k] \in Elems(t) \cup {Head(s)}
    <2>1. CASE k = 1
      BY <1>1, <2>1
    <2>2. CASE k # 1
      <3>1. k - 1 \in 1..Len(t) /\ s[k] = t[k - 1]
        BY <1>1, <2>2
      <3> QED  BY <3>1 DEF Elems
    <2> QED  BY <2>1, <2>2
  <1>3. ASSUME NEW k \in 1..Len(t) PROVE t[k] \in Elems(s)
    BY <1>1, <1>3 DEF Elems
  <1>4. Head(s) \in Elems(s)
    BY <1>1 DEF Elems
  <1> QED  BY <1>1, <1>2, <1>3, <1>4 DEF Elems, t

LEMMA ElemsType == ASSUME NEW s \in Seq(Events) PROVE Elems(s) \subseteq Events
  BY LenProperties DEF Elems

Had(n) == \A s \in 1..n : s \in given \cup passed

Live(c) == stage[c] \in {"hello", "idle", "writing"}

KnownLog     == Had(written)
KnownCursors == \A c \in Conns : Live(c) => Had(cursor[c] - 1)

(* The connection subscribed is live, its cursor not behind what it writes.  *)
Subscribed ==
  \A c \in Conns : current = c => Live(c) /\ (stage[c] = "writing" => kept <= cursor[c])

KnownTo(e, n) == e.runner <= runner /\ (e.runner = runner => e.seq < nextSeq /\ Had(n))

Numbered ==
  /\ \A c \in Conns : \A e \in Elems(wire[c]) : KnownTo(e, e.seq - 1)
  /\ \A e \in Elems(got) : KnownTo(e, e.seq - 1)
  /\ lastEventId # None => KnownTo(lastEventId, lastEventId.seq)
  /\ \A c \in Conns : claim[c] # None => KnownTo(claim[c], claim[c].seq)

Base == Typed /\ KnownLog /\ KnownCursors /\ Subscribed /\ Numbered

(* All but a restart of the runner only add to what is known.                *)
Grows == /\ runner' = runner /\ nextSeq' >= nextSeq
         /\ given \subseteq given' /\ passed \subseteq passed'

LEMMA StepGrows ==
  ASSUME Typed, [Next]_vars
  PROVE  Grows \/ RunnerRestarts
  <1>1. nextSeq \in Nat
    BY DEF Typed, LogTyped
  <1>2. ASSUME NEW c \in Conns, WriteReturns(c) PROVE Grows
    <2>1. nextSeq' = nextSeq
      BY <1>2 DEF WriteReturns, Returned, Wrote
    <2>2. runner' = runner /\ passed' = passed /\ given \subseteq given'
      BY <1>2 DEF WriteReturns
    <2> QED  BY <1>1, <2>1, <2>2 DEF Grows
  <1>3. ASSUME NEW c \in Conns,
               Subscribe(c) \/ Hello(c) \/ Write(c) \/ Reach(c) \/ WriteFails(c) \/ LoopEnds(c)
                 \/ Cut(c) \/ RequestLost(c)
        PROVE  Grows
    BY <1>1, <1>3 DEF Grows, Subscribe, Hello, Write, Reach, WriteFails, LoopEnds, Cut, RequestLost
  <1>4. ASSUME Push \/ Connect \/ Read \/ GiveUp \/ DaemonRestarts \/ UNCHANGED vars PROVE Grows
    BY <1>1, <1>4 DEF Grows, Push, Connect, Read, GiveUp, DaemonRestarts
  <1> QED  BY <1>2, <1>3, <1>4, Actions

LEMMA HadGrows == ASSUME NEW n, Grows, Had(n) PROVE Had(n)'
  BY DEF Grows, Had

LEMMA KnownGrows ==
  ASSUME Typed, Typed', NEW e \in Events, NEW n, KnownTo(e, n), Grows \/ RunnerRestarts
  PROVE  KnownTo(e, n)'
  <1>1. CASE Grows
    <2>1. Had(n) => Had(n)'
      BY <1>1, HadGrows
    <2>2. nextSeq \in Nat /\ nextSeq' \in Nat /\ e.seq \in Nat
      BY DEF Typed, LogTyped, Events
    <2> QED  BY <1>1, <2>1, <2>2 DEF Grows, KnownTo
  <1>2. CASE RunnerRestarts
    <2>1. runner' = runner + 1 /\ runner \in Nat /\ e.runner \in Nat
      BY <1>2 DEF RunnerRestarts, Typed, NamesTyped, Events
    <2> QED  BY <2>1 DEF KnownTo
  <1> QED  BY <1>1, <1>2

LEMMA BaseInit == Init => Base
  <1> SUFFICES ASSUME Init PROVE Base
    OBVIOUS
  <1> QED  BY InitTyped, ElemsOfEmpty
           DEF Init, Base, KnownLog, KnownCursors, Subscribed, Numbered, Live, Had

LEMMA StartKnown ==
  ASSUME Base, NEW c \in Conns, Subscribe(c), NEW n, n = StartCursor(claim[c]) - 1
  PROVE  Had(n)'
  <1> DEFINE l == claim[c]
  <1>1. l \in Claims /\ Grows
    BY DEF Subscribe, Grows, Base, Typed, EndsTyped, LogTyped
  <1>2. Had(written) /\ Had(kept - 1)
    BY DEF Base, KnownLog, Had, Typed, Bounded, LogTyped
  <1>3. CASE l = None
    <2>1. n = written
      BY <1>3 DEF StartCursor, Base, Typed, LogTyped
    <2> QED  BY <1>1, <1>2, <2>1, HadGrows
  <1>4. CASE l # None /\ l.seq >= nextSeq
    <2>1. n = kept - 1
      BY <1>4 DEF StartCursor
    <2> QED  BY <1>1, <1>2, <2>1, HadGrows
  <1>5. CASE l # None /\ l.seq < nextSeq
    <2>1. n = l.seq /\ l.seq \in Nat
      BY <1>1, <1>5, ClaimParts DEF StartCursor, Base, Typed, LogTyped
    <2>2. CASE l.runner = runner
      <3>1. Had(l.seq)
        BY <1>5, <2>2 DEF Base, Numbered, KnownTo
      <3> QED  BY <1>1, <2>1, <3>1, HadGrows
    <2>3. CASE l.runner # runner
      <3>1. 1..l.seq \subseteq passed'
        BY <1>5, <2>3 DEF Subscribe, PassedBy, StaleClaim
      <3> QED  BY <2>1, <3>1 DEF Had
    <2> QED  BY <2>2, <2>3
  <1> QED  BY <1>1, <1>3, <1>4, <1>5, ClaimParts DEF Base, Typed, LogTyped

(* The steps by which Base is kept, one conjunct after the other.            *)

LEMMA LogStep == ASSUME Base, [Next]_vars PROVE KnownLog'
  <1>1. ASSUME NEW c \in Conns, WriteReturns(c), ~Superseded(c) PROVE KnownLog'
    <2>1. /\ Wrote(cursor[c]) /\ given' = given \cup {cursor[c]} /\ passed' = passed
          /\ Live(c) /\ cursor[c] \in Nat /\ written \in Nat
      BY <1>1 DEF WriteReturns, Returned, Live, Base, Typed, EndsTyped, LogTyped
    <2>2. Had(cursor[c] - 1) /\ Had(written)
      BY <2>1 DEF Base, KnownCursors, KnownLog
    <2>3. written' = IF cursor[c] > written THEN cursor[c] ELSE written
      BY <2>1 DEF Wrote
    <2> QED  BY <2>1, <2>2, <2>3 DEF KnownLog, Had
  <1>2. CASE RunnerRestarts
    BY <1>2 DEF RunnerRestarts, KnownLog, Had
  <1>3. CASE Grows /\ written' = written
    BY <1>3 DEF Grows, KnownLog, Had, Base
  <1>4. Grows \/ RunnerRestarts
    BY StepGrows DEF Base
  <1>5. ASSUME NEW c \in Conns,
               Subscribe(c) \/ Hello(c) \/ Write(c) \/ Reach(c) \/ WriteFails(c) \/ LoopEnds(c)
                 \/ Cut(c) \/ RequestLost(c) \/ (WriteReturns(c) /\ Superseded(c))
        PROVE  written' = written
    BY <1>5 DEF Subscribe, Hello, Write, Reach, WriteFails, LoopEnds, Cut, RequestLost,
                WriteReturns, Returned
  <1>6. ASSUME Push \/ Connect \/ Read \/ GiveUp \/ DaemonRestarts \/ UNCHANGED vars
        PROVE  written' = written
    BY <1>6 DEF Push, Connect, Read, GiveUp, DaemonRestarts
  <1> QED  BY <1>1, <1>2, <1>3, <1>4, <1>5, <1>6, Actions

LEMMA CursorsStep == ASSUME Base, [Next]_vars PROVE KnownCursors'
  <1>1. Grows \/ RunnerRestarts
    BY StepGrows DEF Base
  <1>2. CASE RunnerRestarts
    BY <1>2 DEF RunnerRestarts, KnownCursors, Live
  <1>3. SUFFICES ASSUME Grows, NEW d \in Conns, Live(d)', NEW n, n = cursor'[d] - 1
                 PROVE  Had(n)'
    BY <1>1, <1>2 DEF KnownCursors, Had
  <1>4. CASE Live(d) /\ cursor'[d] = cursor[d]
    BY <1>3, <1>4, HadGrows DEF Base, KnownCursors
  <1>5. ASSUME NEW c \in Conns, Subscribe(c) PROVE Had(n)'
    <2>1. CASE c = d
      BY <1>3, <1>5, <2>1, StartKnown DEF Subscribe, Base, Typed, EndsTyped
    <2>2. CASE c # d
      BY <1>3, <1>4, <1>5, <2>2 DEF Subscribe, Live, Base, Typed, EndsTyped
    <2> QED  BY <2>1, <2>2
  <1>6. ASSUME NEW c \in Conns, Write(c) PROVE Had(n)'
    <2>1. CASE c = d
      <3>1. n = cursor[d] - 1 \/ n = kept - 1
        BY <1>3, <1>6, <2>1 DEF Write, Peek, Base, Typed, EndsTyped
      <3>2. Had(kept - 1) /\ Had(cursor[d] - 1)
        BY <1>6, <2>1 DEF Write, Live, Base, KnownLog, KnownCursors, Had, Typed, Bounded, LogTyped
      <3> QED  BY <1>3, <3>1, <3>2, HadGrows
    <2>2. CASE c # d
      BY <1>3, <1>4, <1>6, <2>2 DEF Write, Live, Base, Typed, EndsTyped
    <2> QED  BY <2>1, <2>2
  <1>7. ASSUME NEW c \in Conns, WriteReturns(c) PROVE Had(n)'
    <2>1. CASE c = d
      <3>1. ~Superseded(c)
        BY <1>3, <1>7, <2>1 DEF WriteReturns, EndOf, Live, Base, Typed, EndsTyped
      <3>2. n = cursor[d] /\ cursor[d] \in given' /\ cursor[d] \in Nat
        BY <1>3, <1>7, <2>1, <3>1 DEF WriteReturns, Base, Typed, EndsTyped
      <3>3. Had(cursor[d] - 1)
        BY <1>7, <2>1 DEF WriteReturns, Live, Base, KnownCursors
      <3> QED  BY <1>3, <3>2, <3>3 DEF Had, Grows
    <2>2. CASE c # d
      BY <1>3, <1>4, <1>7, <2>2 DEF WriteReturns, EndOf, Live, Base, Typed, EndsTyped
    <2> QED  BY <2>1, <2>2
  <1>8. ASSUME NEW c \in Conns,
               Hello(c) \/ Reach(c) \/ WriteFails(c) \/ LoopEnds(c) \/ Cut(c) \/ RequestLost(c)
        PROVE  Live(d) /\ cursor'[d] = cursor[d]
    BY <1>3, <1>8 DEF Hello, Reach, WriteFails, LoopEnds, Cut, RequestLost, EndOf, Live, Base, Typed,
                      EndsTyped
  <1>9. CASE Connect
    BY <1>3, <1>4, <1>9, ConnectNames DEF Connect, Live, Base, Typed, EndsTyped
  <1>10. ASSUME Push \/ Read \/ GiveUp \/ DaemonRestarts \/ UNCHANGED vars
         PROVE  Live(d) /\ cursor'[d] = cursor[d]
    BY <1>3, <1>10 DEF Push, Read, GiveUp, DaemonRestarts, Live
  <1>11. ~RunnerRestarts
    BY <1>3 DEF RunnerRestarts, Grows, Base, Typed, NamesTyped
  <1> QED  BY <1>4, <1>5, <1>6, <1>7, <1>8, <1>9, <1>10, <1>11, Actions

LEMMA SubscribedStep == ASSUME Base, [Next]_vars PROVE Subscribed'
  <1> USE DEF Subscribed, Live
  <1>1. ASSUME NEW c \in Conns, WriteReturns(c) PROVE Subscribed'
    <2>1. CASE Superseded(c)
      <3>1. outboxVars' = outboxVars /\ current' = current /\ stage' = [stage EXCEPT ![c] = "free"]
            /\ cursor' = [cursor EXCEPT ![c] = 1]
        BY <1>1, <2>1 DEF WriteReturns, Returned, EndOf
      <3> QED  BY <2>1, <3>1 DEF Superseded, Base, Typed, EndsTyped
    <2>2. CASE ~Superseded(c)
      <3>1. current = c /\ current' = c /\ stage' = [stage EXCEPT ![c] = "idle"]
        BY <1>1, <2>2 DEF WriteReturns, Superseded
      <3> QED  BY <3>1 DEF Base, Typed, EndsTyped
    <2> QED  BY <2>1, <2>2
  <1>2. ASSUME NEW c \in Conns, Write(c) PROVE Subscribed'
    BY <1>2 DEF Write, Peek, Base, Typed, EndsTyped, LogTyped
  <1>3. ASSUME NEW c \in Conns, WriteFails(c) \/ LoopEnds(c) PROVE Subscribed'
    <2>1. /\ kept' = kept /\ stage' = [stage EXCEPT ![c] = "free"]
          /\ cursor' = [cursor EXCEPT ![c] = 1] /\ current' = IF current # c THEN current ELSE None
      BY <1>3 DEF WriteFails, LoopEnds, EndOf, Superseded
    <2>2. None \notin Conns
      OBVIOUS
    <2> QED  BY <2>1, <2>2 DEF Base, Typed, EndsTyped
  <1>4. ASSUME NEW c \in Conns, Subscribe(c) \/ Hello(c) \/ Reach(c) \/ Cut(c) \/ RequestLost(c)
        PROVE  Subscribed'
    BY <1>4 DEF Subscribe, Hello, Reach, Cut, RequestLost, Base, Typed, EndsTyped
  <1>5. CASE Connect
    BY <1>5, ConnectNames DEF Connect, Base, Typed, EndsTyped
  <1>6. CASE RunnerRestarts
    BY <1>6 DEF RunnerRestarts
  <1>7. CASE Push \/ Read \/ GiveUp \/ DaemonRestarts \/ UNCHANGED vars
    BY <1>7 DEF Push, Read, GiveUp, DaemonRestarts, Base
  <1> QED  BY <1>1, <1>2, <1>3, <1>4, <1>5, <1>6, <1>7, Actions

(* What is claimed, read or on the wire in a step is what was, or known.     *)
LEMMA NumberedStep ==
  ASSUME Base, [Next]_vars, Typed'
  PROVE  Numbered'
  <1>0. Grows \/ RunnerRestarts
    BY StepGrows DEF Base
  <1> DEFINE Old(e) == e \in Elems(got) \/ \E c \in Conns : e \in Elems(wire[c])
  <1>1. ASSUME NEW e, Old(e) PROVE e \in Events /\ KnownTo(e, e.seq - 1)'
    <2>1. e \in Events /\ KnownTo(e, e.seq - 1)
      BY <1>1, ElemsType DEF Base, Typed, WireTyped, ReadTyped, Numbered
    <2> QED  BY <1>0, <2>1, KnownGrows DEF Base
  <1>2. ASSUME NEW l, l # None, l = lastEventId \/ \E c \in Conns : l = claim[c]
        PROVE  KnownTo(l, l.seq)'
    <2>1. l \in Events /\ KnownTo(l, l.seq)
      BY <1>2 DEF Base, Typed, EndsTyped, ReadTyped, Claims, Numbered
    <2> QED  BY <1>0, <2>1, KnownGrows DEF Base
  <1>3. ASSUME /\ \A c \in Conns : \A e \in Elems(wire'[c]) : KnownTo(e, e.seq - 1)'
               /\ \A e \in Elems(got') : KnownTo(e, e.seq - 1)'
               /\ lastEventId' # None => KnownTo(lastEventId, lastEventId.seq)'
               /\ \A c \in Conns : claim'[c] # None => KnownTo(claim[c], claim[c].seq)'
        PROVE  Numbered'
    BY <1>3 DEF Numbered
  <1> DEFINE Less == /\ lastEventId' = lastEventId \/ lastEventId' = None
                     /\ \A c \in Conns : claim'[c] \in {claim[c], None, lastEventId}
                     /\ got' = got \/ got' = <<>>
                     /\ \A c \in Conns : wire'[c] = wire[c] \/ wire'[c] = <<>>
  <1>5. CASE Less
    <2>1. ASSUME NEW c \in Conns, claim'[c] # None PROVE KnownTo(claim[c], claim[c].seq)'
      <3>1. PICK l : l = claim'[c]
        OBVIOUS
      <3>2. KnownTo(l, l.seq)'
        BY <1>2, <1>5, <2>1, <3>1
      <3> QED  BY <3>1, <3>2 DEF KnownTo
    <2>2. lastEventId' # None => KnownTo(lastEventId, lastEventId.seq)'
      BY <1>2, <1>5 DEF KnownTo
    <2>3. \A c \in Conns : \A e \in Elems(wire'[c]) : KnownTo(e, e.seq - 1)'
      BY <1>1, <1>5, ElemsOfEmpty
    <2>4. \A e \in Elems(got') : KnownTo(e, e.seq - 1)'
      BY <1>1, <1>5, ElemsOfEmpty
    <2> QED  BY <1>3, <2>1, <2>2, <2>3, <2>4
  <1>6. ASSUME NEW c \in Conns, Reach(c) PROVE Numbered'
    <2>1. PICK e \in Events : e = Event(runner, cursor[c])
      BY <1>6, EventType DEF Reach, Base, Typed, NamesTyped, EndsTyped, LogTyped, CursorsBounded
    <2>2. e.runner = runner /\ e.seq = cursor[c]
      BY <2>1 DEF Event
    <2>3. KnownTo(e, e.seq - 1)'
      <3>1. cursor[c] < nextSeq /\ Had(cursor[c] - 1) /\ runner <= runner
        BY <1>6 DEF Reach, Live, Base, KnownCursors, Typed, CursorsBounded, NamesTyped
      <3>2. KnownTo(e, e.seq - 1)
        BY <2>2, <3>1 DEF KnownTo
      <3> QED  BY <1>6, <3>2 DEF Reach, KnownTo, Had
    <2>4. ASSUME NEW d \in Conns, NEW f \in Elems(wire'[d]) PROVE KnownTo(f, f.seq - 1)'
      <3>1. CASE d # c
        BY <1>1, <1>6, <2>4, <3>1 DEF Reach, Base, Typed, WireTyped
      <3>2. CASE d = c
        <4>1. wire'[c] = Append(wire[c], e)
          BY <1>6, <2>1 DEF Reach, Base, Typed, WireTyped
        <4>2. Elems(wire'[c]) = Elems(wire[c]) \cup {e}
          BY <4>1, ElemsOfAppend DEF Base, Typed, WireTyped
        <4> QED  BY <1>1, <2>3, <2>4, <3>2, <4>2
      <3> QED  BY <3>1, <3>2
    <2> QED  BY <1>1, <1>2, <1>6, <2>4 DEF Reach, Numbered, KnownTo
  <1>7. ASSUME Read PROVE Numbered'
    <2>1. reading \in Conns /\ wire[reading] \in Seq(Events) /\ wire[reading] # <<>>
      BY <1>7 DEF Read, Base, Typed, NamesTyped, WireTyped
    <2>2. PICK e \in Events : /\ e = Head(wire[reading])
                              /\ Elems(wire[reading]) = Elems(Tail(wire[reading])) \cup {e}
      BY <2>1, ElemsOfTail
    <2>3. /\ got' = Append(got, e) /\ lastEventId' = LastId(e) /\ runner' = runner
          /\ given' = IF e.runner = runner THEN given \cup {e.seq} ELSE given
          /\ wire' = [wire EXCEPT ![reading] = Tail(wire[reading])] /\ claim' = claim
      BY <1>7, <2>2 DEF Read
    <2>4. Elems(got') = Elems(got) \cup {e}
      BY <2>3, ElemsOfAppend DEF Base, Typed, ReadTyped
    <2>5. KnownTo(e, e.seq - 1)'
      BY <1>1, <2>1, <2>2
    <2>6. KnownTo(e, e.seq)'
      BY <2>3, <2>5 DEF KnownTo, Had, Events
    <2>7. LastId(e) \in {e, lastEventId} /\ (LastId(e) = lastEventId => lastEventId # None \/ LastId(e) = e)
      BY DEF LastId
    <2>8. lastEventId' # None => KnownTo(lastEventId, lastEventId.seq)'
      <3>1. CASE lastEventId' = e
        BY <2>6, <3>1 DEF KnownTo
      <3>2. CASE lastEventId' = lastEventId
        BY <1>2, <3>2 DEF KnownTo
      <3> QED  BY <2>3, <2>7, <3>1, <3>2
    <2>9. ASSUME NEW d \in Conns, NEW f \in Elems(wire'[d]) PROVE f \in Elems(wire[d])
      BY <2>2, <2>3, <2>9 DEF Base, Typed, WireTyped
    <2>10. ASSUME NEW c \in Conns, claim'[c] # None PROVE KnownTo(claim[c], claim[c].seq)'
      BY <1>2, <2>3, <2>10 DEF KnownTo
    <2>11. \A f \in Elems(got') : KnownTo(f, f.seq - 1)'
      BY <1>1, <2>4, <2>5
    <2>12. \A d \in Conns : \A f \in Elems(wire'[d]) : KnownTo(f, f.seq - 1)'
      BY <1>1, <2>9
    <2> QED  BY <1>3, <2>8, <2>10, <2>11, <2>12
  <1>8. ASSUME NEW c \in Conns,
               Subscribe(c) \/ Hello(c) \/ Write(c) \/ WriteReturns(c) \/ WriteFails(c)
                 \/ LoopEnds(c) \/ Cut(c) \/ RequestLost(c)
        PROVE  Less
    <2>1. /\ lastEventId' = lastEventId /\ got' = got
          /\ claim' = claim \/ claim' = [claim EXCEPT ![c] = None]
          /\ wire' = wire \/ wire' = [wire EXCEPT ![c] = <<>>]
      BY <1>8 DEF Subscribe, Hello, Write, WriteReturns, WriteFails, LoopEnds, Cut, RequestLost
    <2> QED  BY <2>1 DEF Base, Typed, EndsTyped, WireTyped
  <1>9. ASSUME Push \/ GiveUp \/ RunnerRestarts \/ DaemonRestarts \/ UNCHANGED vars
        PROVE  Less
    <2>1. /\ lastEventId' = lastEventId \/ lastEventId' = None
          /\ got' = got \/ got' = <<>>
      BY <1>9 DEF Push, GiveUp, RunnerRestarts, DaemonRestarts
    <2>2. \A c \in Conns : claim'[c] \in {claim[c], None}
      BY <1>9 DEF Push, GiveUp, RunnerRestarts, DaemonRestarts
    <2>3. \A c \in Conns : wire'[c] = wire[c] \/ wire'[c] = <<>>
      BY <1>9 DEF Push, GiveUp, RunnerRestarts, DaemonRestarts, Base, Typed, WireTyped
    <2> QED  BY <2>1, <2>2, <2>3
  <1>10. CASE Connect
    <2>1. PICK c \in Conns : /\ claim' = [claim EXCEPT ![c] = lastEventId]
                             /\ wire' = [wire EXCEPT ![c] = <<>>]
      BY <1>10, ConnectNames DEF Base
    <2>2. \A d \in Conns : claim'[d] \in {claim[d], lastEventId}
      BY <2>1 DEF Base, Typed, EndsTyped
    <2>3. \A d \in Conns : wire'[d] = wire[d] \/ wire'[d] = <<>>
      BY <2>1 DEF Base, Typed, WireTyped
    <2>4. lastEventId' = lastEventId /\ got' = got
      BY <1>10 DEF Connect
    <2>5. Less
      BY <2>2, <2>3, <2>4
    <2> QED  BY <1>5, <2>5
  <1> HIDE DEF Less
  <1> QED  BY <1>5, <1>6, <1>7, <1>8, <1>9, <1>10, Actions

LEMMA BaseStep == Base /\ [Next]_vars => Base'
  BY TypedStep, LogStep, CursorsStep, SubscribedStep, NumberedStep DEF Base

(* The history loses only what was given to a connection or passed over.     *)
THEOREM LeavesWritten == Spec => []OnlyWrittenLeaves
  <1>1. Base => OnlyWrittenLeaves
    BY DEF Base, Typed, LogTyped, Bounded, KnownLog, Had, OnlyWrittenLeaves
  <1> QED  BY <1>1, BaseInit, BaseStep, PTL DEF Spec

(* The history is trimmed behind the cursor of the connection subscribed.    *)
THEOREM ReplaysAreKept == Spec => ReplayIsKept
  <1>1. Base /\ [Next]_vars => [kept' > kept => current' # None /\ kept' <= cursor'[current']]_vars
    <2> SUFFICES ASSUME Base, [Next]_vars, kept' > kept
                 PROVE  current' # None /\ kept' <= cursor'[current']
      OBVIOUS
    <2>1. PICK c \in Conns : WriteReturns(c) /\ ~Superseded(c)
      <3>1. kept \in Nat /\ kept >= 1 /\ kept' # kept
        BY DEF Base, Typed, LogTyped
      <3>2. ~RunnerRestarts
        BY <3>1 DEF RunnerRestarts
      <3>3. ~(Push \/ Connect \/ Read \/ GiveUp \/ DaemonRestarts \/ UNCHANGED vars)
        BY <3>1 DEF Push, Connect, Read, GiveUp, DaemonRestarts
      <3>4. ASSUME NEW c \in Conns,
                   Subscribe(c) \/ Hello(c) \/ Write(c) \/ Reach(c) \/ WriteFails(c) \/ LoopEnds(c)
                     \/ Cut(c) \/ RequestLost(c) \/ (WriteReturns(c) /\ Superseded(c))
            PROVE  FALSE
        BY <3>1, <3>4 DEF Subscribe, Hello, Write, Reach, WriteReturns, Returned, WriteFails,
                          LoopEnds, Cut, RequestLost
      <3> QED  BY <3>2, <3>3, <3>4, Actions
    <2>2. /\ current' = c /\ cursor' = [cursor EXCEPT ![c] = cursor[c] + 1] /\ Wrote(cursor[c])
          /\ cursor[c] \in 1..MaxSeq /\ cursor[c] < nextSeq
      BY <2>1 DEF WriteReturns, Returned, Superseded, Base, Typed, EndsTyped, LogTyped,
                  CursorsBounded
    <2>3. /\ written' = IF cursor[c] > written THEN cursor[c] ELSE written
          /\ kept' <= written' + 1
          /\ cursor[c] <= written => kept' = kept
      BY <2>2, WroteKeeps DEF Base, Typed
    <2>4. written' = cursor[c]
      BY <2>2, <2>3 DEF Base, Typed, LogTyped
    <2>5. cursor'[c] = cursor[c] + 1 /\ c # None
      BY <2>2 DEF Base, Typed, EndsTyped
    <2> QED  BY <2>2, <2>3, <2>4, <2>5
  <1> QED  BY <1>1, BaseInit, BaseStep, PTL DEF Spec, ReplayIsKept

-----------------------------------------------------------------------------
(* What a daemon reads. *)

(* Only the connection that is read brings anything, and it begins empty,    *)
(* with the claim of what was read before.                                   *)
OneReader ==
  \A c \in Conns :
    /\ up[c] => reading = c
    /\ ~up[c] => wire[c] = <<>>
    /\ stage[c] = "sent" /\ up[c] => wire[c] = <<>> /\ claim[c] = lastEventId /\ ~firstIdSeen
    /\ reached[c] => stage[c] = "writing"

Before(d, e) == d.runner <= e.runner /\ (d.runner = e.runner => d.seq < e.seq)

(* The claim is the last event read.                                         *)
Claimed ==
  /\ lastEventId = None => got = <<>> /\ ~firstIdSeen
  /\ lastEventId # None => /\ lastEventId \in Elems(got)
                           /\ \A d \in Elems(got) : d = lastEventId \/ Before(d, lastEventId)

Rising(s) ==
  \A i, j \in 1..Len(s) : i < j => s[i].runner = s[j].runner /\ s[i].seq < s[j].seq

Ordered ==
  /\ OnceInOrder
  /\ \A c \in Conns :
       /\ Rising(wire[c])
       /\ \A d \in Elems(got), e \in Elems(wire[c]) : Before(d, e)
       /\ firstIdSeen => \A e \in Elems(wire[c]) : e.runner = lastEventId.runner

Brought(c) == Elems(got) \cup Elems(wire[c])

Full ==
  /\ \A e \in Elems(got) : \A s \in 1..(e.seq - 1) : Event(e.runner, s) \in excused \cup Elems(got)
  /\ \A c \in Conns : \A e \in Elems(wire[c]) : \A s \in 1..(e.seq - 1) :
       Event(e.runner, s) \in excused \cup Brought(c)

(* What a live connection has brought ends right before its cursor.          *)
ContinuesAt(c) ==
  /\ \A e \in Elems(wire[c]) : e.runner = runner
  /\ \A e \in Brought(c) :
       e.runner = runner => e.seq < cursor[c] \/ (reached[c] /\ e.seq = cursor[c])
  /\ firstIdSeen => lastEventId.runner = runner
  /\ \A s \in 1..(cursor[c] - 1) : Event(runner, s) \in excused \cup Brought(c)
  /\ current = c => \A s \in 1..(kept - 1) : Event(runner, s) \in excused \cup Brought(c)
  /\ reached[c] => Event(runner, cursor[c]) \in excused \cup Brought(c)

Continues == \A c \in Conns : up[c] /\ Live(c) => ContinuesAt(c)

Reading == OneReader /\ Claimed /\ Ordered /\ Full /\ Continues

LEMMA RisingAppend ==
  ASSUME NEW s \in Seq(Events), NEW e \in Events, Rising(s),
         \A d \in Elems(s) : d.runner = e.runner /\ d.seq < e.seq
  PROVE  Rising(Append(s, e))
  <1> DEFINE t == Append(s, e)
  <1>1. /\ Len(t) = Len(s) + 1 /\ Len(s) \in Nat
        /\ \A i \in 1..Len(s) : t[i] = s[i]
        /\ t[Len(s) + 1] = e
    BY AppendProperties, LenProperties
  <1> HIDE DEF t
  <1>2. ASSUME NEW i \in 1..Len(t), NEW j \in 1..Len(t), i < j
        PROVE  t[i].runner = t[j].runner /\ t[i].seq < t[j].seq
    <2>1. i \in 1..Len(s) /\ t[i] = s[i] /\ s[i] \in Elems(s)
      BY <1>1, <1>2 DEF Elems
    <2>2. CASE j \in 1..Len(s)
      BY <1>1, <1>2, <2>1, <2>2 DEF Rising
    <2>3. CASE j = Len(s) + 1
      BY <1>1, <2>1, <2>3
    <2> QED  BY <1>1, <1>2, <2>2, <2>3
  <1> QED  BY <1>2 DEF Rising, t

LEMMA RisingTail ==
  ASSUME NEW s \in Seq(Events), s # <<>>, Rising(s)
  PROVE  /\ Rising(Tail(s))
         /\ \A e \in Elems(Tail(s)) : Head(s).runner = e.runner /\ Head(s).seq < e.seq
  <1> DEFINE t == Tail(s)
  <1>1. /\ Len(t) = Len(s) - 1 /\ Len(s) \in Nat \ {0}
        /\ \A i \in 1..Len(t) : t[i] = s[i + 1]
        /\ Head(s) = s[1]
    BY HeadTailProperties, EmptySeq
  <1> HIDE DEF t
  <1>2. ASSUME NEW i \in 1..Len(t)
        PROVE  Head(s).runner = t[i].runner /\ Head(s).seq < t[i].seq
    <2>1. i + 1 \in 1..Len(s) /\ 1 \in 1..Len(s) /\ 1 < i + 1 /\ t[i] = s[i + 1]
      BY <1>1
    <2> QED  BY <1>1, <2>1 DEF Rising
  <1>3. ASSUME NEW i \in 1..Len(t), NEW j \in 1..Len(t), i < j
        PROVE  t[i].runner = t[j].runner /\ t[i].seq < t[j].seq
    <2>1. /\ i + 1 \in 1..Len(s) /\ j + 1 \in 1..Len(s) /\ i + 1 < j + 1
          /\ t[i] = s[i + 1] /\ t[j] = s[j + 1]
      BY <1>1, <1>3
    <2> QED  BY <2>1 DEF Rising
  <1> QED  BY <1>2, <1>3 DEF Elems, Rising, t

LEMMA OnceAppend ==
  ASSUME got \in Seq(Events), NEW e \in Events, got' = Append(got, e), OnceInOrder,
         \A d \in Elems(got) : Before(d, e)
  PROVE  OnceInOrder'
  <1>1. /\ Len(got') = Len(got) + 1 /\ Len(got) \in Nat
        /\ \A i \in 1..Len(got) : got'[i] = got[i]
        /\ got'[Len(got) + 1] = e
    BY AppendProperties, LenProperties
  <1>2. ASSUME NEW i \in 1..Len(got'), NEW j \in 1..Len(got'), i < j
        PROVE  Before(got'[i], got'[j])
    <2>1. i \in 1..Len(got) /\ got'[i] = got[i] /\ got[i] \in Elems(got)
      BY <1>1, <1>2 DEF Elems
    <2>2. CASE j \in 1..Len(got)
      BY <1>1, <1>2, <2>1, <2>2 DEF OnceInOrder, Before
    <2>3. CASE j = Len(got) + 1
      BY <1>1, <2>1, <2>3
    <2> QED  BY <1>1, <1>2, <2>2, <2>3
  <1> QED  BY <1>2 DEF OnceInOrder, Before

LEMMA ReadingInit == Init => Reading
  <1> SUFFICES ASSUME Init PROVE Reading
    OBVIOUS
  <1>1. got = <<>> /\ lastEventId = None /\ Len(got) = 0 /\ Elems(got) = {} /\ ~firstIdSeen
    BY ElemsOfEmpty, EmptySeq DEF Init
  <1>2. \A c \in Conns : wire[c] = <<>> /\ Len(wire[c]) = 0 /\ Elems(wire[c]) = {} /\ ~up[c] /\ ~reached[c]
    BY ElemsOfEmpty, EmptySeq DEF Init
  <1>3. OneReader
    BY <1>2 DEF Init, OneReader
  <1>4. Ordered
    BY <1>1, <1>2 DEF Ordered, OnceInOrder, Rising
  <1> QED  BY <1>1, <1>2, <1>3, <1>4 DEF Reading, Claimed, Full, Continues

LEMMA OneReaderStep == ASSUME Typed, OneReader, [Next]_vars PROVE OneReader'
  <1> USE DEF OneReader
  <1>1. ASSUME NEW c \in Conns, Subscribe(c) \/ Hello(c) \/ Write(c) PROVE OneReader'
    BY <1>1 DEF Subscribe, Hello, Write, Typed, EndsTyped, FlagsTyped
  <1>2. ASSUME NEW c \in Conns, Reach(c) PROVE OneReader'
    BY <1>2 DEF Reach, Typed, WireTyped, FlagsTyped
  <1>3. ASSUME NEW c \in Conns, WriteReturns(c) \/ WriteFails(c) \/ LoopEnds(c) PROVE OneReader'
    <2>1. /\ stage' = [stage EXCEPT ![c] = "free"] \/ stage' = [stage EXCEPT ![c] = "idle"]
          /\ reached' = [reached EXCEPT ![c] = FALSE]
          /\ up' = up /\ wire' = wire /\ claim' = claim /\ reading' = reading
          /\ lastEventId' = lastEventId /\ firstIdSeen' = firstIdSeen
      BY <1>3 DEF WriteReturns, WriteFails, LoopEnds, EndOf
    <2> QED  BY <2>1 DEF Typed, EndsTyped, FlagsTyped
  <1>4. ASSUME NEW c \in Conns, Cut(c) \/ RequestLost(c) PROVE OneReader'
    BY <1>4 DEF Cut, RequestLost, Typed, EndsTyped, WireTyped, FlagsTyped
  <1>5. CASE Connect
    <2>1. PICK c \in Conns :
            /\ stage[c] = "free" /\ reading' = c /\ stage' = [stage EXCEPT ![c] = "sent"]
            /\ claim' = [claim EXCEPT ![c] = lastEventId]
            /\ up' = [up EXCEPT ![c] = TRUE] /\ wire' = [wire EXCEPT ![c] = <<>>]
      BY <1>5, ConnectNames
    <2>2. /\ reading = None /\ lastEventId' = lastEventId /\ ~firstIdSeen' /\ reached' = reached
          /\ \A d \in Conns : d # None
      BY <1>5 DEF Connect
    <2> QED  BY <2>1, <2>2 DEF Typed, EndsTyped, WireTyped, FlagsTyped
  <1>6. CASE Read
    BY <1>6 DEF Read, Typed, WireTyped, FlagsTyped, NamesTyped
  <1>7. CASE GiveUp
    BY <1>7 DEF GiveUp, Typed, WireTyped, FlagsTyped, NamesTyped
  <1>8. CASE RunnerRestarts \/ DaemonRestarts \/ Push \/ UNCHANGED vars
    BY <1>8 DEF RunnerRestarts, DaemonRestarts, Push
  <1> QED  BY <1>1, <1>2, <1>3, <1>4, <1>5, <1>6, <1>7, <1>8, Actions
(* Every step but a read and an arrival sheds what was on its way or read,   *)
(* or leaves it.                                                             *)
Sheds ==
  /\ \A c \in Conns : wire'[c] = wire[c] \/ wire'[c] = <<>>
  /\ firstIdSeen' => firstIdSeen
  /\ \/ got' = got /\ lastEventId' = lastEventId /\ excused \subseteq excused'
     \/ /\ got' = <<>> /\ lastEventId' = None /\ ~firstIdSeen'
        /\ \A c \in Conns : wire'[c] = <<>>

LEMMA StepSheds ==
  ASSUME Typed, [Next]_vars
  PROVE  Sheds \/ Read \/ \E c \in Conns : Reach(c)
  <1> USE DEF Sheds
  <1>1. ASSUME NEW c \in Conns,
               Subscribe(c) \/ Hello(c) \/ Write(c) \/ WriteReturns(c) \/ WriteFails(c)
                 \/ LoopEnds(c) \/ RequestLost(c)
        PROVE  Sheds
    BY <1>1 DEF Subscribe, Hello, Write, WriteReturns, WriteFails, LoopEnds, RequestLost
  <1>2. ASSUME NEW c \in Conns, Cut(c) PROVE Sheds
    BY <1>2 DEF Cut, Typed, WireTyped
  <1>3. CASE Push \/ RunnerRestarts \/ UNCHANGED vars
    BY <1>3 DEF Push, RunnerRestarts
  <1>4. CASE Connect
    BY <1>4, ConnectNames DEF Connect, Typed, WireTyped
  <1>5. CASE GiveUp
    BY <1>5 DEF GiveUp, Typed, WireTyped
  <1>6. CASE DaemonRestarts
    BY <1>6 DEF DaemonRestarts
  <1> QED  BY <1>1, <1>2, <1>3, <1>4, <1>5, <1>6, Actions

LEMMA ShedsKeeps ==
  ASSUME Sheds, Claimed, Ordered, Full
  PROVE  Claimed' /\ Ordered' /\ Full'
  <1>1. Len(<<>>) = 0
    OBVIOUS
  <1>2. \A c \in Conns : Elems(wire'[c]) \subseteq Elems(wire[c]) /\ (Rising(wire[c]) => Rising(wire'[c]))
    BY <1>1, ElemsOfEmpty DEF Sheds, Rising
  <1>3. CASE got' = got /\ lastEventId' = lastEventId /\ excused \subseteq excused'
    <2>1. Claimed'
      BY <1>3 DEF Sheds, Claimed, Before
    <2>2. OnceInOrder'
      BY <1>3 DEF Ordered, OnceInOrder
    <2>3. Ordered'
      BY <1>2, <1>3, <2>2 DEF Sheds, Ordered, Before, Rising
    <2>4. ASSUME NEW c \in Conns, NEW e \in Elems(wire'[c]), NEW s \in 1..(e.seq - 1)
          PROVE  Event(e.runner, s) \in excused' \cup Elems(got') \cup Elems(wire'[c])
      <3>1. wire'[c] = wire[c]
        BY <2>4, ElemsOfEmpty DEF Sheds
      <3> QED  BY <1>3, <2>4, <3>1 DEF Full, Brought
    <2>5. Full'
      BY <1>3, <2>4 DEF Full, Brought, Event
    <2> QED  BY <2>1, <2>3, <2>5
  <1>4. CASE /\ got' = <<>> /\ lastEventId' = None /\ ~firstIdSeen'
             /\ \A c \in Conns : wire'[c] = <<>>
    <2>1. Elems(got') = {} /\ \A c \in Conns : Elems(wire'[c]) = {}
      BY <1>4, ElemsOfEmpty
    <2>2. Claimed' /\ Full'
      BY <1>4, <2>1 DEF Claimed, Full
    <2>3. OnceInOrder'
      BY <1>1, <1>4 DEF OnceInOrder
    <2>4. Ordered'
      BY <1>1, <1>4, <2>1, <2>3 DEF Ordered, Rising
    <2> QED  BY <2>2, <2>4
  <1> QED  BY <1>3, <1>4 DEF Sheds

(* An event that arrives follows what its connection has brought.            *)
LEMMA ReachKeeps ==
  ASSUME Base, Reading, NEW c \in Conns, Reach(c)
  PROVE  Claimed' /\ Ordered' /\ Full' /\ Continues'
  <1>1. PICK e \in Events : e = Event(runner, cursor[c])
    BY EventType DEF Reach, Base, Typed, NamesTyped, EndsTyped, LogTyped, CursorsBounded
  <1>2. /\ e.runner = runner /\ e.seq = cursor[c]
        /\ wire' = [wire EXCEPT ![c] = Append(wire[c], e)]
        /\ reached' = [reached EXCEPT ![c] = TRUE] /\ ~reached[c] /\ up[c]
        /\ UNCHANGED <<got, lastEventId, firstIdSeen, excused, runner, cursor, kept, current, up, stage>>
    BY <1>1 DEF Reach, Event
  <1>3. ContinuesAt(c) /\ reading = c
    BY DEF Reach, Live, Reading, Continues, OneReader
  <1>4. wire[c] \in Seq(Events) /\ wire'[c] = Append(wire[c], e)
    BY <1>2 DEF Base, Typed, WireTyped
  <1>5. Elems(wire'[c]) = Elems(wire[c]) \cup {e} /\ Elems(got') = Elems(got)
    BY <1>2, <1>4, ElemsOfAppend
  <1>6. \A d \in Conns : d # c => wire'[d] = wire[d]
    BY <1>2 DEF Base, Typed, WireTyped
  <1>7. \A d \in Elems(wire[c]) : d.runner = e.runner /\ d.seq < e.seq
    BY <1>2, <1>3 DEF ContinuesAt, Brought
  <1>8. \A d \in Elems(got) : Before(d, e)
    <2>1. ASSUME NEW d \in Elems(got) PROVE Before(d, e)
      <3>1. d.runner <= runner
        BY DEF Base, Numbered, KnownTo
      <3>2. d.runner = runner => d.seq < cursor[c]
        BY <1>2, <1>3 DEF ContinuesAt, Brought
      <3> QED  BY <1>2, <3>1, <3>2 DEF Before
    <2> QED  BY <2>1
  <1>9. Claimed'
    BY <1>2 DEF Reading, Claimed, Before
  <1>10. Ordered'
    <2>1. OnceInOrder'
      BY <1>2 DEF Reading, Ordered, OnceInOrder
    <2>2. ASSUME NEW d \in Conns PROVE Rising(wire'[d])
      BY <1>4, <1>6, <1>7, RisingAppend DEF Reading, Ordered
    <2>3. ASSUME NEW d \in Conns, NEW f \in Elems(wire'[d])
          PROVE  /\ \A g \in Elems(got) : Before(g, f)
                 /\ firstIdSeen => f.runner = lastEventId.runner
      <3>1. CASE f \in Elems(wire[d])
        BY <3>1 DEF Reading, Ordered
      <3>2. CASE f = e
        BY <1>2, <1>3, <1>8, <3>2 DEF ContinuesAt
      <3> QED  BY <1>5, <1>6, <2>3, <3>1, <3>2
    <2>4. \A d \in Conns : Rising(wire[d])'
      BY <2>2 DEF Rising
    <2> QED  BY <1>2, <1>5, <2>1, <2>3, <2>4 DEF Ordered, Before
  <1>11. Full'
    <2>1. ASSUME NEW d \in Conns, NEW f \in Elems(wire'[d]), NEW s \in 1..(f.seq - 1)
          PROVE  Event(f.runner, s) \in excused \cup Elems(got) \cup Elems(wire'[d])
      <3>1. CASE f \in Elems(wire[d])
        BY <1>5, <1>6, <3>1 DEF Reading, Full, Brought
      <3>2. CASE f = e /\ d = c
        BY <1>2, <1>3, <1>5, <3>2 DEF ContinuesAt, Brought
      <3> QED  BY <1>5, <1>6, <2>1, <3>1, <3>2
    <2> QED  BY <1>2, <1>5, <2>1 DEF Reading, Full, Brought, Event
  <1>12. ASSUME NEW d \in Conns, up'[d] PROVE d = c
    BY <1>2, <1>3, <1>12 DEF Reading, OneReader
  <1>13. ContinuesAt(c)'
    <2>1. Brought(c)' = Brought(c) \cup {e}
      BY <1>5 DEF Brought
    <2>2. cursor' = cursor /\ reached'[c] = TRUE
      BY <1>2 DEF Base, Typed, FlagsTyped
    <2>3. Event(runner, cursor[c])' = e
      BY <1>1, <1>2 DEF Event
    <2>4. \A s : Event(runner, s)' = Event(runner, s)
      BY <1>2 DEF Event
    <2>5. /\ \A f \in Elems(wire'[c]) : f.runner = runner'
          /\ \A f \in Brought(c)' : f.runner = runner' => f.seq < cursor'[c] \/ (reached'[c] /\ f.seq = cursor'[c])
      BY <1>2, <1>3, <1>5, <2>1, <2>2 DEF ContinuesAt
    <2>6. \A s \in 1..(cursor'[c] - 1) : Event(runner', s) \in excused' \cup Brought(c)'
      BY <1>2, <1>3, <2>1, <2>2 DEF ContinuesAt
    <2>7. current' = c => \A s \in 1..(kept' - 1) : Event(runner', s) \in excused' \cup Brought(c)'
      BY <1>2, <1>3, <2>1 DEF ContinuesAt
    <2>8. firstIdSeen' => lastEventId'.runner = runner'
      BY <1>2, <1>3 DEF ContinuesAt
    <2> QED  BY <2>1, <2>3, <2>5, <2>6, <2>7, <2>8 DEF ContinuesAt, Event
  <1> QED  BY <1>9, <1>10, <1>11, <1>12, <1>13 DEF Continues
(* What is read is the first of its connection, and becomes the claim.       *)
LEMMA ReadKeeps ==
  ASSUME Base, Reading, Read
  PROVE  Claimed' /\ Ordered' /\ Full' /\ Continues'
  <1> DEFINE c == reading
  <1>1. /\ c \in Conns /\ wire[c] \in Seq(Events) /\ wire[c] # <<>> /\ got \in Seq(Events)
    BY DEF Read, Base, Typed, NamesTyped, WireTyped, ReadTyped
  <1>2. PICK e \in Events : /\ e = Head(wire[c])
                            /\ Elems(wire[c]) = Elems(Tail(wire[c])) \cup {e}
    BY <1>1, ElemsOfTail
  <1>3. /\ got' = Append(got, e) /\ lastEventId' = LastId(e)
        /\ wire' = [wire EXCEPT ![c] = Tail(wire[c])] /\ firstIdSeen' = TRUE
        /\ UNCHANGED <<excused, runner, cursor, kept, current, up, stage, reached, reading>>
    BY <1>2 DEF Read
  <1>4. Elems(got') = Elems(got) \cup {e}
    BY <1>1, <1>3, ElemsOfAppend
  <1>5. wire'[c] = Tail(wire[c]) /\ \A d \in Conns : d # c => wire'[d] = <<>> /\ ~up[d]
    BY <1>1, <1>3 DEF Base, Typed, WireTyped, Reading, OneReader
  <1>6. /\ Rising(Tail(wire[c]))
        /\ \A f \in Elems(Tail(wire[c])) : e.runner = f.runner /\ e.seq < f.seq
    BY <1>1, <1>2, RisingTail DEF Reading, Ordered
  <1>7. e \in Elems(wire[c]) /\ \A d \in Elems(got) : Before(d, e)
    BY <1>1, <1>2 DEF Reading, Ordered
  <1>8. LastId(e) = e
    <2>1. CASE firstIdSeen /\ lastEventId # None
      <3>1. lastEventId \in Elems(got) /\ e.runner = lastEventId.runner
        BY <1>1, <1>7, <2>1 DEF Reading, Claimed, Ordered
      <3>2. lastEventId.seq < e.seq
        BY <1>7, <3>1 DEF Before
      <3>3. lastEventId.seq \in Nat /\ e.seq \in Nat
        BY <2>1 DEF Base, Typed, ReadTyped, Claims, Events
      <3> QED  BY <3>2, <3>3 DEF LastId
    <2>2. CASE ~(firstIdSeen /\ lastEventId # None)
      BY <2>2 DEF LastId
    <2> QED  BY <2>1, <2>2
  <1>9. e # None
    <2>1. e \in [runner : Nat, seq : Nat]
      BY <1>2 DEF Events
    <2> QED  BY <2>1, NoneIsNoEvent
  <1>10. Claimed'
    BY <1>3, <1>4, <1>7, <1>8, <1>9 DEF Claimed, Before
  <1>11. Ordered'
    <2>1. OnceInOrder'
      BY <1>1, <1>3, <1>7, OnceAppend DEF Reading, Ordered
    <2>2. ASSUME NEW d \in Conns PROVE Rising(wire'[d])
      <3>1. CASE d = c
        BY <1>5, <1>6, <3>1
      <3>2. CASE d # c
        <4>1. wire'[d] = <<>> /\ Len(<<>>) = 0
          BY <1>5, <3>2
        <4> QED  BY <4>1 DEF Rising
      <3> QED  BY <3>1, <3>2
    <2>3. ASSUME NEW d \in Conns, NEW f \in Elems(wire'[d])
          PROVE  d = c /\ f \in Elems(Tail(wire[c])) /\ f \in Elems(wire[c])
      BY <1>2, <1>5, <2>3, ElemsOfEmpty
    <2>4. ASSUME NEW d \in Conns, NEW f \in Elems(wire'[d])
          PROVE  /\ \A g \in Elems(got') : Before(g, f)
                 /\ f.runner = e.runner
      <3>1. f \in Elems(Tail(wire[c])) /\ f \in Elems(wire[c])
        BY <2>3, <2>4
      <3>2. Before(e, f) /\ f.runner = e.runner
        <4>1. e.runner = f.runner /\ e.seq < f.seq /\ e.runner \in Nat
          BY <1>6, <3>1 DEF Events
        <4> QED  BY <4>1 DEF Before
      <3>3. \A g \in Elems(got) : Before(g, f)
        BY <1>1, <3>1 DEF Reading, Ordered
      <3> QED  BY <1>4, <3>2, <3>3
    <2>5. \A d \in Conns : Rising(wire[d])'
      BY <2>2 DEF Rising
    <2> QED  BY <1>3, <1>8, <2>1, <2>4, <2>5 DEF Ordered, Before
  <1>12. Elems(got') \cup Elems(wire'[c]) = Brought(c)
    BY <1>2, <1>4, <1>5 DEF Brought
  <1>13. Full'
    <2>1. ASSUME NEW f \in Elems(got'), NEW s \in 1..(f.seq - 1)
          PROVE  Event(f.runner, s) \in excused \cup Elems(got')
      <3>1. CASE f \in Elems(got)
        BY <1>4, <2>1, <3>1 DEF Reading, Full
      <3>2. CASE f = e
        <4>1. Event(e.runner, s) \in excused \cup Brought(c)
          BY <1>1, <1>7, <2>1, <3>2 DEF Reading, Full
        <4>2. Event(e.runner, s) \notin Elems(Tail(wire[c]))
          <5>1. Event(e.runner, s).seq = s /\ s < e.seq /\ ~(e.seq < s)
            BY <2>1, <3>2 DEF Event, Events
          <5> QED  BY <1>6, <5>1
        <4> QED  BY <1>2, <1>4, <3>2, <4>1, <4>2 DEF Brought
      <3> QED  BY <1>4, <2>1, <3>1, <3>2
    <2>2. ASSUME NEW d \in Conns, NEW f \in Elems(wire'[d]), NEW s \in 1..(f.seq - 1)
          PROVE  Event(f.runner, s) \in excused \cup Elems(got') \cup Elems(wire'[d])
      <3>1. d = c /\ f \in Elems(wire[c])
        BY <1>2, <1>5, <2>2, ElemsOfEmpty
      <3> QED  BY <1>12, <2>2, <3>1 DEF Reading, Full
    <2> QED  BY <1>3, <2>1, <2>2 DEF Full, Brought, Event
  <1>14. ASSUME NEW d \in Conns, up'[d], Live(d)' PROVE ContinuesAt(d)'
    <2>1. d = c /\ ContinuesAt(c)
      BY <1>3, <1>5, <1>14 DEF Reading, Continues, Live
    <2>2. Brought(d)' = Brought(c)
      BY <1>3, <1>12, <2>1 DEF Brought
    <2>3. \A f \in Elems(wire'[d]) : f.runner = runner
      BY <1>2, <1>5, <2>1 DEF ContinuesAt
    <2>4. lastEventId'.runner = runner
      BY <1>3, <1>7, <1>8, <2>1 DEF ContinuesAt
    <2>5. /\ UNCHANGED <<runner, excused, kept, current>> /\ cursor'[d] = cursor[d]
          /\ reached'[d] = reached[d]
      BY <1>3
    <2> QED  BY <2>1, <2>2, <2>3, <2>4, <2>5 DEF ContinuesAt, Event
  <1> QED  BY <1>10, <1>11, <1>13, <1>14 DEF Continues

(* A connection that is not touched.                                         *)
LEMMA ContinuesKept ==
  ASSUME NEW d \in Conns, ContinuesAt(d),
         /\ cursor'[d] = cursor[d] /\ reached'[d] = reached[d] /\ wire'[d] = wire[d]
         /\ got' = got /\ lastEventId' = lastEventId /\ runner' = runner
         /\ excused \subseteq excused' /\ (firstIdSeen' => firstIdSeen)
         /\ (current' = d => current = d /\ kept' = kept)
  PROVE  ContinuesAt(d)'
  <1>1. Brought(d)' = Brought(d)
    BY DEF Brought
  <1> QED  BY <1>1 DEF ContinuesAt, Event

(* A connection begins where the claim says what was read ends.              *)
LEMMA SubscribeContinues ==
  ASSUME Base, Reading, NEW c \in Conns, Subscribe(c), up[c]
  PROVE  ContinuesAt(c)'
  <1> DEFINE l == claim[c]
             n == StartCursor(l)
  <1>1. /\ l \in Claims /\ l = lastEventId /\ reading = c /\ wire[c] = <<>> /\ ~firstIdSeen
        /\ reached[c] = FALSE
    BY DEF Subscribe, Reading, OneReader, Base, Typed, EndsTyped, FlagsTyped
  <1>2. /\ cursor'[c] = n /\ excused' = excused \cup Excuses(l) /\ current' = c
        /\ UNCHANGED <<runner, kept, reached, wire, got, lastEventId, firstIdSeen>>
    BY <1>1 DEF Subscribe, Base, Typed, EndsTyped
  <1>3. Brought(c)' = Elems(got)
    BY <1>1, <1>2, ElemsOfEmpty DEF Brought
  <1>4. /\ Had(written) /\ Had(kept - 1) /\ written \in Nat /\ kept \in Nat \ {0} /\ nextSeq \in Nat
        /\ runner \in Nat
    BY DEF Base, KnownLog, Had, Typed, Bounded, LogTyped, NamesTyped
  <1>10. Elems(got) \subseteq Events
    BY ElemsType DEF Base, Typed, ReadTyped
  <1>5. \A s \in 1..(kept - 1) : Event(runner, s) \in Excuses(l)
    BY <1>4 DEF Excuses, Had
  <1>6. ASSUME l # None, l.runner # runner, NEW e \in Elems(got) PROVE e.runner # runner
    <2>1. l.runner < runner
      BY <1>1, <1>4, <1>6, ClaimParts DEF Base, Numbered, KnownTo
    <2>2. e.runner <= l.runner
      <3>1. e \in Events
        BY <1>6, ElemsType DEF Base, Typed, ReadTyped
      <3>2. e = l \/ Before(e, l)
        BY <1>1, <1>6 DEF Reading, Claimed
      <3> QED  BY <3>1, <3>2 DEF Before, Events
    <2>3. e.runner \in Nat /\ l.runner \in Nat
      <3>1. e \in Events
        BY <1>10, <1>6
      <3>2. l.runner \in Nat
        BY <1>1, <1>6, ClaimParts
      <3> QED  BY <3>1, <3>2 DEF Events
    <2> QED  BY <1>4, <2>1, <2>2, <2>3
  <1>7. /\ \A e \in Elems(got) : e.runner = runner => e.seq < n
        /\ \A s \in 1..(n - 1) : Event(runner, s) \in Excuses(l) \cup excused \cup Elems(got)
    <2>1. CASE l = None
      <3>1. Elems(got) = {} /\ n = written + 1
        BY <1>1, <2>1, ElemsOfEmpty DEF Reading, Claimed, StartCursor
      <3>2. \A s \in 1..written : Event(runner, s) \in Excuses(l)
        BY <1>4, <2>1 DEF Excuses, Had
      <3> QED  BY <1>4, <3>1, <3>2
    <2>2. CASE l # None /\ l.seq >= nextSeq
      <3>0. n = kept
        BY <1>1, <1>4, <2>2, ClaimParts DEF StartCursor
      <3>2. l.runner = runner => l.seq < nextSeq
        BY <1>1, <2>2 DEF Base, Numbered, KnownTo
      <3>3. l.seq \in Nat /\ nextSeq \in Nat
        BY <1>1, <1>4, <2>2, ClaimParts
      <3>1. n = kept /\ l.runner # runner
        BY <2>2, <3>0, <3>2, <3>3
      <3> QED  BY <1>5, <1>6, <2>2, <3>1
    <2>3. CASE l # None /\ l.seq < nextSeq
      <3>1. n = l.seq + 1 /\ l.seq \in Nat /\ l.runner \in Nat
        BY <1>1, <1>4, <2>3, ClaimParts DEF StartCursor
      <3>2. CASE l.runner # runner
        <4>1. PassedBy(l) = 1..l.seq
          BY <2>3, <3>2 DEF PassedBy, StaleClaim
        <4>2. \A i \in 1..Len(got) : got[i].runner # runner
          BY <1>6, <2>3, <3>2 DEF Elems
        <4>3. \A s \in 1..l.seq : Event(runner, s) \in Excuses(l)
          BY <4>1, <4>2 DEF Excuses
        <4> QED  BY <1>6, <2>3, <3>1, <3>2, <4>3
      <3>3. CASE l.runner = runner
        <4>1. l \in Elems(got) /\ \A e \in Elems(got) : e = l \/ Before(e, l)
          BY <1>1, <2>3 DEF Reading, Claimed
        <4>2. \A e \in Elems(got) : e.runner = runner => e.seq < n
          <5>1. ASSUME NEW e \in Elems(got), e.runner = runner PROVE e.seq < n
            <6>1. e.seq \in Nat
              BY <1>10, <5>1 DEF Events
            <6> QED  BY <3>1, <3>3, <4>1, <5>1, <6>1 DEF Before
          <5> QED  BY <5>1
        <4>3. Event(runner, l.seq) = l
          BY <1>1, <2>3, <3>3 DEF Event, Claims, Events
        <4>4. \A s \in 1..(l.seq - 1) : Event(runner, s) \in excused \cup Elems(got)
          BY <3>3, <4>1 DEF Reading, Full
        <4> QED  BY <3>1, <4>1, <4>2, <4>3, <4>4
      <3> QED  BY <3>2, <3>3
    <2> QED  BY <1>1, <1>4, <2>1, <2>2, <2>3, ClaimParts
  <1> HIDE DEF n
  <1>8. \A s : Event(runner, s)' = Event(runner, s)
    BY <1>2 DEF Event
  <1>9. /\ Elems(wire'[c]) = {} /\ reached'[c] = FALSE /\ ~firstIdSeen'
    BY <1>1, <1>2, ElemsOfEmpty
  <1> QED  BY <1>2, <1>3, <1>5, <1>7, <1>8, <1>9 DEF ContinuesAt, Event

(* A write that returns on a connection that works has reached its end.      *)
LEMMA ReturnsContinues ==
  ASSUME Base, Reading, NEW c \in Conns, WriteReturns(c), up[c], ~Superseded(c)
  PROVE  ContinuesAt(c)'
  <1>1. /\ ContinuesAt(c) /\ reached[c] = TRUE /\ current = c /\ cursor[c] \in 1..MaxSeq
        /\ cursor[c] < nextSeq
    BY DEF WriteReturns, Superseded, Live, Reading, Continues, Base, Typed, EndsTyped, FlagsTyped,
           CursorsBounded, LogTyped
  <1>2. /\ Wrote(cursor[c]) /\ cursor'[c] = cursor[c] + 1 /\ reached'[c] = FALSE
        /\ UNCHANGED <<runner, current, wire, got, lastEventId, firstIdSeen, excused>>
    BY DEF WriteReturns, Returned, Base, Typed, EndsTyped, FlagsTyped
  <1>3. kept' = kept \/ kept' <= cursor'[c]
    <2>1. /\ written' = IF cursor[c] > written THEN cursor[c] ELSE written
          /\ kept' <= written' + 1 /\ (cursor[c] <= written => kept' = kept)
      BY <1>1, <1>2, WroteKeeps DEF Base, Typed
    <2> QED  BY <1>1, <1>2, <2>1 DEF Base, Typed, LogTyped
  <1>4. Brought(c)' = Brought(c)
    BY <1>2 DEF Brought
  <1>5. kept \in Nat /\ kept' \in Nat
    BY <1>1, <1>2, WroteKeeps DEF Base, Typed, LogTyped
  <1>6. \A s \in 1..cursor[c] : Event(runner, s) \in excused \cup Brought(c)
    <2>1. \A s \in 1..(cursor[c] - 1) : Event(runner, s) \in excused \cup Brought(c)
      BY <1>1 DEF ContinuesAt
    <2>2. Event(runner, cursor[c]) \in excused \cup Brought(c)
      BY <1>1 DEF ContinuesAt
    <2> QED  BY <1>1, <2>1, <2>2
  <1>7. \A s \in 1..(kept' - 1) : Event(runner, s) \in excused \cup Brought(c)
    <2>1. \A s \in 1..(kept - 1) : Event(runner, s) \in excused \cup Brought(c)
      BY <1>1 DEF ContinuesAt
    <2>2. CASE kept' = kept
      BY <2>1, <2>2
    <2>3. CASE kept' <= cursor[c] + 1
      <3>1. \A s \in 1..(kept' - 1) : s \in 1..cursor[c]
        <4>1. cursor[c] \in Nat
          BY <1>1
        <4>2. PICK k, m : k = kept' /\ m = cursor[c]
          OBVIOUS
        <4>3. k \in Nat /\ m \in Nat /\ k <= m + 1
          BY <1>5, <2>3, <4>1, <4>2
        <4>4. \A s \in 1..(k - 1) : s \in 1..m
          BY <4>3
        <4> QED  BY <4>2, <4>4
      <3> QED  BY <1>6, <3>1
    <2> QED  BY <1>2, <1>3, <2>2, <2>3
  <1>8. \A e \in Brought(c) : e.runner = runner => e.seq < cursor[c] + 1
    <2>1. Brought(c) \subseteq Events
      BY ElemsType DEF Brought, Base, Typed, ReadTyped, WireTyped
    <2>2. \A e \in Brought(c) :
            e.runner = runner => e.seq < cursor[c] \/ (reached[c] /\ e.seq = cursor[c])
      BY <1>1 DEF ContinuesAt
    <2>3. \A e \in Brought(c) : e.seq \in Nat
      BY <2>1 DEF Events
    <2> QED  BY <1>1, <2>2, <2>3
  <1>9. /\ \A e \in Elems(wire[c]) : e.runner = runner
        /\ firstIdSeen => lastEventId.runner = runner
    BY <1>1 DEF ContinuesAt
  <1>10. \A s : Event(runner, s)' = Event(runner, s)
    BY <1>2 DEF Event
  <1> QED  BY <1>1, <1>2, <1>4, <1>6, <1>7, <1>8, <1>9, <1>10 DEF ContinuesAt, Event

LEMMA WriteContinues ==
  ASSUME Base, Reading, NEW c \in Conns, Write(c), up[c]
  PROVE  ContinuesAt(c)'
  <1>1. /\ ContinuesAt(c) /\ ~reached[c] /\ current = c /\ cursor[c] \in Nat /\ kept \in Nat
    <2>1. stage[c] = "idle" /\ current = c
      BY DEF Write, Superseded
    <2>2. ~reached[c]
      BY <2>1 DEF Reading, OneReader
    <2>3. ContinuesAt(c)
      BY <2>1 DEF Live, Reading, Continues
    <2>4. cursor[c] \in Nat /\ kept \in Nat
      BY DEF Base, Typed, EndsTyped, LogTyped
    <2> QED  BY <2>1, <2>2, <2>3, <2>4
  <1>2. /\ cursor'[c] = Peek(c)
        /\ UNCHANGED <<runner, kept, current, reached, wire, got, lastEventId, firstIdSeen, excused>>
    BY DEF Write, Base, Typed, EndsTyped
  <1>3. /\ Peek(c) \in {cursor[c], kept} /\ cursor[c] <= Peek(c)
    BY <1>1 DEF Peek
  <1>4. Brought(c)' = Brought(c)
    BY <1>2 DEF Brought
  <1>5. \A s \in 1..(Peek(c) - 1) : Event(runner, s) \in excused \cup Brought(c)
    BY <1>1, <1>3 DEF ContinuesAt
  <1>6. \A e \in Brought(c) : e.runner = runner => e.seq < Peek(c)
    <2>1. Brought(c) \subseteq Events
      BY ElemsType DEF Brought, Base, Typed, ReadTyped, WireTyped
    <2>2. \A e \in Brought(c) : e.runner = runner => e.seq < cursor[c]
      BY <1>1 DEF ContinuesAt
    <2> QED  BY <1>1, <1>3, <2>1, <2>2 DEF Events
  <1>7. \A s : Event(runner, s)' = Event(runner, s)
    BY <1>2 DEF Event
  <1> QED  BY <1>1, <1>2, <1>4, <1>5, <1>6, <1>7 DEF ContinuesAt, Event
LEMMA ContinuesStep ==
  ASSUME Base, Reading, [Next]_vars, ~Read, ~\E c \in Conns : Reach(c)
  PROVE  Continues'
  <1> SUFFICES ASSUME NEW d \in Conns, up'[d], Live(d)'
               PROVE  ContinuesAt(d)'
    BY DEF Continues
  <1> DEFINE Same == /\ up[d] /\ Live(d)
                     /\ cursor'[d] = cursor[d] /\ reached'[d] = reached[d] /\ wire'[d] = wire[d]
                     /\ got' = got /\ lastEventId' = lastEventId /\ runner' = runner
                     /\ excused \subseteq excused' /\ (firstIdSeen' => firstIdSeen)
                     /\ (current' = d => current = d /\ kept' = kept)
  <1>1. CASE Same
    BY <1>1, ContinuesKept DEF Reading, Continues
  <1>2. ASSUME NEW c \in Conns, Subscribe(c) PROVE ContinuesAt(d)'
    <2>1. up' = up
      BY <1>2 DEF Subscribe
    <2>2. CASE c = d
      BY <1>2, <2>1, <2>2, SubscribeContinues
    <2>3. CASE c # d
      <3>1. Same
        BY <1>2, <2>1, <2>3 DEF Subscribe, Live, Base, Typed, EndsTyped
      <3> QED  BY <1>1, <3>1
    <2> QED  BY <2>2, <2>3
  <1>3. ASSUME NEW c \in Conns, Write(c) PROVE ContinuesAt(d)'
    <2>1. up' = up
      BY <1>3 DEF Write
    <2>2. CASE c = d
      BY <1>3, <2>1, <2>2, WriteContinues
    <2>3. CASE c # d
      <3>1. Same
        BY <1>3, <2>1, <2>3 DEF Write, Live, Base, Typed, EndsTyped
      <3> QED  BY <1>1, <3>1
    <2> QED  BY <2>2, <2>3
  <1>4. ASSUME NEW c \in Conns, WriteReturns(c) PROVE ContinuesAt(d)'
    <2>1. up' = up
      BY <1>4 DEF WriteReturns
    <2>2. CASE c = d
      <3>1. ~Superseded(c)
        BY <1>4, <2>2 DEF WriteReturns, EndOf, Live, Base, Typed, EndsTyped
      <3> QED  BY <1>4, <2>1, <2>2, <3>1, ReturnsContinues
    <2>3. CASE c # d
      <3>1. cursor'[d] = cursor[d] /\ stage'[d] = stage[d]
        BY <1>4, <2>3 DEF WriteReturns, EndOf, Base, Typed, EndsTyped
      <3>2. reached'[d] = reached[d]
        BY <1>4, <2>3 DEF WriteReturns, EndOf, Base, Typed, FlagsTyped
      <3>3. current' = d => current = d /\ kept' = kept
        <4>1. CASE Superseded(c)
          BY <1>4, <4>1 DEF WriteReturns, EndOf, Returned
        <4>2. CASE ~Superseded(c)
          BY <1>4, <2>3, <4>2 DEF WriteReturns, Superseded
        <4> QED  BY <4>1, <4>2
      <3>4. Same
        BY <1>4, <2>1, <3>1, <3>2, <3>3 DEF WriteReturns, Live
      <3> QED  BY <1>1, <3>4
    <2> QED  BY <2>2, <2>3
  <1>5. ASSUME NEW c \in Conns, WriteFails(c) \/ LoopEnds(c) PROVE Same
    <2>1. /\ stage' = [stage EXCEPT ![c] = "free"] /\ cursor' = [cursor EXCEPT ![c] = 1]
          /\ reached' = [reached EXCEPT ![c] = FALSE]
          /\ current' = current \/ current' = None
          /\ UNCHANGED <<runner, outboxVars, up, wire, got, lastEventId, firstIdSeen, excused>>
      BY <1>5 DEF WriteFails, LoopEnds, EndOf
    <2>2. d # c
      BY <2>1 DEF Live, Base, Typed, EndsTyped
    <2> QED  BY <2>1, <2>2 DEF Live, Base, Typed, EndsTyped, FlagsTyped
  <1>6. ASSUME NEW c \in Conns, Hello(c) \/ RequestLost(c) PROVE Same
    BY <1>6 DEF Hello, RequestLost, Live, Base, Typed, EndsTyped
  <1>7. ASSUME NEW c \in Conns, Cut(c) PROVE Same
    <2>1. d # c
      BY <1>7 DEF Cut, Base, Typed, FlagsTyped
    <2> QED  BY <1>7, <2>1 DEF Cut, Live, Base, Typed, FlagsTyped, WireTyped
  <1>8. CASE Connect
    <2>1. PICK c \in Conns :
            /\ stage[c] = "free" /\ reading' = c /\ stage' = [stage EXCEPT ![c] = "sent"]
            /\ claim' = [claim EXCEPT ![c] = lastEventId]
            /\ up' = [up EXCEPT ![c] = TRUE] /\ wire' = [wire EXCEPT ![c] = <<>>]
      BY <1>8, ConnectNames DEF Base
    <2>2. d # c
      BY <2>1 DEF Live, Base, Typed, EndsTyped
    <2>3. up'[d] = up[d] /\ wire'[d] = wire[d] /\ stage'[d] = stage[d]
      BY <2>1, <2>2 DEF Base, Typed, EndsTyped, FlagsTyped, WireTyped
    <2>4. Same
      BY <1>8, <2>3 DEF Connect, Live
    <2> QED  BY <1>1, <2>4
  <1>9. CASE GiveUp
    <2>1. d # reading
      BY <1>9 DEF GiveUp, Base, Typed, FlagsTyped
    <2>2. Same
      BY <1>9, <2>1 DEF GiveUp, Live, Base, Typed, FlagsTyped, WireTyped
    <2> QED  BY <1>1, <2>2
  <1>10. CASE RunnerRestarts \/ DaemonRestarts
    BY <1>10 DEF RunnerRestarts, DaemonRestarts, Live
  <1>11. CASE Push \/ UNCHANGED vars
    <2>1. Same
      BY <1>11 DEF Push, Live
    <2> QED  BY <1>1, <2>1
  <1> HIDE DEF Same
  <1> QED  BY <1>1, <1>2, <1>3, <1>4, <1>5, <1>6, <1>7, <1>8, <1>9, <1>10, <1>11, Actions

LEMMA ReadingStep == Base /\ Reading /\ [Next]_vars => Reading'
  <1> SUFFICES ASSUME Base, Reading, [Next]_vars PROVE Reading'
    OBVIOUS
  <1>1. OneReader'
    BY OneReaderStep DEF Base, Reading
  <1>2. CASE Read
    BY <1>1, <1>2, ReadKeeps DEF Reading
  <1>3. CASE \E c \in Conns : Reach(c)
    BY <1>1, <1>3, ReachKeeps DEF Reading
  <1>4. CASE ~Read /\ ~\E c \in Conns : Reach(c)
    <2>1. Sheds
      BY <1>4, StepSheds DEF Base
    <2>2. Claimed' /\ Ordered' /\ Full'
      BY <2>1, ShedsKeeps DEF Reading
    <2> QED  BY <1>1, <1>4, <2>2, ContinuesStep DEF Reading
  <1> QED  BY <1>2, <1>3, <1>4

(* No event is read twice, and none after a later one of its runner.         *)
THEOREM ReadOnceInOrder == Spec => []OnceInOrder
  <1>1. Reading => OnceInOrder
    BY DEF Reading, Ordered
  <1> QED  BY <1>1, BaseInit, BaseStep, ReadingInit, ReadingStep, PTL DEF Spec

(* Every event before one that is read was read before it, or is excused.    *)
THEOREM NoneSkipped == Spec => []NothingSkipped
  <1>1. Base /\ Reading => NothingSkipped
    <2> SUFFICES ASSUME Base, Reading, NEW j \in 1..Len(got), NEW s \in 1..(got[j].seq - 1),
                        NEW e, e = Event(got[j].runner, s), e \notin excused
                 PROVE  \E i \in 1..(j - 1) : got[i] = e
      BY DEF NothingSkipped
    <2>1. got[j] \in Elems(got) /\ got[j] \in Events /\ got \in Seq(Events)
      BY ElemsType DEF Elems, Base, Typed, ReadTyped
    <2>2. e \in Elems(got)
      BY <2>1 DEF Reading, Full
    <2>3. PICK i \in 1..Len(got) : got[i] = e
      BY <2>2 DEF Elems
    <2>4. e.runner = got[j].runner /\ e.seq = s /\ s < got[j].seq /\ s \in Nat /\ got[j].seq \in Nat
      <3>1. got[j].seq \in Nat
        <4>1. got[j] \in [runner : 1..MaxRunner, seq : 1..MaxSeq]
          BY <2>1 DEF Events
        <4>2. got[j].seq \in 1..MaxSeq
          BY <4>1
        <4> QED  BY <4>2
      <3>2. s \in Nat /\ s < got[j].seq
        BY <3>1
      <3> QED  BY <3>1, <3>2 DEF Event
    <2>5. ~(j < i) /\ i # j
      BY <2>3, <2>4 DEF Reading, Ordered, OnceInOrder
    <2>6. Len(got) \in Nat
      BY <2>1, LenProperties
    <2> QED  BY <2>3, <2>5, <2>6
  <1> QED  BY <1>1, BaseInit, BaseStep, ReadingInit, ReadingStep, PTL DEF Spec
=============================================================================
