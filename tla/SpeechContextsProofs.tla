------------------------ MODULE SpeechContextsProofs ------------------------
(***************************************************************************)
(* However many responses, sentences and interruptions overlap, the audio  *)
(* task finds every context the serialization queue names, no flush probe  *)
(* is lost, no context is blamed for silence, and what is emitted is in    *)
(* order.                                                                  *)
(***************************************************************************)
EXTENDS SpeechContexts, FiniteSetTheorems, WellFoundedInduction, TLAPS

-----------------------------------------------------------------------------
(* Queues *)

Flags(q, kind) == {i \in DOMAIN q : q[i].kind = kind}

LEMMA LeastNumber == ASSUME NEW B \in SUBSET Nat, B # {} PROVE \E n \in B : \A m \in B : n <= m
<1>. DEFINE R == OpToRel(<, Nat)
<1>1. \A m, n \in Nat : m < n <=> <<m, n>> \in R
  BY DEF OpToRel
<1>2. IsWellFoundedOn(R, Nat)
  BY NatLessThanWellFounded
<1>. HIDE DEF R
<1>3. \E n \in B : \A m \in B : <<m, n>> \notin R
  BY <1>2, WFMin
<1>4. \A m, n \in Nat : ~(m < n) => n <= m
  OBVIOUS
<1>. QED
  BY <1>1, <1>3, <1>4

\* How much of a queue is full of frames of one kind.
LEMMA HoldsIsCount ==
    ASSUME NEW Frames, NEW q \in Seq(Frames), NEW kind
    PROVE  IsFiniteSet(Flags(q, kind)) /\ Holds(q, kind) \in Nat
                /\ Holds(q, kind) = Cardinality(Flags(q, kind))
<1>1. Flags(q, kind) \subseteq 1 .. Len(q)
  BY DEF Flags
<1>2. IsFiniteSet(1 .. Len(q))
  BY FS_Interval
<1>. QED
  BY <1>1, <1>2, FS_Subset, FS_CardinalityType DEF Holds, Flags

LEMMA HoldsOfNothing == \A kind : Holds(<<>>, kind) = 0
  BY FS_EmptySet DEF Holds

LEMMA HoldsAppended ==
    ASSUME NEW Frames, NEW q \in Seq(Frames), NEW f \in Frames, NEW kind
    PROVE  /\ Append(q, f) \in Seq(Frames)
           /\ Holds(Append(q, f), kind) = Holds(q, kind) + (IF f.kind = kind THEN 1 ELSE 0)
<1>1. /\ Append(q, f) \in Seq(Frames)
      /\ Holds(Append(q, f), kind) = Cardinality(Flags(Append(q, f), kind))
      /\ Holds(q, kind) = Cardinality(Flags(q, kind))
      /\ Holds(q, kind) \in Nat /\ IsFiniteSet(Flags(q, kind))
  <2>1. Append(q, f) \in Seq(Frames)
    OBVIOUS
  <2>. QED
    BY <2>1, HoldsIsCount
<1>2. CASE f.kind = kind
  <2>1. Flags(Append(q, f), kind) = Flags(q, kind) \cup {Len(q) + 1} /\ Len(q) + 1 \notin Flags(q, kind)
    BY <1>2 DEF Flags
  <2>. QED
    BY <1>1, <1>2, <2>1, FS_AddElement, ZenonT(60)
<1>3. CASE f.kind # kind
  <2>1. Flags(Append(q, f), kind) = Flags(q, kind)
    BY <1>3 DEF Flags
  <2>. QED
    BY <1>1, <1>3, <2>1
<1>. QED
  BY <1>1, <1>2, <1>3

LEMMA HoldsTaken ==
    ASSUME NEW Frames, NEW q \in Seq(Frames), q # <<>>, NEW kind
    PROVE  /\ Tail(q) \in Seq(Frames) /\ Head(q) \in Frames
           /\ Holds(Tail(q), kind) + (IF Head(q).kind = kind THEN 1 ELSE 0) = Holds(q, kind)
<1>1. Tail(q) \in Seq(Frames) /\ Head(q) \in Frames /\ Len(q) \in Nat /\ Len(q) # 0 /\ Head(q) = q[1]
      /\ Len(Tail(q)) = Len(q) - 1 /\ \A i \in 1 .. Len(q) - 1 : Tail(q)[i] = q[i + 1]
  OBVIOUS
<1>. DEFINE later == Flags(q, kind) \ {1}
            move == [i \in Flags(Tail(q), kind) |-> i + 1]
<1>2. IsFiniteSet(Flags(Tail(q), kind)) /\ IsFiniteSet(Flags(q, kind))
  BY <1>1, HoldsIsCount
<1>3. move \in Bijection(Flags(Tail(q), kind), later)
  <2>1. \A i \in Flags(Tail(q), kind) : i \in 1 .. Len(q) - 1 /\ i + 1 \in later
    BY <1>1 DEF Flags
  <2>2. \A i \in later : i - 1 \in Flags(Tail(q), kind) /\ i = (i - 1) + 1
    BY <1>1 DEF Flags
  <2>3. move \in [Flags(Tail(q), kind) -> later]
    BY <2>1
  <2>4. \A i, j \in Flags(Tail(q), kind) : move[i] = move[j] => i = j
    BY <2>1
  <2>5. \A j \in later : \E i \in Flags(Tail(q), kind) : move[i] = j
    BY <2>2
  <2>. QED
    BY <2>3, <2>4, <2>5 DEF Bijection, Injection, Surjection, IsInjective
<1>4. Cardinality(later) = Cardinality(Flags(Tail(q), kind))
  BY <1>2, <1>3, FS_Bijection DEF ExistsBijection
<1>5. Cardinality(later) = Cardinality(Flags(q, kind)) - (IF 1 \in Flags(q, kind) THEN 1 ELSE 0)
  BY <1>2, FS_RemoveElement, FS_CardinalityType
<1>6. 1 \in Flags(q, kind) <=> Head(q).kind = kind
  BY <1>1 DEF Flags
<1>7. /\ Holds(q, kind) = Cardinality(Flags(q, kind)) /\ Holds(q, kind) \in Nat
      /\ Holds(Tail(q), kind) = Cardinality(Flags(Tail(q), kind))
  BY <1>1, HoldsIsCount
<1>. HIDE DEF later
<1>. QED
  BY <1>1, <1>4, <1>5, <1>6, <1>7

\* What Keep builds after i frames.
Keeps(q, kinds, n, kept) ==
    kept = [i \in 0 .. n |->
               IF i = 0 THEN <<>>
               ELSE IF q[i].kind \in kinds THEN Append(kept[i - 1], q[i]) ELSE kept[i - 1]]

LEMMA KeepsExists == ASSUME NEW q, NEW kinds, NEW n \in Nat PROVE \E kept : Keeps(q, kinds, n, kept)
<1>. DEFINE Bad == {m \in Nat : ~\E kept : Keeps(q, kinds, m, kept)}
<1>. SUFFICES ASSUME Bad # {} PROVE FALSE
  OBVIOUS
<1>1. PICK m \in Bad : \A k \in Bad : m <= k
  BY LeastNumber
<1>2. m # 0
  <2>1. Keeps(q, kinds, 0, [i \in 0 .. 0 |-> <<>>])
    BY DEF Keeps
  <2>. QED
    BY <2>1
<1>3. m \in Nat /\ m - 1 \in Nat /\ m - 1 \notin Bad
  BY <1>1, <1>2
<1>4. PICK before : Keeps(q, kinds, m - 1, before)
  BY <1>3
<1>. DEFINE all == [i \in 0 .. m |-> IF i # m THEN before[i]
                       ELSE IF q[m].kind \in kinds THEN Append(before[m - 1], q[m]) ELSE before[m - 1]]
<1>5. \A i \in 0 .. m - 1 :
          before[i] = IF i = 0 THEN <<>>
              ELSE IF q[i].kind \in kinds THEN Append(before[i - 1], q[i]) ELSE before[i - 1]
  BY <1>3, <1>4 DEF Keeps
<1>6. \A i \in 0 .. m :
          all[i] = IF i = 0 THEN <<>>
              ELSE IF q[i].kind \in kinds THEN Append(all[i - 1], q[i]) ELSE all[i - 1]
  BY <1>2, <1>3, <1>5
<1>7. Keeps(q, kinds, m, all)
  BY <1>6 DEF Keeps
<1>. QED
  BY <1>1, <1>7

\* FrameQueue.reset leaves frames of the kinds it keeps, and all of them.
LEMMA KeptFrames ==
    ASSUME NEW Frames, NEW q \in Seq(Frames), NEW kinds
    PROVE  /\ Keep(q, kinds) \in Seq(Frames)
           /\ \A i \in DOMAIN Keep(q, kinds) : Keep(q, kinds)[i].kind \in kinds
           /\ \A kind \in kinds : Holds(Keep(q, kinds), kind) = Holds(q, kind)
<1>. DEFINE made == CHOOSE kept : Keeps(q, kinds, Len(q), kept)
<1>1. Keeps(q, kinds, Len(q), made)
  BY KeepsExists
<1>2. Keep(q, kinds) = made[Len(q)]
  BY DEF Keep, Keeps
<1>. HIDE DEF made
<1>. DEFINE Upto(n, kind) == {i \in 1 .. n : q[i].kind = kind}
            Good(n) == /\ made[n] \in Seq(Frames)
                       /\ \A i \in DOMAIN made[n] : made[n][i].kind \in kinds
                       /\ \A kind \in kinds : Holds(made[n], kind) = Cardinality(Upto(n, kind))
<1>3. Good(0)
  <2>1. made[0] = <<>>
    BY <1>1 DEF Keeps
  <2>2. \A kind : Upto(0, kind) = {}
    OBVIOUS
  <2>. QED
    BY <2>1, <2>2, HoldsOfNothing, FS_EmptySet
<1>4. ASSUME NEW n \in 1 .. Len(q), Good(n - 1) PROVE Good(n)
  <2>1. q[n] \in Frames /\ n - 1 \in Nat /\ n \in Nat /\ n # 0 /\ n \in 0 .. Len(q)
    OBVIOUS
  <2>2. made[n] = IF q[n].kind \in kinds THEN Append(made[n - 1], q[n]) ELSE made[n - 1]
    BY <1>1, <2>1 DEF Keeps
  <2>3. ASSUME NEW kind
        PROVE  Cardinality(Upto(n, kind))
                   = Cardinality(Upto(n - 1, kind)) + (IF q[n].kind = kind THEN 1 ELSE 0)
    <3>1. IsFiniteSet(Upto(n - 1, kind)) /\ n \notin Upto(n - 1, kind)
          /\ Cardinality(Upto(n - 1, kind)) \in Nat
      <4>1. 1 \in Int /\ n - 1 \in Int
        BY <2>1
      <4>2. IsFiniteSet(1 .. n - 1)
        BY <4>1, FS_Interval
      <4>3. Upto(n - 1, kind) \subseteq 1 .. n - 1 /\ n \notin Upto(n - 1, kind)
        BY <2>1
      <4>. QED
        BY <4>2, <4>3, FS_Subset, FS_CardinalityType
    <3>2. CASE q[n].kind = kind
      <4>1. Upto(n, kind) = Upto(n - 1, kind) \cup {n}
        BY <2>1, <3>2
      <4>. HIDE DEF Upto
      <4>. QED
        BY <3>1, <3>2, <4>1, FS_AddElement
    <3>3. CASE q[n].kind # kind
      <4>1. Upto(n, kind) = Upto(n - 1, kind)
        BY <2>1, <3>3
      <4>. HIDE DEF Upto
      <4>. QED
        BY <3>1, <3>3, <4>1
    <3>. QED
      BY <3>2, <3>3
  <2>. HIDE DEF Upto
  <2>4. CASE q[n].kind \in kinds
    <3>1. made[n] = Append(made[n - 1], q[n]) /\ made[n] \in Seq(Frames)
      BY <1>4, <2>1, <2>2, <2>4
    <3>2. \A kind : Holds(made[n], kind) = Holds(made[n - 1], kind) + (IF q[n].kind = kind THEN 1 ELSE 0)
      BY <1>4, <2>1, <3>1, HoldsAppended
    <3>3. \A i \in DOMAIN made[n] : made[n][i].kind \in kinds
      BY <1>4, <2>1, <2>4, <3>1
    <3>. QED
      BY <1>4, <2>3, <3>1, <3>2, <3>3
  <2>5. CASE q[n].kind \notin kinds
    <3>1. made[n] = made[n - 1]
      BY <2>2, <2>5
    <3>2. \A kind \in kinds : Cardinality(Upto(n, kind)) = Cardinality(Upto(n - 1, kind)) + 0
      BY <2>3, <2>5
    <3>3. \A kind \in kinds : Holds(made[n - 1], kind) \in Nat
      BY <1>4, HoldsIsCount
    <3>. QED
      BY <1>4, <3>1, <3>2, <3>3
  <2>. QED
    BY <2>4, <2>5
<1>5. Good(Len(q))
  <2>. DEFINE Bad == {n \in 0 .. Len(q) : ~Good(n)}
  <2>. HIDE DEF Good
  <2>. SUFFICES ASSUME Bad # {} PROVE FALSE
    OBVIOUS
  <2>0. Bad \in SUBSET Nat
    OBVIOUS
  <2>1. PICK n \in Bad : \A m \in Bad : n <= m
    BY <2>0, LeastNumber
  <2>2. n \in 1 .. Len(q) /\ n - 1 \in 0 .. Len(q) /\ n - 1 \notin Bad
    BY <1>3, <2>1
  <2>. QED
    BY <1>4, <2>1, <2>2
<1>6. ASSUME NEW kind PROVE Upto(Len(q), kind) = Flags(q, kind)
  BY DEF Flags
<1>. HIDE DEF Upto
<1>. QED
  BY <1>2, <1>5, <1>6, HoldsIsCount

-----------------------------------------------------------------------------
(* What the variables hold *)

FrameKinds == {"start", "text", "end", "call", "flush", "finish"}
Kinds == FrameKinds \cup SpokenKinds \cup {"context", "close", "error", "none"}
SomeTurn == 0 .. MaxTurns
Items == [kind : Kinds, turn : SomeTurn, n : Nat]

\* Only what belongs to no turn may name none.
Frames == {f \in Items : f.kind \in FrameKinds /\ (f.kind \in {"start", "text", "end"} => f.turn \in Turns)}

Services ==
    [response : SomeTurn, context : SomeTurn, remainder : BOOLEAN, serial : Seq(Items),
     open : SUBSET Turns, queue : [Turns -> Seq(Items)], owned : SUBSET Turns]
Responses == [turn : SomeTurn, stage : {"none", "open", "calling"}, texts : Nat, called : BOOLEAN]
AudioTasks == [alive : BOOLEAN, context : SomeTurn, stopped : BOOLEAN, received : BOOLEAN, failed : BOOLEAN]
Tasks == {"idle", "speaking", "dead", "draining", "drained", "cancelled"}

TypeOK ==
    /\ turn \in SomeTurn /\ turns \in SomeTurn
    /\ llm \in Responses
    /\ inq \in Seq(Frames) /\ procq \in Seq(Frames)
    /\ proc \in [pc : Tasks, frame : Items]
    /\ audio \in AudioTasks
    /\ flushes \in [sent : Nat, passed : Nat]

\* The state of a service whose audio task plays the context a.
ContextsIn(q) == {i \in DOMAIN q : q[i].kind = "context"}
Consistent(s, a) ==
    /\ \A i \in ContextsIn(s.serial) : s.serial[i].turn \in s.open \ {a}
    /\ \A i, j \in ContextsIn(s.serial) : s.serial[i].turn = s.serial[j].turn => i = j
    /\ a # None => a \in s.open
Sound(s, a) == s \in Services /\ Consistent(s, a)

\* What a response, a sentence and the LLM have to do with a turn.
Known ==
    /\ tts.response # None => tts.context = tts.response
    /\ tts.remainder => tts.response # None
    /\ proc.pc = "speaking" => proc.frame.turn \in Turns /\ ~tts.remainder
    /\ llm.stage # "none" => llm.turn \in Turns

ContextsInvariant == TypeOK /\ Sound(tts, audio.context) /\ Known /\ FlushSurvives

LEMMA NoTurn == None \in SomeTurn /\ Turns \subseteq SomeTurn /\ None \notin Turns
<1>1. MaxTurns \in Nat
  BY ContextsAssumption
<1>. QED
  BY <1>1 DEF None, SomeTurn, Turns

Same(r, s) == r.response = s.response /\ r.context = s.context /\ r.remainder = s.remainder
Waiting(s) == Holds(s.serial, "flush")

-----------------------------------------------------------------------------
(* The handlers of the service *)

\* A field that is neither the queue nor the set of contexts may change freely.
LEMMA OtherFields ==
    ASSUME NEW s, NEW a, Sound(s, a), NEW r \in Services, r.serial = s.serial, r.open = s.open
    PROVE  Sound(r, a) /\ Waiting(r) = Waiting(s)
  BY DEF Sound, Consistent, Waiting

\* Whatever is no context may be put behind the others.
LEMMA PutKeeps ==
    ASSUME NEW s, NEW a, Sound(s, a), NEW item \in Items, item.kind # "context"
    PROVE  /\ Sound(Put(s, item), a) /\ Same(Put(s, item), s) /\ Put(s, item).open = s.open
           /\ Waiting(Put(s, item)) = Waiting(s) + (IF item.kind = "flush" THEN 1 ELSE 0)
<1>. DEFINE r == Put(s, item)
<1>1. s \in Services /\ s.serial \in Seq(Items)
  BY DEF Sound, Services
<1>2. Append(s.serial, item) \in Seq(Items)
      /\ Holds(Append(s.serial, item), "flush") = Holds(s.serial, "flush") + (IF item.kind = "flush" THEN 1 ELSE 0)
  BY <1>1, HoldsAppended
<1>3. r \in Services /\ Same(r, s) /\ r.open = s.open /\ r.serial = Append(s.serial, item)
  BY <1>1, <1>2 DEF Services, Put, Same
<1>4. \A i \in ContextsIn(r.serial) : i \in ContextsIn(s.serial) /\ r.serial[i] = s.serial[i]
  BY <1>1, <1>3 DEF ContextsIn
<1>. HIDE DEF r
<1>5. Consistent(r, a)
  BY <1>3, <1>4 DEF Consistent, Sound
<1>6. Sound(r, a)
  BY <1>3, <1>5 DEF Sound
<1>. QED
  BY <1>2, <1>3, <1>6 DEF Waiting, r

\* A context is created once, and is named from then on.
LEMMA CreateKeeps ==
    ASSUME NEW s, NEW a, Sound(s, a), NEW c \in Turns, c \notin s.open
    PROVE  /\ Sound(Create(s, c), a) /\ Same(Create(s, c), s) /\ Waiting(Create(s, c)) = Waiting(s)
           /\ Create(s, c).open = s.open \cup {c}
<1>. DEFINE r == Create(s, c)
            item == Frame("context", c, 0)
<1>1. s \in Services /\ s.serial \in Seq(Items) /\ item \in Items /\ item.kind = "context" /\ item.turn = c
  BY NoTurn DEF Sound, Services, Items, Kinds, Frame
<1>2. Append(s.serial, item) \in Seq(Items)
      /\ Holds(Append(s.serial, item), "flush") = Holds(s.serial, "flush") + (IF item.kind = "flush" THEN 1 ELSE 0)
      /\ Holds(s.serial, "flush") \in Nat
  BY <1>1, HoldsAppended, HoldsIsCount
<1>3. Put(s, item) \in Services /\ Put(s, item).serial = Append(s.serial, item) /\ Same(Put(s, item), s)
      /\ Put(s, item).open = s.open
  BY <1>1, <1>2 DEF Services, Put, Same
<1>4. <<>> \in Seq(Items)
  OBVIOUS
<1>5. r \in Services /\ Same(r, s) /\ r.open = s.open \cup {c} /\ r.serial = Append(s.serial, item)
  BY <1>3, <1>4 DEF Services, Create, Same
<1>. HIDE DEF r
<1>6. \A i \in ContextsIn(r.serial) :
          \/ i \in ContextsIn(s.serial) /\ r.serial[i] = s.serial[i]
          \/ i = Len(s.serial) + 1 /\ r.serial[i] = item
  BY <1>1, <1>5 DEF ContextsIn
<1>7. \A i \in ContextsIn(s.serial) : s.serial[i].turn # c
  BY DEF Sound, Consistent
<1>8. c # a
  BY DEF Sound, Consistent, Turns, None
<1>9. Consistent(r, a)
  <2>1. \A i \in ContextsIn(r.serial) : r.serial[i].turn \in r.open \ {a}
    BY <1>1, <1>5, <1>6, <1>8 DEF Consistent, Sound
  <2>2. \A i, j \in ContextsIn(r.serial) : r.serial[i].turn = r.serial[j].turn => i = j
    BY <1>1, <1>6, <1>7 DEF Consistent, Sound
  <2>3. a # None => a \in r.open
    BY <1>5 DEF Consistent, Sound
  <2>. QED
    BY <2>1, <2>2, <2>3 DEF Consistent
<1>10. Waiting(r) = Waiting(s)
  BY <1>1, <1>2, <1>5 DEF Waiting
<1>11. Sound(r, a)
  BY <1>5, <1>9 DEF Sound
<1>. QED
  BY <1>5, <1>10, <1>11 DEF r

LEMMA AppendToKeeps ==
    ASSUME NEW s, NEW a, Sound(s, a), NEW c \in SomeTurn, c \in s.open \/ c \in Turns, NEW item \in Items
    PROVE  /\ Sound(AppendTo(s, c, item), a) /\ Same(AppendTo(s, c, item), s)
           /\ Waiting(AppendTo(s, c, item)) = Waiting(s) /\ s.open \subseteq AppendTo(s, c, item).open
<1>1. c \in Turns /\ s \in Services
  BY DEF Sound, Services
<1>2. CASE c \in s.open
  <2>. DEFINE r == [s EXCEPT !.queue[c] = Append(@, item)]
  <2>1. s.queue[c] \in Seq(Items)
    BY <1>1 DEF Services
  <2>2. Append(s.queue[c], item) \in Seq(Items)
    BY <2>1
  <2>3. r \in Services /\ r.serial = s.serial /\ r.open = s.open /\ Same(r, s)
    BY <1>1, <2>2 DEF Services, Same
  <2>4. AppendTo(s, c, item) = r
    BY <1>2 DEF AppendTo
  <2>. QED
    BY <2>3, <2>4, OtherFields
<1>3. CASE c \notin s.open /\ c = s.context
  <2>. DEFINE q == Create(s, c)
              r == [q EXCEPT !.queue[c] = <<item>>]
  <2>1. Sound(q, a) /\ Same(q, s) /\ Waiting(q) = Waiting(s) /\ q.open = s.open \cup {c}
    BY <1>1, <1>3, CreateKeeps
  <2>2. AppendTo(s, c, item) = r
    BY <1>3 DEF AppendTo
  <2>. HIDE DEF q
  <2>3. <<item>> \in Seq(Items)
    OBVIOUS
  <2>4. q \in Services
    BY <2>1 DEF Sound
  <2>5. r \in Services /\ r.serial = q.serial /\ r.open = q.open /\ Same(r, q)
    BY <2>3, <2>4 DEF Services, Same
  <2>6. Sound(r, a) /\ Waiting(r) = Waiting(q)
    BY <2>1, <2>5, OtherFields
  <2>. QED
    BY <2>1, <2>2, <2>5, <2>6 DEF Same
<1>4. CASE c \notin s.open /\ c # s.context
  <2>1. AppendTo(s, c, item) = s
    BY <1>4 DEF AppendTo
  <2>. QED
    BY <2>1 DEF Same
<1>. QED
  BY <1>2, <1>3, <1>4

LEMMA Made ==
    ASSUME NEW kind \in Kinds, NEW t \in SomeTurn, NEW n \in Nat
    PROVE  Frame(kind, t, n) \in Items /\ Frame(kind, t, n).kind = kind
  BY DEF Frame, Items

LEMMA AnnounceKeeps ==
    ASSUME NEW s, NEW a, Sound(s, a), s.context \in Turns, NEW n \in Nat
    PROVE  Sound(Announce(s, n), a) /\ Same(Announce(s, n), s) /\ Waiting(Announce(s, n)) = Waiting(s)
<1>. DEFINE c == s.context
            agg == Frame("agg", c, n)
            started == Frame("started", c, 0)
<1>1. c \in SomeTurn /\ c \in Turns
  BY NoTurn
<1>2. agg \in Items /\ agg.kind = "agg" /\ started \in Items
  BY <1>1, Made DEF Kinds, SpokenKinds
<1>. HIDE DEF agg, started
<1>3. CASE c \in s.open
  <2>1. Announce(s, n) = AppendTo(s, c, agg)
    BY <1>3 DEF Announce, agg
  <2>. QED
    BY <1>1, <1>2, <2>1, AppendToKeeps
<1>4. CASE c \notin s.open
  <2>1. Announce(s, n) = AppendTo(Put(s, agg), c, started)
    BY <1>4 DEF Announce, agg, started
  <2>2. Sound(Put(s, agg), a) /\ Same(Put(s, agg), s)
        /\ Waiting(Put(s, agg)) = Waiting(s) + (IF agg.kind = "flush" THEN 1 ELSE 0)
    BY <1>2, PutKeeps
  <2>3. Waiting(s) \in Nat
    BY HoldsIsCount DEF Waiting, Sound, Services
  <2>4. /\ Sound(AppendTo(Put(s, agg), c, started), a)
        /\ Same(AppendTo(Put(s, agg), c, started), Put(s, agg))
        /\ Waiting(AppendTo(Put(s, agg), c, started)) = Waiting(Put(s, agg))
    BY <1>1, <1>2, <2>2, AppendToKeeps
  <2>. QED
    BY <1>2, <2>1, <2>2, <2>3, <2>4 DEF Same
<1>. QED
  BY <1>3, <1>4

LEMMA CompleteKeeps ==
    ASSUME NEW s, NEW a, Sound(s, a)
    PROVE  /\ Sound(Complete(s), a) /\ Waiting(Complete(s)) = Waiting(s)
           /\ Complete(s).remainder = s.remainder /\ Complete(s).context = None
<1>. DEFINE c == s.context
            stopped == Frame("stopped", c, 0)
            close == Frame("close", c, 0)
            once == AppendTo(s, c, stopped)
            closed == AppendTo(once, c, close)
            q == IF c \in s.open THEN closed ELSE s
<1>1. c \in SomeTurn
  BY DEF Sound, Services
<1>2. stopped \in Items /\ close \in Items
  BY <1>1, Made DEF Kinds, SpokenKinds
<1>3. Complete(s) = [q EXCEPT !.context = None]
  BY DEF Complete
<1>4. Sound(q, a) /\ Same(q, s) /\ Waiting(q) = Waiting(s)
  <2>. HIDE DEF stopped, close
  <2>1. CASE c \in s.open
    <3>1. Sound(once, a) /\ Same(once, s) /\ Waiting(once) = Waiting(s) /\ c \in once.open
      BY <1>1, <1>2, <2>1, AppendToKeeps
    <3>. HIDE DEF once
    <3>2. Sound(closed, a) /\ Same(closed, once) /\ Waiting(closed) = Waiting(once)
      BY <1>1, <1>2, <3>1, AppendToKeeps
    <3>. QED
      BY <2>1, <3>1, <3>2 DEF Same
  <2>2. CASE c \notin s.open
    BY <2>2 DEF Same
  <2>. QED
    BY <2>1, <2>2
<1>. HIDE DEF q
<1>5. q \in Services
  BY <1>4 DEF Sound
<1>6. /\ [q EXCEPT !.context = None] \in Services
      /\ [q EXCEPT !.context = None].serial = q.serial
      /\ [q EXCEPT !.context = None].open = q.open
      /\ [q EXCEPT !.context = None].remainder = q.remainder
      /\ [q EXCEPT !.context = None].context = None
  BY <1>5, NoTurn DEF Services
<1>. QED
  BY <1>3, <1>4, <1>6, OtherFields DEF Same

LEMMA EndResponseKeeps ==
    ASSUME NEW s, NEW a, Sound(s, a)
    PROVE  /\ Sound(EndResponse(s), a) /\ Waiting(EndResponse(s)) = Waiting(s)
           /\ EndResponse(s).remainder = s.remainder /\ EndResponse(s).response = None
<1>. DEFINE item == Frame("end", s.response, 0)
            q == Complete(Put(s, item))
            ended == [q EXCEPT !.response = None]
            forgotten == [ended EXCEPT !.owned = @ \ {s.context}]
<1>1. item \in Items /\ item.kind = "end" /\ Waiting(s) \in Nat
  <2>1. s.response \in SomeTurn /\ s.serial \in Seq(Items)
    BY DEF Sound, Services
  <2>. QED
    BY <2>1, Made, HoldsIsCount DEF Kinds, FrameKinds, Waiting
<1>. HIDE DEF item
<1>2. /\ Sound(Put(s, item), a) /\ Same(Put(s, item), s)
      /\ Waiting(Put(s, item)) = Waiting(s) + (IF item.kind = "flush" THEN 1 ELSE 0)
  BY <1>1, PutKeeps
<1>3. Waiting(Put(s, item)) = Waiting(s)
  BY <1>1, <1>2
<1>4. Sound(q, a) /\ Waiting(q) = Waiting(s) /\ q.remainder = s.remainder
  BY <1>2, <1>3, CompleteKeeps DEF Same
<1>5. EndResponse(s) = IF s.context \in ended.open THEN ended ELSE forgotten
  BY DEF EndResponse, item
<1>. HIDE DEF q
<1>6. q \in Services
  BY <1>4 DEF Sound
<1>7. ended \in Services /\ ended.serial = q.serial /\ ended.open = q.open /\ ended.remainder = q.remainder
      /\ ended.response = None
  BY <1>6, NoTurn DEF Services
<1>. HIDE DEF ended
<1>8. forgotten \in Services /\ forgotten.serial = q.serial /\ forgotten.open = q.open
      /\ forgotten.remainder = q.remainder /\ forgotten.response = None
  BY <1>7 DEF Services
<1>. HIDE DEF forgotten
<1>9. EndResponse(s) \in {ended, forgotten}
  BY <1>5
<1>. QED
  BY <1>4, <1>7, <1>8, <1>9, OtherFields

-----------------------------------------------------------------------------
(* Every step *)

LEMMA StartsSound == Init => ContextsInvariant
<1>. SUFFICES ASSUME Init PROVE ContextsInvariant
  OBVIOUS
<1>1. <<>> \in Seq(Frames) /\ <<>> \in Seq(Items)
  OBVIOUS
<1>2. /\ turn = None /\ turns = 0
      /\ llm = [turn |-> None, stage |-> "none", texts |-> 0, called |-> FALSE]
      /\ inq = <<>> /\ procq = <<>> /\ proc = Idle /\ tts = NewService(<<>>) /\ audio = Draining
      /\ flushes = [sent |-> 0, passed |-> 0]
  BY DEF Init
<1>3. NoFrame \in Items
  BY NoTurn DEF NoFrame, Frame, Items, Kinds
<1>4. TypeOK
  BY <1>1, <1>2, <1>3, NoTurn DEF TypeOK, Responses, Idle, Draining, AudioTasks, Tasks, None, SomeTurn
<1>5. Sound(tts, audio.context) /\ Waiting(tts) = 0
  <2>1. tts \in Services /\ tts.serial = <<>>
    BY <1>1, <1>2, NoTurn DEF NewService, Services
  <2>2. audio.context = None
    BY <1>2 DEF Draining
  <2>. QED
    BY <2>1, <2>2, HoldsOfNothing DEF Sound, Consistent, ContextsIn, Waiting
<1>6. Known
  BY <1>2 DEF Known, NewService, Idle
<1>7. FlushSurvives
  BY <1>2, <1>5, HoldsOfNothing DEF FlushSurvives, Waiting
<1>. QED
  BY <1>4, <1>5, <1>6, <1>7 DEF ContextsInvariant

\* What holds of the service's fields; tts itself is left to the lemmas above.
LEMMA Fields ==
    ASSUME ContextsInvariant
    PROVE  /\ tts \in Services /\ tts.response \in SomeTurn /\ tts.context \in SomeTurn
           /\ tts.serial \in Seq(Items) /\ tts.open \subseteq Turns /\ audio.context \in SomeTurn
           /\ Sound(tts, audio.context) /\ Waiting(tts) \in Nat
           /\ Holds(inq, "flush") \in Nat /\ Holds(procq, "flush") \in Nat
  BY HoldsIsCount DEF ContextsInvariant, TypeOK, AudioTasks, Sound, Services, Waiting

\* A sentence is spoken for the context of the response.
LEMMA Speaks ==
    ASSUME ContextsInvariant, tts.context \in Turns, NEW f \in Items, NEW n \in Nat, Speak(f, n)
    PROVE  /\ Sound(tts', audio.context) /\ Waiting(tts') = Waiting(tts)
           /\ tts'.response = tts.response /\ tts'.context = tts.context /\ ~tts'.remainder
           /\ proc' \in [pc : Tasks, frame : Items] /\ proc'.frame.turn \in Turns
<1>. DEFINE q == Announce(tts, n)
<1>1. Sound(q, audio.context) /\ Same(q, tts) /\ Waiting(q) = Waiting(tts)
  BY Fields, AnnounceKeeps
<1>2. tts' = [q EXCEPT !.remainder = FALSE]
  BY DEF Speak
<1>. HIDE DEF q
<1>3. tts' \in Services /\ tts'.serial = q.serial /\ tts'.open = q.open
      /\ tts'.response = q.response /\ tts'.context = q.context /\ ~tts'.remainder
  BY <1>1, <1>2 DEF Sound, Services
<1>4. Sound(tts', audio.context) /\ Waiting(tts') = Waiting(q)
  BY <1>1, <1>3, OtherFields
<1>5. proc' \in [pc : Tasks, frame : Items] /\ proc'.frame.turn \in Turns
  <2>1. tts.context \in SomeTurn
    BY NoTurn
  <2>2. [f EXCEPT !.turn = tts.context, !.n = n] \in Items
        /\ [f EXCEPT !.turn = tts.context, !.n = n].turn = tts.context
    BY <2>1 DEF Items
  <2>. QED
    BY <2>2 DEF Speak, Tasks
<1>. QED
  BY <1>1, <1>3, <1>4, <1>5 DEF Same

LEMMA Balance ==
    \A s, p, i, q, w, p2, q2, w2 \in Nat :
        s = p + i + q + w /\ p + q + w = p2 + q2 + w2 => s = p2 + i + q2 + w2
  OBVIOUS

\* A step of the process task or the native request: what it has to keep.
LEMMA KeepsUp ==
    ASSUME ContextsInvariant, UNCHANGED <<given, inq>>,
           procq' \in Seq(Frames), audio' \in AudioTasks,
           proc' \in [pc : Tasks, frame : Items],
           Sound(tts', audio'.context),
           tts'.response # None => tts'.context = tts'.response,
           tts'.remainder => tts'.response # None,
           proc'.pc = "speaking" => proc'.frame.turn \in Turns /\ ~tts'.remainder,
           llm' = llm \/ (llm' = [llm EXCEPT !.stage = "open"] /\ llm.stage = "calling"),
           flushes' \in [sent : Nat, passed : Nat], flushes'.sent = flushes.sent,
           flushes.passed + Holds(procq, "flush") + Waiting(tts)
               = flushes'.passed + Holds(procq', "flush") + Waiting(tts'),
           Holds(procq', "flush") \in Nat, Waiting(tts') \in Nat
    PROVE  ContextsInvariant'
<1>1. TypeOK'
  BY DEF ContextsInvariant, TypeOK, Responses, given
<1>2. Known'
  BY DEF ContextsInvariant, TypeOK, Responses, Known
<1>3. FlushSurvives'
  <2>1. flushes.sent = flushes.passed + Holds(inq, "flush") + Holds(procq, "flush") + Waiting(tts)
        /\ flushes.sent \in Nat /\ flushes.passed \in Nat
    BY DEF ContextsInvariant, FlushSurvives, Waiting, TypeOK
  <2>2. flushes'.passed \in Nat /\ inq' = inq
    OBVIOUS
  <2>3. /\ Holds(inq, "flush") \in Nat /\ Holds(procq, "flush") \in Nat /\ Waiting(tts) \in Nat
        /\ Holds(procq', "flush") \in Nat /\ Waiting(tts') \in Nat /\ flushes'.sent = flushes.sent
        /\ flushes.passed + Holds(procq, "flush") + Waiting(tts)
               = flushes'.passed + Holds(procq', "flush") + Waiting(tts')
    BY Fields
  <2>4. flushes.sent = flushes'.passed + Holds(inq, "flush") + Holds(procq', "flush") + Waiting(tts')
    BY ONLY <2>1, <2>2, <2>3, Balance
  <2>. QED
    BY <2>2, <2>3, <2>4 DEF FlushSurvives, Waiting
<1>. QED
  BY <1>1, <1>2, <1>3 DEF ContextsInvariant

\* What one step of a handler does to the invariant, and to the flush probes.
Handled(taken) ==
    /\ proc' \in [pc : Tasks, frame : Items]
    /\ Sound(tts', audio.context)
    /\ tts'.response # None => tts'.context = tts'.response
    /\ tts'.remainder => tts'.response # None
    /\ proc'.pc = "speaking" => proc'.frame.turn \in Turns /\ ~tts'.remainder
    /\ llm' = llm \/ (llm' = [llm EXCEPT !.stage = "open"] /\ llm.stage = "calling")
    /\ flushes' \in [sent : Nat, passed : Nat] /\ flushes'.sent = flushes.sent
    /\ flushes'.passed + Waiting(tts') = flushes.passed + Waiting(tts) + taken

LEMMA IdleTask == Idle \in [pc : Tasks, frame : Items] /\ Idle.pc # "speaking"
  BY NoTurn DEF Idle, NoFrame, Frame, Items, Kinds, Tasks

LEMMA Waits == ASSUME NEW s, NEW a, Sound(s, a) PROVE Waiting(s) \in Nat
  BY HoldsIsCount DEF Waiting, Sound, Services

LEMMA ContextOfResponse ==
    ASSUME ContextsInvariant, tts.response # None PROVE tts.context \in Turns
<1>1. tts.context = tts.response /\ tts.response \in SomeTurn
  BY Fields DEF ContextsInvariant, Known
<1>2. MaxTurns \in Nat
  BY ContextsAssumption
<1>. QED
  BY <1>1, <1>2 DEF SomeTurn, Turns, None

\* A handler that leaves llm and flushes alone, and only its effect on the service.
LEMMA HandledQuietly ==
    ASSUME ContextsInvariant, NEW taken \in {0, 1}, UNCHANGED <<llm, flushes>>,
           proc' \in [pc : Tasks, frame : Items], Sound(tts', audio.context),
           tts'.response # None => tts'.context = tts'.response,
           tts'.remainder => tts'.response # None,
           proc'.pc = "speaking" => proc'.frame.turn \in Turns /\ ~tts'.remainder,
           Waiting(tts') = Waiting(tts) + taken
    PROVE  Handled(taken)
<1>1. flushes' \in [sent : Nat, passed : Nat] /\ flushes'.sent = flushes.sent /\ flushes.passed \in Nat
  BY DEF ContextsInvariant, TypeOK
<1>2. flushes'.passed + Waiting(tts') = flushes.passed + Waiting(tts) + taken
  BY <1>1, Fields
<1>3. llm' = llm
  OBVIOUS
<1>. QED
  BY <1>1, <1>2, <1>3, Zenon DEF Handled

LEMMA PassOnCounts ==
    ASSUME ContextsInvariant, NEW f, PassOn(f)
    PROVE  /\ llm' = llm \/ (llm' = [llm EXCEPT !.stage = "open"] /\ llm.stage = "calling")
           /\ flushes' \in [sent : Nat, passed : Nat] /\ flushes'.sent = flushes.sent
           /\ flushes'.passed = flushes.passed + (IF f.kind = "flush" THEN 1 ELSE 0)
<1>1. flushes \in [sent : Nat, passed : Nat]
  BY DEF ContextsInvariant, TypeOK
<1>2. llm' = llm \/ (llm' = [llm EXCEPT !.stage = "open"] /\ llm.stage = "calling")
  BY DEF PassOn
<1>3. CASE f.kind = "flush"
  <2>1. flushes' = [flushes EXCEPT !.passed = @ + 1]
    BY <1>3 DEF PassOn
  <2>2. flushes.sent \in Nat /\ flushes.passed + 1 \in Nat
    BY <1>1
  <2>. QED
    BY <1>1, <1>2, <1>3, <2>1, <2>2
<1>4. CASE f.kind # "flush"
  <2>1. flushes' = flushes
    BY <1>4 DEF PassOn
  <2>. QED
    BY <1>1, <1>2, <1>4, <2>1
<1>. QED
  BY <1>3, <1>4

LEMMA BeginHandled ==
    ASSUME ContextsInvariant, NEW f \in Frames, Begin(f) PROVE Handled(0) /\ f.kind # "flush"
<1>1. f \in Items /\ f.kind = "start" /\ f.turn \in Turns /\ proc' = Idle /\ UNCHANGED <<llm, flushes>>
  BY DEF Begin, Frames, counts
<1>2. CASE tts' = tts
  <2>1. Waiting(tts') = Waiting(tts) + 0
    BY <1>2, Fields
  <2>2. Sound(tts', audio.context) /\ (tts'.response # None => tts'.context = tts'.response)
        /\ (tts'.remainder => tts'.response # None)
    BY <1>2, Fields DEF ContextsInvariant, Known
  <2>. QED
    BY <1>1, <2>1, <2>2, IdleTask, HandledQuietly
<1>3. CASE tts' # tts
  <2>. DEFINE q == Put(tts, f)
  <2>1. /\ Sound(q, audio.context) /\ Same(q, tts)
        /\ Waiting(q) = Waiting(tts) + (IF f.kind = "flush" THEN 1 ELSE 0)
    BY <1>1, Fields, PutKeeps
  <2>2. tts' = [q EXCEPT !.response = f.turn, !.context = f.turn, !.owned = @ \cup {f.turn}]
    BY <1>3 DEF Begin
  <2>. HIDE DEF q
  <2>3. q \in Services /\ f.turn \in SomeTurn
    BY <1>1, <2>1, NoTurn DEF Sound
  <2>4. tts' \in Services /\ tts'.serial = q.serial /\ tts'.open = q.open
        /\ tts'.response = f.turn /\ tts'.context = f.turn
    BY <1>1, <2>2, <2>3 DEF Services
  <2>5. Sound(tts', audio.context) /\ Waiting(tts') = Waiting(q)
    BY <2>1, <2>4, OtherFields
  <2>6. Waiting(tts') = Waiting(tts) + 0 /\ f.turn # None
    BY <1>1, <2>1, <2>5, NoTurn
  <2>. QED
    BY <1>1, <2>4, <2>5, <2>6, IdleTask, HandledQuietly
<1>. QED
  BY <1>1, <1>2, <1>3

LEMMA SpeakHandled ==
    ASSUME ContextsInvariant, tts.response # None, NEW f \in Items, NEW n \in Nat, Speak(f, n), UNCHANGED <<llm, flushes>>
    PROVE  Handled(0)
<1>1. /\ Sound(tts', audio.context) /\ Waiting(tts') = Waiting(tts)
      /\ tts'.response = tts.response /\ tts'.context = tts.context /\ ~tts'.remainder
      /\ proc' \in [pc : Tasks, frame : Items] /\ proc'.frame.turn \in Turns
  BY ContextOfResponse, Speaks
<1>2. tts.context = tts.response
  BY DEF ContextsInvariant, Known
<1>3. Waiting(tts') = Waiting(tts) + 0
  BY <1>1, Fields
<1>. QED
  BY <1>1, <1>2, <1>3, HandledQuietly

\* A wanted frame belongs to the response at hand.
LEMMA WantedResponse ==
    ASSUME NEW f \in Frames, f.kind \in {"start", "text", "end"}, Wanted(f) PROVE tts.response # None
  BY NoTurn DEF Frames, Wanted

LEMMA TextHandled ==
    ASSUME ContextsInvariant, NEW f \in Frames, Text(f) PROVE Handled(0) /\ f.kind # "flush"
<1>1. f \in Items /\ f.kind = "text" /\ f.n \in Nat /\ UNCHANGED <<llm, flushes>>
  BY DEF Text, Frames, Items, counts
<1>2. CASE Wanted(f) /\ Speak(f, f.n)
  BY <1>1, <1>2, WantedResponse, SpeakHandled
<1>3. CASE Wanted(f) /\ tts' = [tts EXCEPT !.remainder = TRUE] /\ proc' = Idle
  <2>1. tts' \in Services /\ tts'.serial = tts.serial /\ tts'.open = tts.open
        /\ tts'.response = tts.response /\ tts'.context = tts.context
    BY <1>3, Fields DEF Services
  <2>2. Sound(tts', audio.context) /\ Waiting(tts') = Waiting(tts)
    BY <2>1, Fields, OtherFields
  <2>3. tts.response # None /\ tts.context = tts.response
    BY <1>1, <1>3, WantedResponse DEF ContextsInvariant, Known
  <2>4. Waiting(tts') = Waiting(tts) + 0
    BY <2>2, Fields
  <2>. QED
    BY <1>1, <1>3, <2>1, <2>2, <2>3, <2>4, IdleTask, HandledQuietly
<1>4. CASE UNCHANGED tts /\ proc' = Idle
  <2>1. Waiting(tts') = Waiting(tts) + 0
    BY <1>4, Fields
  <2>2. Sound(tts', audio.context) /\ (tts'.response # None => tts'.context = tts'.response)
        /\ (tts'.remainder => tts'.response # None)
    BY <1>4, Fields DEF ContextsInvariant, Known
  <2>. QED
    BY <1>1, <1>4, <2>1, <2>2, IdleTask, HandledQuietly
<1>. QED
  BY <1>1, <1>2, <1>3, <1>4 DEF Text

\* The end of a response leaves none behind.
LEMMA EndsResponse ==
    ASSUME ContextsInvariant, NEW s, Sound(s, audio.context), Waiting(s) = Waiting(tts), ~s.remainder,
           tts' = EndResponse(s), proc' = Idle, UNCHANGED <<llm, flushes>>
    PROVE  Handled(0)
<1>1. Sound(tts', audio.context) /\ Waiting(tts') = Waiting(tts) /\ ~tts'.remainder /\ tts'.response = None
  BY EndResponseKeeps
<1>2. Waiting(tts') = Waiting(tts) + 0
  BY <1>1, Fields
<1>. QED
  BY <1>1, <1>2, IdleTask, HandledQuietly

LEMMA EndHandled ==
    ASSUME ContextsInvariant, NEW f \in Frames, End(f) PROVE Handled(0) /\ f.kind # "flush"
<1>1. f \in Items /\ f.kind = "end" /\ f.n \in Nat /\ UNCHANGED <<llm, flushes>>
  BY DEF End, Frames, Items, counts
<1>2. CASE Wanted(f) /\ tts.remainder
  <2>1. Speak(f, f.n)
    BY <1>2 DEF End
  <2>. QED
    BY <1>1, <1>2, <2>1, WantedResponse, SpeakHandled
<1>3. CASE Wanted(f) /\ ~tts.remainder
  <2>1. tts' = EndResponse(tts) /\ proc' = Idle
    BY <1>3 DEF End
  <2>. QED
    BY <1>1, <1>3, <2>1, Fields, EndsResponse
<1>4. CASE ~Wanted(f)
  <2>1. tts' = tts /\ proc' = Idle
    BY <1>4 DEF End
  <2>2. Waiting(tts') = Waiting(tts) + 0
    BY <2>1, Fields
  <2>3. Sound(tts', audio.context) /\ (tts'.response # None => tts'.context = tts'.response)
        /\ (tts'.remainder => tts'.response # None)
    BY <2>1, Fields DEF ContextsInvariant, Known
  <2>. QED
    BY <1>1, <2>1, <2>2, <2>3, IdleTask, HandledQuietly
<1>. QED
  BY <1>1, <1>2, <1>3, <1>4

LEMMA CallHandled ==
    ASSUME ContextsInvariant, NEW f \in Frames, Call(f) PROVE Handled(0) /\ f.kind # "flush"
<1>1. f.kind = "call" /\ proc' = Idle /\ tts' = tts /\ PassOn(f)
  BY DEF Call
<1>2. /\ llm' = llm \/ (llm' = [llm EXCEPT !.stage = "open"] /\ llm.stage = "calling")
      /\ flushes' \in [sent : Nat, passed : Nat] /\ flushes'.sent = flushes.sent
      /\ flushes'.passed = flushes.passed + (IF f.kind = "flush" THEN 1 ELSE 0)
  BY <1>1, PassOnCounts
<1>3. flushes'.passed + Waiting(tts') = flushes.passed + Waiting(tts) + 0
  <2>1. flushes.passed \in Nat
    BY DEF ContextsInvariant, TypeOK
  <2>. QED
    BY <1>1, <1>2, <2>1, Fields
<1>4. Sound(tts', audio.context) /\ (tts'.response # None => tts'.context = tts'.response)
      /\ (tts'.remainder => tts'.response # None)
  BY <1>1, Fields DEF ContextsInvariant, Known
<1>. QED
  BY <1>1, <1>2, <1>3, <1>4, IdleTask DEF Handled

\* A frame that waits behind the contexts.
LEMMA PutHandled ==
    ASSUME ContextsInvariant, NEW item \in Items, item.kind # "context", tts' = Put(tts, item),
           proc' \in [pc : Tasks, frame : Items], proc'.pc # "speaking", UNCHANGED <<llm, flushes>>
    PROVE  Handled(IF item.kind = "flush" THEN 1 ELSE 0)
<1>1. /\ Sound(tts', audio.context) /\ Same(tts', tts)
      /\ Waiting(tts') = Waiting(tts) + (IF item.kind = "flush" THEN 1 ELSE 0)
  BY Fields, PutKeeps
<1>2. (tts'.response # None => tts'.context = tts'.response) /\ (tts'.remainder => tts'.response # None)
  BY <1>1 DEF Same, ContextsInvariant, Known
<1>. QED
  BY <1>1, <1>2, HandledQuietly

LEMMA FlushHandled ==
    ASSUME ContextsInvariant, NEW f \in Frames, Flush(f) PROVE Handled(1) /\ f.kind = "flush"
<1>1. f \in Items /\ f.kind = "flush" /\ tts' = Put(tts, f) /\ proc' = Idle /\ UNCHANGED <<llm, flushes>>
  BY DEF Flush, Frames, counts
<1>2. Handled(IF f.kind = "flush" THEN 1 ELSE 0)
  BY <1>1, IdleTask, PutHandled
<1>. QED
  BY <1>1, <1>2

LEMMA FinishHandled ==
    ASSUME ContextsInvariant, NEW f \in Frames, Finish(f) PROVE Handled(0) /\ f.kind # "flush"
<1>1. f \in Items /\ f.kind = "finish" /\ tts' = Put(tts, NoFrame) /\ UNCHANGED <<llm, flushes>>
      /\ proc' = [pc |-> "draining", frame |-> f]
  BY DEF Finish, Frames, counts
<1>2. proc' \in [pc : Tasks, frame : Items] /\ proc'.pc # "speaking"
  BY <1>1 DEF Tasks
<1>3. NoFrame \in Items /\ NoFrame.kind = "none"
  BY NoTurn DEF NoFrame, Frame, Items, Kinds
<1>4. Handled(IF NoFrame.kind = "flush" THEN 1 ELSE 0)
  BY <1>1, <1>2, <1>3, PutHandled
<1>. QED
  BY <1>1, <1>3, <1>4

LEMMA HandledKeeps ==
    ASSUME ContextsInvariant, NEW taken \in {0, 1}, Handled(taken), UNCHANGED <<given, inq, audio>>,
           procq' \in Seq(Frames), Holds(procq', "flush") \in Nat,
           Holds(procq', "flush") + taken = Holds(procq, "flush")
    PROVE  ContextsInvariant'
<1>1. audio' = audio
      /\ audio' \in AudioTasks
  BY DEF ContextsInvariant, TypeOK
<1>2. Waiting(tts') \in Nat
  BY Waits DEF Handled
<1>3. flushes.passed + Holds(procq, "flush") + Waiting(tts) = flushes'.passed + Holds(procq', "flush") + Waiting(tts')
  <2>1. /\ flushes'.passed + Waiting(tts') = flushes.passed + Waiting(tts) + taken
        /\ flushes'.passed \in Nat /\ flushes.passed \in Nat
    BY DEF Handled, ContextsInvariant, TypeOK
  <2>2. Waiting(tts) \in Nat /\ Holds(procq, "flush") \in Nat /\ Holds(procq', "flush") \in Nat /\ taken \in Nat
        /\ Holds(procq', "flush") + taken = Holds(procq, "flush")
    BY Fields
  <2>. QED
    BY ONLY <1>2, <2>1, <2>2
<1>4. Sound(tts', audio'.context)
  BY <1>1 DEF Handled
<1>. QED
  BY <1>1, <1>2, <1>3, <1>4, KeepsUp DEF Handled

LEMMA TakeKeeps == ASSUME ContextsInvariant, Take PROVE ContextsInvariant'
<1>. DEFINE f == Head(procq)
<1>1. procq \in Seq(Frames) /\ procq # <<>>
  BY DEF ContextsInvariant, TypeOK, Take
<1>2. /\ Tail(procq) \in Seq(Frames) /\ f \in Frames
      /\ Holds(Tail(procq), "flush") + (IF f.kind = "flush" THEN 1 ELSE 0) = Holds(procq, "flush")
  BY <1>1, HoldsTaken
<1>3. procq' = Tail(procq) /\ UNCHANGED <<given, inq, audio>>
      /\ (Begin(f) \/ Text(f) \/ End(f) \/ Call(f) \/ Flush(f) \/ Finish(f))
  BY DEF Take
<1>4. Holds(procq', "flush") \in Nat
  BY <1>2, <1>3, HoldsIsCount
<1>. HIDE DEF f
<1>5. (Handled(0) /\ f.kind # "flush") \/ (Handled(1) /\ f.kind = "flush")
  BY <1>2, <1>3, BeginHandled, TextHandled, EndHandled, CallHandled, FlushHandled, FinishHandled
<1>6. CASE Handled(0) /\ f.kind # "flush"
  <2>1. Holds(procq', "flush") + 0 = Holds(procq, "flush")
    BY <1>2, <1>3, <1>6
  <2>. QED
    BY <1>2, <1>3, <1>4, <1>6, <2>1, HandledKeeps
<1>7. CASE Handled(1) /\ f.kind = "flush"
  <2>1. Holds(procq', "flush") + 1 = Holds(procq, "flush")
    BY <1>2, <1>3, <1>7
  <2>. QED
    BY <1>2, <1>3, <1>4, <1>7, <2>1, HandledKeeps
<1>. QED
  BY <1>5, <1>6, <1>7

\* The EndFrame leaves no response behind.
LEMMA FinishesEnd ==
    ASSUME ContextsInvariant, NEW s, Sound(s, audio.context), Waiting(s) = Waiting(tts), ~s.remainder,
           FinishEnd(s), llm' = llm
    PROVE  Handled(0)
<1>. DEFINE q == Complete(s)
<1>1. Sound(q, audio.context) /\ Waiting(q) = Waiting(tts) /\ ~q.remainder
  BY CompleteKeeps
<1>2. tts' = [q EXCEPT !.response = None, !.owned = {}] /\ proc' = Idle /\ UNCHANGED <<llm, flushes>>
  BY DEF FinishEnd
<1>. HIDE DEF q
<1>3. q \in Services
  BY <1>1 DEF Sound
<1>4. tts' \in Services /\ tts'.serial = q.serial /\ tts'.open = q.open /\ tts'.response = None
      /\ tts'.remainder = q.remainder
  BY <1>2, <1>3, NoTurn DEF Services
<1>5. Sound(tts', audio.context) /\ Waiting(tts') = Waiting(q)
  BY <1>1, <1>4, OtherFields
<1>6. Waiting(tts') = Waiting(tts) + 0
  BY <1>1, <1>5, Fields
<1>. QED
  BY <1>1, <1>2, <1>4, <1>5, <1>6, IdleTask, HandledQuietly

\* What the native request leaves in the context of its sentence.
LEMMA SpokenKeeps ==
    ASSUME ContextsInvariant, NEW c \in Turns, NEW n \in Nat, NEW ok \in BOOLEAN
    PROVE  LET s == Spoken(c, n, ok)
           IN  Sound(s, audio.context) /\ Same(s, tts) /\ Waiting(s) = Waiting(tts)
<1>. DEFINE played == Frame("played", c, n)
            words == Frame("words", c, n)
            error == Frame("error", c, n)
            once == AppendTo(tts, c, played)
<1>1. c \in SomeTurn
  BY NoTurn
<1>2. played \in Items /\ words \in Items /\ error \in Items
  BY <1>1, Made DEF Kinds, SpokenKinds
<1>3. Spoken(c, n, ok) = IF ok THEN AppendTo(once, c, words) ELSE AppendTo(tts, c, error)
  BY DEF Spoken
<1>. HIDE DEF played, words, error
<1>4. Sound(once, audio.context) /\ Same(once, tts) /\ Waiting(once) = Waiting(tts)
  BY <1>1, <1>2, Fields, AppendToKeeps
<1>. HIDE DEF once
<1>5. /\ Sound(AppendTo(once, c, words), audio.context) /\ Same(AppendTo(once, c, words), once)
      /\ Waiting(AppendTo(once, c, words)) = Waiting(once)
  BY <1>1, <1>2, <1>4, AppendToKeeps
<1>6. /\ Sound(AppendTo(tts, c, error), audio.context) /\ Same(AppendTo(tts, c, error), tts)
      /\ Waiting(AppendTo(tts, c, error)) = Waiting(tts)
  BY <1>1, <1>2, Fields, AppendToKeeps
<1>. QED
  BY <1>3, <1>4, <1>5, <1>6 DEF Same

LEMMA SpeechEndsKeeps == ASSUME ContextsInvariant, SpeechEnds PROVE ContextsInvariant'
<1>1. PICK ok \in BOOLEAN :
          IF proc.frame.turn = turn
          THEN GoOn(Spoken(proc.frame.turn, proc.frame.n, ok))
          ELSE proc' = [proc EXCEPT !.pc = "dead"] /\ UNCHANGED <<tts, out, flushes, ending>>
  BY DEF SpeechEnds
<1>2. /\ proc.frame.turn \in Turns /\ ~tts.remainder /\ proc \in [pc : Tasks, frame : Items] /\ proc.frame.n \in Nat
      /\ procq \in Seq(Frames)
  BY DEF SpeechEnds, ContextsInvariant, Known, TypeOK, Items
<1>3. UNCHANGED <<given, llm, inq, procq, audio>>
  BY DEF SpeechEnds, queues
<1>4. Handled(0)
  <2>1. CASE proc.frame.turn = turn
    <3>. DEFINE s == Spoken(proc.frame.turn, proc.frame.n, ok)
    <3>1. Sound(s, audio.context) /\ Same(s, tts) /\ Waiting(s) = Waiting(tts)
      BY <1>2, SpokenKeeps
    <3>2. GoOn(s)
      BY <1>1, <2>1
    <3>. HIDE DEF s
    <3>3. ~s.remainder
      BY <1>2, <3>1 DEF Same
    <3>4. CASE proc.frame.kind = "finish"
      BY <1>3, <3>1, <3>2, <3>3, <3>4, FinishesEnd DEF GoOn
    <3>5. CASE proc.frame.kind = "end"
      <4>1. tts' = EndResponse(s) /\ proc' = Idle /\ UNCHANGED flushes
        BY <3>2, <3>5 DEF GoOn
      <4>. QED
        BY <1>3, <3>1, <3>3, <4>1, EndsResponse
    <3>6. CASE proc.frame.kind \notin {"finish", "end"}
      <4>1. tts' = s /\ proc' = Idle /\ UNCHANGED flushes
        BY <3>2, <3>6 DEF GoOn
      <4>2. Waiting(tts') = Waiting(tts) + 0
        BY <3>1, <4>1, Fields
      <4>3. (tts'.response # None => tts'.context = tts'.response) /\ ~tts'.remainder
        BY <3>1, <3>3, <4>1 DEF Same, ContextsInvariant, Known
      <4>. QED
        BY <1>3, <3>1, <4>1, <4>2, <4>3, IdleTask, HandledQuietly
    <3>. QED
      BY <3>4, <3>5, <3>6
  <2>2. CASE proc.frame.turn # turn
    <3>1. proc' = [proc EXCEPT !.pc = "dead"] /\ UNCHANGED <<tts, flushes>>
      BY <1>1, <2>2
    <3>2. proc' \in [pc : Tasks, frame : Items] /\ proc'.pc # "speaking"
      BY <1>2, <3>1 DEF Tasks
    <3>3. Waiting(tts') = Waiting(tts) + 0
      BY <3>1, Fields
    <3>4. Sound(tts', audio.context) /\ (tts'.response # None => tts'.context = tts'.response)
          /\ (tts'.remainder => tts'.response # None)
      BY <3>1, Fields DEF ContextsInvariant, Known
    <3>. QED
      BY <1>3, <3>1, <3>2, <3>3, <3>4, HandledQuietly
  <2>. QED
    BY <2>1, <2>2
<1>5. Holds(procq', "flush") + 0 = Holds(procq, "flush") /\ Holds(procq', "flush") \in Nat
  BY <1>3, Fields
<1>. QED
  BY <1>2, <1>3, <1>4, <1>5, HandledKeeps

LEMMA DrainedKeeps == ASSUME ContextsInvariant, Drained PROVE ContextsInvariant'
<1>1. UNCHANGED <<given, llm, inq, procq, audio>>
  BY DEF Drained, queues
<1>2. proc.frame \in Items /\ procq \in Seq(Frames) /\ MaxTexts \in Nat
  BY ContextsAssumption DEF ContextsInvariant, TypeOK
<1>3. Handled(0)
  <2>1. CASE tts.remainder
    <3>1. Speak(proc.frame, MaxTexts) /\ UNCHANGED flushes
      BY <2>1 DEF Drained
    <3>2. tts.response # None
      BY <2>1 DEF ContextsInvariant, Known
    <3>. QED
      BY <1>1, <1>2, <3>1, <3>2, SpeakHandled
  <2>2. CASE ~tts.remainder
    <3>1. FinishEnd(tts)
      BY <2>2 DEF Drained
    <3>. QED
      BY <1>1, <2>2, <3>1, Fields, FinishesEnd
  <2>. QED
    BY <2>1, <2>2
<1>4. Holds(procq', "flush") + 0 = Holds(procq, "flush") /\ Holds(procq', "flush") \in Nat
  BY <1>1, Fields
<1>. QED
  BY <1>1, <1>2, <1>3, <1>4, HandledKeeps

\* The first of what waits is taken out: a context, unless it is played, is then
\* named by nothing.
LEMMA TakenKeeps ==
    ASSUME NEW s, NEW a, Sound(s, a), s.serial # <<>>, NEW r, r = [s EXCEPT !.serial = Tail(@)]
    PROVE  /\ Sound(r, a) /\ Same(r, s)
           /\ Waiting(r) + (IF Head(s.serial).kind = "flush" THEN 1 ELSE 0) = Waiting(s)
           /\ Head(s.serial) \in Items
           /\ Head(s.serial).kind = "context" => Sound(r, Head(s.serial).turn)
<1>. DEFINE f == Head(s.serial)
<1>1. s \in Services /\ s.serial \in Seq(Items)
  BY DEF Sound, Services
<1>2. /\ Tail(s.serial) \in Seq(Items) /\ f \in Items
      /\ Holds(Tail(s.serial), "flush") + (IF f.kind = "flush" THEN 1 ELSE 0) = Holds(s.serial, "flush")
  BY <1>1, HoldsTaken
<1>3. r \in Services /\ r.serial = Tail(s.serial) /\ r.open = s.open /\ Same(r, s)
  BY <1>1, <1>2 DEF Services, Same
<1>4. Len(s.serial) \in Nat /\ Len(s.serial) # 0 /\ f = s.serial[1] /\ 1 \in DOMAIN s.serial
      /\ Len(Tail(s.serial)) = Len(s.serial) - 1
      /\ \A i \in 1 .. Len(s.serial) - 1 : Tail(s.serial)[i] = s.serial[i + 1]
  BY <1>1
<1>5. \A i \in ContextsIn(r.serial) :
          /\ i \in Nat /\ i + 1 # 1
          /\ i + 1 \in ContextsIn(s.serial) /\ r.serial[i] = s.serial[i + 1]
  BY <1>1, <1>2, <1>3, <1>4 DEF ContextsIn
<1>6. \A i \in ContextsIn(r.serial) : r.serial[i].turn \in r.open \ {a}
  BY <1>3, <1>5 DEF Sound, Consistent
<1>7. \A i, j \in ContextsIn(r.serial) : r.serial[i].turn = r.serial[j].turn => i = j
  <2>. SUFFICES ASSUME NEW i \in ContextsIn(r.serial), NEW j \in ContextsIn(r.serial),
                       r.serial[i].turn = r.serial[j].turn
                PROVE  i = j
    OBVIOUS
  <2>1. i + 1 \in ContextsIn(s.serial) /\ j + 1 \in ContextsIn(s.serial)
        /\ s.serial[i + 1].turn = s.serial[j + 1].turn
    BY <1>5
  <2>2. \A k, l \in ContextsIn(s.serial) : s.serial[k].turn = s.serial[l].turn => k = l
    BY DEF Sound, Consistent
  <2>3. i + 1 = j + 1
    BY <2>1, <2>2
  <2>. QED
    BY <1>5, <2>3
<1>8. Sound(r, a)
  BY <1>3, <1>6, <1>7 DEF Sound, Consistent
<1>9. ASSUME f.kind = "context" PROVE Sound(r, f.turn)
  <2>1. 1 \in ContextsIn(s.serial) /\ f.turn \in s.open
    BY <1>4, <1>9 DEF ContextsIn, Sound, Consistent
  <2>2. \A i \in ContextsIn(r.serial) : r.serial[i].turn # f.turn
    BY <1>4, <1>5, <2>1 DEF Sound, Consistent
  <2>. QED
    BY <1>3, <1>6, <1>7, <2>1, <2>2 DEF Sound, Consistent
<1>. QED
  BY <1>2, <1>3, <1>8, <1>9 DEF Waiting

LEMMA ServeKeeps == ASSUME ContextsInvariant, Serve PROVE ContextsInvariant'
<1>. DEFINE item == Head(tts.serial)
<1>1. UNCHANGED <<given, inq, procq>> /\ tts' = [tts EXCEPT !.serial = Tail(@)] /\ tts.serial # <<>>
      /\ audio.context = None
  BY DEF Serve, queues
<1>2. /\ Sound(tts', audio.context) /\ Same(tts', tts) /\ item \in Items
      /\ Waiting(tts') + (IF item.kind = "flush" THEN 1 ELSE 0) = Waiting(tts)
      /\ item.kind = "context" => Sound(tts', item.turn)
  BY <1>1, Fields, TakenKeeps
<1>3. \/ /\ item.kind = "context" /\ audio' = [Draining EXCEPT !.context = item.turn]
         /\ UNCHANGED <<proc, llm, out, flushes>>
      \/ /\ item.kind = "none" /\ audio' = Gone /\ proc' = [proc EXCEPT !.pc = "drained"]
         /\ UNCHANGED <<llm, out, flushes>>
      \/ /\ item.kind \notin {"context", "none"} /\ PassOn(Tagged(item)) /\ UNCHANGED <<audio, proc>>
  BY DEF Serve
<1>. HIDE DEF item
<1>4. proc \in [pc : Tasks, frame : Items] /\ audio \in AudioTasks /\ procq \in Seq(Frames)
      /\ flushes \in [sent : Nat, passed : Nat]
  BY DEF ContextsInvariant, TypeOK
<1>5. /\ tts'.response # None => tts'.context = tts'.response
      /\ tts'.remainder => tts'.response # None
      /\ proc.pc = "speaking" => proc.frame.turn \in Turns /\ ~tts'.remainder
  BY <1>2 DEF Same, ContextsInvariant, Known
<1>6. Waiting(tts') \in Nat /\ Waiting(tts) \in Nat /\ Holds(procq', "flush") = Holds(procq, "flush")
      /\ Holds(procq, "flush") \in Nat
  BY <1>1, <1>2, Fields, Waits
<1>7. CASE item.kind = "context"
  <2>1. audio' = [Draining EXCEPT !.context = item.turn] /\ UNCHANGED <<proc, llm, flushes>>
    BY <1>3, <1>7
  <2>2. audio' \in AudioTasks /\ audio'.context = item.turn
    BY <1>2, <2>1 DEF AudioTasks, Draining, Items
  <2>3. flushes.passed + Holds(procq, "flush") + Waiting(tts)
            = flushes'.passed + Holds(procq', "flush") + Waiting(tts')
    BY <1>2, <1>4, <1>6, <1>7, <2>1
  <2>. QED
    BY <1>1, <1>2, <1>4, <1>5, <1>6, <1>7, <2>1, <2>2, <2>3, KeepsUp
<1>8. CASE item.kind = "none"
  <2>1. audio' = Gone /\ proc' = [proc EXCEPT !.pc = "drained"] /\ UNCHANGED <<llm, flushes>>
    BY <1>3, <1>8
  <2>2. audio' \in AudioTasks /\ audio'.context = None
    BY <2>1, NoTurn DEF AudioTasks, Gone, Draining
  <2>3. proc' \in [pc : Tasks, frame : Items] /\ proc'.pc # "speaking"
    BY <1>4, <2>1 DEF Tasks
  <2>4. flushes.passed + Holds(procq, "flush") + Waiting(tts)
            = flushes'.passed + Holds(procq', "flush") + Waiting(tts')
    BY <1>2, <1>4, <1>6, <1>8, <2>1
  <2>. QED
    BY <1>1, <1>2, <1>4, <1>5, <1>6, <2>1, <2>2, <2>3, <2>4, KeepsUp
<1>9. CASE item.kind \notin {"context", "none"}
  <2>1. PassOn(Tagged(item)) /\ UNCHANGED <<audio, proc>>
    BY <1>3, <1>9
  <2>2. Tagged(item).kind = item.kind
    BY <1>2 DEF Tagged, Items
  <2>3. /\ llm' = llm \/ (llm' = [llm EXCEPT !.stage = "open"] /\ llm.stage = "calling")
        /\ flushes' \in [sent : Nat, passed : Nat] /\ flushes'.sent = flushes.sent
        /\ flushes'.passed = flushes.passed + (IF item.kind = "flush" THEN 1 ELSE 0)
    BY <2>1, <2>2, PassOnCounts
  <2>4. flushes.passed + Holds(procq, "flush") + Waiting(tts)
            = flushes'.passed + Holds(procq', "flush") + Waiting(tts')
    BY <1>2, <1>4, <1>6, <2>3, SMTT(60)
  <2>. QED
    BY <1>1, <1>2, <1>4, <1>5, <1>6, <2>1, <2>3, <2>4, KeepsUp
<1>. QED
  BY <1>7, <1>8, <1>9

LEMMA PlayKeeps == ASSUME ContextsInvariant, Play PROVE ContextsInvariant'
<1>. DEFINE c == audio.context
            rest == [tts EXCEPT !.queue[c] = Tail(@)]
            item == Head(tts.queue[c])
<1>1. c # None /\ tts.queue[c] # <<>> /\ UNCHANGED <<given, inq, procq, llm, proc, flushes>>
  BY DEF Play, queues, counts
<1>2. c \in tts.open /\ c \in Turns /\ tts.queue[c] \in Seq(Items)
  BY <1>1, Fields DEF Sound, Consistent, Services
<1>3. rest \in Services /\ rest.serial = tts.serial /\ rest.open = tts.open /\ Same(rest, tts)
  <2>1. Tail(tts.queue[c]) \in Seq(Items)
    BY <1>1, <1>2
  <2>. QED
    BY <1>2, <2>1, Fields DEF Services, Same
<1>4. \/ /\ tts' = [rest EXCEPT !.open = @ \ {c}, !.owned = @ \ {c}] /\ audio' = Draining
      \/ /\ tts' = rest
         /\ audio' = [audio EXCEPT !.stopped = @ \/ item.kind = "stopped",
                                   !.received = @ \/ item.kind = "played",
                                   !.failed = @ \/ item.kind = "error"]
  BY DEF Play
<1>. HIDE DEF rest, item
<1>5. proc \in [pc : Tasks, frame : Items] /\ audio \in AudioTasks /\ procq \in Seq(Frames)
      /\ flushes \in [sent : Nat, passed : Nat]
  BY DEF ContextsInvariant, TypeOK
<1>6. Sound(tts', audio'.context) /\ Same(tts', tts) /\ Waiting(tts') = Waiting(tts) /\ audio' \in AudioTasks
  <2>1. CASE tts' = [rest EXCEPT !.open = @ \ {c}, !.owned = @ \ {c}] /\ audio' = Draining
    <3>1. tts' \in Services /\ tts'.serial = tts.serial /\ tts'.open = tts.open \ {c} /\ Same(tts', tts)
      BY <1>3, <2>1 DEF Services, Same
    <3>2. audio' \in AudioTasks /\ audio'.context = None
      BY <2>1, NoTurn DEF AudioTasks, Draining
    <3>3. \A i \in ContextsIn(tts.serial) : tts.serial[i].turn \in tts.open \ {c} /\ tts.serial[i].turn # None
      BY Fields, NoTurn DEF Sound, Consistent
    <3>4. \A i, j \in ContextsIn(tts.serial) : tts.serial[i].turn = tts.serial[j].turn => i = j
      BY Fields DEF Sound, Consistent
    <3>5. Sound(tts', audio'.context)
      BY <3>1, <3>2, <3>3, <3>4 DEF Sound, Consistent
    <3>. QED
      BY <3>1, <3>2, <3>5 DEF Waiting
  <2>2. CASE tts' = rest /\ audio' = [audio EXCEPT !.stopped = @ \/ item.kind = "stopped",
                                   !.received = @ \/ item.kind = "played",
                                   !.failed = @ \/ item.kind = "error"]
    <3>1. audio' \in AudioTasks /\ audio'.context = c
      BY <1>5, <2>2 DEF AudioTasks
    <3>. QED
      BY <1>3, <2>2, <3>1, Fields, OtherFields
  <2>. QED
    BY <1>4, <2>1, <2>2
<1>7. /\ tts'.response # None => tts'.context = tts'.response
      /\ tts'.remainder => tts'.response # None
      /\ proc.pc = "speaking" => proc.frame.turn \in Turns /\ ~tts'.remainder
  BY <1>6 DEF Same, ContextsInvariant, Known
<1>8. flushes.passed + Holds(procq, "flush") + Waiting(tts)
          = flushes'.passed + Holds(procq', "flush") + Waiting(tts')
      /\ Holds(procq', "flush") \in Nat /\ Waiting(tts') \in Nat
  BY <1>1, <1>6, Fields
<1>. QED
  BY <1>1, <1>5, <1>6, <1>7, <1>8, KeepsUp

\* An interruption at the service: what cancelling the audio task leaves.
LEMMA CancelAudioKeeps ==
    ASSUME ContextsInvariant, CancelAudio, UNCHANGED <<given, llm, inq, flushes>>,
           proc' = proc \/ proc' = Idle
    PROVE  ContextsInvariant'
<1>1. proc \in [pc : Tasks, frame : Items] /\ procq \in Seq(Frames) /\ flushes \in [sent : Nat, passed : Nat]
  BY DEF ContextsInvariant, TypeOK
<1>2. tts' = [tts EXCEPT !.remainder = FALSE] /\ audio' = Gone /\ procq' = Kept(procq)
  BY DEF CancelAudio
<1>3. procq' \in Seq(Frames) /\ Holds(procq', "flush") = Holds(procq, "flush")
  <2>1. "flush" \in Uninterruptible
    BY DEF Uninterruptible
  <2>2. /\ Keep(procq, Uninterruptible) \in Seq(Frames)
        /\ \A kind \in Uninterruptible : Holds(Keep(procq, Uninterruptible), kind) = Holds(procq, kind)
    BY <1>1, KeptFrames
  <2>. QED
    BY <1>2, <2>1, <2>2 DEF Kept
<1>4. audio' \in AudioTasks /\ audio'.context = None
  BY <1>2, NoTurn DEF AudioTasks, Gone, Draining
<1>5. tts' \in Services /\ tts'.serial = tts.serial /\ tts'.open = tts.open /\ ~tts'.remainder
      /\ tts'.response = tts.response /\ tts'.context = tts.context
  BY <1>2, Fields DEF Services
<1>6. Sound(tts', audio.context) /\ Waiting(tts') = Waiting(tts)
  BY <1>5, Fields, OtherFields
<1>7. Sound(tts', audio'.context)
  <2>1. \A i \in ContextsIn(tts'.serial) : tts'.serial[i].turn \in tts'.open /\ tts'.serial[i].turn # None
    BY <1>5, <1>6, Fields, NoTurn DEF Sound, Consistent
  <2>. QED
    BY <1>4, <1>6, <2>1 DEF Sound, Consistent
<1>8. /\ proc' \in [pc : Tasks, frame : Items]
      /\ proc'.pc = "speaking" => proc'.frame.turn \in Turns /\ ~tts'.remainder
  BY <1>1, <1>5, IdleTask DEF ContextsInvariant, Known
<1>9. tts'.response # None => tts'.context = tts'.response
  BY <1>5 DEF ContextsInvariant, Known
<1>10. flushes.passed + Holds(procq, "flush") + Waiting(tts)
          = flushes'.passed + Holds(procq', "flush") + Waiting(tts')
       /\ Holds(procq', "flush") \in Nat /\ Waiting(tts') \in Nat
  BY <1>3, <1>6, Fields
<1>. QED
  BY <1>1, <1>3, <1>4, <1>5, <1>7, <1>8, <1>9, <1>10, KeepsUp

LEMMA InterruptKeeps == ASSUME ContextsInvariant, Interrupt PROVE ContextsInvariant'
<1>1. UNCHANGED <<given, llm, inq, flushes>>
  BY DEF Interrupt, counts
<1>2. CASE CancelAudio /\ UNCHANGED proc
  BY <1>1, <1>2, CancelAudioKeeps
<1>3. CASE proc' = [pc |-> "cancelled", frame |-> NoFrame] /\ UNCHANGED <<tts, audio, procq>>
  <2>1. proc' \in [pc : Tasks, frame : Items] /\ proc'.pc # "speaking"
    BY <1>3, NoTurn DEF Tasks, NoFrame, Frame, Items, Kinds
  <2>2. procq \in Seq(Frames) /\ audio \in AudioTasks /\ flushes \in [sent : Nat, passed : Nat]
    BY DEF ContextsInvariant, TypeOK
  <2>3. Sound(tts', audio'.context) /\ (tts'.response # None => tts'.context = tts'.response)
        /\ (tts'.remainder => tts'.response # None)
    BY <1>3, Fields DEF ContextsInvariant, Known
  <2>4. flushes.passed + Holds(procq, "flush") + Waiting(tts)
            = flushes'.passed + Holds(procq', "flush") + Waiting(tts')
        /\ Holds(procq', "flush") \in Nat /\ Waiting(tts') \in Nat
    BY <1>1, <1>3, Fields
  <2>. QED
    BY <1>1, <1>3, <2>1, <2>2, <2>3, <2>4, KeepsUp
<1>. QED
  BY <1>2, <1>3 DEF Interrupt

LEMMA ProcessCancelledKeeps == ASSUME ContextsInvariant, ProcessCancelled PROVE ContextsInvariant'
  BY CancelAudioKeeps DEF ProcessCancelled, counts

\* The new queue holds the frames that are kept, and names no context.
LEMMA AudioCancelledKeeps == ASSUME ContextsInvariant, AudioCancelled PROVE ContextsInvariant'
<1>. DEFINE serial == Emptied(tts.serial)
<1>1. proc \in [pc : Tasks, frame : Items] /\ procq \in Seq(Frames) /\ flushes \in [sent : Nat, passed : Nat]
  BY DEF ContextsInvariant, TypeOK
<1>2. UNCHANGED <<given, llm, inq, procq, flushes>> /\ tts' = NewService(serial) /\ audio' = Draining
      /\ (proc' = proc \/ proc' = [proc EXCEPT !.pc = "dead"])
  BY DEF AudioCancelled, queues, counts
<1>3. /\ serial \in Seq(Items) /\ Holds(serial, "flush") = Holds(tts.serial, "flush")
      /\ \A i \in DOMAIN serial : serial[i].kind \in Uninterruptible
  <2>1. "flush" \in Uninterruptible /\ tts.serial \in Seq(Items)
    BY Fields DEF Uninterruptible
  <2>2. /\ Keep(tts.serial, Uninterruptible) \in Seq(Items)
        /\ \A i \in DOMAIN Keep(tts.serial, Uninterruptible) : Keep(tts.serial, Uninterruptible)[i].kind \in Uninterruptible
        /\ \A kind \in Uninterruptible : Holds(Keep(tts.serial, Uninterruptible), kind) = Holds(tts.serial, kind)
    BY <2>1, KeptFrames
  <2>. QED
    BY <2>1, <2>2 DEF Emptied, Kept
<1>. HIDE DEF serial
<1>4. audio' \in AudioTasks /\ audio'.context = None
  BY <1>2, NoTurn DEF AudioTasks, Draining
<1>5. tts' \in Services /\ tts'.serial = serial /\ tts'.response = None /\ ~tts'.remainder
  <2>1. <<>> \in Seq(Items)
    OBVIOUS
  <2>. QED
    BY <1>2, <1>3, <2>1, NoTurn DEF NewService, Services
<1>6. ContextsIn(tts'.serial) = {}
  BY <1>3, <1>5 DEF ContextsIn, Uninterruptible
<1>7. Sound(tts', audio'.context) /\ Waiting(tts') = Waiting(tts)
  BY <1>3, <1>4, <1>5, <1>6 DEF Sound, Consistent, Waiting
<1>8. /\ proc' \in [pc : Tasks, frame : Items]
      /\ proc'.pc = "speaking" => proc'.frame.turn \in Turns /\ ~tts'.remainder
  <2>1. [proc EXCEPT !.pc = "dead"] \in [pc : Tasks, frame : Items] /\ [proc EXCEPT !.pc = "dead"].pc = "dead"
    BY <1>1 DEF Tasks
  <2>. QED
    BY <1>1, <1>2, <1>5, <2>1 DEF ContextsInvariant, Known
<1>9. flushes.passed + Holds(procq, "flush") + Waiting(tts)
          = flushes'.passed + Holds(procq', "flush") + Waiting(tts')
       /\ Holds(procq', "flush") \in Nat /\ Waiting(tts') \in Nat
  BY <1>2, <1>7, Fields
<1>. QED
  BY <1>1, <1>2, <1>4, <1>5, <1>7, <1>8, <1>9, KeepsUp

\* What the bridge, the LLM and the worker do touches no part of the service.
LEMMA UpstreamKeeps ==
    ASSUME ContextsInvariant, UNCHANGED <<tts, audio, proc>>,
           turn' \in SomeTurn, turns' \in SomeTurn,
           llm' \in Responses,
           llm'.stage # "none" => llm'.turn \in Turns,
           inq' \in Seq(Frames), procq' \in Seq(Frames), flushes' \in [sent : Nat, passed : Nat],
           flushes'.sent = flushes'.passed + Holds(inq', "flush") + Holds(procq', "flush") + Waiting(tts)
    PROVE  ContextsInvariant'
<1>1. TypeOK'
  BY DEF ContextsInvariant, TypeOK
<1>2. Known' /\ Sound(tts', audio'.context)
  BY DEF ContextsInvariant, Known
<1>3. FlushSurvives'
  BY DEF FlushSurvives, Waiting
<1>. QED
  BY <1>1, <1>2, <1>3 DEF ContextsInvariant

LEMMA Now ==
    ASSUME ContextsInvariant
    PROVE  /\ turn \in SomeTurn /\ turns \in SomeTurn /\ inq \in Seq(Frames) /\ procq \in Seq(Frames)
           /\ llm \in Responses
           /\ llm.stage # "none" => llm.turn \in Turns
           /\ flushes \in [sent : Nat, passed : Nat]
           /\ flushes.sent = flushes.passed + Holds(inq, "flush") + Holds(procq, "flush") + Waiting(tts)
  BY DEF ContextsInvariant, TypeOK, Known, FlushSurvives, Waiting

LEMMA MoveKeeps == ASSUME ContextsInvariant, Move PROVE ContextsInvariant'
<1>. DEFINE f == Head(inq)
<1>1. inq # <<>> /\ procq' = Append(procq, f) /\ inq' = Tail(inq)
      /\ UNCHANGED <<turn, turns, llm, tts, audio, proc, flushes>>
  BY DEF Move, given, service, counts
<1>2. /\ Tail(inq) \in Seq(Frames) /\ f \in Frames
      /\ Holds(Tail(inq), "flush") + (IF f.kind = "flush" THEN 1 ELSE 0) = Holds(inq, "flush")
  BY <1>1, Now, HoldsTaken
<1>. HIDE DEF f
<1>3. /\ Append(procq, f) \in Seq(Frames)
      /\ Holds(Append(procq, f), "flush") = Holds(procq, "flush") + (IF f.kind = "flush" THEN 1 ELSE 0)
  BY <1>2, Now, HoldsAppended
<1>4. Holds(inq', "flush") \in Nat
  BY <1>1, <1>2, HoldsIsCount
<1>5. flushes.sent = flushes.passed + Holds(inq', "flush") + Holds(procq', "flush") + Waiting(tts)
  BY <1>1, <1>2, <1>3, <1>4, Now, Fields, SMTT(60)
<1>. QED
  BY <1>1, <1>2, <1>3, <1>5, Now, UpstreamKeeps

\* A frame enters the service's queue.
LEMMA SendKeeps ==
    ASSUME ContextsInvariant, NEW f \in Frames, Send(f),
           llm' \in Responses,
           llm'.stage # "none" => llm'.turn \in Turns,
           flushes' \in [sent : Nat, passed : Nat], flushes'.passed = flushes.passed,
           flushes'.sent = flushes.sent + (IF f.kind = "flush" THEN 1 ELSE 0)
    PROVE  ContextsInvariant'
<1>1. inq' = Append(inq, f) /\ UNCHANGED <<turn, turns, procq, tts, audio, proc>>
  BY DEF Send, given, service
<1>2. /\ Append(inq, f) \in Seq(Frames)
      /\ Holds(Append(inq, f), "flush") = Holds(inq, "flush") + (IF f.kind = "flush" THEN 1 ELSE 0)
  BY Now, HoldsAppended
<1>3. /\ flushes.sent = flushes.passed + Holds(inq, "flush") + Holds(procq, "flush") + Waiting(tts)
      /\ flushes'.passed = flushes.passed /\ flushes'.sent = flushes.sent + (IF f.kind = "flush" THEN 1 ELSE 0)
      /\ flushes.sent \in Nat /\ flushes.passed \in Nat /\ Holds(inq, "flush") \in Nat
      /\ Holds(procq, "flush") \in Nat /\ Waiting(tts) \in Nat
  BY Now, Fields
<1>4. flushes'.sent = flushes'.passed + Holds(inq', "flush") + Holds(procq', "flush") + Waiting(tts)
  <2>1. Holds(inq', "flush") = Holds(inq, "flush") + (IF f.kind = "flush" THEN 1 ELSE 0)
        /\ Holds(procq', "flush") = Holds(procq, "flush")
    BY <1>1, <1>2
  <2>2. CASE f.kind = "flush"
    BY ONLY <1>3, <2>1, <2>2
  <2>3. CASE f.kind # "flush"
    BY ONLY <1>3, <2>1, <2>3
  <2>. QED
    BY <2>2, <2>3
<1>. QED
  BY <1>1, <1>2, <1>4, Now, UpstreamKeeps

LEMMA FrameMade ==
    ASSUME NEW kind \in FrameKinds, NEW t \in SomeTurn, NEW n \in Nat, kind \in {"start", "text", "end"} => t \in Turns
    PROVE  Frame(kind, t, n) \in Frames /\ Frame(kind, t, n).kind = kind
  BY Made DEF Frames, Frame, Kinds

LEMMA TurnOverKeeps == ASSUME ContextsInvariant, TurnOver PROVE ContextsInvariant'
<1>1. UNCHANGED <<llm, inq, procq, proc, tts, audio, flushes>>
  BY DEF TurnOver, queues, service, counts
<1>2. turn' \in SomeTurn /\ turns' \in SomeTurn
  <2>1. MaxTurns \in Nat
    BY ContextsAssumption
  <2>. QED
    BY <2>1, Now DEF TurnOver, SomeTurn, None
<1>. QED
  BY <1>1, <1>2, Now, UpstreamKeeps

LEMMA BreakKeeps == ASSUME ContextsInvariant, Break PROVE ContextsInvariant'
<1>1. UNCHANGED <<turn, turns, inq, procq, proc, tts, audio, flushes>> /\ llm' = [llm EXCEPT !.stage = "none"]
  BY DEF Break, service, counts
<1>2. llm' \in Responses
      /\ llm'.stage = "none"
  BY <1>1, Now DEF Responses
<1>. QED
  BY <1>1, <1>2, Now, UpstreamKeeps

LEMMA AbandonKeeps == ASSUME ContextsInvariant, Abandon PROVE ContextsInvariant'
<1>1. UNCHANGED <<turn, turns, inq, procq, proc, tts, audio, flushes>> /\ llm' = [llm EXCEPT !.stage = "none"]
  BY DEF Abandon, given, queues, service, counts
<1>2. llm' \in Responses
      /\ llm'.stage = "none"
  BY <1>1, Now DEF Responses
<1>. QED
  BY <1>1, <1>2, Now, UpstreamKeeps

LEMMA RespondKeeps == ASSUME ContextsInvariant, Respond PROVE ContextsInvariant'
<1>1. turn \in Turns
  <2>1. MaxTurns \in Nat /\ turn \in SomeTurn /\ turn # None
    BY ContextsAssumption, Now DEF Respond
  <2>. QED
    BY <2>1 DEF SomeTurn, Turns, None
<1>. DEFINE f == Frame("start", turn, 0)
<1>2. f \in Frames /\ f.kind = "start"
  BY <1>1, NoTurn, FrameMade DEF FrameKinds
<1>3. Send(f) /\ UNCHANGED flushes /\ llm' = [turn |-> turn, stage |-> "open", texts |-> 0, called |-> FALSE]
  BY DEF Respond, counts
<1>. HIDE DEF f
<1>4. llm' \in Responses
      /\ llm'.turn \in Turns
  BY <1>1, <1>3, NoTurn DEF Responses
<1>5. flushes'.sent = flushes.sent + (IF f.kind = "flush" THEN 1 ELSE 0)
  BY <1>2, <1>3, Now
<1>. QED
  BY <1>2, <1>3, <1>4, <1>5, Now, SendKeeps

LEMMA GenerateKeeps == ASSUME ContextsInvariant, Generate PROVE ContextsInvariant'
<1>1. turn \in Turns /\ turn \in SomeTurn /\ llm.stage = "open" /\ llm.turn = turn /\ UNCHANGED flushes
  BY Now DEF Responses, Generate, counts
<1>2. llm.texts \in Nat /\ llm.texts + 1 \in Nat
  BY Now DEF Responses
<1>3. ASSUME NEW f \in Frames, f.kind # "flush", Send(f),
             llm' \in Responses,
             llm'.turn \in Turns
      PROVE  ContextsInvariant'
  <2>1. flushes'.sent = flushes.sent + (IF f.kind = "flush" THEN 1 ELSE 0)
    BY <1>1, <1>3, Now
  <2>. QED
    BY <1>1, <1>3, <2>1, Now, SendKeeps
<1>4. CASE llm' = [llm EXCEPT !.texts = @ + 1] /\ Send(Frame("text", turn, llm.texts + 1))
  <2>1. Frame("text", turn, llm.texts + 1) \in Frames /\ Frame("text", turn, llm.texts + 1).kind # "flush"
    BY <1>1, <1>2, FrameMade DEF FrameKinds
  <2>2. llm' \in Responses
        /\ llm'.turn \in Turns
    BY <1>1, <1>2, <1>4, Now DEF Responses
  <2>. QED
    BY <1>3, <1>4, <2>1, <2>2
<1>5. CASE llm' = [llm EXCEPT !.stage = "calling", !.called = TRUE] /\ Send(Frame("call", turn, 0))
  <2>1. Frame("call", turn, 0) \in Frames /\ Frame("call", turn, 0).kind # "flush"
    BY <1>1, FrameMade DEF FrameKinds
  <2>2. llm' \in Responses
        /\ llm'.turn \in Turns
    BY <1>1, <1>5, Now DEF Responses
  <2>. QED
    BY <1>3, <1>5, <2>1, <2>2
<1>6. CASE llm' = [llm EXCEPT !.stage = "none"] /\ Send(Frame("end", turn, llm.texts))
  <2>1. Frame("end", turn, llm.texts) \in Frames /\ Frame("end", turn, llm.texts).kind # "flush"
    BY <1>1, <1>2, FrameMade DEF FrameKinds
  <2>2. llm' \in Responses
        /\ llm'.turn \in Turns
    BY <1>1, <1>6, Now DEF Responses
  <2>. QED
    BY <1>3, <1>6, <2>1, <2>2
<1>. QED
  BY <1>4, <1>5, <1>6 DEF Generate

LEMMA WorkerKeeps == ASSUME ContextsInvariant, Worker PROVE ContextsInvariant'
<1>1. llm' = llm /\ llm.turn \in SomeTurn /\ flushes.sent \in Nat /\ flushes.passed \in Nat
  BY Now DEF Responses, Worker
<1>2. CASE flushes' = [flushes EXCEPT !.sent = @ + 1] /\ Send(Frame("flush", llm.turn, 0))
  <2>. DEFINE f == Frame("flush", llm.turn, 0)
  <2>1. f \in Frames /\ f.kind = "flush"
    BY <1>1, FrameMade DEF FrameKinds
  <2>2. Send(f)
    BY <1>2
  <2>. HIDE DEF f
  <2>3. flushes' \in [sent : Nat, passed : Nat] /\ flushes'.passed = flushes.passed
        /\ flushes'.sent = flushes.sent + (IF f.kind = "flush" THEN 1 ELSE 0)
    BY <1>1, <1>2, <2>1, Now
  <2>. QED
    BY <1>1, <2>1, <2>2, <2>3, Now, SendKeeps
<1>3. CASE Send(Frame("finish", None, 0)) /\ UNCHANGED flushes
  <2>. DEFINE f == Frame("finish", None, 0)
  <2>1. f \in Frames /\ f.kind = "finish"
    BY NoTurn, FrameMade DEF FrameKinds
  <2>2. Send(f) /\ UNCHANGED flushes
    BY <1>3
  <2>. HIDE DEF f
  <2>3. flushes'.sent = flushes.sent + (IF f.kind = "flush" THEN 1 ELSE 0)
    BY <1>1, <2>1, <2>2
  <2>. QED
    BY <1>1, <2>1, <2>2, <2>3, Now, SendKeeps
<1>. QED
  BY <1>2, <1>3 DEF Worker

-----------------------------------------------------------------------------
(* Why no context is blamed *)

\* Of the context c, playback or a failure is queued or was met.
Heard(s, a, c) ==
    \/ \E i \in DOMAIN s.queue[c] : s.queue[c][i].kind \in {"played", "error"}
    \/ a.context = c /\ (a.received \/ a.failed)
Unheard(s, a) == s.context \in s.open /\ ~Heard(s, a, s.context)

\* A context is closed once, behind everything in it, and only when it is heard.
Clean(s, a) ==
    /\ \A c \in Turns : \A i \in Flags(s.queue[c], "close") : i = Len(s.queue[c]) /\ Heard(s, a, c)
    /\ s.context \in s.open => Flags(s.queue[s.context], "close") = {}

\* The sentinel of stop() is behind everything, and awaited.
Awaited(s, p) ==
    \A i \in Flags(s.serial, "none") : i = Len(s.serial) /\ p.pc = "draining" /\ p.frame.kind = "finish"

\* Responses start in the order of their turns, once each.
Newer(q, t) == \A i \in Flags(q, "start") : t < q[i].turn
Rising(q) == \A i, j \in Flags(q, "start") : i < j => q[i].turn < q[j].turn
Names(s) == s.open \cup {s.context, None}
Fresh ==
    /\ turn \in {None, turns} /\ llm.turn <= turns
    /\ \A c \in Names(tts) : c <= llm.turn /\ Newer(inq, c) /\ Newer(procq, c)
    /\ Rising(inq) /\ Rising(procq)
    /\ \A i \in Flags(procq, "start") : Newer(inq, procq[i].turn) /\ procq[i].turn <= llm.turn
    /\ \A i \in Flags(inq, "start") : inq[i].turn <= llm.turn

\* While a sentence is spoken its context stays the service's, unless all are gone.
Paired ==
    proc.pc = "speaking" =>
        tts.context = proc.frame.turn \/ (tts.context = None /\ tts.open = {})

\* Of a service whose audio task is being cancelled nothing is said: it is made anew.
Blameless ==
    /\ intask # "audio" =>
           /\ Clean(tts, audio) /\ Awaited(tts, proc)
           /\ Unheard(tts, audio) => proc.pc \in {"speaking", "dead", "cancelled"}
    /\ intask = "audio" => ~audio.alive /\ audio.context = None

BlameInvariant == NeverBlamed /\ Fresh /\ Paired /\ Blameless

LEMMA FlagsAppended ==
    ASSUME NEW S, NEW q \in Seq(S), NEW f \in S, NEW kind
    PROVE  /\ Flags(Append(q, f), kind) = Flags(q, kind) \cup (IF f.kind = kind THEN {Len(q) + 1} ELSE {})
           /\ \A i \in Flags(q, kind) : Append(q, f)[i] = q[i] /\ i < Len(q) + 1 /\ i \in Nat
           /\ Append(q, f)[Len(q) + 1] = f /\ Len(Append(q, f)) = Len(q) + 1 /\ Len(q) \in Nat
<1>1. /\ DOMAIN Append(q, f) = 1 .. Len(q) + 1 /\ DOMAIN q = 1 .. Len(q) /\ Len(q) \in Nat
      /\ Append(q, f)[Len(q) + 1] = f /\ \A i \in 1 .. Len(q) : Append(q, f)[i] = q[i]
      /\ Len(Append(q, f)) = Len(q) + 1
  OBVIOUS
<1>2. \A i \in 1 .. Len(q) + 1 : i \in 1 .. Len(q) \/ i = Len(q) + 1
  BY <1>1
<1>. QED
  BY <1>1, <1>2 DEF Flags

LEMMA FlagsTaken ==
    ASSUME NEW S, NEW q \in Seq(S), q # <<>>, NEW kind
    PROVE  /\ Head(q) = q[1] /\ Head(q) \in S /\ Tail(q) \in Seq(S) /\ Len(q) \in Nat /\ Len(Tail(q)) = Len(q) - 1
           /\ (1 \in Flags(q, kind) <=> Head(q).kind = kind)
           /\ \A i \in Flags(Tail(q), kind) : i + 1 \in Flags(q, kind) /\ Tail(q)[i] = q[i + 1] /\ i \in Nat \ {0}
           /\ \A i \in DOMAIN q : i = 1 \/ (i - 1 \in DOMAIN Tail(q) /\ Tail(q)[i - 1] = q[i])
           /\ \A i \in DOMAIN Tail(q) : i + 1 \in DOMAIN q
<1>1. Tail(q) \in Seq(S) /\ Head(q) \in S /\ Len(q) \in Nat /\ Len(q) # 0 /\ Head(q) = q[1]
      /\ Len(Tail(q)) = Len(q) - 1 /\ \A i \in 1 .. Len(q) - 1 : Tail(q)[i] = q[i + 1]
      /\ DOMAIN q = 1 .. Len(q) /\ DOMAIN Tail(q) = 1 .. Len(q) - 1
  OBVIOUS
<1>2. \A i \in 1 .. Len(q) - 1 : i + 1 \in 1 .. Len(q) /\ i \in Nat \ {0}
  BY <1>1
<1>3. \A i \in 1 .. Len(q) : i = 1 \/ (i - 1 \in 1 .. Len(q) - 1 /\ (i - 1) + 1 = i)
  BY <1>1
<1>4. 1 \in 1 .. Len(q)
  BY <1>1
<1>. QED
  BY <1>1, <1>2, <1>3, <1>4 DEF Flags

\* What joins a context that is open or is opened for it.
LEMMA AppendToIs ==
    ASSUME NEW s \in Services, NEW c \in Turns, NEW item \in Items,
           NEW r, r = AppendTo(s, c, item)
    PROVE  /\ c \in s.open => /\ r.queue = [s.queue EXCEPT ![c] = Append(@, item)]
                              /\ r.open = s.open /\ r.serial = s.serial /\ r.context = s.context
           /\ c \notin s.open /\ c = s.context =>
                  /\ r.queue = [s.queue EXCEPT ![c] = <<item>>] /\ r.open = s.open \cup {c}
                  /\ r.serial = Append(s.serial, Frame("context", c, 0)) /\ r.context = c
           /\ c \notin s.open /\ c # s.context => r = s
<1>1. CASE c \in s.open
  <2>1. r = [s EXCEPT !.queue[c] = Append(@, item)]
    BY <1>1 DEF AppendTo
  <2>2. r.queue = [s.queue EXCEPT ![c] = Append(@, item)]
        /\ r.open = s.open /\ r.serial = s.serial /\ r.context = s.context
    BY <2>1 DEF Services
  <2>. QED
    BY <1>1, <2>2
<1>2. CASE c \notin s.open /\ c = s.context
  <2>. DEFINE q == [s EXCEPT !.serial = Append(@, Frame("context", c, 0))]
  <2>1. q.queue = s.queue /\ q.open = s.open /\ q.context = c /\ q.serial = Append(s.serial, Frame("context", c, 0))
        /\ DOMAIN q = DOMAIN s
    BY <1>2 DEF Services
  <2>2. r = [[q EXCEPT !.open = @ \cup {c}, !.queue[c] = <<>>] EXCEPT !.queue[c] = <<item>>]
    BY <1>2 DEF AppendTo, Create, Put
  <2>. HIDE DEF q
  <2>3. DOMAIN s = {"response", "context", "remainder", "serial", "open", "queue", "owned"} /\ s.queue \in [Turns -> Seq(Items)]
    BY DEF Services
  <2>4. r.queue = [s.queue EXCEPT ![c] = <<item>>] /\ r.open = s.open \cup {c}
        /\ r.serial = q.serial /\ r.context = c
    BY <2>1, <2>2, <2>3, SMTT(60)
  <2>. QED
    BY <1>2, <2>1, <2>4
<1>3. CASE c \notin s.open /\ c # s.context
  BY <1>3 DEF AppendTo
<1>. QED
  BY <1>1, <1>2, <1>3

\* A service whose process task has not put the sentinel.
Orderly(s, a) == Sound(s, a.context) /\ Clean(s, a) /\ Flags(s.serial, "none") = {}

\* What the fields say besides.
LEMMA OrderlyFields ==
    ASSUME NEW s, NEW a, Orderly(s, a)
    PROVE  /\ s \in Services /\ Sound(s, a.context) /\ Clean(s, a) /\ Flags(s.serial, "none") = {}
           /\ s.serial \in Seq(Items) /\ s.open \subseteq Turns /\ s.context \in SomeTurn
           /\ s.queue \in [Turns -> Seq(Items)] /\ s.response \in SomeTurn
           /\ s.context \in s.open => s.context \in Turns
  BY DEF Orderly, Sound, Services

\* The other fields may change freely, and the context that is played may be given up.
LEMMA OrderlyStill ==
    ASSUME NEW s, NEW a, Orderly(s, a), NEW r \in Services,
           r.serial = s.serial, r.open = s.open, r.queue = s.queue,
           r.context \in {s.context, None} \/ r.context \notin s.open
    PROVE  /\ Orderly(r, a)
           /\ \A c : Heard(r, a, c) <=> Heard(s, a, c)
<1>1. Sound(r, a.context)
  BY OtherFields DEF Orderly
<1>2. \A c : Heard(r, a, c) <=> Heard(s, a, c)
  BY DEF Heard
<1>3. None \notin s.open
  BY OrderlyFields, NoTurn
<1>4. Clean(r, a)
  BY <1>2, <1>3, OrderlyFields DEF Clean
<1>. QED
  BY <1>1, <1>2, <1>4 DEF Orderly

LEMMA PutOrderly ==
    ASSUME NEW s, NEW a, Orderly(s, a), NEW item \in Items, item.kind \notin {"context", "none"}
    PROVE  LET r == Put(s, item)
           IN  /\ Orderly(r, a) /\ r.context = s.context /\ r.open = s.open /\ r.response = s.response
               /\ r.owned = s.owned
               /\ \A c : Heard(r, a, c) <=> Heard(s, a, c)
<1>. DEFINE r == Put(s, item)
<1>1. Sound(r, a.context)
  BY PutKeeps DEF Orderly
<1>2. /\ r.serial = Append(s.serial, item) /\ r.queue = s.queue /\ r.context = s.context /\ r.open = s.open
      /\ r.response = s.response /\ r.owned = s.owned
  BY OrderlyFields DEF Put, Services
<1>. HIDE DEF r
<1>3. Flags(r.serial, "none") = {}
  <2>1. Flags(Append(s.serial, item), "none") = Flags(s.serial, "none") \cup (IF item.kind = "none" THEN {Len(s.serial) + 1} ELSE {})
    BY OrderlyFields, FlagsAppended
  <2>. QED
    BY <1>2, <2>1, OrderlyFields
<1>4. \A c : Heard(r, a, c) <=> Heard(s, a, c)
  BY <1>2 DEF Heard
<1>5. Clean(r, a)
  BY <1>2, <1>4, OrderlyFields DEF Clean
<1>. QED
  BY <1>1, <1>2, <1>3, <1>4, <1>5 DEF Orderly, r

\* An item joins the context of the response.
LEMMA AppendOrderly ==
    ASSUME NEW s, NEW a, Orderly(s, a), s.context \in Turns, NEW item \in Items, item.kind # "close"
    PROVE  LET c == s.context
               r == AppendTo(s, c, item)
           IN  /\ Orderly(r, a) /\ r.context = c /\ r.open = s.open \cup {c}
               /\ item.kind \in {"played", "error"} => Heard(r, a, c)
               /\ c \in s.open /\ Heard(s, a, c) => Heard(r, a, c)
<1>. DEFINE c == s.context
            r == AppendTo(s, c, item)
<1>1. s \in Services /\ s.queue[c] \in Seq(Items) /\ s.serial \in Seq(Items) /\ s.queue \in [Turns -> Seq(Items)]
  BY OrderlyFields
<1>2. Sound(r, a.context)
  BY NoTurn, AppendToKeeps DEF Orderly
<1>3. /\ c \in s.open => /\ r.queue = [s.queue EXCEPT ![c] = Append(@, item)]
                         /\ r.open = s.open /\ r.serial = s.serial /\ r.context = s.context
      /\ c \notin s.open /\ c = s.context =>
             /\ r.queue = [s.queue EXCEPT ![c] = <<item>>] /\ r.open = s.open \cup {c}
             /\ r.serial = Append(s.serial, Frame("context", c, 0)) /\ r.context = c
  <2>1. s \in Services /\ c \in Turns /\ r = AppendTo(s, c, item)
    BY <1>1
  <2>. HIDE DEF c, r
  <2>. QED
    BY <2>1, AppendToIs
<1>. HIDE DEF r
<1>4. r.context = c /\ r.open = s.open \cup {c}
  BY <1>3
<1>5. Flags(r.serial, "none") = {}
  <2>1. CASE c \in s.open
    BY <1>3, <2>1, OrderlyFields
  <2>2. CASE c \notin s.open
    <3>. DEFINE f == Frame("context", c, 0)
    <3>1. f \in Items /\ f.kind = "context"
      BY NoTurn, Made DEF Kinds
    <3>2. r.serial = Append(s.serial, f)
      BY <1>3, <2>2
    <3>. HIDE DEF f
    <3>3. Flags(Append(s.serial, f), "none") = Flags(s.serial, "none") \cup (IF f.kind = "none" THEN {Len(s.serial) + 1} ELSE {})
      <4>1. s.serial \in Seq(Items) /\ f \in Items
        BY <1>1, <3>1
      <4>. QED
        BY ONLY <4>1, FlagsAppended
    <3>. QED
      BY <3>1, <3>2, <3>3, OrderlyFields
  <2>. QED
    BY <2>1, <2>2
<1>6. /\ \A d \in Turns \ {c} : r.queue[d] = s.queue[d]
      /\ r.queue[c] = IF c \in s.open THEN Append(s.queue[c], item) ELSE <<item>>
  BY <1>1, <1>3
<1>7. \A d \in Turns \ {c} : Heard(r, a, d) <=> Heard(s, a, d)
  BY <1>6 DEF Heard
<1>8. Flags(r.queue[c], "close") = {}
  <2>1. CASE c \in s.open
    <3>1. Flags(s.queue[c], "close") = {}
      BY <2>1, OrderlyFields DEF Clean
    <3>2. Flags(Append(s.queue[c], item), "close")
              = Flags(s.queue[c], "close") \cup (IF item.kind = "close" THEN {Len(s.queue[c]) + 1} ELSE {})
      BY <1>1, FlagsAppended
    <3>. QED
      BY <1>6, <2>1, <3>1, <3>2
  <2>2. CASE c \notin s.open
    BY <1>6, <2>2 DEF Flags
  <2>. QED
    BY <2>1, <2>2
<1>9. Clean(r, a)
  <2>1. \A d \in Turns \ {c} : \A i \in Flags(r.queue[d], "close") : i = Len(r.queue[d]) /\ Heard(r, a, d)
    BY <1>6, <1>7, OrderlyFields DEF Clean
  <2>. QED
    BY <1>4, <1>8, <2>1 DEF Clean
<1>10. ASSUME item.kind \in {"played", "error"} PROVE Heard(r, a, c)
  <2>1. CASE c \in s.open
    <3>1. r.queue[c] = Append(s.queue[c], item)
      BY <1>6, <2>1
    <3>2. Len(s.queue[c]) + 1 \in DOMAIN r.queue[c] /\ r.queue[c][Len(s.queue[c]) + 1] = item
      BY <1>1, <3>1
    <3>. QED
      BY <1>10, <3>2 DEF Heard
  <2>2. CASE c \notin s.open
    <3>1. r.queue[c] = <<item>>
      BY <1>6, <2>2
    <3>2. 1 \in DOMAIN r.queue[c] /\ r.queue[c][1] = item
      BY <3>1
    <3>. QED
      BY <1>10, <3>2 DEF Heard
  <2>. QED
    BY <2>1, <2>2
<1>11. ASSUME c \in s.open, Heard(s, a, c) PROVE Heard(r, a, c)
  <2>1. r.queue[c] = Append(s.queue[c], item)
    BY <1>6, <1>11
  <2>2. \A i \in DOMAIN s.queue[c] : i \in DOMAIN r.queue[c] /\ r.queue[c][i] = s.queue[c][i]
    BY <1>1, <2>1
  <2>. QED
    BY <1>11, <2>2 DEF Heard
<1>. QED
  BY <1>2, <1>4, <1>5, <1>9, <1>10, <1>11 DEF Orderly, r

\* A sentence is announced: the context of the response is there, and has no end.
LEMMA AnnounceOrderly ==
    ASSUME NEW s, NEW a, Orderly(s, a), s.context \in Turns, NEW n \in Nat, NEW r, r = Announce(s, n)
    PROVE  Orderly(r, a) /\ r.context = s.context /\ r.open = s.open \cup {s.context}
<1>. DEFINE c == s.context
            agg == Frame("agg", c, n)
            started == Frame("started", c, 0)
            q == Put(s, agg)
<1>1. c \in Turns /\ c \in SomeTurn
  BY NoTurn
<1>2. agg \in Items /\ agg.kind = "agg" /\ started \in Items /\ started.kind = "started"
  BY <1>1, Made DEF Kinds, SpokenKinds
<1>. HIDE DEF agg, started
<1>3. CASE c \in s.open
  <2>1. r = AppendTo(s, s.context, agg)
    BY <1>3 DEF Announce, agg
  <2>. QED
    BY <1>2, <2>1, AppendOrderly
<1>4. CASE c \notin s.open
  <2>1. r = AppendTo(q, c, started)
    BY <1>4 DEF Announce, agg, started
  <2>2. Orderly(q, a) /\ q.context = c /\ q.open = s.open
    BY <1>2, PutOrderly
  <2>. HIDE DEF q
  <2>3. Orderly(AppendTo(q, q.context, started), a) /\ AppendTo(q, q.context, started).context = q.context
        /\ AppendTo(q, q.context, started).open = q.open \cup {q.context}
    BY <1>1, <1>2, <2>2, AppendOrderly
  <2>. QED
    BY <2>1, <2>2, <2>3
<1>. QED
  BY <1>3, <1>4

\* The end of a context joins it, behind what was heard of it.
LEMMA CloseOrderly ==
    ASSUME NEW s, NEW a, Orderly(s, a), s.context \in s.open, Heard(s, a, s.context),
           NEW close \in Items, close.kind = "close",
           NEW q, q = AppendTo(s, s.context, close), NEW r, r = [q EXCEPT !.context = None]
    PROVE  Orderly(r, a) /\ r.context = None /\ r.open = s.open
<1>. DEFINE c == s.context
<1>1. /\ s \in Services /\ s.queue[c] \in Seq(Items) /\ s.queue \in [Turns -> Seq(Items)] /\ c \in Turns
      /\ c \in SomeTurn /\ Len(s.queue[c]) \in Nat
  <2>1. s \in Services /\ s.queue \in [Turns -> Seq(Items)] /\ c \in Turns /\ c \in SomeTurn
    BY OrderlyFields
  <2>2. s.queue[c] \in Seq(Items)
    BY <2>1
  <2>. QED
    BY <2>1, <2>2
<1>2. Sound(q, a.context)
  BY <1>1, AppendToKeeps DEF Orderly
<1>3. /\ q.queue = [s.queue EXCEPT ![c] = Append(@, close)]
      /\ q.open = s.open /\ q.serial = s.serial /\ q.context = c
  <2>1. q = [s EXCEPT !.queue[c] = Append(@, close)]
    BY DEF AppendTo
  <2>. QED
    BY <1>1, <2>1 DEF Services
<1>4. r \in Services /\ r.queue = q.queue /\ r.open = s.open /\ r.serial = s.serial /\ r.context = None
      /\ r.open = q.open /\ r.serial = q.serial
  BY <1>2, <1>3, NoTurn DEF Sound, Services
<1>5. Sound(r, a.context)
  BY <1>2, <1>4, OtherFields
<1>6. /\ \A d \in Turns \ {c} : r.queue[d] = s.queue[d]
      /\ r.queue[c] = Append(s.queue[c], close)
  BY <1>1, <1>3, <1>4
<1>7. \A d \in Turns \ {c} : Heard(r, a, d) <=> Heard(s, a, d)
  BY <1>6 DEF Heard
<1>8. Heard(r, a, c)
  <2>1. \A i \in DOMAIN s.queue[c] : i \in DOMAIN r.queue[c] /\ r.queue[c][i] = s.queue[c][i]
    BY <1>1, <1>6
  <2>. QED
    BY <2>1 DEF Heard
<1>9. \A i \in Flags(r.queue[c], "close") : i = Len(r.queue[c])
  <2>1. Flags(s.queue[c], "close") = {}
    BY OrderlyFields DEF Clean
  <2>2. /\ Flags(Append(s.queue[c], close), "close")
               = Flags(s.queue[c], "close") \cup (IF close.kind = "close" THEN {Len(s.queue[c]) + 1} ELSE {})
        /\ Len(Append(s.queue[c], close)) = Len(s.queue[c]) + 1
    <3>1. s.queue[c] \in Seq(Items) /\ close \in Items
      BY <1>1
    <3>. QED
      BY ONLY <3>1, FlagsAppended
  <2>. QED
    BY <1>6, <2>1, <2>2
<1>10. None \notin r.open
  BY <1>4, OrderlyFields, NoTurn
<1>11. Clean(r, a)
  <2>1. \A d \in Turns \ {c} : \A i \in Flags(r.queue[d], "close") : i = Len(r.queue[d]) /\ Heard(r, a, d)
    <3>1. \A d \in Turns : \A i \in Flags(s.queue[d], "close") : i = Len(s.queue[d]) /\ Heard(s, a, d)
      BY OrderlyFields DEF Clean
    <3>. QED
      BY <1>6, <1>7, <3>1
  <2>. QED
    BY <1>4, <1>8, <1>9, <1>10, <2>1 DEF Clean
<1>12. Flags(r.serial, "none") = {}
  BY <1>4, OrderlyFields
<1>. QED
  BY <1>4, <1>5, <1>11, <1>12 DEF Orderly

LEMMA CompleteOrderly ==
    ASSUME NEW s, NEW a, Orderly(s, a), ~Unheard(s, a), NEW r, r = Complete(s)
    PROVE  Orderly(r, a) /\ r.context = None /\ r.open = s.open
<1>. DEFINE c == s.context
            stopped == Frame("stopped", c, 0)
            close == Frame("close", c, 0)
            once == AppendTo(s, c, stopped)
            closed == AppendTo(once, c, close)
<1>1. c \in SomeTurn
  BY OrderlyFields
<1>2. stopped \in Items /\ close \in Items /\ stopped.kind = "stopped" /\ close.kind = "close"
  BY <1>1, Made DEF Kinds, SpokenKinds
<1>3. r = [IF c \in s.open THEN closed ELSE s EXCEPT !.context = None]
  BY DEF Complete
<1>. HIDE DEF stopped, close
<1>4. CASE c \in s.open
  <2>1. c \in Turns /\ Heard(s, a, c)
    BY <1>4, OrderlyFields DEF Unheard
  <2>2. Orderly(once, a) /\ once.context = c /\ once.open = s.open \cup {c} /\ Heard(once, a, c)
    BY <1>2, <1>4, <2>1, AppendOrderly
  <2>. HIDE DEF once
  <2>3. once.context \in once.open /\ once.open = s.open /\ Heard(once, a, once.context)
        /\ closed = AppendTo(once, once.context, close)
    BY <1>4, <2>2
  <2>. HIDE DEF closed
  <2>4. r = [closed EXCEPT !.context = None]
    BY <1>3, <1>4
  <2>5. Orderly(once, a) /\ once.context \in once.open /\ Heard(once, a, once.context) /\ close \in Items
        /\ close.kind = "close" /\ closed = AppendTo(once, once.context, close)
    BY <1>2, <2>2, <2>3
  <2>6. Orderly(r, a) /\ r.context = None /\ r.open = once.open
    BY ONLY <2>4, <2>5, CloseOrderly, ZenonT(60)
  <2>. QED
    BY <2>3, <2>6
<1>5. CASE c \notin s.open
  <2>1. r = [s EXCEPT !.context = None] /\ s \in Services
    BY <1>3, <1>5, OrderlyFields
  <2>2. r \in Services /\ r.serial = s.serial /\ r.open = s.open /\ r.queue = s.queue /\ r.context = None
    BY <2>1, NoTurn DEF Services
  <2>. QED
    BY <2>2, OrderlyStill
<1>. QED
  BY <1>4, <1>5

LEMMA EndResponseOrderly ==
    ASSUME NEW s, NEW a, Orderly(s, a), ~Unheard(s, a), NEW r, r = EndResponse(s)
    PROVE  Orderly(r, a) /\ r.context = None /\ r.open = s.open
<1>. DEFINE item == Frame("end", s.response, 0)
            p == Put(s, item)
            q == Complete(p)
            ended == [q EXCEPT !.response = None]
            forgotten == [ended EXCEPT !.owned = @ \ {s.context}]
<1>1. item \in Items /\ item.kind = "end"
  BY OrderlyFields, Made DEF Kinds, FrameKinds
<1>2. r = IF s.context \in ended.open THEN ended ELSE forgotten
  BY DEF EndResponse
<1>. HIDE DEF item
<1>3. Orderly(p, a) /\ p.context = s.context /\ p.open = s.open /\ (Heard(p, a, s.context) <=> Heard(s, a, s.context))
  BY <1>1, PutOrderly
<1>. HIDE DEF p
<1>4. ~Unheard(p, a)
  BY <1>3 DEF Unheard
<1>5. Orderly(q, a) /\ q.context = None /\ q.open = s.open
  BY <1>3, <1>4, CompleteOrderly
<1>. HIDE DEF q
<1>6. q \in Services
  BY <1>5, OrderlyFields
<1>7. ended \in Services /\ ended.serial = q.serial /\ ended.open = q.open /\ ended.queue = q.queue /\ ended.context = q.context
  BY <1>6, NoTurn DEF Services
<1>. HIDE DEF ended
<1>8. forgotten \in Services /\ forgotten.serial = q.serial /\ forgotten.open = q.open /\ forgotten.queue = q.queue
      /\ forgotten.context = q.context
  BY <1>7 DEF Services
<1>. HIDE DEF forgotten
<1>9. r \in Services /\ r.serial = q.serial /\ r.open = q.open /\ r.queue = q.queue /\ r.context = q.context
  BY <1>2, <1>7, <1>8
<1>. QED
  BY <1>5, <1>9, OrderlyStill

\* What the native request leaves: playback or an error, unless all was cut off.
LEMMA SpokenOrderly ==
    ASSUME Orderly(tts, audio), NEW c \in Turns, NEW n \in Nat, NEW ok \in BOOLEAN,
           tts.context = c \/ (tts.context = None /\ tts.open = {}),
           NEW r, r = Spoken(c, n, ok)
    PROVE  /\ Orderly(r, audio) /\ r.context = tts.context /\ r.open \subseteq tts.open \cup {tts.context}
           /\ ~Unheard(r, audio)
<1>. DEFINE played == Frame("played", c, n)
            words == Frame("words", c, n)
            error == Frame("error", c, n)
            once == AppendTo(tts, c, played)
<1>1. played \in Items /\ words \in Items /\ error \in Items
      /\ played.kind = "played" /\ words.kind = "words" /\ error.kind = "error"
  BY NoTurn, Made DEF Kinds, SpokenKinds
<1>2. r = IF ok THEN AppendTo(once, c, words) ELSE AppendTo(tts, c, error)
  BY DEF Spoken
<1>. HIDE DEF played, words, error
<1>3. CASE tts.context = c
  <2>1. Orderly(once, audio) /\ once.context = c /\ once.open = tts.open \cup {c} /\ Heard(once, audio, c)
    BY <1>1, <1>3, AppendOrderly
  <2>. DEFINE twice == AppendTo(once, c, words)
              erred == AppendTo(tts, c, error)
  <2>. HIDE DEF once
  <2>2. Orderly(twice, audio) /\ twice.context = c /\ twice.open = once.open \cup {c} /\ Heard(twice, audio, c)
    BY <1>1, <2>1, AppendOrderly
  <2>3. Orderly(erred, audio) /\ erred.context = c /\ erred.open = tts.open \cup {c} /\ Heard(erred, audio, c)
    BY <1>1, <1>3, AppendOrderly
  <2>. HIDE DEF twice, erred
  <2>4. r \in {twice, erred}
    BY <1>2 DEF twice, erred
  <2>5. Orderly(r, audio) /\ r.context = c /\ r.open = tts.open \cup {c} /\ Heard(r, audio, c)
    BY <2>1, <2>2, <2>3, <2>4
  <2>. QED
    BY <1>3, <2>5 DEF Unheard
<1>4. CASE tts.context = None /\ tts.open = {}
  <2>1. \A item : AppendTo(tts, c, item) = tts
    BY <1>4, NoTurn DEF AppendTo
  <2>2. r = tts
    BY <1>2, <2>1
  <2>. QED
    BY <1>4, <2>2 DEF Unheard
<1>. QED
  BY <1>3, <1>4

-----------------------------------------------------------------------------
(* Contexts are named in the order of their turns *)

LEMMA AppendNames ==
    ASSUME NEW s, NEW a, Sound(s, a), NEW c \in SomeTurn, c \in s.open \/ c \in Turns, NEW item \in Items
    PROVE  Names(AppendTo(s, c, item)) \subseteq Names(s)
<1>1. s \in Services /\ c \in Turns
  BY DEF Sound, Services
<1>. DEFINE r == AppendTo(s, c, item)
<1>2. CASE c \in s.open
  <2>1. r.open = s.open /\ r.context = s.context
    BY <1>1, <1>2 DEF AppendTo, Services
  <2>. QED
    BY <2>1 DEF Names
<1>3. CASE c \notin s.open /\ c = s.context
  <2>1. r.open = s.open \cup {c} /\ r.context = s.context
    BY <1>1, <1>3 DEF AppendTo, Create, Put, Services
  <2>. QED
    BY <1>3, <2>1 DEF Names
<1>4. CASE c \notin s.open /\ c # s.context
  BY <1>4 DEF AppendTo
<1>. QED
  BY <1>2, <1>3, <1>4

LEMMA PutNames == ASSUME NEW s \in Services, NEW item PROVE Names(Put(s, item)) = Names(s)
  BY DEF Names, Put, Services

LEMMA AnnounceNames ==
    ASSUME NEW s, NEW a, Sound(s, a), s.context \in Turns, NEW n \in Nat
    PROVE  Names(Announce(s, n)) \subseteq Names(s)
<1>. DEFINE c == s.context
            agg == Frame("agg", c, n)
            started == Frame("started", c, 0)
            q == Put(s, agg)
<1>1. c \in SomeTurn /\ c \in Turns /\ s \in Services
  BY NoTurn DEF Sound
<1>2. agg \in Items /\ agg.kind = "agg" /\ started \in Items
  BY <1>1, Made DEF Kinds, SpokenKinds
<1>3. Announce(s, n) = IF c \in s.open THEN AppendTo(s, c, agg) ELSE AppendTo(q, c, started)
  BY DEF Announce
<1>. HIDE DEF agg, started
<1>4. Names(AppendTo(s, c, agg)) \subseteq Names(s)
  BY <1>1, <1>2, AppendNames
<1>5. Sound(q, a) /\ Names(q) = Names(s)
  BY <1>1, <1>2, PutKeeps, PutNames
<1>. HIDE DEF q, c
<1>6. Names(AppendTo(q, c, started)) \subseteq Names(q)
  BY <1>1, <1>2, <1>5, AppendNames
<1>. QED
  BY <1>3, <1>4, <1>5, <1>6

LEMMA CompleteNames ==
    ASSUME NEW s, NEW a, Sound(s, a)
    PROVE  Names(Complete(s)) \subseteq Names(s)
<1>. DEFINE c == s.context
            stopped == Frame("stopped", c, 0)
            close == Frame("close", c, 0)
            once == AppendTo(s, c, stopped)
            closed == AppendTo(once, c, close)
            q == IF c \in s.open THEN closed ELSE s
<1>1. c \in SomeTurn /\ s \in Services
  BY DEF Sound, Services
<1>2. stopped \in Items /\ close \in Items
  BY <1>1, Made DEF Kinds, SpokenKinds
<1>3. Complete(s) = [q EXCEPT !.context = None]
  BY DEF Complete
<1>. HIDE DEF stopped, close
<1>4. q \in Services /\ Names(q) \subseteq Names(s)
  <2>1. CASE c \in s.open
    <3>1. Sound(once, a) /\ c \in once.open /\ Names(once) \subseteq Names(s)
      BY <1>1, <1>2, <2>1, AppendToKeeps, AppendNames
    <3>. HIDE DEF once
    <3>2. Sound(closed, a) /\ Names(closed) \subseteq Names(once)
      BY <1>1, <1>2, <3>1, AppendToKeeps, AppendNames
    <3>. QED
      BY <2>1, <3>1, <3>2 DEF Sound
  <2>. QED
    BY <1>1, <2>1
<1>. HIDE DEF q
<1>5. [q EXCEPT !.context = None].open = q.open /\ [q EXCEPT !.context = None].context = None
  BY <1>4 DEF Services
<1>. QED
  BY <1>3, <1>4, <1>5 DEF Names

LEMMA EndResponseNames ==
    ASSUME NEW s, NEW a, Sound(s, a)
    PROVE  Names(EndResponse(s)) \subseteq Names(s)
<1>. DEFINE item == Frame("end", s.response, 0)
            p == Put(s, item)
            q == Complete(p)
            ended == [q EXCEPT !.response = None]
            forgotten == [ended EXCEPT !.owned = @ \ {s.context}]
<1>1. item \in Items /\ item.kind = "end"
  BY Made DEF Kinds, FrameKinds, Sound, Services
<1>2. EndResponse(s) \in {ended, forgotten}
  BY DEF EndResponse
<1>. HIDE DEF item
<1>3. Sound(p, a) /\ Names(p) = Names(s)
  BY <1>1, PutKeeps, PutNames DEF Sound
<1>. HIDE DEF p
<1>4. Sound(q, a) /\ Names(q) \subseteq Names(p)
  BY <1>3, CompleteKeeps, CompleteNames
<1>. HIDE DEF q
<1>5. q \in Services
  BY <1>4 DEF Sound
<1>6. ended.open = q.open /\ ended.context = q.context /\ forgotten.open = q.open /\ forgotten.context = q.context
  BY <1>5 DEF Services
<1>. HIDE DEF ended, forgotten
<1>. QED
  BY <1>2, <1>3, <1>4, <1>6 DEF Names

LEMMA SpokenNames ==
    ASSUME ContextsInvariant, NEW c \in Turns, NEW n \in Nat, NEW ok \in BOOLEAN
    PROVE  Names(Spoken(c, n, ok)) \subseteq Names(tts)
<1>. DEFINE played == Frame("played", c, n)
            words == Frame("words", c, n)
            error == Frame("error", c, n)
            once == AppendTo(tts, c, played)
<1>1. c \in SomeTurn
  BY NoTurn
<1>2. played \in Items /\ words \in Items /\ error \in Items
  BY <1>1, Made DEF Kinds, SpokenKinds
<1>3. Spoken(c, n, ok) = IF ok THEN AppendTo(once, c, words) ELSE AppendTo(tts, c, error)
  BY DEF Spoken
<1>. HIDE DEF played, words, error
<1>4. Sound(once, audio.context) /\ Names(once) \subseteq Names(tts)
  BY <1>1, <1>2, Fields, AppendToKeeps, AppendNames
<1>. HIDE DEF once
<1>5. Names(AppendTo(once, c, words)) \subseteq Names(once)
  BY <1>1, <1>2, <1>4, AppendNames
<1>6. Names(AppendTo(tts, c, error)) \subseteq Names(tts)
  BY <1>1, <1>2, Fields, AppendNames
<1>. QED
  BY <1>3, <1>4, <1>5, <1>6

\* What the starts in the queues say, and what they are numbers of.
LEMMA FreshNow ==
    ASSUME ContextsInvariant, Fresh
    PROVE  /\ turn \in Nat /\ turns \in Nat /\ llm.turn \in Nat /\ inq \in Seq(Frames) /\ procq \in Seq(Frames)
           /\ \A i \in Flags(inq, "start") : inq[i].turn \in Nat /\ inq[i].turn \in Turns
           /\ \A i \in Flags(procq, "start") : procq[i].turn \in Nat /\ procq[i].turn \in Turns
           /\ \A c \in Names(tts) : c \in Nat
<1>1. SomeTurn \subseteq Nat /\ Turns \subseteq Nat
  BY ContextsAssumption DEF SomeTurn, Turns
<1>2. inq \in Seq(Frames) /\ procq \in Seq(Frames) /\ turn \in SomeTurn /\ turns \in SomeTurn /\ llm.turn \in SomeTurn
  BY Now DEF Responses
<1>3. ASSUME NEW q \in Seq(Frames), NEW i \in Flags(q, "start") PROVE q[i].turn \in Turns
  <2>1. q[i] \in Frames /\ q[i].kind = "start"
    BY DEF Flags
  <2>. QED
    BY <2>1 DEF Frames
<1>4. Names(tts) \subseteq SomeTurn
  BY Fields, NoTurn DEF Names
<1>. QED
  BY <1>1, <1>2, <1>3, <1>4

LEMMA FreshStill ==
    ASSUME ContextsInvariant, Fresh, UNCHANGED <<turn, turns, inq>>, llm'.turn = llm.turn,
           Names(tts') \subseteq Names(tts), procq' = procq \/ Flags(procq', "start") = {}
    PROVE  Fresh'
<1>1. /\ turn' \in {None, turns'} /\ llm'.turn <= turns' /\ Rising(inq')
      /\ \A c \in Names(tts') : c <= llm'.turn /\ Newer(inq', c) /\ Newer(procq, c)
      /\ \A i \in Flags(inq', "start") : inq'[i].turn <= llm'.turn
  BY DEF Fresh
<1>2. CASE procq' = procq
  BY <1>1, <1>2 DEF Fresh
<1>3. CASE Flags(procq', "start") = {}
  <2>1. Rising(procq') /\ \A c : Newer(procq', c)
    BY <1>3 DEF Rising, Newer
  <2>. QED
    BY <1>1, <1>3, <2>1 DEF Fresh
<1>. QED
  BY <1>2, <1>3

\* The first frame is taken; what starts then is newer than all there is.
LEMMA FreshTaken ==
    ASSUME ContextsInvariant, Fresh, UNCHANGED <<turn, turns, inq>>, llm'.turn = llm.turn,
           procq # <<>>, procq' = Tail(procq),
           \A c \in Names(tts') : c \in Names(tts) \/ (Head(procq).kind = "start" /\ c = Head(procq).turn)
    PROVE  Fresh'
<1>1. procq \in Seq(Frames)
  BY FreshNow
<1>2. /\ Head(procq) = procq[1]
      /\ (1 \in Flags(procq, "start") <=> Head(procq).kind = "start")
      /\ \A i \in Flags(Tail(procq), "start") :
             i + 1 \in Flags(procq, "start") /\ Tail(procq)[i] = procq[i + 1] /\ i \in Nat \ {0}
  BY <1>1, FlagsTaken
<1>3. ASSUME NEW i \in Flags(procq', "start")
      PROVE  i + 1 \in Flags(procq, "start") /\ procq'[i].turn = procq[i + 1].turn /\ i \in Nat /\ 1 < i + 1
  <2>1. i \in Flags(Tail(procq), "start") /\ procq' = Tail(procq)
    OBVIOUS
  <2>2. i + 1 \in Flags(procq, "start") /\ Tail(procq)[i] = procq[i + 1] /\ i \in Nat \ {0}
    BY <1>2, <2>1
  <2>3. procq'[i].turn = procq[i + 1].turn
    BY <2>1, <2>2
  <2>4. i \in Nat /\ 1 < i + 1
    BY ONLY <2>2
  <2>. QED
    BY <2>2, <2>3, <2>4
<1>4. Rising(procq')
  <2>. SUFFICES ASSUME NEW i \in Flags(procq', "start"), NEW j \in Flags(procq', "start"), i < j
                PROVE  procq'[i].turn < procq'[j].turn
    BY DEF Rising
  <2>1. i + 1 \in Flags(procq, "start") /\ j + 1 \in Flags(procq, "start") /\ i + 1 < j + 1
    BY <1>3
  <2>2. procq[i + 1].turn < procq[j + 1].turn
    BY <2>1 DEF Fresh, Rising
  <2>. QED
    BY <1>3, <2>2
<1>5. \A i \in Flags(procq', "start") : Newer(inq, procq'[i].turn) /\ procq'[i].turn <= llm.turn
  BY <1>3 DEF Fresh
<1>6. ASSUME NEW c \in Names(tts') PROVE c <= llm.turn /\ Newer(inq, c) /\ Newer(procq', c)
  <2>1. CASE c \in Names(tts)
    BY <1>3, <2>1 DEF Fresh, Newer
  <2>2. CASE Head(procq).kind = "start" /\ c = Head(procq).turn
    <3>1. 1 \in Flags(procq, "start") /\ c = procq[1].turn
      BY <1>2, <2>2
    <3>2. \A i \in Flags(procq', "start") : procq[1].turn < procq[i + 1].turn
      BY <1>3, <3>1 DEF Fresh, Rising
    <3>3. Newer(procq', c)
      BY <1>3, <3>1, <3>2 DEF Newer
    <3>. QED
      BY <3>1, <3>3 DEF Fresh
  <2>. QED
    BY <1>6, <2>1, <2>2
<1>. QED
  BY <1>4, <1>5, <1>6 DEF Fresh

LEMMA FreshMoved ==
    ASSUME ContextsInvariant, Fresh, UNCHANGED <<turn, turns, llm, tts>>,
           inq # <<>>, inq' = Tail(inq), procq' = Append(procq, Head(inq))
    PROVE  Fresh'
<1>. DEFINE f == Head(inq)
            n == Len(procq) + 1
<1>1. inq \in Seq(Frames) /\ procq \in Seq(Frames)
  BY FreshNow
<1>2. /\ f = inq[1] /\ f \in Frames
      /\ (1 \in Flags(inq, "start") <=> f.kind = "start")
      /\ \A i \in Flags(Tail(inq), "start") :
             i + 1 \in Flags(inq, "start") /\ Tail(inq)[i] = inq[i + 1] /\ i \in Nat \ {0}
  BY <1>1, FlagsTaken
<1>3. ASSUME NEW i \in Flags(inq', "start")
      PROVE  i + 1 \in Flags(inq, "start") /\ inq'[i].turn = inq[i + 1].turn /\ i \in Nat /\ 1 < i + 1
  <2>1. i \in Flags(Tail(inq), "start") /\ inq' = Tail(inq)
    OBVIOUS
  <2>2. i + 1 \in Flags(inq, "start") /\ Tail(inq)[i] = inq[i + 1] /\ i \in Nat \ {0}
    BY <1>2, <2>1
  <2>3. inq'[i].turn = inq[i + 1].turn
    BY <2>1, <2>2
  <2>4. i \in Nat /\ 1 < i + 1
    BY ONLY <2>2
  <2>. QED
    BY <2>2, <2>3, <2>4
<1>4. procq' = Append(procq, f)
  OBVIOUS
<1>. HIDE DEF f
<1>5. /\ Flags(Append(procq, f), "start") = Flags(procq, "start") \cup (IF f.kind = "start" THEN {Len(procq) + 1} ELSE {})
      /\ \A i \in Flags(procq, "start") : Append(procq, f)[i] = procq[i] /\ i < Len(procq) + 1 /\ i \in Nat
      /\ Append(procq, f)[Len(procq) + 1] = f /\ Len(procq) \in Nat
  <2>0. procq \in Seq(Frames) /\ f \in Frames
    BY <1>1, <1>2
  <2>1. Flags(Append(procq, f), "start") = Flags(procq, "start") \cup (IF f.kind = "start" THEN {Len(procq) + 1} ELSE {})
    BY ONLY <2>0, FlagsAppended
  <2>2. \A i \in Flags(procq, "start") : Append(procq, f)[i] = procq[i] /\ i < Len(procq) + 1 /\ i \in Nat
    BY ONLY <2>0, FlagsAppended
  <2>3. Append(procq, f)[Len(procq) + 1] = f /\ Len(procq) \in Nat
    BY ONLY <2>0, FlagsAppended
  <2>. QED
    BY <2>1, <2>2, <2>3
<1>6. \A i \in Flags(procq', "start") :
          \/ i \in Flags(procq, "start") /\ procq'[i] = procq[i] /\ i < n
          \/ i = n /\ procq'[i] = inq[1] /\ 1 \in Flags(inq, "start")
  <2>1. \A i \in Flags(Append(procq, f), "start") :
            \/ i \in Flags(procq, "start") /\ Append(procq, f)[i] = procq[i] /\ i < Len(procq) + 1
            \/ i = Len(procq) + 1 /\ Append(procq, f)[i] = f /\ f.kind = "start"
    BY <1>5
  <2>. QED
    BY <1>2, <1>4, <2>1
<1>7. n \in Nat /\ Flags(procq, "start") \subseteq Nat
  BY <1>5
<1>. HIDE DEF n
<1>8. Rising(inq')
  <2>. SUFFICES ASSUME NEW i \in Flags(inq', "start"), NEW j \in Flags(inq', "start"), i < j
                PROVE  inq'[i].turn < inq'[j].turn
    BY DEF Rising
  <2>1. i + 1 \in Flags(inq, "start") /\ j + 1 \in Flags(inq, "start") /\ i + 1 < j + 1
    BY <1>3
  <2>2. inq[i + 1].turn < inq[j + 1].turn
    BY <2>1 DEF Fresh, Rising
  <2>. QED
    BY <1>3, <2>2
<1>9. Rising(procq')
  <2>. SUFFICES ASSUME NEW i \in Flags(procq', "start"), NEW j \in Flags(procq', "start"), i < j
                PROVE  procq'[i].turn < procq'[j].turn
    BY DEF Rising
  <2>1. i \in Flags(procq, "start") /\ procq'[i] = procq[i]
    <3>1. i \in Nat /\ j \in Nat /\ j <= n
      BY <1>6, <1>7
    <3>2. i # n
      BY <1>7, <3>1
    <3>. QED
      BY <1>6, <3>2
  <2>2. CASE j \in Flags(procq, "start") /\ procq'[j] = procq[j]
    BY <2>1, <2>2 DEF Fresh, Rising
  <2>3. CASE procq'[j] = inq[1] /\ 1 \in Flags(inq, "start")
    BY <2>1, <2>3 DEF Fresh, Newer
  <2>. QED
    BY <1>6, <2>2, <2>3
<1>10. \A c : Newer(inq, c) => Newer(inq', c)
  BY <1>3 DEF Newer
<1>11. ASSUME NEW c \in Names(tts) PROVE Newer(procq', c)
  <2>1. Newer(inq, c) /\ Newer(procq, c)
    BY DEF Fresh
  <2>. QED
    BY <1>6, <2>1 DEF Newer
<1>12. ASSUME NEW i \in Flags(procq', "start") PROVE Newer(inq', procq'[i].turn) /\ procq'[i].turn <= llm.turn
  <2>1. CASE i \in Flags(procq, "start") /\ procq'[i] = procq[i]
    BY <1>10, <2>1 DEF Fresh
  <2>2. CASE procq'[i] = inq[1] /\ 1 \in Flags(inq, "start")
    <3>1. \A j \in Flags(inq', "start") : inq[1].turn < inq[j + 1].turn
      BY <1>3, <2>2 DEF Fresh, Rising
    <3>2. Newer(inq', inq[1].turn)
      BY <1>3, <3>1 DEF Newer
    <3>. QED
      BY <2>2, <3>2 DEF Fresh
  <2>. QED
    BY <1>6, <2>1, <2>2
<1>13. \A i \in Flags(inq', "start") : inq'[i].turn <= llm.turn
  BY <1>3 DEF Fresh
<1>14. turn \in {None, turns} /\ llm.turn <= turns /\ \A c \in Names(tts) : c <= llm.turn /\ Newer(inq, c)
  BY DEF Fresh
<1>. QED
  BY <1>8, <1>9, <1>10, <1>11, <1>12, <1>13, <1>14 DEF Fresh

\* A frame enters the queue: a start, if its response is newer than all others.
LEMMA FreshSent ==
    ASSUME ContextsInvariant, Fresh, NEW f \in Frames, Send(f),
           IF f.kind = "start" THEN f.turn = llm'.turn /\ llm.turn < llm'.turn /\ llm'.turn = turns
           ELSE llm'.turn = llm.turn
    PROVE  Fresh'
<1>. DEFINE n == Len(inq) + 1
<1>1. inq' = Append(inq, f) /\ UNCHANGED <<turn, turns, procq, tts>>
  BY DEF Send, given, service
<1>2. inq \in Seq(Frames) /\ llm.turn \in Nat /\ turns \in Nat
      /\ (\A i \in Flags(inq, "start") : inq[i].turn \in Nat)
      /\ (\A i \in Flags(procq, "start") : procq[i].turn \in Nat)
      /\ \A c \in Names(tts) : c \in Nat
  BY FreshNow
<1>3. /\ Flags(Append(inq, f), "start") = Flags(inq, "start") \cup (IF f.kind = "start" THEN {Len(inq) + 1} ELSE {})
      /\ \A i \in Flags(inq, "start") : Append(inq, f)[i] = inq[i] /\ i < Len(inq) + 1 /\ i \in Nat
      /\ Append(inq, f)[Len(inq) + 1] = f /\ Len(inq) \in Nat
  <2>0. inq \in Seq(Frames) /\ f \in Frames
    BY <1>2
  <2>1. Flags(Append(inq, f), "start") = Flags(inq, "start") \cup (IF f.kind = "start" THEN {Len(inq) + 1} ELSE {})
    BY ONLY <2>0, FlagsAppended
  <2>2. \A i \in Flags(inq, "start") : Append(inq, f)[i] = inq[i] /\ i < Len(inq) + 1 /\ i \in Nat
    BY ONLY <2>0, FlagsAppended
  <2>3. Append(inq, f)[Len(inq) + 1] = f /\ Len(inq) \in Nat
    BY ONLY <2>0, FlagsAppended
  <2>. QED
    BY <2>1, <2>2, <2>3
<1>4. \A i \in Flags(inq', "start") :
          \/ i \in Flags(inq, "start") /\ inq'[i] = inq[i] /\ i < n
          \/ i = n /\ inq'[i] = f /\ f.kind = "start"
  BY <1>1, <1>3
<1>5. n \in Nat /\ Flags(inq, "start") \subseteq Nat
  BY <1>3
<1>. HIDE DEF n
<1>6. f.kind = "start" => f.turn = llm'.turn /\ f.turn \in Nat /\ llm.turn < f.turn
  BY <1>2
<1>7. llm'.turn \in Nat /\ llm.turn <= llm'.turn /\ llm'.turn <= turns
  BY <1>2 DEF Fresh
<1>8. \A k \in Nat : k <= llm.turn => k <= llm'.turn /\ (f.kind = "start" => k < f.turn)
  BY <1>2, <1>6, <1>7
<1>9. ASSUME NEW k \in Nat, k <= llm.turn, Newer(inq, k) PROVE Newer(inq', k)
  BY <1>4, <1>8, <1>9 DEF Newer
<1>10. Rising(inq')
  <2>. SUFFICES ASSUME NEW i \in Flags(inq', "start"), NEW j \in Flags(inq', "start"), i < j
                PROVE  inq'[i].turn < inq'[j].turn
    BY DEF Rising
  <2>1. i \in Flags(inq, "start") /\ inq'[i] = inq[i]
    BY <1>4, <1>5
  <2>2. CASE j \in Flags(inq, "start") /\ inq'[j] = inq[j]
    BY <2>1, <2>2 DEF Fresh, Rising
  <2>3. CASE inq'[j] = f /\ f.kind = "start"
    BY <1>2, <1>8, <2>1, <2>3 DEF Fresh
  <2>. QED
    BY <1>4, <2>2, <2>3
<1>11. ASSUME NEW i \in Flags(procq, "start")
       PROVE  Newer(inq', procq[i].turn) /\ procq[i].turn <= llm'.turn
  BY <1>2, <1>8, <1>9 DEF Fresh
<1>12. ASSUME NEW i \in Flags(inq', "start") PROVE inq'[i].turn <= llm'.turn
  <2>1. CASE i \in Flags(inq, "start") /\ inq'[i] = inq[i]
    BY <1>2, <1>8, <2>1 DEF Fresh
  <2>2. CASE inq'[i] = f /\ f.kind = "start"
    BY <1>6, <1>7, <2>2
  <2>. QED
    BY <1>4, <2>1, <2>2
<1>13. ASSUME NEW c \in Names(tts) PROVE c <= llm'.turn /\ Newer(inq', c) /\ Newer(procq, c)
  BY <1>2, <1>8, <1>9 DEF Fresh
<1>14. turn \in {None, turns} /\ Rising(procq)
  BY DEF Fresh
<1>. QED
  BY <1>1, <1>7, <1>10, <1>11, <1>12, <1>13, <1>14 DEF Fresh

-----------------------------------------------------------------------------
(* What the process task does to the contexts *)

\* What a handler leaves, if the audio task is not being cancelled.
Settled ==
    /\ proc'.pc = "speaking" => tts'.context = proc'.frame.turn
    /\ intask # "audio" =>
           /\ Clean(tts', audio) /\ Awaited(tts', proc')
           /\ Unheard(tts', audio) => proc'.pc \in {"speaking", "dead"}

LEMMA OrderlyNow ==
    ASSUME ContextsInvariant, BlameInvariant, intask # "audio", proc.pc # "draining"
    PROVE  Orderly(tts, audio) /\ (Unheard(tts, audio) => proc.pc \in {"speaking", "dead", "cancelled"})
  BY Fields DEF BlameInvariant, Blameless, Awaited, Orderly

\* A handler that leaves an orderly service, of whose context all is heard.
LEMMA SettledOrderly ==
    ASSUME proc'.pc # "speaking",
           intask # "audio" => Orderly(tts', audio) /\ ~Unheard(tts', audio)
    PROVE  Settled
<1>1. intask # "audio" => Clean(tts', audio) /\ Awaited(tts', proc') /\ ~Unheard(tts', audio)
  BY DEF Orderly, Awaited
<1>. QED
  BY <1>1 DEF Settled

LEMMA BeginSettled ==
    ASSUME ContextsInvariant, BlameInvariant, proc.pc = "idle", procq # <<>>, NEW f, f = Head(procq), Begin(f)
    PROVE  /\ Settled
           /\ \A c \in Names(tts') : c \in Names(tts) \/ (f.kind = "start" /\ c = f.turn)
<1>1. f \in Items /\ f.kind = "start" /\ proc' = Idle /\ proc'.pc # "speaking" /\ f.turn \in SomeTurn
      /\ f = procq[1] /\ 1 \in Flags(procq, "start")
  <2>1. procq \in Seq(Frames)
    BY Now
  <2>2. f \in Frames /\ f = procq[1] /\ (1 \in Flags(procq, "start") <=> f.kind = "start")
    BY <2>1, FlagsTaken
  <2>. QED
    BY <2>2, IdleTask DEF Begin, Frames, Items
<1>2. CASE tts' = tts
  <2>1. intask # "audio" => Orderly(tts', audio) /\ ~Unheard(tts', audio)
    BY <1>2, OrderlyNow
  <2>. QED
    BY <1>1, <1>2, <2>1, SettledOrderly
<1>3. CASE tts' # tts
  <2>. DEFINE q == Put(tts, f)
  <2>1. tts' = [q EXCEPT !.response = f.turn, !.context = f.turn, !.owned = @ \cup {f.turn}]
    BY <1>3 DEF Begin
  <2>2. q \in Services /\ q.open = tts.open
    BY <1>1, Fields, PutKeeps DEF Sound
  <2>3. ASSUME intask # "audio" PROVE Orderly(q, audio)
    BY <1>1, <2>3, OrderlyNow, PutOrderly
  <2>. HIDE DEF q
  <2>4. tts' \in Services /\ tts'.serial = q.serial /\ tts'.open = q.open /\ tts'.queue = q.queue /\ tts'.context = f.turn
    <3>1. f.turn \in Turns
      BY FreshNow, <1>1 DEF BlameInvariant
    <3>. QED
      BY <1>1, <2>1, <2>2, <3>1 DEF Services
  <2>5. f.turn \notin q.open
    <3>1. \A c \in tts.open : c < f.turn /\ c \in Nat
      BY <1>1, FreshNow DEF BlameInvariant, Fresh, Newer, Names
    <3>. QED
      BY <2>2, <3>1
  <2>6. intask # "audio" => Orderly(tts', audio) /\ ~Unheard(tts', audio)
    BY <2>3, <2>4, <2>5, OrderlyStill DEF Unheard
  <2>7. Settled
    BY <1>1, <2>6, SettledOrderly
  <2>8. \A c \in Names(tts') : c \in Names(tts) \/ (f.kind = "start" /\ c = f.turn)
    BY <1>1, <2>2, <2>4 DEF Names
  <2>. QED
    BY <2>7, <2>8
<1>. QED
  BY <1>2, <1>3

\* While a sentence is spoken its context may be unheard.
LEMMA SpeakSettled ==
    ASSUME ContextsInvariant, BlameInvariant, tts.context \in Turns, proc.pc # "draining",
           NEW f \in Items, NEW n \in Nat, Speak(f, n)
    PROVE  Settled /\ Names(tts') \subseteq Names(tts)
<1>. DEFINE q == Announce(tts, n)
<1>1. q \in Services /\ q.context = tts.context
  BY Fields, AnnounceKeeps DEF Sound, Same
<1>2. Names(q) \subseteq Names(tts)
  BY Fields, AnnounceNames
<1>3. ASSUME intask # "audio" PROVE Orderly(q, audio)
  BY <1>3, OrderlyNow, AnnounceOrderly
<1>4. /\ tts' = [q EXCEPT !.remainder = FALSE] /\ proc'.frame.turn = tts.context
      /\ proc'.pc \in {"speaking", "dead"}
  <2>1. [f EXCEPT !.turn = tts.context, !.n = n].turn = tts.context
    BY DEF Items
  <2>. QED
    BY <2>1 DEF Speak
<1>. HIDE DEF q
<1>5. tts' \in Services /\ tts'.serial = q.serial /\ tts'.open = q.open /\ tts'.queue = q.queue /\ tts'.context = q.context
  BY <1>1, <1>4 DEF Services
<1>6. ASSUME intask # "audio" PROVE Clean(tts', audio) /\ Awaited(tts', proc')
  <2>1. Orderly(tts', audio)
    BY <1>3, <1>5, <1>6, OrderlyStill
  <2>. QED
    BY <2>1 DEF Orderly, Awaited
<1>7. Settled
  BY <1>1, <1>4, <1>5, <1>6 DEF Settled
<1>. QED
  BY <1>2, <1>5, <1>7 DEF Names

\* The end of a response, of which playback or a failure was met.
LEMMA EndsSettled ==
    ASSUME NEW s, Sound(s, audio.context), intask # "audio" => Orderly(s, audio) /\ ~Unheard(s, audio),
           tts' = EndResponse(s), proc'.pc # "speaking"
    PROVE  Settled /\ Names(tts') \subseteq Names(s)
<1>1. ASSUME intask # "audio" PROVE Orderly(tts', audio) /\ ~Unheard(tts', audio)
  <2>1. Orderly(tts', audio) /\ tts'.context = None /\ tts'.open = s.open
    BY <1>1, EndResponseOrderly
  <2>2. None \notin s.open
    BY NoTurn DEF Sound, Services
  <2>. QED
    BY <2>1, <2>2 DEF Unheard
<1>. QED
  BY <1>1, SettledOrderly, EndResponseNames

LEMMA FinishSettled ==
    ASSUME NEW s, Sound(s, audio.context), intask # "audio" => Orderly(s, audio) /\ ~Unheard(s, audio),
           tts' = [Complete(s) EXCEPT !.response = None, !.owned = {}], proc'.pc # "speaking"
    PROVE  Settled /\ Names(tts') \subseteq Names(s)
<1>. DEFINE q == Complete(s)
<1>1. Sound(q, audio.context) /\ q.context = None /\ q \in Services
  BY CompleteKeeps DEF Sound
<1>2. Names(q) \subseteq Names(s)
  BY CompleteNames
<1>3. ASSUME intask # "audio" PROVE Orderly(q, audio) /\ q.open = s.open
  BY <1>3, CompleteOrderly
<1>4. tts' = [q EXCEPT !.response = None, !.owned = {}]
  OBVIOUS
<1>. HIDE DEF q
<1>5. tts' \in Services /\ tts'.serial = q.serial /\ tts'.open = q.open /\ tts'.queue = q.queue /\ tts'.context = q.context
  BY <1>1, <1>4, NoTurn DEF Services
<1>6. None \notin q.open
  BY <1>1, NoTurn DEF Services
<1>7. ASSUME intask # "audio" PROVE Orderly(tts', audio) /\ ~Unheard(tts', audio)
  BY <1>1, <1>3, <1>5, <1>6, <1>7, OrderlyStill DEF Unheard
<1>8. Settled
  BY <1>7, SettledOrderly
<1>. QED
  BY <1>2, <1>5, <1>8 DEF Names

LEMMA SettledBlames ==
    ASSUME BlameInvariant, Settled, Fresh', UNCHANGED <<intask, audio, silent>>
    PROVE  BlameInvariant'
<1>1. Paired' /\ Blameless' /\ NeverBlamed'
  BY DEF Settled, Paired, Blameless, BlameInvariant, NeverBlamed
<1>. QED
  BY <1>1 DEF BlameInvariant

\* A handler that leaves the service as it is.
LEMMA IdleSettled ==
    ASSUME ContextsInvariant, BlameInvariant, proc.pc = "idle",
           tts' \in Services, tts'.serial = tts.serial, tts'.open = tts.open, tts'.queue = tts.queue,
           tts'.context = tts.context, proc'.pc # "speaking"
    PROVE  Settled /\ Names(tts') \subseteq Names(tts)
<1>1. intask # "audio" => Orderly(tts', audio) /\ ~Unheard(tts', audio)
  BY OrderlyNow, OrderlyStill DEF Unheard
<1>. QED
  BY <1>1, SettledOrderly DEF Names

LEMMA TextSettled ==
    ASSUME ContextsInvariant, BlameInvariant, proc.pc = "idle", NEW f \in Frames, Text(f)
    PROVE  Settled /\ Names(tts') \subseteq Names(tts)
<1>1. f \in Items /\ f.kind = "text" /\ f.n \in Nat
  BY DEF Text, Frames, Items
<1>2. CASE Wanted(f) /\ Speak(f, f.n)
  <2>1. tts.context \in Turns
    BY <1>1, <1>2, WantedResponse, ContextOfResponse
  <2>. QED
    BY <1>1, <1>2, <2>1, SpeakSettled
<1>3. CASE tts' = [tts EXCEPT !.remainder = TRUE] /\ proc' = Idle
  <2>1. tts' \in Services /\ tts'.serial = tts.serial /\ tts'.open = tts.open /\ tts'.queue = tts.queue
        /\ tts'.context = tts.context
    BY <1>3, Fields DEF Services
  <2>. QED
    BY <1>3, <2>1, IdleSettled, IdleTask
<1>4. CASE UNCHANGED tts /\ proc' = Idle
  BY <1>4, Fields, IdleSettled, IdleTask
<1>. QED
  BY <1>2, <1>3, <1>4 DEF Text

LEMMA EndSettled ==
    ASSUME ContextsInvariant, BlameInvariant, proc.pc = "idle", NEW f \in Frames, End(f)
    PROVE  Settled /\ Names(tts') \subseteq Names(tts)
<1>1. f \in Items /\ f.kind = "end" /\ f.n \in Nat
  BY DEF End, Frames, Items
<1>2. CASE Wanted(f) /\ tts.remainder
  <2>1. tts.context \in Turns /\ Speak(f, f.n)
    BY <1>1, <1>2, WantedResponse, ContextOfResponse DEF End
  <2>. QED
    BY <1>1, <2>1, SpeakSettled
<1>3. CASE Wanted(f) /\ ~tts.remainder
  <2>1. tts' = EndResponse(tts) /\ proc' = Idle /\ proc'.pc # "speaking"
    BY <1>3, IdleTask DEF End
  <2>2. intask # "audio" => Orderly(tts, audio) /\ ~Unheard(tts, audio)
    BY OrderlyNow
  <2>. QED
    BY <2>1, <2>2, Fields, EndsSettled
<1>4. CASE ~Wanted(f)
  <2>1. tts' = tts /\ proc' = Idle
    BY <1>4 DEF End
  <2>. QED
    BY <2>1, Fields, IdleSettled, IdleTask
<1>. QED
  BY <1>2, <1>3, <1>4

LEMMA FlushSettled ==
    ASSUME ContextsInvariant, BlameInvariant, proc.pc = "idle", NEW f \in Frames, Flush(f)
    PROVE  Settled /\ Names(tts') \subseteq Names(tts)
<1>1. f \in Items /\ f.kind = "flush" /\ tts' = Put(tts, f) /\ proc' = Idle /\ proc'.pc # "speaking"
  BY IdleTask DEF Flush, Frames
<1>2. ASSUME intask # "audio" PROVE Orderly(tts', audio) /\ ~Unheard(tts', audio)
  <2>1. Orderly(tts, audio) /\ ~Unheard(tts, audio)
    BY <1>2, OrderlyNow
  <2>2. Orderly(tts', audio) /\ tts'.context = tts.context /\ tts'.open = tts.open
        /\ \A c : Heard(tts', audio, c) <=> Heard(tts, audio, c)
    BY <1>1, <2>1, PutOrderly
  <2>. QED
    BY <2>1, <2>2 DEF Unheard
<1>3. Names(tts') = Names(tts)
  BY <1>1, Fields, PutNames
<1>. QED
  BY <1>1, <1>2, <1>3, SettledOrderly

\* The sentinel is put behind everything, and is the only one.
LEMMA FinishFrameSettled ==
    ASSUME ContextsInvariant, BlameInvariant, proc.pc = "idle", NEW f \in Frames, Finish(f)
    PROVE  Settled /\ Names(tts') \subseteq Names(tts)
<1>1. f.kind = "finish" /\ tts' = Put(tts, NoFrame) /\ proc'.pc = "draining" /\ proc'.frame.kind = "finish"
  BY DEF Finish
<1>2. NoFrame \in Items /\ NoFrame.kind = "none"
  BY NoTurn DEF NoFrame, Frame, Items, Kinds
<1>3. /\ tts'.serial = Append(tts.serial, NoFrame) /\ tts'.queue = tts.queue /\ tts'.open = tts.open
      /\ tts'.context = tts.context
  BY <1>1, Fields DEF Put, Services
<1>4. Names(tts') = Names(tts)
  BY <1>3 DEF Names
<1>5. ASSUME intask # "audio" PROVE Clean(tts', audio) /\ Awaited(tts', proc') /\ ~Unheard(tts', audio)
  <2>1. Orderly(tts, audio) /\ ~Unheard(tts, audio)
    BY <1>5, OrderlyNow
  <2>2. Clean(tts', audio) /\ ~Unheard(tts', audio)
    <3>1. \A c : Heard(tts', audio, c) <=> Heard(tts, audio, c)
      BY <1>3 DEF Heard
    <3>2. Clean(tts, audio)
      BY <2>1, OrderlyFields
    <3>. QED
      BY <1>3, <2>1, <3>1, <3>2 DEF Clean, Unheard
  <2>3. Flags(tts.serial, "none") = {} /\ tts.serial \in Seq(Items)
    BY <2>1, OrderlyFields
  <2>4. /\ Flags(Append(tts.serial, NoFrame), "none")
               = Flags(tts.serial, "none") \cup (IF NoFrame.kind = "none" THEN {Len(tts.serial) + 1} ELSE {})
        /\ Len(Append(tts.serial, NoFrame)) = Len(tts.serial) + 1
    <3>1. tts.serial \in Seq(Items) /\ NoFrame \in Items
      BY <1>2, <2>3
    <3>. HIDE DEF NoFrame
    <3>. QED
      BY ONLY <3>1, FlagsAppended
  <2>5. Awaited(tts', proc')
    BY <1>1, <1>2, <1>3, <2>3, <2>4 DEF Awaited
  <2>. QED
    BY <2>2, <2>5
<1>6. Settled
  BY <1>1, <1>5 DEF Settled
<1>. QED
  BY <1>4, <1>6

LEMMA PassOnTurn == ASSUME NEW f, PassOn(f) PROVE llm'.turn = llm.turn
  BY DEF PassOn

LEMMA TakeBlames == ASSUME ContextsInvariant, BlameInvariant, Take PROVE BlameInvariant'
<1>. DEFINE f == Head(procq)
<1>1. procq \in Seq(Frames) /\ procq # <<>> /\ proc.pc = "idle" /\ procq' = Tail(procq)
      /\ UNCHANGED <<turn, turns, inq, intask, audio, silent>>
  BY Now DEF Take, given
<1>2. f \in Frames
  BY <1>1
<1>3. Begin(f) \/ Text(f) \/ End(f) \/ Call(f) \/ Flush(f) \/ Finish(f)
  BY DEF Take
<1>4. CASE Begin(f)
  <2>1. Settled /\ \A c \in Names(tts') : c \in Names(tts) \/ (f.kind = "start" /\ c = f.turn)
    BY <1>1, <1>4, BeginSettled
  <2>2. llm'.turn = llm.turn /\ Fresh
    BY <1>4 DEF Begin, BlameInvariant
  <2>3. Fresh'
    BY <1>1, <2>1, <2>2, FreshTaken
  <2>. QED
    BY <1>1, <2>1, <2>3, SettledBlames
<1>5. ASSUME Settled, Names(tts') \subseteq Names(tts), llm'.turn = llm.turn PROVE BlameInvariant'
  <2>1. \A c \in Names(tts') : c \in Names(tts) \/ (Head(procq).kind = "start" /\ c = Head(procq).turn)
    BY <1>5
  <2>2. Fresh'
    BY <1>1, <1>5, <2>1, FreshTaken DEF BlameInvariant
  <2>. QED
    BY <1>1, <1>5, <2>2, SettledBlames
<1>. HIDE DEF f
<1>6. CASE Text(f) \/ End(f) \/ Flush(f) \/ Finish(f)
  <2>1. llm'.turn = llm.turn
    BY <1>6 DEF Text, End, Flush, Finish
  <2>2. Settled /\ Names(tts') \subseteq Names(tts)
    BY <1>1, <1>2, <1>6, TextSettled, EndSettled, FlushSettled, FinishFrameSettled
  <2>. QED
    BY <1>5, <2>1, <2>2
<1>7. CASE Call(f)
  <2>1. llm'.turn = llm.turn /\ tts' = tts /\ proc' = Idle
    BY <1>7, PassOnTurn DEF Call
  <2>2. Settled /\ Names(tts') \subseteq Names(tts)
    BY <1>1, <2>1, Fields, IdleSettled, IdleTask
  <2>. QED
    BY <1>5, <2>1, <2>2
<1>. QED
  BY <1>3, <1>4, <1>6, <1>7

LEMMA SpeechEndsBlames == ASSUME ContextsInvariant, BlameInvariant, SpeechEnds PROVE BlameInvariant'
<1>1. PICK ok \in BOOLEAN :
          IF proc.frame.turn = turn
          THEN GoOn(Spoken(proc.frame.turn, proc.frame.n, ok))
          ELSE proc' = [proc EXCEPT !.pc = "dead"] /\ UNCHANGED <<tts, out, flushes, ending>>
  BY DEF SpeechEnds
<1>2. /\ proc.pc = "speaking" /\ proc.frame.turn \in Turns /\ proc \in [pc : Tasks, frame : Items] /\ proc.frame.n \in Nat
      /\ UNCHANGED <<turn, turns, llm, inq, procq, intask, audio, silent>>
  BY DEF SpeechEnds, ContextsInvariant, Known, TypeOK, Items, given, queues
<1>3. tts.context = proc.frame.turn \/ (tts.context = None /\ tts.open = {})
  BY <1>2 DEF BlameInvariant, Paired
<1>4. Settled /\ Names(tts') \subseteq Names(tts)
  <2>1. CASE proc.frame.turn = turn
    <3>. DEFINE s == Spoken(proc.frame.turn, proc.frame.n, ok)
    <3>1. Sound(s, audio.context) /\ Names(s) \subseteq Names(tts)
      BY <1>2, SpokenKeeps, SpokenNames
    <3>2. ASSUME intask # "audio" PROVE Orderly(s, audio) /\ ~Unheard(s, audio)
      <4>1. Orderly(tts, audio)
        BY <1>2, <3>2, OrderlyNow
      <4>. QED
        BY <1>2, <1>3, <4>1, SpokenOrderly
    <3>3. GoOn(s)
      BY <1>1, <2>1
    <3>. HIDE DEF s
    <3>4. CASE proc.frame.kind = "finish"
      <4>1. tts' = [Complete(s) EXCEPT !.response = None, !.owned = {}] /\ proc'.pc # "speaking"
        BY <3>3, <3>4, IdleTask DEF GoOn, FinishEnd
      <4>. QED
        BY <3>1, <3>2, <4>1, FinishSettled
    <3>5. CASE proc.frame.kind = "end"
      <4>1. tts' = EndResponse(s) /\ proc'.pc # "speaking"
        BY <3>3, <3>5, IdleTask DEF GoOn
      <4>. QED
        BY <3>1, <3>2, <4>1, EndsSettled
    <3>6. CASE proc.frame.kind \notin {"finish", "end"}
      <4>1. tts' = s /\ proc'.pc # "speaking"
        BY <3>3, <3>6, IdleTask DEF GoOn
      <4>. QED
        BY <3>1, <3>2, <4>1, SettledOrderly
    <3>. QED
      BY <3>4, <3>5, <3>6
  <2>2. CASE proc.frame.turn # turn
    <3>1. proc' = [proc EXCEPT !.pc = "dead"] /\ tts' = tts
      BY <1>1, <2>2
    <3>2. proc'.pc = "dead"
      BY <1>2, <3>1
    <3>3. intask # "audio" => Orderly(tts, audio)
      BY <1>2, OrderlyNow
    <3>. QED
      BY <3>1, <3>2, <3>3 DEF Settled, Orderly, Awaited
  <2>. QED
    BY <2>1, <2>2
<1>5. Fresh'
  BY <1>2, <1>4, FreshStill DEF BlameInvariant
<1>. QED
  BY <1>2, <1>4, <1>5, SettledBlames

LEMMA DrainedBlames == ASSUME ContextsInvariant, BlameInvariant, Drained PROVE BlameInvariant'
<1>1. UNCHANGED <<turn, turns, llm, inq, procq, intask, audio, silent>> /\ proc.pc = "drained"
  BY DEF Drained, given, queues
<1>2. proc.frame \in Items /\ MaxTexts \in Nat
  BY ContextsAssumption DEF ContextsInvariant, TypeOK
<1>3. Settled /\ Names(tts') \subseteq Names(tts)
  <2>1. CASE tts.remainder
    <3>1. Speak(proc.frame, MaxTexts) /\ tts.context \in Turns
      BY <2>1, ContextOfResponse DEF Drained, ContextsInvariant, Known
    <3>. QED
      BY <1>1, <1>2, <3>1, SpeakSettled
  <2>2. CASE ~tts.remainder
    <3>1. tts' = [Complete(tts) EXCEPT !.response = None, !.owned = {}] /\ proc'.pc # "speaking"
      BY <2>2, IdleTask DEF Drained, FinishEnd
    <3>2. intask # "audio" => Orderly(tts, audio) /\ ~Unheard(tts, audio)
      BY <1>1, OrderlyNow
    <3>. QED
      BY <3>1, <3>2, Fields, FinishSettled
  <2>. QED
    BY <2>1, <2>2
<1>4. Fresh'
  BY <1>1, <1>3, FreshStill DEF BlameInvariant
<1>. QED
  BY <1>1, <1>3, <1>4, SettledBlames

-----------------------------------------------------------------------------
(* What the audio task does to them *)

LEMMA ServeBlames == ASSUME ContextsInvariant, BlameInvariant, Serve PROVE BlameInvariant'
<1>. DEFINE item == Head(tts.serial)
<1>1. UNCHANGED <<turn, turns, inq, procq, intask, silent>> /\ tts' = [tts EXCEPT !.serial = Tail(@)]
      /\ tts.serial # <<>> /\ audio.alive /\ audio.context = None
  BY DEF Serve, given, queues
<1>2. /\ tts'.serial = Tail(tts.serial) /\ tts'.queue = tts.queue /\ tts'.open = tts.open
      /\ tts'.context = tts.context
  BY <1>1, Fields DEF Services
<1>3. \/ /\ item.kind = "context" /\ audio' = [Draining EXCEPT !.context = item.turn]
         /\ UNCHANGED <<proc, llm, out, flushes>>
      \/ /\ item.kind = "none" /\ audio' = Gone /\ proc' = [proc EXCEPT !.pc = "drained"]
         /\ UNCHANGED <<llm, out, flushes>>
      \/ /\ item.kind \notin {"context", "none"} /\ PassOn(Tagged(item)) /\ UNCHANGED <<audio, proc>>
  BY DEF Serve
<1>4. /\ item = tts.serial[1] /\ Len(tts.serial) \in Nat /\ Len(tts'.serial) = Len(tts.serial) - 1
      /\ (1 \in Flags(tts.serial, "none") <=> item.kind = "none")
      /\ \A i \in Flags(tts'.serial, "none") :
             i + 1 \in Flags(tts.serial, "none") /\ tts'.serial[i] = tts.serial[i + 1] /\ i \in Nat \ {0}
  <2>1. tts.serial \in Seq(Items) /\ tts.serial # <<>>
    BY <1>1, Fields
  <2>2. /\ Head(tts.serial) = tts.serial[1] /\ Len(tts.serial) \in Nat /\ Len(Tail(tts.serial)) = Len(tts.serial) - 1
        /\ (1 \in Flags(tts.serial, "none") <=> Head(tts.serial).kind = "none")
    BY ONLY <2>1, FlagsTaken
  <2>3. \A i \in Flags(Tail(tts.serial), "none") :
            i + 1 \in Flags(tts.serial, "none") /\ Tail(tts.serial)[i] = tts.serial[i + 1] /\ i \in Nat \ {0}
    BY ONLY <2>1, FlagsTaken
  <2>. QED
    BY <1>2, <2>2, <2>3
<1>. HIDE DEF item
<1>5. proc \in [pc : Tasks, frame : Items]
  BY DEF ContextsInvariant, TypeOK
<1>6. intask # "audio"
  BY <1>1 DEF BlameInvariant, Blameless
<1>7. Clean(tts, audio) /\ Awaited(tts, proc) /\ (Unheard(tts, audio) => proc.pc \in {"speaking", "dead", "cancelled"})
  BY <1>6 DEF BlameInvariant, Blameless
<1>8. llm'.turn = llm.turn
  BY <1>3, PassOnTurn
<1>9. Fresh'
  <2>1. Names(tts') = Names(tts)
    BY <1>2 DEF Names
  <2>. QED
    BY <1>1, <1>8, <2>1, FreshStill DEF BlameInvariant
<1>10. \A c \in Turns : Heard(tts, audio, c) => Heard(tts', audio', c)
  BY <1>1, <1>2, NoTurn DEF Heard
<1>11. Clean(tts', audio')
  BY <1>2, <1>7, <1>10 DEF Clean
<1>12. Unheard(tts', audio') => Unheard(tts, audio)
  <2>1. tts.open \subseteq Turns
    BY Fields
  <2>. QED
    BY <1>2, <1>10, <2>1 DEF Unheard
<1>13. CASE item.kind = "none"
  <2>1. proc.pc = "draining" /\ proc.frame.kind = "finish" /\ Len(tts.serial) = 1
    BY <1>4, <1>7, <1>13 DEF Awaited
  <2>2. Flags(tts'.serial, "none") = {}
    BY <1>4, <1>7, <2>1 DEF Awaited
  <2>3. ~Unheard(tts', audio')
    BY <1>7, <1>12, <2>1
  <2>4. proc'.pc = "drained"
    BY <1>3, <1>5, <1>13
  <2>5. Blameless' /\ Paired' /\ NeverBlamed'
    BY <1>1, <1>6, <1>11, <2>2, <2>3, <2>4 DEF Blameless, Awaited, Paired, BlameInvariant, NeverBlamed
  <2>. QED
    BY <1>9, <2>5 DEF BlameInvariant
<1>14. CASE item.kind # "none"
  <2>1. proc' = proc
    BY <1>3, <1>14
  <2>2. Awaited(tts', proc')
    <3>1. \A i \in Flags(tts'.serial, "none") : i = Len(tts'.serial) /\ proc.pc = "draining" /\ proc.frame.kind = "finish"
      BY <1>4, <1>7 DEF Awaited
    <3>. QED
      BY <2>1, <3>1 DEF Awaited
  <2>3. Blameless' /\ Paired' /\ NeverBlamed'
    BY <1>1, <1>2, <1>6, <1>7, <1>11, <1>12, <2>1, <2>2 DEF Blameless, Paired, BlameInvariant, NeverBlamed
  <2>. QED
    BY <1>9, <2>3 DEF BlameInvariant
<1>. QED
  BY <1>13, <1>14

\* A context that ends has been heard: what it is blamed for is nothing.
LEMMA PlayBlames == ASSUME ContextsInvariant, BlameInvariant, Play PROVE BlameInvariant'
<1>. DEFINE c == audio.context
            rest == [tts EXCEPT !.queue[c] = Tail(@)]
            item == Head(tts.queue[c])
<1>1. c # None /\ tts.queue[c] # <<>> /\ UNCHANGED <<turn, turns, inq, procq, intask, llm, proc>>
  BY DEF Play, queues, given
<1>2. c \in tts.open /\ c \in Turns /\ tts.queue[c] \in Seq(Items) /\ tts \in Services /\ tts.open \subseteq Turns
      /\ tts.queue \in [Turns -> Seq(Items)]
  BY <1>1, Fields DEF Sound, Consistent, Services
<1>3. IF item.kind = "close"
      THEN /\ tts' = [rest EXCEPT !.open = @ \ {c}, !.owned = @ \ {c}] /\ audio' = Draining
           /\ silent' = CASE Blamed(audio) -> silent + 1
                          [] audio.received /\ ~audio.failed -> 0
                          [] OTHER -> silent
      ELSE /\ tts' = rest
           /\ audio' = [audio EXCEPT !.stopped = @ \/ item.kind = "stopped",
                                     !.received = @ \/ item.kind = "played",
                                     !.failed = @ \/ item.kind = "error"]
           /\ UNCHANGED silent
  BY DEF Play
<1>4. /\ rest \in Services /\ rest.queue = [tts.queue EXCEPT ![c] = Tail(@)] /\ rest.open = tts.open
      /\ rest.serial = tts.serial /\ rest.context = tts.context
  <2>1. Tail(tts.queue[c]) \in Seq(Items)
    BY <1>1, <1>2
  <2>. QED
    BY <1>2, <2>1 DEF Services
<1>5. /\ item = tts.queue[c][1] /\ Len(tts.queue[c]) \in Nat /\ Len(Tail(tts.queue[c])) = Len(tts.queue[c]) - 1
      /\ (1 \in Flags(tts.queue[c], "close") <=> item.kind = "close")
      /\ \A i \in Flags(Tail(tts.queue[c]), "close") :
             i + 1 \in Flags(tts.queue[c], "close") /\ Tail(tts.queue[c])[i] = tts.queue[c][i + 1] /\ i \in Nat \ {0}
      /\ \A i \in DOMAIN tts.queue[c] : i = 1 \/ (i - 1 \in DOMAIN Tail(tts.queue[c])
                                                 /\ Tail(tts.queue[c])[i - 1] = tts.queue[c][i])
  <2>. DEFINE q == tts.queue[c]
  <2>1. q \in Seq(Items) /\ q # <<>>
    BY <1>1, <1>2
  <2>. HIDE DEF q
  <2>2. /\ Head(q) = q[1] /\ Len(q) \in Nat /\ Len(Tail(q)) = Len(q) - 1
        /\ (1 \in Flags(q, "close") <=> Head(q).kind = "close")
    BY ONLY <2>1, FlagsTaken
  <2>3. \A i \in Flags(Tail(q), "close") : i + 1 \in Flags(q, "close") /\ Tail(q)[i] = q[i + 1] /\ i \in Nat \ {0}
    BY ONLY <2>1, FlagsTaken
  <2>4. \A i \in DOMAIN q : i = 1 \/ (i - 1 \in DOMAIN Tail(q) /\ Tail(q)[i - 1] = q[i])
    BY ONLY <2>1, FlagsTaken
  <2>. QED
    BY <2>2, <2>3, <2>4 DEF q
<1>. HIDE DEF rest, item
<1>6. /\ tts'.queue = [tts.queue EXCEPT ![c] = Tail(@)] /\ tts'.serial = tts.serial /\ tts'.context = tts.context
      /\ tts'.open = IF item.kind = "close" THEN tts.open \ {c} ELSE tts.open
  <2>1. CASE item.kind = "close"
    <3>1. tts' = [rest EXCEPT !.open = @ \ {c}, !.owned = @ \ {c}]
      BY <1>3, <2>1
    <3>2. tts'.queue = rest.queue /\ tts'.serial = rest.serial /\ tts'.context = rest.context
          /\ tts'.open = rest.open \ {c}
      BY <1>4, <3>1 DEF Services
    <3>. QED
      BY <1>4, <2>1, <3>2
  <2>2. CASE item.kind # "close"
    <3>1. tts' = rest
      BY <1>3, <2>2
    <3>. QED
      BY <1>4, <2>2, <3>1
  <2>. QED
    BY <2>1, <2>2
<1>7. /\ \A d \in Turns \ {c} : tts'.queue[d] = tts.queue[d]
      /\ tts'.queue[c] = Tail(tts.queue[c])
  BY <1>2, <1>6
<1>8. intask # "audio"
  BY <1>1 DEF BlameInvariant, Blameless
<1>9. Clean(tts, audio) /\ Awaited(tts, proc) /\ (Unheard(tts, audio) => proc.pc \in {"speaking", "dead", "cancelled"})
  BY <1>8 DEF BlameInvariant, Blameless
<1>10. Fresh'
  <2>1. Names(tts') \subseteq Names(tts)
    BY <1>6 DEF Names
  <2>. QED
    BY <1>1, <2>1, FreshStill DEF BlameInvariant
<1>11. ASSUME NEW d \in Turns \ {c}, Heard(tts, audio, d) PROVE Heard(tts', audio', d)
  BY <1>7, <1>11 DEF Heard
<1>12. Awaited(tts', proc') /\ Paired'
  <2>1. proc.pc = "speaking" => tts'.context = proc.frame.turn \/ (tts'.context = None /\ tts'.open = {})
    BY <1>6 DEF BlameInvariant, Paired
  <2>. QED
    BY <1>1, <1>6, <1>9, <2>1 DEF Awaited, Paired
<1>13. CASE item.kind = "close"
  <2>1. Len(tts.queue[c]) = 1 /\ Heard(tts, audio, c)
    BY <1>2, <1>5, <1>9, <1>13 DEF Clean
  <2>2. audio.received \/ audio.failed
    <3>1. \A i \in DOMAIN tts.queue[c] : i = 1
      BY <1>2, <2>1
    <3>2. \A i \in DOMAIN tts.queue[c] : tts.queue[c][i].kind = "close"
      BY <1>5, <1>13, <3>1
    <3>. QED
      BY <2>1, <3>2 DEF Heard
  <2>3. silent' = 0
    BY <1>3, <1>13, <2>2 DEF Blamed, BlameInvariant, NeverBlamed
  <2>4. Flags(tts'.queue[c], "close") = {}
    <3>1. \A i \in Flags(Tail(tts.queue[c]), "close") : FALSE
      BY <1>2, <1>5, <1>9, <2>1 DEF Clean
    <3>. QED
      BY <1>7, <3>1
  <2>5. tts.context # c
    BY <1>2, <1>5, <1>9, <1>13 DEF Clean
  <2>6. Clean(tts', audio')
    <3>1. \A d \in Turns \ {c} : \A i \in Flags(tts'.queue[d], "close") : i = Len(tts'.queue[d]) /\ Heard(tts', audio', d)
      BY <1>7, <1>9, <1>11 DEF Clean
    <3>2. tts'.context \in tts'.open => Flags(tts'.queue[tts'.context], "close") = {}
      BY <1>2, <1>6, <1>7, <1>9, <2>5 DEF Clean
    <3>. QED
      BY <2>4, <3>1, <3>2 DEF Clean
  <2>7. Unheard(tts', audio') => Unheard(tts, audio)
    BY <1>2, <1>6, <1>11, <2>5 DEF Unheard
  <2>8. Blameless' /\ NeverBlamed'
    BY <1>1, <1>8, <1>9, <1>12, <2>3, <2>6, <2>7 DEF Blameless, NeverBlamed
  <2>. QED
    BY <1>10, <1>12, <2>8 DEF BlameInvariant
<1>14. CASE item.kind # "close"
  <2>1. audio \in AudioTasks
    BY DEF ContextsInvariant, TypeOK
  <2>2. /\ audio'.context = c /\ (audio.received => audio'.received) /\ (audio.failed => audio'.failed)
        /\ item.kind = "played" => audio'.received
        /\ item.kind = "error" => audio'.failed
    BY <1>3, <1>14, <2>1 DEF AudioTasks
  <2>3. ASSUME Heard(tts, audio, c) PROVE Heard(tts', audio', c)
    <3>1. CASE audio.received \/ audio.failed
      BY <2>2, <3>1 DEF Heard
    <3>2. CASE \E i \in DOMAIN tts.queue[c] : tts.queue[c][i].kind \in {"played", "error"}
      <4>1. PICK i \in DOMAIN tts.queue[c] : tts.queue[c][i].kind \in {"played", "error"}
        BY <3>2
      <4>2. CASE i = 1
        BY <1>5, <2>2, <4>1, <4>2 DEF Heard
      <4>3. CASE i # 1
        <5>1. i - 1 \in DOMAIN tts'.queue[c] /\ tts'.queue[c][i - 1].kind \in {"played", "error"}
          BY <1>5, <1>7, <4>1, <4>3
        <5>. QED
          BY <5>1 DEF Heard
      <4>. QED
        BY <4>2, <4>3
    <3>. QED
      BY <2>3, <3>1, <3>2 DEF Heard
  <2>4. \A i \in Flags(tts'.queue[c], "close") : i = Len(tts'.queue[c]) /\ Heard(tts', audio', c)
    <3>1. \A i \in Flags(Tail(tts.queue[c]), "close") : i + 1 = Len(tts.queue[c]) /\ Heard(tts, audio, c) /\ i \in Nat
      BY <1>2, <1>5, <1>9 DEF Clean
    <3>2. \A i \in Flags(Tail(tts.queue[c]), "close") : i = Len(tts.queue[c]) - 1
      BY <1>5, <3>1
    <3>. QED
      BY <1>5, <1>7, <2>3, <3>1, <3>2
  <2>5. \A d \in Turns : Heard(tts, audio, d) => Heard(tts', audio', d)
    BY <1>11, <2>3
  <2>6. Clean(tts', audio')
    <3>1. \A d \in Turns \ {c} : \A i \in Flags(tts'.queue[d], "close") : i = Len(tts'.queue[d]) /\ Heard(tts', audio', d)
      BY <1>7, <1>9, <1>11 DEF Clean
    <3>2. ASSUME tts'.context \in tts'.open PROVE Flags(tts'.queue[tts'.context], "close") = {}
      <4>1. tts.context \in tts.open /\ tts.context \in Turns /\ Flags(tts.queue[tts.context], "close") = {}
        BY <1>2, <1>6, <1>9, <1>14, <3>2 DEF Clean
      <4>2. CASE tts.context = c
        <5>1. \A i \in Flags(Tail(tts.queue[c]), "close") : FALSE
          BY <1>5, <4>1, <4>2
        <5>. QED
          BY <1>6, <1>7, <4>2, <5>1
      <4>3. CASE tts.context # c
        BY <1>6, <1>7, <4>1, <4>3
      <4>. QED
        BY <4>2, <4>3
    <3>. QED
      BY <2>4, <3>1, <3>2 DEF Clean
  <2>7. Unheard(tts', audio') => Unheard(tts, audio)
    BY <1>2, <1>6, <1>14, <2>5 DEF Unheard
  <2>8. Blameless' /\ NeverBlamed'
    BY <1>1, <1>3, <1>8, <1>9, <1>12, <1>14, <2>6, <2>7 DEF Blameless, NeverBlamed, BlameInvariant
  <2>. QED
    BY <1>10, <1>12, <2>8 DEF BlameInvariant
<1>. QED
  BY <1>13, <1>14

-----------------------------------------------------------------------------
(* What an interruption and those around the service do to them *)

\* Frames that survive an interruption start no response.
LEMMA KeptStartsNothing ==
    ASSUME ContextsInvariant PROVE Flags(Kept(procq), "start") = {}
<1>1. procq \in Seq(Frames)
  BY Now
<1>2. \A i \in DOMAIN Keep(procq, Uninterruptible) : Keep(procq, Uninterruptible)[i].kind \in Uninterruptible
  BY <1>1, KeptFrames
<1>. QED
  BY <1>2 DEF Kept, Flags, Uninterruptible

LEMMA CancelAudioBlames ==
    ASSUME ContextsInvariant, BlameInvariant, CancelAudio, UNCHANGED <<turn, turns, llm, inq, silent>>,
           proc' = proc \/ proc' = Idle
    PROVE  BlameInvariant'
<1>1. /\ tts' = [tts EXCEPT !.remainder = FALSE] /\ audio' = Gone /\ intask' = "audio"
      /\ procq' = Kept(procq)
  BY DEF CancelAudio
<1>2. tts'.open = tts.open /\ tts'.context = tts.context
  BY <1>1, Fields DEF Services
<1>3. Fresh'
  <2>1. Names(tts') = Names(tts) /\ Flags(procq', "start") = {}
    BY <1>1, <1>2, KeptStartsNothing DEF Names
  <2>. QED
    BY <2>1, FreshStill DEF BlameInvariant
<1>4. ~audio'.alive /\ audio'.context = None
  BY <1>1 DEF Gone, Draining
<1>5. Paired' /\ Blameless' /\ NeverBlamed'
  BY <1>1, <1>2, <1>4, IdleTask DEF Paired, Blameless, BlameInvariant, NeverBlamed
<1>. QED
  BY <1>3, <1>5 DEF BlameInvariant

LEMMA InterruptBlames == ASSUME ContextsInvariant, BlameInvariant, Interrupt PROVE BlameInvariant'
<1>1. UNCHANGED <<turn, turns, llm, inq, silent>> /\ intask = "idle"
  BY DEF Interrupt, given
<1>2. CASE CancelAudio /\ UNCHANGED proc
  BY <1>1, <1>2, CancelAudioBlames
<1>3. CASE /\ proc.frame.kind \notin Uninterruptible
           /\ proc' = [pc |-> "cancelled", frame |-> NoFrame] /\ intask' = "process"
           /\ UNCHANGED <<tts, audio, procq>>
  <2>1. proc.frame.kind # "finish" /\ proc'.pc = "cancelled" /\ Clean(tts, audio) /\ Awaited(tts, proc)
    BY <1>1, <1>3 DEF Uninterruptible, BlameInvariant, Blameless
  <2>2. Flags(tts.serial, "none") = {}
    BY <2>1 DEF Awaited
  <2>3. Fresh'
    BY <1>1, <1>3, FreshStill DEF BlameInvariant
  <2>4. Paired' /\ Blameless' /\ NeverBlamed'
    BY <1>1, <1>3, <2>1, <2>2 DEF Paired, Blameless, Awaited, BlameInvariant, NeverBlamed
  <2>. QED
    BY <2>3, <2>4 DEF BlameInvariant
<1>. QED
  BY <1>2, <1>3 DEF Interrupt

LEMMA ProcessCancelledBlames == ASSUME ContextsInvariant, BlameInvariant, ProcessCancelled PROVE BlameInvariant'
  BY CancelAudioBlames DEF ProcessCancelled, given

\* The new service has no context and no sentinel.
LEMMA AudioCancelledBlames == ASSUME ContextsInvariant, BlameInvariant, AudioCancelled PROVE BlameInvariant'
<1>. DEFINE serial == Emptied(tts.serial)
<1>1. /\ UNCHANGED <<turn, turns, llm, inq, procq, silent>> /\ intask' = "idle"
      /\ tts' = NewService(serial) /\ audio' = Draining
      /\ proc' = IF proc.pc = "draining" THEN [proc EXCEPT !.pc = "dead"] ELSE proc
  BY DEF AudioCancelled, given, queues
<1>2. \A i \in DOMAIN serial : serial[i].kind \in Uninterruptible
  <2>1. tts.serial \in Seq(Items)
    BY Fields
  <2>2. \A i \in DOMAIN Keep(tts.serial, Uninterruptible) : Keep(tts.serial, Uninterruptible)[i].kind \in Uninterruptible
    BY <2>1, KeptFrames
  <2>. QED
    BY <2>2 DEF Emptied, Kept
<1>. HIDE DEF serial
<1>3. /\ tts'.serial = serial /\ tts'.open = {} /\ tts'.context = None
      /\ \A c \in Turns : tts'.queue[c] = <<>>
  BY <1>1 DEF NewService
<1>4. Fresh'
  <2>1. Names(tts') \subseteq Names(tts)
    BY <1>3 DEF Names
  <2>. QED
    BY <1>1, <2>1, FreshStill DEF BlameInvariant
<1>5. Flags(tts'.serial, "none") = {}
  BY <1>2, <1>3 DEF Flags, Uninterruptible
<1>6. \A c \in Turns : Flags(tts'.queue[c], "close") = {}
  BY <1>3 DEF Flags
<1>7. Clean(tts', audio') /\ Awaited(tts', proc') /\ ~Unheard(tts', audio')
  BY <1>3, <1>5, <1>6 DEF Clean, Awaited, Unheard
<1>8. Paired' /\ Blameless' /\ NeverBlamed'
  BY <1>1, <1>3, <1>7 DEF Paired, Blameless, BlameInvariant, NeverBlamed
<1>. QED
  BY <1>4, <1>8 DEF BlameInvariant

\* A step that touches no part of the service.
LEMMA ElsewhereBlames ==
    ASSUME BlameInvariant, Fresh', UNCHANGED <<intask, audio, proc, tts, silent>>
    PROVE  BlameInvariant'
<1>1. Paired' /\ Blameless' /\ NeverBlamed'
  BY DEF Paired, Blameless, BlameInvariant, NeverBlamed
<1>. QED
  BY <1>1 DEF BlameInvariant

LEMMA MoveBlames == ASSUME ContextsInvariant, BlameInvariant, Move PROVE BlameInvariant'
<1>1. /\ UNCHANGED <<turn, turns, llm, tts, intask, audio, proc, silent>> /\ inq # <<>>
      /\ inq' = Tail(inq) /\ procq' = Append(procq, Head(inq))
  BY DEF Move, given, service
<1>. QED
  BY <1>1, FreshMoved, ElsewhereBlames DEF BlameInvariant

LEMMA TurnOverBlames == ASSUME ContextsInvariant, BlameInvariant, TurnOver PROVE BlameInvariant'
<1>1. UNCHANGED <<llm, inq, procq, tts, intask, audio, proc, silent>>
  BY DEF TurnOver, queues, service
<1>2. turn' \in {None, turns'} /\ llm.turn <= turns'
  <2>1. llm.turn <= turns /\ llm.turn \in Nat /\ turns \in Nat
    BY FreshNow DEF BlameInvariant, Fresh
  <2>. QED
    BY <2>1 DEF TurnOver
<1>3. Fresh'
  BY <1>1, <1>2 DEF BlameInvariant, Fresh
<1>. QED
  BY <1>1, <1>3, ElsewhereBlames

LEMMA BreakBlames == ASSUME ContextsInvariant, BlameInvariant, Break PROVE BlameInvariant'
<1>1. UNCHANGED <<turn, turns, inq, procq, tts, intask, audio, proc, silent>> /\ llm' = [llm EXCEPT !.stage = "none"]
  BY DEF Break, service
<1>2. llm'.turn = llm.turn
  BY <1>1
<1>. QED
  BY <1>1, <1>2, FreshStill, ElsewhereBlames DEF BlameInvariant

LEMMA AbandonBlames == ASSUME ContextsInvariant, BlameInvariant, Abandon PROVE BlameInvariant'
<1>1. UNCHANGED <<turn, turns, inq, procq, tts, intask, audio, proc, silent>> /\ llm' = [llm EXCEPT !.stage = "none"]
  BY DEF Abandon, given, queues, service
<1>2. llm'.turn = llm.turn
  BY <1>1
<1>. QED
  BY <1>1, <1>2, FreshStill, ElsewhereBlames DEF BlameInvariant

LEMMA SentBlames ==
    ASSUME ContextsInvariant, BlameInvariant, NEW f \in Frames, Send(f),
           IF f.kind = "start" THEN f.turn = llm'.turn /\ llm.turn < llm'.turn /\ llm'.turn = turns
           ELSE llm'.turn = llm.turn
    PROVE  BlameInvariant'
<1>1. UNCHANGED <<intask, audio, proc, tts, silent>>
  BY DEF Send, service
<1>. QED
  BY <1>1, FreshSent, ElsewhereBlames DEF BlameInvariant

\* A response begins for the latest turn, which is newer than that of the one before.
LEMMA RespondBlames == ASSUME ContextsInvariant, BlameInvariant, Respond PROVE BlameInvariant'
<1>. DEFINE f == Frame("start", turn, 0)
<1>1. /\ turn # None /\ llm.turn # turn /\ Send(f)
      /\ llm' = [turn |-> turn, stage |-> "open", texts |-> 0, called |-> FALSE]
  BY DEF Respond
<1>2. turn = turns /\ turn \in Turns /\ llm.turn < turns
  <2>1. turn \in {None, turns} /\ llm.turn <= turns /\ turn \in Nat /\ turns \in Nat /\ llm.turn \in Nat
    BY FreshNow DEF BlameInvariant, Fresh
  <2>2. MaxTurns \in Nat /\ turn \in 0 .. MaxTurns
    BY ContextsAssumption, Now DEF SomeTurn
  <2>. QED
    BY <1>1, <2>1, <2>2 DEF Turns, None
<1>3. f \in Frames /\ f.kind = "start" /\ f.turn = turn
  <2>1. f \in Frames /\ f.kind = "start"
    BY <1>2, NoTurn, FrameMade DEF FrameKinds
  <2>. QED
    BY <2>1 DEF Frame
<1>. HIDE DEF f
<1>. QED
  BY <1>1, <1>2, <1>3, SentBlames

LEMMA GenerateBlames == ASSUME ContextsInvariant, BlameInvariant, Generate PROVE BlameInvariant'
<1>1. turn \in Turns /\ turn \in SomeTurn /\ llm.stage = "open" /\ llm.texts \in Nat /\ llm.texts + 1 \in Nat
  BY Now DEF Responses, Generate
<1>2. llm'.turn = llm.turn
  BY Now DEF Generate, Responses
<1>3. PICK f \in Frames : Send(f) /\ f.kind # "start"
  <2>1. /\ Frame("text", turn, llm.texts + 1) \in Frames /\ Frame("text", turn, llm.texts + 1).kind = "text"
        /\ Frame("call", turn, 0) \in Frames /\ Frame("call", turn, 0).kind = "call"
        /\ Frame("end", turn, llm.texts) \in Frames /\ Frame("end", turn, llm.texts).kind = "end"
    BY <1>1, FrameMade DEF FrameKinds
  <2>2. \/ Send(Frame("text", turn, llm.texts + 1)) \/ Send(Frame("call", turn, 0))
        \/ Send(Frame("end", turn, llm.texts))
    BY DEF Generate
  <2>. QED
    BY <2>1, <2>2
<1>. QED
  BY <1>2, <1>3, SentBlames

LEMMA WorkerBlames == ASSUME ContextsInvariant, BlameInvariant, Worker PROVE BlameInvariant'
<1>1. llm' = llm /\ llm.turn \in SomeTurn
  BY Now DEF Responses, Worker
<1>2. PICK f \in Frames : Send(f) /\ f.kind # "start"
  <2>1. /\ Frame("flush", llm.turn, 0) \in Frames /\ Frame("flush", llm.turn, 0).kind = "flush"
        /\ Frame("finish", None, 0) \in Frames /\ Frame("finish", None, 0).kind = "finish"
    BY <1>1, NoTurn, FrameMade DEF FrameKinds
  <2>2. Send(Frame("flush", llm.turn, 0)) \/ Send(Frame("finish", None, 0))
    BY DEF Worker
  <2>. QED
    BY <2>1, <2>2
<1>. QED
  BY <1>1, <1>2, SentBlames

LEMMA StartsUnblamed == Init => BlameInvariant
<1>. SUFFICES ASSUME Init PROVE BlameInvariant
  OBVIOUS
<1>1. /\ turn = None /\ turns = 0 /\ llm.turn = None /\ inq = <<>> /\ procq = <<>> /\ intask = "idle"
      /\ proc.pc = "idle" /\ tts = NewService(<<>>) /\ silent = 0
  BY DEF Init, Idle
<1>2. tts.serial = <<>> /\ tts.open = {} /\ tts.context = None /\ \A c \in Turns : tts.queue[c] = <<>>
  BY <1>1 DEF NewService
<1>3. \A kind : Flags(<<>>, kind) = {}
  BY DEF Flags
<1>4. Fresh
  BY <1>1, <1>2, <1>3 DEF Fresh, Names, Newer, Rising, None
<1>5. Clean(tts, audio) /\ Awaited(tts, proc) /\ ~Unheard(tts, audio)
  BY <1>2, <1>3 DEF Clean, Awaited, Unheard
<1>. QED
  BY <1>1, <1>4, <1>5 DEF BlameInvariant, NeverBlamed, Paired, Blameless

-----------------------------------------------------------------------------
(* Why the output is in order *)

\* The output since the last interruption, and what the service has yet to emit.
Has(q, kind, t) == \E i \in DOMAIN q : q[i].kind = kind /\ q[i].turn = t
HasBefore(q, k, kind, t) == \E i \in 1 .. k - 1 : q[i].kind = kind /\ q[i].turn = t
Holding(q, kind, t, n) == \E i \in DOMAIN q : q[i].kind = kind /\ q[i].turn = t /\ q[i].n = n
HoldingBefore(q, k, kind, t, n) ==
    \E i \in 1 .. k - 1 : q[i].kind = kind /\ q[i].turn = t /\ q[i].n = n

\* A response is taken up once, and none but the latest that was not interrupted.
Interrupting == breaking \/ urgent > 0 \/ intask # "idle"
StartedIn(s, o, t) == Has(s.serial, "start", t) \/ Has(o, "start", t)
TakenUp ==
    \A t : StartedIn(tts, out, t) =>
        /\ t \in Turns /\ t <= llm.turn /\ Newer(inq, t) /\ Newer(procq, t)
        /\ Interrupting <=> t # turn
NextWaits ==
    /\ Interrupting => ~Has(procq, "start", turn)
    /\ breaking => turn = None \/ llm.turn < turn

\* The place i of a serialization queue, for an output o and contexts that are open.
SerialItem(q, i, o, open) ==
    LET x == q[i]
    IN  /\ x.kind \in {"start", "agg", "context", "end", "none"} \cup Uninterruptible
        /\ x.kind = "start" => \A t : ~Has(o, "start", t) /\ ~HasBefore(q, i, "start", t)
        /\ x.kind \in {"agg", "context", "end"} =>
               Has(o, "start", x.turn) \/ HasBefore(q, i, "start", x.turn)
        /\ x.kind \in {"agg", "context"} =>
               ~Has(o, "end", x.turn) /\ ~HasBefore(q, i, "end", x.turn)
        /\ x.kind = "agg" => x.turn \in open /\ ~HasBefore(q, i, "context", x.turn)
SerialInOrder(s, o) == \A i \in DOMAIN s.serial : SerialItem(s.serial, i, o, s.open)

\* The place i of the queue q of a context c.
QueueItem(q, i, c, serial, o) ==
    LET x == q[i]
    IN  /\ x.kind \in SpokenKinds \cup {"close", "error"} /\ x.turn = c
        /\ x.kind = "played" =>
               \/ HoldingBefore(q, i, "agg", c, x.n)
               \/ Holding(serial, "agg", c, x.n) \/ Holding(o, "agg", c, x.n)
        /\ x.kind = "words" =>
               HoldingBefore(q, i, "played", c, x.n) \/ Holding(o, "played", c, x.n)
QueuesInOrder(s, o) ==
    /\ s.open \subseteq s.owned
    /\ \A c \in s.open : \A i \in DOMAIN s.queue[c] : QueueItem(s.queue[c], i, c, s.serial, o)

ResponseInOrder(s, o) ==
    /\ s.response = s.context
    /\ s.context # None =>
           /\ s.context \in s.owned
           /\ Has(o, "start", s.context) \/ Has(s.serial, "start", s.context)
           /\ ~Has(o, "end", s.context) /\ ~Has(s.serial, "end", s.context)

PlayedInOrder(s, o, c) ==
    c # None => Has(o, "start", c) /\ ~Has(o, "end", c) /\ ~Has(s.serial, "agg", c)

SentenceInOrder(s, o, p) ==
    /\ p.pc = "speaking" /\ p.frame.kind # "finish" =>
           /\ s.context = p.frame.turn /\ s.context \in s.open
           /\ \/ Holding(s.queue[s.context], "agg", s.context, p.frame.n)
              \/ Holding(s.serial, "agg", s.context, p.frame.n)
              \/ Holding(o, "agg", s.context, p.frame.n)
    /\ p.pc \in {"speaking", "drained"} /\ p.frame.kind = "finish" => s.context = None /\ s.open = {}

Finishing ==
    /\ proc.pc \in {"draining", "drained"} => proc.frame.kind = "finish"
    /\ proc.pc = "speaking" => proc.frame.kind \in {"text", "end", "finish"}
    /\ intask = "audio" =>
           /\ \A i \in DOMAIN procq : procq[i].kind \in Uninterruptible
           /\ proc.pc = "speaking" => proc.frame.kind = "finish"

InLine(s, o, a) ==
    /\ Sound(s, a) /\ o \in Seq(Items)
    /\ SerialInOrder(s, o) /\ QueuesInOrder(s, o) /\ ResponseInOrder(s, o) /\ PlayedInOrder(s, o, a)

\* Of a service whose audio task is gone nothing is said: it emits nothing.
OutputInvariant ==
    /\ out \in Seq(Items) /\ urgent \in Nat
    /\ OutputInOrder /\ Finishing /\ NextWaits
    /\ ~audio.alive => audio.context = None
    /\ audio.alive =>
           /\ InLine(tts, out, audio.context) /\ SentenceInOrder(tts, out, proc) /\ TakenUp

\* What a handler makes of a service starts no response.
NoNewStarts(s, r) == \A t : Has(r.serial, "start", t) => Has(s.serial, "start", t)

-----------------------------------------------------------------------------
(* What is in a queue that grows behind and is taken from in front *)

LEMMA BehindAll ==
    ASSUME NEW q \in Seq(Items), NEW f \in Items
    PROVE  LET r == Append(q, f)
           IN  /\ r \in Seq(Items) /\ Len(q) \in Nat /\ r[Len(q) + 1] = f
               /\ \A i \in DOMAIN q : i \in DOMAIN r /\ r[i] = q[i]
               /\ \A i \in DOMAIN r : i \in DOMAIN q \/ i = Len(q) + 1
               /\ \A kind, t : Has(r, kind, t) <=> Has(q, kind, t) \/ (f.kind = kind /\ f.turn = t)
               /\ \A kind, t, n : Holding(r, kind, t, n)
                     <=> Holding(q, kind, t, n) \/ (f.kind = kind /\ f.turn = t /\ f.n = n)
<1>. DEFINE r == Append(q, f)
<1>1. r \in Seq(Items) /\ Len(q) \in Nat /\ r[Len(q) + 1] = f /\ DOMAIN q = 1 .. Len(q)
      /\ DOMAIN r = 1 .. Len(q) + 1 /\ \A i \in 1 .. Len(q) : r[i] = q[i]
  OBVIOUS
<1>. HIDE DEF r
<1>2. \A i \in 1 .. Len(q) + 1 : i \in 1 .. Len(q) \/ i = Len(q) + 1
  BY <1>1
<1>3. \A i \in DOMAIN q : i \in DOMAIN r /\ r[i] = q[i]
  BY <1>1
<1>4. Len(q) + 1 \in DOMAIN r
  BY <1>1
<1>5. \A kind, t : Has(r, kind, t) <=> Has(q, kind, t) \/ (f.kind = kind /\ f.turn = t)
  BY <1>1, <1>2, <1>3, <1>4 DEF Has
<1>6. ASSUME NEW kind, NEW t, NEW n
      PROVE  Holding(r, kind, t, n)
                <=> Holding(q, kind, t, n) \/ (f.kind = kind /\ f.turn = t /\ f.n = n)
  <2>1. ASSUME Holding(r, kind, t, n)
        PROVE  Holding(q, kind, t, n) \/ (f.kind = kind /\ f.turn = t /\ f.n = n)
    BY <1>1, <1>2, <1>3, <2>1 DEF Holding
  <2>2. Holding(q, kind, t, n) => Holding(r, kind, t, n)
    BY <1>3 DEF Holding
  <2>3. f.kind = kind /\ f.turn = t /\ f.n = n => Holding(r, kind, t, n)
    BY <1>1, <1>4 DEF Holding
  <2>. QED
    BY <2>1, <2>2, <2>3
<1>. QED
  BY <1>1, <1>2, <1>3, <1>5, <1>6 DEF r

LEMMA BehindBefore ==
    ASSUME NEW q \in Seq(Items), NEW f \in Items
    PROVE  LET r == Append(q, f)
           IN  /\ \A i \in DOMAIN q : \A kind, t :
                     HasBefore(r, i, kind, t) <=> HasBefore(q, i, kind, t)
               /\ \A i \in DOMAIN q : \A kind, t, n :
                     HoldingBefore(r, i, kind, t, n) <=> HoldingBefore(q, i, kind, t, n)
               /\ \A kind, t : HasBefore(r, Len(q) + 1, kind, t) <=> Has(q, kind, t)
               /\ \A kind, t, n : HoldingBefore(r, Len(q) + 1, kind, t, n) <=> Holding(q, kind, t, n)
<1>. DEFINE r == Append(q, f)
<1>1. Len(q) \in Nat /\ DOMAIN q = 1 .. Len(q) /\ \A i \in 1 .. Len(q) : r[i] = q[i]
  OBVIOUS
<1>. HIDE DEF r
<1>2. \A i \in 1 .. Len(q) : \A j \in 1 .. i - 1 : j \in 1 .. Len(q)
  BY <1>1
<1>3. (Len(q) + 1) - 1 = Len(q)
  BY <1>1
<1>4. \A i \in DOMAIN q : \A kind, t : HasBefore(r, i, kind, t) <=> HasBefore(q, i, kind, t)
  BY <1>1, <1>2 DEF HasBefore
<1>5. \A i \in DOMAIN q : \A kind, t, n :
          HoldingBefore(r, i, kind, t, n) <=> HoldingBefore(q, i, kind, t, n)
  BY <1>1, <1>2 DEF HoldingBefore
<1>6. \A kind, t : HasBefore(r, Len(q) + 1, kind, t) <=> Has(q, kind, t)
  BY <1>1, <1>3 DEF HasBefore, Has
<1>7. \A kind, t, n : HoldingBefore(r, Len(q) + 1, kind, t, n) <=> Holding(q, kind, t, n)
  BY <1>1, <1>3 DEF HoldingBefore, Holding
<1>. QED
  BY <1>4, <1>5, <1>6, <1>7 DEF r

LEMMA InFront ==
    ASSUME NEW q \in Seq(Items), q # <<>>
    PROVE  LET r == Tail(q)
               f == Head(q)
           IN  /\ r \in Seq(Items) /\ f \in Items /\ 1 \in DOMAIN q /\ q[1] = f
               /\ \A i \in DOMAIN r : i + 1 \in DOMAIN q /\ r[i] = q[i + 1]
               /\ \A kind, t : ~HasBefore(q, 1, kind, t)
               /\ \A kind, t, n : ~HoldingBefore(q, 1, kind, t, n)
               /\ \A kind, t : Has(q, kind, t) <=> Has(r, kind, t) \/ (f.kind = kind /\ f.turn = t)
               /\ \A kind, t, n : Holding(q, kind, t, n)
                     <=> Holding(r, kind, t, n) \/ (f.kind = kind /\ f.turn = t /\ f.n = n)
               /\ \A i \in DOMAIN r : \A kind, t : HasBefore(q, i + 1, kind, t)
                     <=> HasBefore(r, i, kind, t) \/ (f.kind = kind /\ f.turn = t)
               /\ \A i \in DOMAIN r : \A kind, t, n : HoldingBefore(q, i + 1, kind, t, n)
                     <=> HoldingBefore(r, i, kind, t, n) \/ (f.kind = kind /\ f.turn = t /\ f.n = n)
<1>. DEFINE r == Tail(q)
            f == Head(q)
<1>1. /\ r \in Seq(Items) /\ f \in Items /\ q[1] = f /\ Len(q) \in Nat \ {0}
      /\ DOMAIN q = 1 .. Len(q) /\ DOMAIN r = 1 .. Len(q) - 1
      /\ \A i \in 1 .. Len(q) - 1 : r[i] = q[i + 1]
  OBVIOUS
<1>. HIDE DEF r, f
<1>2. /\ 1 \in DOMAIN q /\ \A i \in DOMAIN r : i + 1 \in DOMAIN q /\ r[i] = q[i + 1]
      /\ \A i \in DOMAIN q : i = 1 \/ (i - 1 \in DOMAIN r /\ r[i - 1] = q[i])
  <2>1. \A i \in 1 .. Len(q) : i = 1 \/ (i - 1 \in 1 .. Len(q) - 1 /\ (i - 1) + 1 = i)
    BY <1>1
  <2>2. \A i \in 1 .. Len(q) - 1 : i + 1 \in 1 .. Len(q)
    BY <1>1
  <2>. QED
    BY <1>1, <2>1, <2>2
<1>3. \A kind, t : Has(q, kind, t) <=> Has(r, kind, t) \/ (f.kind = kind /\ f.turn = t)
  BY <1>1, <1>2 DEF Has
<1>4. ASSUME NEW kind, NEW t, NEW n
      PROVE  Holding(q, kind, t, n)
                <=> Holding(r, kind, t, n) \/ (f.kind = kind /\ f.turn = t /\ f.n = n)
  <2>1. ASSUME Holding(q, kind, t, n)
        PROVE  Holding(r, kind, t, n) \/ (f.kind = kind /\ f.turn = t /\ f.n = n)
    BY <1>1, <1>2, <2>1 DEF Holding
  <2>2. Holding(r, kind, t, n) => Holding(q, kind, t, n)
    BY <1>2 DEF Holding
  <2>3. f.kind = kind /\ f.turn = t /\ f.n = n => Holding(q, kind, t, n)
    BY <1>1, <1>2 DEF Holding
  <2>. QED
    BY <2>1, <2>2, <2>3
<1>5. ASSUME NEW i \in DOMAIN r
      PROVE  /\ \A j \in 1 .. i - 1 : j + 1 \in 1 .. (i + 1) - 1 /\ r[j] = q[j + 1]
             /\ \A j \in 1 .. (i + 1) - 1 : j = 1 \/ (j - 1 \in 1 .. i - 1 /\ r[j - 1] = q[j])
             /\ 1 \in 1 .. (i + 1) - 1
  <2>1. i \in 1 .. Len(q) - 1
    BY <1>1
  <2>2. \A j \in 1 .. i - 1 : j \in 1 .. Len(q) - 1 /\ j + 1 \in 1 .. (i + 1) - 1
    BY <1>1, <2>1
  <2>3. \A j \in 1 .. (i + 1) - 1 : j = 1 \/ (j - 1 \in 1 .. i - 1 /\ (j - 1) + 1 = j)
    BY <2>1
  <2>4. \A j \in 1 .. i - 1 : r[j] = q[j + 1]
    BY <1>1, <2>2
  <2>. QED
    BY <1>1, <2>1, <2>2, <2>3, <2>4
<1>6. \A i \in DOMAIN r : \A kind, t :
          HasBefore(q, i + 1, kind, t) <=> HasBefore(r, i, kind, t) \/ (f.kind = kind /\ f.turn = t)
  BY <1>1, <1>5 DEF HasBefore
<1>7. \A i \in DOMAIN r : \A kind, t, n :
          HoldingBefore(q, i + 1, kind, t, n)
              <=> HoldingBefore(r, i, kind, t, n) \/ (f.kind = kind /\ f.turn = t /\ f.n = n)
  BY <1>1, <1>5 DEF HoldingBefore
<1>8. (\A kind, t : ~HasBefore(q, 1, kind, t)) /\ \A kind, t, n : ~HoldingBefore(q, 1, kind, t, n)
  BY DEF HasBefore, HoldingBefore
<1>. QED
  BY <1>1, <1>2, <1>3, <1>4, <1>6, <1>7, <1>8 DEF r, f

-----------------------------------------------------------------------------
(* What the handlers put into the queues keeps them in order *)

LEMMA SoundFields ==
    ASSUME NEW s, NEW a, Sound(s, a)
    PROVE  /\ s \in Services /\ s.serial \in Seq(Items) /\ s.queue \in [Turns -> Seq(Items)]
           /\ s.open \subseteq Turns /\ s.owned \subseteq Turns /\ s.context \in SomeTurn
           /\ \A c \in Turns : s.queue[c] \in Seq(Items) /\ c \in SomeTurn /\ c # None
BY NoTurn DEF Sound, Services

LEMMA PutInOrder ==
    ASSUME NEW s, NEW o, NEW item \in Items, s.serial \in Seq(Items), SerialInOrder(s, o),
           NEW r, r.serial = Append(s.serial, item), s.open \subseteq r.open,
           item.kind \in {"start", "agg", "context", "end", "none"} \cup Uninterruptible,
           item.kind = "start" => \A t : ~Has(o, "start", t) /\ ~Has(s.serial, "start", t),
           item.kind \in {"agg", "context", "end"} =>
               Has(o, "start", item.turn) \/ Has(s.serial, "start", item.turn),
           item.kind \in {"agg", "context"} =>
               ~Has(o, "end", item.turn) /\ ~Has(s.serial, "end", item.turn),
           item.kind = "agg" => item.turn \in r.open /\ ~Has(s.serial, "context", item.turn)
    PROVE  SerialInOrder(r, o)
<1>1. ASSUME NEW i \in DOMAIN s.serial PROVE SerialItem(r.serial, i, o, r.open)
  <2>1. SerialItem(s.serial, i, o, s.open)
    BY DEF SerialInOrder
  <2>2. r.serial[i] = s.serial[i]
    BY BehindAll
  <2>3. \A kind, t : HasBefore(r.serial, i, kind, t) <=> HasBefore(s.serial, i, kind, t)
    BY BehindBefore
  <2>. QED
    BY <2>1, <2>2, <2>3 DEF SerialItem
<1>2. SerialItem(r.serial, Len(s.serial) + 1, o, r.open)
  <2>1. r.serial[Len(s.serial) + 1] = item
    BY BehindAll
  <2>2. \A kind, t : HasBefore(r.serial, Len(s.serial) + 1, kind, t) <=> Has(s.serial, kind, t)
    BY BehindBefore
  <2>. QED
    BY <2>1, <2>2 DEF SerialItem
<1>3. \A i \in DOMAIN r.serial : i \in DOMAIN s.serial \/ i = Len(s.serial) + 1
  BY BehindAll
<1>. QED
  BY <1>1, <1>2, <1>3 DEF SerialInOrder

\* What may join the open context c.
Joins(s, o, c, item) ==
    /\ item \in Items /\ item.kind \in SpokenKinds \cup {"close", "error"} /\ item.turn = c
    /\ item.kind = "played" => \/ Holding(s.queue[c], "agg", c, item.n)
                               \/ Holding(s.serial, "agg", c, item.n)
                               \/ Holding(o, "agg", c, item.n)
    /\ item.kind = "words" => \/ Holding(s.queue[c], "played", c, item.n)
                              \/ Holding(o, "played", c, item.n)

\* What has joined it in r, and what else has stayed.
Joined(s, c, item, r) ==
    /\ r.queue[c] = Append(s.queue[c], item) /\ \A d \in s.open \ {c} : r.queue[d] = s.queue[d]
    /\ r.open = s.open /\ r.owned = s.owned /\ r.serial = s.serial

\* An item joins a context that is open.
LEMMA JoinInOrder ==
    ASSUME NEW s \in Services, NEW o, QueuesInOrder(s, o), NEW c \in s.open, NEW item,
           Joins(s, o, c, item), NEW r, Joined(s, c, item, r)
    PROVE  QueuesInOrder(r, o)
<1>. USE DEF Joins, Joined
<1>1. s.queue \in [Turns -> Seq(Items)] /\ c \in Turns /\ s.open \subseteq Turns
  BY DEF Services
<1>2. s.queue[c] \in Seq(Items) /\ r.queue[c] = Append(s.queue[c], item)
      /\ \A d \in s.open \ {c} : r.queue[d] = s.queue[d]
  BY <1>1
<1>3. ASSUME NEW i \in DOMAIN s.queue[c] PROVE QueueItem(r.queue[c], i, c, r.serial, o)
  <2>1. QueueItem(s.queue[c], i, c, s.serial, o)
    BY DEF QueuesInOrder
  <2>2. r.queue[c][i] = s.queue[c][i]
    BY <1>2, BehindAll
  <2>3. \A kind, t, n :
            HoldingBefore(r.queue[c], i, kind, t, n) <=> HoldingBefore(s.queue[c], i, kind, t, n)
    BY <1>2, BehindBefore
  <2>. QED
    BY <2>1, <2>2, <2>3 DEF QueueItem
<1>4. QueueItem(r.queue[c], Len(s.queue[c]) + 1, c, r.serial, o)
  <2>1. r.queue[c][Len(s.queue[c]) + 1] = item
    BY <1>2, BehindAll
  <2>2. \A kind, t, n : HoldingBefore(r.queue[c], Len(s.queue[c]) + 1, kind, t, n)
            <=> Holding(s.queue[c], kind, t, n)
    BY <1>2, BehindBefore
  <2>. QED
    BY <2>1, <2>2 DEF QueueItem
<1>5. \A i \in DOMAIN r.queue[c] : i \in DOMAIN s.queue[c] \/ i = Len(s.queue[c]) + 1
  BY <1>2, BehindAll
<1>. QED
  BY <1>2, <1>3, <1>4, <1>5 DEF QueuesInOrder

\* A context is opened with its first item.
LEMMA OpenInOrder ==
    ASSUME NEW s \in Services, NEW o, QueuesInOrder(s, o), NEW c \in Turns, c \notin s.open,
           c \in s.owned, NEW item \in Items,
           item.kind \in (SpokenKinds \cup {"close", "error"}) \ {"played", "words"}, item.turn = c,
           NEW r, r.queue[c] = <<item>>, r.open = s.open \cup {c},
           \A d \in s.open : r.queue[d] = s.queue[d],
           r.owned = s.owned, r.serial \in Seq(Items),
           \A kind, t, n : Holding(s.serial, kind, t, n) => Holding(r.serial, kind, t, n)
    PROVE  QueuesInOrder(r, o)
<1>1. s.queue \in [Turns -> Seq(Items)] /\ s.open \subseteq Turns
  BY DEF Services
<1>2. r.queue[c] = <<item>> /\ \A d \in s.open : r.queue[d] = s.queue[d]
  BY <1>1
<1>3. ASSUME NEW i \in DOMAIN r.queue[c] PROVE QueueItem(r.queue[c], i, c, r.serial, o)
  <2>1. r.queue[c][i] = item
    BY <1>2
  <2>. QED
    BY <2>1 DEF QueueItem
<1>4. ASSUME NEW d \in s.open, NEW i \in DOMAIN r.queue[d]
      PROVE  QueueItem(r.queue[d], i, d, r.serial, o)
  <2>1. QueueItem(s.queue[d], i, d, s.serial, o)
    BY <1>2 DEF QueuesInOrder
  <2>. QED
    BY <1>2, <2>1 DEF QueueItem
<1>5. r.open \subseteq r.owned
  BY DEF QueuesInOrder
<1>. QED
  BY <1>3, <1>4, <1>5 DEF QueuesInOrder

\* What AppendTo makes of a context that is open, and of one it opens.
LEMMA JoinIs ==
    ASSUME NEW s \in Services, NEW c \in s.open, NEW item
    PROVE  LET r == AppendTo(s, c, item)
           IN  /\ r.queue = [s.queue EXCEPT ![c] = Append(@, item)]
               /\ r.open = s.open /\ r.serial = s.serial /\ r.context = s.context
               /\ r.owned = s.owned /\ r.response = s.response /\ r.remainder = s.remainder
<1>1. AppendTo(s, c, item) = [s EXCEPT !.queue[c] = Append(@, item)]
  BY DEF AppendTo
<1>. QED
  BY <1>1 DEF Services

LEMMA OpenIs ==
    ASSUME NEW s \in Services, s.context \notin s.open, NEW item
    PROVE  LET r == AppendTo(s, s.context, item)
           IN  /\ r.queue = [s.queue EXCEPT ![s.context] = <<item>>]
               /\ r.open = s.open \cup {s.context} /\ r.context = s.context
               /\ r.serial = Append(s.serial, Frame("context", s.context, 0))
               /\ r.owned = s.owned /\ r.response = s.response /\ r.remainder = s.remainder
<1>. DEFINE c == s.context
            q == [s EXCEPT !.serial = Append(@, Frame("context", c, 0))]
<1>1. /\ q.queue = s.queue /\ q.open = s.open /\ q.context = c /\ q.owned = s.owned
      /\ q.response = s.response /\ q.remainder = s.remainder
      /\ q.serial = Append(s.serial, Frame("context", c, 0)) /\ DOMAIN q = DOMAIN s
  BY DEF Services
<1>2. AppendTo(s, c, item) = [[q EXCEPT !.open = @ \cup {c}, !.queue[c] = <<>>] EXCEPT !.queue[c] = <<item>>]
  BY DEF AppendTo, Create, Put
<1>. HIDE DEF q
<1>3. DOMAIN s = {"response", "context", "remainder", "serial", "open", "queue", "owned"}
      /\ s.queue \in [Turns -> Seq(Items)]
  BY DEF Services
<1>. QED
  BY <1>1, <1>2, <1>3, SMTT(60)

LEMMA QueuesStay ==
    ASSUME NEW s, NEW o, QueuesInOrder(s, o), NEW r, r.queue = s.queue, r.open = s.open,
           s.open \subseteq r.owned,
           \A kind, t, n : Holding(s.serial, kind, t, n) => Holding(r.serial, kind, t, n)
    PROVE  QueuesInOrder(r, o)
<1>1. ASSUME NEW c \in r.open, NEW i \in DOMAIN r.queue[c]
      PROVE  QueueItem(r.queue[c], i, c, r.serial, o)
  <2>1. QueueItem(s.queue[c], i, c, s.serial, o)
    BY DEF QueuesInOrder
  <2>. QED
    BY <2>1 DEF QueueItem
<1>. QED
  BY <1>1 DEF QueuesInOrder

LEMMA JoinedInOrder ==
    ASSUME NEW s, NEW a, Sound(s, a), NEW o, QueuesInOrder(s, o), NEW c \in s.open, NEW item,
           Joins(s, o, c, item)
    PROVE  LET r == AppendTo(s, c, item)
           IN  /\ Sound(r, a) /\ QueuesInOrder(r, o) /\ r.open = s.open /\ r.serial = s.serial
               /\ r.context = s.context /\ r.response = s.response /\ r.owned = s.owned
               /\ \A kind, n : Holding(s.queue[c], kind, c, n) => Holding(r.queue[c], kind, c, n)
               /\ Holding(r.queue[c], item.kind, c, item.n)
<1>. DEFINE r == AppendTo(s, c, item)
<1>1. c \in Turns /\ item \in Items /\ s \in Services /\ s.queue[c] \in Seq(Items)
      /\ s.queue \in [Turns -> Seq(Items)]
  BY SoundFields DEF Joins
<1>2. /\ r.queue = [s.queue EXCEPT ![c] = Append(@, item)] /\ r.open = s.open /\ r.serial = s.serial
      /\ r.owned = s.owned /\ r.response = s.response /\ r.context = s.context
  BY <1>1, JoinIs
<1>3. Sound(r, a)
  BY <1>1, NoTurn, AppendToKeeps
<1>4. r.queue[c] = Append(s.queue[c], item) /\ \A d \in s.open \ {c} : r.queue[d] = s.queue[d]
  BY <1>1, <1>2, SoundFields
<1>. HIDE DEF r
<1>5. QueuesInOrder(r, o)
  <2>1. Joined(s, c, item, r)
    BY <1>2, <1>4 DEF Joined
  <2>. QED
    BY <1>1, <2>1, JoinInOrder
<1>7. \A kind, n : Holding(r.queue[c], kind, c, n)
          <=> Holding(s.queue[c], kind, c, n) \/ (item.kind = kind /\ item.turn = c /\ item.n = n)
  BY <1>1, <1>4, BehindAll
<1>8. item.turn = c
  BY DEF Joins
<1>. QED
  BY <1>2, <1>3, <1>5, <1>7, <1>8 DEF r

\* A context that is open takes more.
LEMMA JoinedInLine ==
    ASSUME NEW s, NEW o, NEW a, InLine(s, o, a), NEW c \in s.open, NEW item, Joins(s, o, c, item)
    PROVE  InLine(AppendTo(s, c, item), o, a)
<1>. DEFINE r == AppendTo(s, c, item)
<1>1. /\ Sound(r, a) /\ QueuesInOrder(r, o) /\ r.open = s.open /\ r.serial = s.serial
      /\ r.context = s.context /\ r.response = s.response /\ r.owned = s.owned
  BY JoinedInOrder DEF InLine
<1>. HIDE DEF r
<1>2. SerialInOrder(r, o) /\ ResponseInOrder(r, o) /\ PlayedInOrder(r, o, a)
  BY <1>1 DEF InLine, SerialInOrder, ResponseInOrder, PlayedInOrder
<1>. QED
  BY <1>1, <1>2 DEF InLine, r

\* A frame that is no part of a response stands between them.
LEMMA BetweenInLine ==
    ASSUME NEW s, NEW o, NEW a, InLine(s, o, a), NEW item \in Items, item.kind \in {"flush", "none"}
    PROVE  InLine(Put(s, item), o, a) /\ NoNewStarts(s, Put(s, item)) /\ Put(s, item).context = s.context
           /\ Put(s, item).open = s.open
<1>. DEFINE r == Put(s, item)
<1>1. Sound(r, a)
  BY PutKeeps DEF InLine
<1>2. s \in Services /\ s.serial \in Seq(Items) /\ Sound(s, a)
  BY SoundFields DEF InLine
<1>3. /\ r.serial = Append(s.serial, item) /\ r.queue = s.queue /\ r.context = s.context
      /\ r.open = s.open /\ r.response = s.response /\ r.owned = s.owned
  BY <1>2 DEF Put, Services
<1>. HIDE DEF r
<1>4. SerialInOrder(r, o)
  BY <1>2, <1>3, PutInOrder DEF InLine, Uninterruptible
<1>5. /\ \A kind, t : Has(r.serial, kind, t) <=> Has(s.serial, kind, t) \/ (item.kind = kind /\ item.turn = t)
      /\ \A kind, t, n : Holding(s.serial, kind, t, n) => Holding(r.serial, kind, t, n)
  BY <1>2, <1>3, BehindAll
<1>6. QueuesInOrder(r, o)
  BY <1>3, <1>5, QueuesStay DEF InLine, QueuesInOrder
<1>7. ResponseInOrder(r, o) /\ PlayedInOrder(r, o, a)
  BY <1>3, <1>5 DEF InLine, ResponseInOrder, PlayedInOrder
<1>. QED
  BY <1>1, <1>3, <1>4, <1>5, <1>6, <1>7 DEF InLine, NoNewStarts, r

\* A sentence is announced in its context, or in front of the context opened for it.
LEMMA AnnounceInLine ==
    ASSUME NEW s, NEW o, NEW a, InLine(s, o, a), s.context \in Turns, NEW n \in Nat
    PROVE  LET r == Announce(s, n)
           IN  /\ InLine(r, o, a) /\ NoNewStarts(s, r) /\ r.context = s.context /\ r.context \in r.open
               /\ \/ Holding(r.queue[r.context], "agg", r.context, n)
                  \/ Holding(r.serial, "agg", r.context, n)
<1>. DEFINE c == s.context
            agg == Frame("agg", c, n)
            started == Frame("started", c, 0)
            context == Frame("context", c, 0)
            r == Announce(s, n)
<1>1. /\ s \in Services /\ s.serial \in Seq(Items) /\ s.queue \in [Turns -> Seq(Items)]
      /\ c \in SomeTurn /\ c # None /\ Sound(s, a)
  BY SoundFields DEF InLine
<1>2. /\ agg \in Items /\ agg.kind = "agg" /\ agg.turn = c /\ agg.n = n
      /\ started \in Items /\ started.kind = "started" /\ started.turn = c
      /\ context \in Items /\ context.kind = "context" /\ context.turn = c
  BY <1>1 DEF Frame, Items, Kinds, SpokenKinds
<1>3. r = IF c \in s.open THEN AppendTo(s, c, agg) ELSE AppendTo(Put(s, agg), c, started)
  BY DEF Announce
<1>4. Sound(r, a)
  BY AnnounceKeeps DEF InLine
<1>. HIDE DEF agg, started, context, r
<1>5. CASE c \in s.open
  <2>1. Joins(s, o, c, agg)
    BY <1>2 DEF Joins, SpokenKinds
  <2>2. InLine(AppendTo(s, c, agg), o, a)
    BY <1>5, <2>1, JoinedInLine
  <2>3. /\ AppendTo(s, c, agg).open = s.open /\ AppendTo(s, c, agg).context = c
        /\ Holding(AppendTo(s, c, agg).queue[c], agg.kind, c, agg.n)
    BY <1>1, <1>5, <2>1, JoinedInOrder DEF InLine
  <2>. QED
    BY <1>1, <1>2, <1>3, <1>5, <2>1, <2>2, <2>3, JoinedInOrder DEF InLine, NoNewStarts, r
<1>6. CASE c \notin s.open
  <2>. DEFINE q == Put(s, agg)
              half == [serial |-> q.serial, open |-> s.open \cup {c}]
  <2>1. /\ q.serial = Append(s.serial, agg) /\ q.queue = s.queue /\ q.context = c
        /\ q.open = s.open /\ q.response = s.response /\ q.owned = s.owned
    BY <1>1 DEF Put, Services
  <2>2. Sound(q, a) /\ q \in Services
    BY <1>1, <1>2, PutKeeps DEF Sound
  <2>3. half.serial = q.serial /\ half.open = s.open \cup {c}
    OBVIOUS
  <2>. HIDE DEF q, half
  <2>4. /\ r.queue = [s.queue EXCEPT ![c] = <<started>>] /\ r.open = s.open \cup {c}
        /\ r.serial = Append(q.serial, context) /\ r.context = c
        /\ r.owned = s.owned /\ r.response = s.response
    <3>1. r = AppendTo(q, q.context, started) /\ q.context \notin q.open
      BY <1>3, <1>6, <2>1 DEF q
    <3>2. /\ r.queue = [q.queue EXCEPT ![q.context] = <<started>>]
          /\ r.open = q.open \cup {q.context} /\ r.context = q.context
          /\ r.serial = Append(q.serial, Frame("context", q.context, 0))
          /\ r.owned = q.owned /\ r.response = q.response
      BY <2>2, <3>1, OpenIs
    <3>. QED
      BY <2>1, <3>2 DEF context
  <2>5. r.queue[c] = <<started>> /\ \A d \in s.open : r.queue[d] = s.queue[d]
    BY <1>1, <1>6, <2>4, SoundFields
  <2>6. ~Has(s.serial, "context", c) /\ ~Has(s.serial, "agg", c)
    <3>1. ~Has(s.serial, "context", c)
      BY <1>1, <1>6 DEF Sound, Consistent, ContextsIn, Has
    <3>2. ~Has(s.serial, "agg", c)
      BY <1>6 DEF InLine, SerialInOrder, SerialItem, Has
    <3>. QED
      BY <3>1, <3>2
  <2>7. /\ s.context \in s.owned /\ s.response = s.context
        /\ Has(o, "start", c) \/ Has(s.serial, "start", c)
        /\ ~Has(o, "end", c) /\ ~Has(s.serial, "end", c)
    BY <1>1 DEF InLine, ResponseInOrder
  <2>8. q.serial \in Seq(Items) /\ r.serial \in Seq(Items)
    BY <1>1, <1>2, <2>1, <2>4
  <2>9. /\ \A kind, t : Has(q.serial, kind, t) <=> Has(s.serial, kind, t) \/ (agg.kind = kind /\ agg.turn = t)
        /\ \A kind, t, m : Holding(q.serial, kind, t, m)
              <=> Holding(s.serial, kind, t, m) \/ (agg.kind = kind /\ agg.turn = t /\ agg.n = m)
    BY <1>1, <1>2, <2>1, BehindAll
  <2>10. /\ \A kind, t : Has(r.serial, kind, t)
               <=> Has(q.serial, kind, t) \/ (context.kind = kind /\ context.turn = t)
         /\ \A kind, t, m : Holding(r.serial, kind, t, m)
               <=> Holding(q.serial, kind, t, m) \/ (context.kind = kind /\ context.turn = t /\ context.n = m)
    BY <1>2, <2>4, <2>8, BehindAll
  <2>11. SerialInOrder(half, o)
    <3>1. half.serial = Append(s.serial, agg) /\ s.open \subseteq half.open /\ agg.turn \in half.open
      BY <1>2, <2>1, <2>3
    <3>2. /\ Has(o, "start", agg.turn) \/ Has(s.serial, "start", agg.turn)
          /\ ~Has(o, "end", agg.turn) /\ ~Has(s.serial, "end", agg.turn)
          /\ ~Has(s.serial, "context", agg.turn)
      BY <1>2, <2>6, <2>7
    <3>. QED
      BY <1>1, <1>2, <3>1, <3>2, PutInOrder DEF InLine
  <2>12. SerialInOrder(r, o)
    <3>1. r.serial = Append(half.serial, context) /\ half.open \subseteq r.open /\ half.serial \in Seq(Items)
      BY <2>3, <2>4, <2>8
    <3>2. /\ Has(o, "start", context.turn) \/ Has(half.serial, "start", context.turn)
          /\ ~Has(o, "end", context.turn) /\ ~Has(half.serial, "end", context.turn)
      BY <1>2, <2>3, <2>7, <2>9
    <3>. QED
      BY <1>2, <2>11, <3>1, <3>2, PutInOrder
  <2>13. QueuesInOrder(r, o)
    <3>1. started.kind \in (SpokenKinds \cup {"close", "error"}) \ {"played", "words"}
      BY <1>2 DEF SpokenKinds
    <3>2. \A kind, t, m : Holding(s.serial, kind, t, m) => Holding(r.serial, kind, t, m)
      BY <2>9, <2>10
    <3>. QED
      BY <1>1, <1>2, <1>6, <2>4, <2>5, <2>7, <2>8, <3>1, <3>2, OpenInOrder DEF InLine
  <2>14. ResponseInOrder(r, o)
    BY <1>2, <2>4, <2>5, <2>7, <2>9, <2>10 DEF ResponseInOrder
  <2>15. PlayedInOrder(r, o, a)
    <3>1. a # None => a \in s.open
      BY <1>1 DEF Sound, Consistent
    <3>2. a # None => ~Has(r.serial, "agg", a)
      BY <1>2, <1>6, <2>9, <2>10, <3>1 DEF InLine, PlayedInOrder
    <3>. QED
      BY <3>2 DEF InLine, PlayedInOrder
  <2>16. Holding(r.serial, "agg", c, n)
    BY <1>2, <2>9, <2>10
  <2>. QED
    BY <1>2, <1>4, <2>4, <2>9, <2>10, <2>12, <2>13, <2>14, <2>15, <2>16 DEF InLine, NoNewStarts, r
<1>. QED
  BY <1>5, <1>6

\* The end of a response stands behind its context, which takes nothing more.
LEMMA EndResponseInLine ==
    ASSUME NEW s, NEW o, NEW a, InLine(s, o, a), s.context \in Turns
    PROVE  /\ InLine(EndResponse(s), o, a) /\ EndResponse(s).context = None
           /\ NoNewStarts(s, EndResponse(s))
<1>. DEFINE c == s.context
            item == Frame("end", s.response, 0)
            stopped == Frame("stopped", c, 0)
            close == Frame("close", c, 0)
            q == Put(s, item)
            once == AppendTo(q, c, stopped)
            closed == AppendTo(once, c, close)
            rest == IF c \in s.open THEN closed ELSE q
            ended == [[rest EXCEPT !.context = None] EXCEPT !.response = None]
            r == EndResponse(s)
<1>1. /\ s \in Services /\ s.serial \in Seq(Items) /\ Sound(s, a) /\ c \in Turns /\ c \in SomeTurn
      /\ c # None /\ s.response = c /\ c \in s.owned
      /\ Has(o, "start", c) \/ Has(s.serial, "start", c)
      /\ ~Has(o, "end", c) /\ ~Has(s.serial, "end", c)
  BY SoundFields DEF InLine, ResponseInOrder
<1>2. /\ item \in Items /\ item.kind = "end" /\ item.turn = c
      /\ stopped \in Items /\ stopped.kind = "stopped" /\ stopped.turn = c
      /\ close \in Items /\ close.kind = "close" /\ close.turn = c
  BY <1>1 DEF Frame, Items, Kinds, FrameKinds, SpokenKinds
<1>3. /\ q.serial = Append(s.serial, item) /\ q.queue = s.queue /\ q.context = c
      /\ q.open = s.open /\ q.response = s.response /\ q.owned = s.owned
  BY <1>1 DEF Put, Services
<1>4. Sound(q, a)
  BY <1>1, <1>2, PutKeeps
<1>5. r = IF c \in ended.open THEN ended ELSE [ended EXCEPT !.owned = @ \ {c}]
  BY <1>3 DEF EndResponse, Complete
<1>6. Sound(r, a)
  BY <1>1, EndResponseKeeps
<1>. HIDE DEF item, stopped, close, q, r
<1>7. SerialInOrder(q, o)
  BY <1>1, <1>2, <1>3, PutInOrder DEF InLine
<1>8. /\ \A kind, t : Has(q.serial, kind, t) <=> Has(s.serial, kind, t) \/ (item.kind = kind /\ item.turn = t)
      /\ \A kind, t, n : Holding(s.serial, kind, t, n) => Holding(q.serial, kind, t, n)
  BY <1>1, <1>2, <1>3, BehindAll
<1>9. QueuesInOrder(q, o)
  BY <1>3, <1>8, QueuesStay DEF InLine, QueuesInOrder
<1>10. /\ Sound(rest, a) /\ QueuesInOrder(rest, o) /\ rest.open = s.open /\ rest.serial = q.serial
       /\ rest.owned = s.owned
  <2>1. CASE c \in s.open
    <3>1. Joins(q, o, c, stopped)
      BY <1>2 DEF Joins, SpokenKinds
    <3>2. /\ Sound(once, a) /\ QueuesInOrder(once, o) /\ once.open = s.open /\ once.serial = q.serial
          /\ once.owned = s.owned
      BY <1>3, <1>4, <1>9, <2>1, <3>1, JoinedInOrder
    <3>. HIDE DEF once
    <3>3. Joins(once, o, c, close)
      BY <1>2 DEF Joins
    <3>4. /\ Sound(closed, a) /\ QueuesInOrder(closed, o) /\ closed.open = s.open
          /\ closed.serial = q.serial /\ closed.owned = s.owned
      BY <2>1, <3>2, <3>3, JoinedInOrder
    <3>. HIDE DEF closed
    <3>. QED
      BY <2>1, <3>4
  <2>2. CASE c \notin s.open
    BY <1>3, <1>4, <1>9, <2>2
  <2>. QED
    BY <2>1, <2>2
<1>. HIDE DEF rest
<1>11. /\ ended.open = s.open /\ ended.serial = q.serial /\ ended.owned = s.owned
       /\ ended.queue = rest.queue /\ ended.context = None /\ ended.response = None
       /\ ended \in Services
  BY <1>10, NoTurn DEF Sound, Services
<1>. HIDE DEF ended
<1>12. /\ r.open = s.open /\ r.serial = q.serial /\ r.queue = rest.queue
       /\ r.context = None /\ r.response = None /\ r.open \subseteq r.owned
  <2>1. CASE c \in s.open
    BY <1>5, <1>10, <1>11, <2>1 DEF QueuesInOrder
  <2>2. CASE c \notin s.open
    <3>1. r = [ended EXCEPT !.owned = @ \ {c}]
      BY <1>5, <1>11, <2>2
    <3>2. /\ r.open = s.open /\ r.serial = q.serial /\ r.queue = rest.queue
          /\ r.context = None /\ r.response = None /\ r.owned = s.owned \ {c}
      BY <1>11, <3>1 DEF Services
    <3>. QED
      BY <1>10, <2>2, <3>2 DEF QueuesInOrder
  <2>. QED
    BY <2>1, <2>2
<1>13. QueuesInOrder(r, o)
  BY <1>10, <1>12, QueuesStay
<1>14. SerialInOrder(r, o)
  BY <1>3, <1>7, <1>12 DEF SerialInOrder
<1>15. ResponseInOrder(r, o)
  BY <1>12 DEF ResponseInOrder
<1>16. PlayedInOrder(r, o, a)
  BY <1>2, <1>8, <1>12 DEF InLine, PlayedInOrder
<1>. QED
  BY <1>2, <1>6, <1>8, <1>12, <1>13, <1>14, <1>15, <1>16 DEF InLine, NoNewStarts, r

\* A response is taken up when no other is left in the queue or in the output.
LEMMA BeginInLine ==
    ASSUME NEW s, NEW o, NEW a, InLine(s, o, a), NEW f \in Items, f.kind = "start", f.turn \in Turns,
           \A t : ~Has(o, "start", t) /\ ~Has(s.serial, "start", t), ~Has(o, "end", f.turn)
    PROVE  LET r == [Put(s, f) EXCEPT !.response = f.turn, !.context = f.turn,
                                      !.owned = @ \cup {f.turn}]
           IN  InLine(r, o, a) /\ \A t : StartedIn(r, o, t) => t = f.turn
<1>. DEFINE t == f.turn
            r == [Put(s, f) EXCEPT !.response = t, !.context = t, !.owned = @ \cup {t}]
<1>1. s \in Services /\ s.serial \in Seq(Items) /\ Sound(s, a) /\ t \in SomeTurn /\ t # None
  BY NoTurn, SoundFields DEF InLine
<1>2. Sound(Put(s, f), a)
  BY <1>1, PutKeeps
<1>3. /\ Put(s, f).serial = Append(s.serial, f) /\ Put(s, f).queue = s.queue
      /\ Put(s, f).open = s.open /\ Put(s, f).owned = s.owned /\ Put(s, f) \in Services
  BY <1>1, <1>2 DEF Put, Services, Sound
<1>4. /\ r.serial = Append(s.serial, f) /\ r.queue = s.queue /\ r.open = s.open
      /\ r.owned = s.owned \cup {t} /\ r.context = t /\ r.response = t /\ r \in Services
  <2>. HIDE DEF Put
  <2>. QED
    BY <1>1, <1>3 DEF Services
<1>5. Sound(r, a)
  BY <1>2, <1>3, <1>4, OtherFields
<1>. HIDE DEF r, t
<1>6. ~Has(s.serial, "end", t)
  <2>1. \A i \in DOMAIN s.serial : \A j \in 1 .. i - 1 : j \in DOMAIN s.serial
    BY <1>1
  <2>2. \A i \in DOMAIN s.serial : \A u : ~HasBefore(s.serial, i, "start", u)
    BY <2>1 DEF HasBefore, Has
  <2>. QED
    BY <2>2 DEF InLine, SerialInOrder, SerialItem, Has
<1>7. /\ \A kind, u : Has(r.serial, kind, u) <=> Has(s.serial, kind, u) \/ (f.kind = kind /\ f.turn = u)
      /\ \A kind, u, n : Holding(s.serial, kind, u, n) => Holding(r.serial, kind, u, n)
  BY <1>1, <1>4, BehindAll
<1>8. SerialInOrder(r, o)
  BY <1>1, <1>4, PutInOrder DEF InLine
<1>9. QueuesInOrder(r, o)
  <2>1. s.open \subseteq r.owned
    BY <1>4 DEF InLine, QueuesInOrder
  <2>. QED
    BY <1>4, <1>7, <2>1, QueuesStay DEF InLine
<1>10. ResponseInOrder(r, o)
  BY <1>4, <1>6, <1>7 DEF ResponseInOrder, t
<1>11. PlayedInOrder(r, o, a)
  BY <1>7 DEF InLine, PlayedInOrder
<1>. QED
  BY <1>5, <1>7, <1>8, <1>9, <1>10, <1>11 DEF InLine, StartedIn, r, t

\* What is heard of a sentence joins its context, unless all contexts are gone.
LEMMA SpokenInLine ==
    ASSUME NEW o, NEW a, InLine(tts, o, a), NEW c \in Turns, NEW n \in Nat, NEW ok \in BOOLEAN,
           \/ /\ c \in tts.open
              /\ \/ Holding(tts.queue[c], "agg", c, n) \/ Holding(tts.serial, "agg", c, n)
                 \/ Holding(o, "agg", c, n)
           \/ tts.context = None /\ tts.open = {}
    PROVE  LET r == Spoken(c, n, ok)
           IN  /\ InLine(r, o, a) /\ r.context = tts.context /\ r.open = tts.open
               /\ r.serial = tts.serial
<1>. DEFINE played == Frame("played", c, n)
            words == Frame("words", c, n)
            error == Frame("error", c, n)
            once == AppendTo(tts, c, played)
<1>1. /\ played \in Items /\ played.kind = "played" /\ played.turn = c /\ played.n = n
      /\ words \in Items /\ words.kind = "words" /\ words.turn = c /\ words.n = n
      /\ error \in Items /\ error.kind = "error" /\ error.turn = c
  BY NoTurn DEF Frame, Items, Kinds, SpokenKinds
<1>2. Spoken(c, n, ok) = IF ok THEN AppendTo(once, c, words) ELSE AppendTo(tts, c, error)
  BY DEF Spoken
<1>3. Sound(tts, a)
  BY DEF InLine
<1>. HIDE DEF played, words, error
<1>4. CASE c \in tts.open
  <2>1. Joins(tts, o, c, error)
    BY <1>1 DEF Joins
  <2>2. InLine(AppendTo(tts, c, error), o, a) /\ AppendTo(tts, c, error).context = tts.context
        /\ AppendTo(tts, c, error).open = tts.open /\ AppendTo(tts, c, error).serial = tts.serial
    BY <1>3, <1>4, <2>1, JoinedInLine, JoinedInOrder DEF InLine
  <2>3. Joins(tts, o, c, played)
    BY <1>1, <1>4 DEF Joins, SpokenKinds
  <2>4. /\ InLine(once, o, a) /\ once.context = tts.context /\ once.open = tts.open
        /\ Holding(once.queue[c], "played", c, n) /\ once.serial = tts.serial
    BY <1>1, <1>3, <1>4, <2>3, JoinedInLine, JoinedInOrder DEF InLine
  <2>. HIDE DEF once
  <2>5. Joins(once, o, c, words)
    BY <1>1, <2>4 DEF Joins, SpokenKinds
  <2>6. InLine(AppendTo(once, c, words), o, a) /\ AppendTo(once, c, words).context = once.context
        /\ AppendTo(once, c, words).open = once.open /\ AppendTo(once, c, words).serial = once.serial
    BY <1>4, <2>4, <2>5, JoinedInLine, JoinedInOrder DEF InLine
  <2>. QED
    BY <1>2, <2>2, <2>4, <2>6
<1>5. CASE tts.context = None /\ tts.open = {}
  <2>1. \A item : AppendTo(tts, c, item) = tts
    BY <1>5, NoTurn DEF AppendTo
  <2>2. Spoken(c, n, ok) = tts
    BY <1>2, <2>1
  <2>. QED
    BY <2>2
<1>. QED
  BY <1>4, <1>5

\* The service ends when nothing is open.
LEMMA FinishInLine ==
    ASSUME NEW s, NEW o, NEW a, InLine(s, o, a), s.context = None, s.open = {}
    PROVE  LET r == [Complete(s) EXCEPT !.response = None, !.owned = {}]
           IN  InLine(r, o, a) /\ r.context = None /\ r.open = {} /\ r.serial = s.serial
<1>. DEFINE r == [Complete(s) EXCEPT !.response = None, !.owned = {}]
<1>1. s \in Services /\ Sound(s, a)
  BY SoundFields DEF InLine
<1>2. Complete(s) = [s EXCEPT !.context = None]
  BY DEF Complete
<1>3. /\ r.serial = s.serial /\ r.queue = s.queue /\ r.open = s.open /\ r.context = None
      /\ r.response = None /\ r \in Services
  BY <1>1, <1>2, NoTurn DEF Services
<1>. HIDE DEF r
<1>4. Sound(r, a)
  BY <1>1, <1>3, OtherFields
<1>5. SerialInOrder(r, o) /\ ResponseInOrder(r, o) /\ PlayedInOrder(r, o, a)
  BY <1>3 DEF InLine, SerialInOrder, ResponseInOrder, PlayedInOrder
<1>6. QueuesInOrder(r, o)
  BY <1>3 DEF QueuesInOrder
<1>. QED
  BY <1>3, <1>4, <1>5, <1>6 DEF InLine, r

-----------------------------------------------------------------------------
(* What is emitted *)

\* An item may follow the output o.
Follows(o, x) ==
    /\ x \in Items
    /\ x.kind \in SpokenKinds \cup {"end"} => Has(o, "start", x.turn)
    /\ x.kind \in SpokenKinds => ~Has(o, "end", x.turn)
    /\ x.kind = "words" => Holding(o, "played", x.turn, x.n)
    /\ x.kind = "played" => Holding(o, "agg", x.turn, x.n)
    /\ x.kind = "start" => \A t : ~Has(o, "start", t)

\* OutputInOrder place by place, of any output.
OutputItem(o, i) ==
    /\ o[i].kind \in SpokenKinds \cup {"end"} => HasBefore(o, i, "start", o[i].turn)
    /\ o[i].kind \in SpokenKinds => ~HasBefore(o, i, "end", o[i].turn)
    /\ o[i].kind = "words" => HoldingBefore(o, i, "played", o[i].turn, o[i].n)
    /\ o[i].kind = "played" => HoldingBefore(o, i, "agg", o[i].turn, o[i].n)
    /\ o[i].kind = "start" => \A t : ~HasBefore(o, i, "start", t)

Places(o, kind, t) == {i \in DOMAIN o : o[i].kind = kind /\ o[i].turn = t}
Ordered(o) ==
    \A i \in DOMAIN o :
        /\ o[i].kind \in SpokenKinds \cup {"end"} => Before(Places(o, "start", o[i].turn), i)
        /\ o[i].kind \in SpokenKinds => ~Before(Places(o, "end", o[i].turn), i)
        /\ o[i].kind = "words" =>
               Before({j \in Places(o, "played", o[i].turn) : o[j].n = o[i].n}, i)
        /\ o[i].kind = "played" =>
               Before({j \in Places(o, "agg", o[i].turn) : o[j].n = o[i].n}, i)
        /\ o[i].kind = "start" => \A j \in DOMAIN o : o[j].kind = "start" => j = i

LEMMA OrderedNow == (OutputInOrder <=> Ordered(out)) /\ (OutputInOrder' <=> Ordered(out'))
<1>1. OutputInOrder <=> Ordered(out)
  BY DEF OutputInOrder, Ordered, Where, Of, Places
<1>2. OutputInOrder' <=> Ordered(out')
  BY DEF OutputInOrder, Ordered, Where, Of, Places
<1>. QED
  BY <1>1, <1>2

LEMMA OrderedItems ==
    ASSUME NEW o \in Seq(Items) PROVE Ordered(o) <=> \A i \in DOMAIN o : OutputItem(o, i)
<1>1. DOMAIN o = 1 .. Len(o) /\ Len(o) \in Nat
  OBVIOUS
<1>2. ASSUME NEW i \in DOMAIN o
      PROVE  /\ \A j \in DOMAIN o : j < i <=> j \in 1 .. i - 1
             /\ \A j \in 1 .. i - 1 : j \in DOMAIN o
  BY <1>1
<1>3. ASSUME NEW i \in DOMAIN o, NEW kind, NEW t
      PROVE  Before(Places(o, kind, t), i) <=> HasBefore(o, i, kind, t)
  BY <1>2 DEF Before, Places, HasBefore
<1>4. ASSUME NEW i \in DOMAIN o, NEW kind, NEW t, NEW n
      PROVE  Before({j \in Places(o, kind, t) : o[j].n = n}, i) <=> HoldingBefore(o, i, kind, t, n)
  BY <1>2 DEF Before, Places, HoldingBefore
<1>5. ASSUME \A i \in DOMAIN o : o[i].kind = "start" => \A j \in DOMAIN o : o[j].kind = "start" => j = i,
             NEW i \in DOMAIN o, o[i].kind = "start", NEW t
      PROVE  ~HasBefore(o, i, "start", t)
  <2>1. \A j \in 1 .. i - 1 : j \in DOMAIN o /\ j # i
    BY <1>1, <1>2
  <2>. QED
    BY <1>5, <2>1 DEF HasBefore
<1>6. ASSUME \A i \in DOMAIN o : o[i].kind = "start" => \A t : ~HasBefore(o, i, "start", t),
             NEW i \in DOMAIN o, o[i].kind = "start", NEW j \in DOMAIN o, o[j].kind = "start"
      PROVE  j = i
  <2>1. j \notin 1 .. i - 1 /\ i \notin 1 .. j - 1
    BY <1>6 DEF HasBefore
  <2>. QED
    BY <1>1, <2>1
<1>7. ASSUME Ordered(o), NEW i \in DOMAIN o PROVE OutputItem(o, i)
  <2>1. o[i].kind = "start" => \A t : ~HasBefore(o, i, "start", t)
    BY <1>5, <1>7 DEF Ordered
  <2>. QED
    BY <1>3, <1>4, <1>7, <2>1 DEF Ordered, OutputItem
<1>8. ASSUME \A i \in DOMAIN o : OutputItem(o, i) PROVE Ordered(o)
  <2>1. \A i \in DOMAIN o : o[i].kind = "start" => \A j \in DOMAIN o : o[j].kind = "start" => j = i
    BY <1>6, <1>8 DEF OutputItem
  <2>. QED
    BY <1>3, <1>4, <1>8, <2>1 DEF Ordered, OutputItem
<1>. QED
  BY <1>7, <1>8

LEMMA EmittedInOrder ==
    ASSUME out \in Seq(Items), OutputInOrder, NEW x, Follows(out, x), out' = Append(out, x)
    PROVE  OutputInOrder' /\ out' \in Seq(Items)
<1>1. x \in Items /\ out' \in Seq(Items)
  BY DEF Follows
<1>2. ASSUME NEW i \in DOMAIN out PROVE OutputItem(out', i)
  <2>1. out'[i] = out[i] /\ OutputItem(out, i)
    BY <1>1, BehindAll, OrderedNow, OrderedItems
  <2>2. /\ \A kind, t : HasBefore(out', i, kind, t) <=> HasBefore(out, i, kind, t)
        /\ \A kind, t, n : HoldingBefore(out', i, kind, t, n) <=> HoldingBefore(out, i, kind, t, n)
    BY <1>1, BehindBefore
  <2>. QED
    BY <2>1, <2>2 DEF OutputItem
<1>3. OutputItem(out', Len(out) + 1)
  <2>1. out'[Len(out) + 1] = x
    BY <1>1, BehindAll
  <2>2. /\ \A kind, t : HasBefore(out', Len(out) + 1, kind, t) <=> Has(out, kind, t)
        /\ \A kind, t, n : HoldingBefore(out', Len(out) + 1, kind, t, n) <=> Holding(out, kind, t, n)
    BY <1>1, BehindBefore
  <2>. QED
    BY <2>1, <2>2 DEF OutputItem, Follows
<1>4. \A i \in DOMAIN out' : i \in DOMAIN out \/ i = Len(out) + 1
  BY <1>1, BehindAll
<1>. QED
  BY <1>1, <1>2, <1>3, <1>4, OrderedNow, OrderedItems

\* What is emitted and ends no response keeps the rest in line.
LEMMA EmittedInLine ==
    ASSUME NEW s, NEW o, NEW a, InLine(s, o, a), NEW x \in Items, x.kind \notin {"start", "end"}
    PROVE  InLine(s, Append(o, x), a)
<1>. DEFINE p == Append(o, x)
<1>1. /\ p \in Seq(Items)
      /\ \A kind, t : Has(p, kind, t) <=> Has(o, kind, t) \/ (x.kind = kind /\ x.turn = t)
      /\ \A kind, t, n : Holding(o, kind, t, n) => Holding(p, kind, t, n)
  BY BehindAll DEF InLine
<1>. HIDE DEF p
<1>2. SerialInOrder(s, p)
  BY <1>1 DEF InLine, SerialInOrder, SerialItem
<1>3. QueuesInOrder(s, p)
  BY <1>1 DEF InLine, QueuesInOrder, QueueItem
<1>4. ResponseInOrder(s, p) /\ PlayedInOrder(s, p, a)
  BY <1>1 DEF InLine, ResponseInOrder, PlayedInOrder
<1>. QED
  BY <1>1, <1>2, <1>3, <1>4 DEF InLine, p

\* What the audio task takes from the serialization queue s.serial becomes the output p.
Serves(s, o, r, p) ==
    /\ s.serial # <<>> /\ r.serial = Tail(s.serial)
    /\ p = IF Head(s.serial).kind \in {"context", "none", "flush", "call"} THEN o
           ELSE Append(o, Head(s.serial))
    /\ r.queue = s.queue /\ r.open = s.open /\ r.owned = s.owned
    /\ r.context = s.context /\ r.response = s.response

LEMMA ServedPlaces ==
    ASSUME NEW s, s.serial \in Seq(Items), NEW o \in Seq(Items), NEW r, NEW p, Serves(s, o, r, p)
    PROVE  LET x == Head(s.serial)
           IN  /\ p \in Seq(Items) /\ x \in Items /\ 1 \in DOMAIN s.serial /\ s.serial[1] = x
               /\ \A kind \in {"start", "agg", "end"} : \A t :
                      Has(p, kind, t) <=> Has(o, kind, t) \/ (x.kind = kind /\ x.turn = t)
               /\ \A kind \in {"agg", "played"} : \A t, n : Holding(p, kind, t, n)
                      <=> Holding(o, kind, t, n) \/ (x.kind = kind /\ x.turn = t /\ x.n = n)

<1>. DEFINE x == Head(s.serial)
<1>1. x \in Items /\ 1 \in DOMAIN s.serial /\ s.serial[1] = x
  BY InFront DEF Serves
<1>. HIDE DEF x
<1>2. p = IF x.kind \in {"context", "none", "flush", "call"} THEN o ELSE Append(o, x)
  BY DEF Serves, x
<1>3. CASE x.kind \in {"context", "none", "flush", "call"}
  BY <1>1, <1>2, <1>3 DEF x
<1>4. CASE x.kind \notin {"context", "none", "flush", "call"}
  <2>1. p = Append(o, x)
    BY <1>2, <1>4
  <2>2. /\ p \in Seq(Items)
        /\ \A kind, t : Has(p, kind, t) <=> Has(o, kind, t) \/ (x.kind = kind /\ x.turn = t)
        /\ \A kind, t, n : Holding(p, kind, t, n)
              <=> Holding(o, kind, t, n) \/ (x.kind = kind /\ x.turn = t /\ x.n = n)
    BY <1>1, <2>1, BehindAll
  <2>. QED
    BY <1>1, <2>2 DEF x
<1>. QED
  BY <1>3, <1>4

\* The queue of the service moves up, and what leads it may be emitted.
LEMMA ServedInOrder ==
    ASSUME NEW s, NEW o, NEW a, InLine(s, o, a), NEW r, NEW p, Serves(s, o, r, p)
    PROVE  /\ SerialInOrder(r, p) /\ QueuesInOrder(r, p) /\ ResponseInOrder(r, p) /\ p \in Seq(Items)
           /\ \A t : StartedIn(r, p, t) <=> StartedIn(s, o, t)
           /\ \A t, n : Holding(s.serial, "agg", t, n) \/ Holding(o, "agg", t, n)
                  => Holding(r.serial, "agg", t, n) \/ Holding(p, "agg", t, n)
           /\ Head(s.serial).kind \notin {"context", "none", "flush", "call"} => Follows(o, Head(s.serial))
           /\ Head(s.serial).kind = "context" => PlayedInOrder(r, p, Head(s.serial).turn)
<1>. DEFINE x == Head(s.serial)
<1>1. s.serial \in Seq(Items) /\ o \in Seq(Items) /\ Sound(s, a)
  BY SoundFields DEF InLine
<1>2. /\ p \in Seq(Items) /\ x \in Items /\ 1 \in DOMAIN s.serial /\ s.serial[1] = x
      /\ \A kind \in {"start", "agg", "end"} : \A t :
             Has(p, kind, t) <=> Has(o, kind, t) \/ (x.kind = kind /\ x.turn = t)
      /\ \A kind \in {"agg", "played"} : \A t, n : Holding(p, kind, t, n)
             <=> Holding(o, kind, t, n) \/ (x.kind = kind /\ x.turn = t /\ x.n = n)
  BY <1>1, ServedPlaces
<1>3. /\ \A i \in DOMAIN r.serial : i + 1 \in DOMAIN s.serial /\ r.serial[i] = s.serial[i + 1]
      /\ \A kind, t : Has(s.serial, kind, t) <=> Has(r.serial, kind, t) \/ (x.kind = kind /\ x.turn = t)
      /\ \A kind, t, n : Holding(s.serial, kind, t, n)
            <=> Holding(r.serial, kind, t, n) \/ (x.kind = kind /\ x.turn = t /\ x.n = n)
      /\ \A i \in DOMAIN r.serial : \A kind, t : HasBefore(s.serial, i + 1, kind, t)
            <=> HasBefore(r.serial, i, kind, t) \/ (x.kind = kind /\ x.turn = t)
      /\ \A kind, t : ~HasBefore(s.serial, 1, kind, t)
  BY <1>1, InFront DEF Serves
<1>4. r.queue = s.queue /\ r.open = s.open /\ r.owned = s.owned /\ r.context = s.context
      /\ r.response = s.response
  BY DEF Serves
<1>5. SerialItem(s.serial, 1, o, s.open)
  BY <1>2 DEF InLine, SerialInOrder
<1>6. x.kind \notin {"context", "none", "flush", "call"} => Follows(o, x)
  <2>1. /\ x.kind \in {"start", "agg", "context", "end", "none"} \cup Uninterruptible
        /\ x.kind = "start" => \A t : ~Has(o, "start", t)
        /\ x.kind \in {"agg", "end"} => Has(o, "start", x.turn)
        /\ x.kind = "agg" => ~Has(o, "end", x.turn)
    BY <1>2, <1>3, <1>5 DEF SerialItem
  <2>. QED
    BY <1>2, <2>1 DEF Follows, SpokenKinds, Uninterruptible
<1>7. x.kind = "context" => PlayedInOrder(r, p, x.turn)
  <2>. SUFFICES ASSUME x.kind = "context" PROVE PlayedInOrder(r, p, x.turn)
    OBVIOUS
  <2>1. Has(o, "start", x.turn) /\ ~Has(o, "end", x.turn)
    BY <1>2, <1>3, <1>5 DEF SerialItem
  <2>2. ASSUME NEW i \in DOMAIN r.serial, r.serial[i].kind = "agg", r.serial[i].turn = x.turn PROVE FALSE
    <3>1. SerialItem(s.serial, i + 1, o, s.open) /\ HasBefore(s.serial, i + 1, "context", x.turn)
      BY <1>3 DEF InLine, SerialInOrder
    <3>. QED
      BY <1>3, <2>2, <3>1 DEF SerialItem
  <2>3. ~Has(r.serial, "agg", x.turn)
    BY <2>2 DEF Has
  <2>4. Has(p, "start", x.turn) /\ ~Has(p, "end", x.turn)
    BY <1>2, <2>1
  <2>. QED
    BY <2>3, <2>4 DEF PlayedInOrder
<1>. HIDE DEF x
<1>8. SerialInOrder(r, p)
  <2>. SUFFICES ASSUME NEW i \in DOMAIN r.serial PROVE SerialItem(r.serial, i, p, r.open)
    BY DEF SerialInOrder
  <2>1. SerialItem(s.serial, i + 1, o, s.open)
    BY <1>3 DEF InLine, SerialInOrder
  <2>2. \A kind \in {"start", "end"} : \A t :
            Has(p, kind, t) \/ HasBefore(r.serial, i, kind, t)
                <=> Has(o, kind, t) \/ HasBefore(s.serial, i + 1, kind, t)
    BY <1>2, <1>3
  <2>3. \A t : HasBefore(r.serial, i, "context", t) => HasBefore(s.serial, i + 1, "context", t)
    BY <1>3
  <2>4. r.serial[i] = s.serial[i + 1] /\ r.open = s.open
    BY <1>3, <1>4
  <2>. QED
    BY <2>1, <2>2, <2>3, <2>4 DEF SerialItem
<1>9. QueuesInOrder(r, p)
  <2>. SUFFICES ASSUME NEW c \in s.open, NEW i \in DOMAIN s.queue[c]
                PROVE  QueueItem(s.queue[c], i, c, r.serial, p)
    BY <1>4 DEF QueuesInOrder, InLine
  <2>1. QueueItem(s.queue[c], i, c, s.serial, o)
    BY DEF InLine, QueuesInOrder
  <2>. QED
    BY <1>2, <1>3, <2>1 DEF QueueItem
<1>10. ResponseInOrder(r, p)
  BY <1>2, <1>3, <1>4 DEF InLine, ResponseInOrder
<1>11. /\ \A t : StartedIn(r, p, t) <=> StartedIn(s, o, t)
       /\ \A t, n : Holding(s.serial, "agg", t, n) \/ Holding(o, "agg", t, n)
              => Holding(r.serial, "agg", t, n) \/ Holding(p, "agg", t, n)
  BY <1>2, <1>3 DEF StartedIn
<1>. QED
  BY <1>2, <1>6, <1>7, <1>8, <1>9, <1>10, <1>11 DEF x

\* What the audio task takes from the queue of the context c, the output being p then.
Plays(s, o, c, r, p) ==
    /\ s.queue[c] # <<>> /\ r.queue[c] = Tail(s.queue[c])
    /\ \A d \in s.open \ {c} : r.queue[d] = s.queue[d]
    /\ r.serial = s.serial /\ r.context = s.context /\ r.response = s.response
    /\ IF Head(s.queue[c]).kind = "close"
       THEN /\ r.open = s.open \ {c} /\ r.owned = s.owned \ {c}
            /\ p = o \/ p = Append(o, Frame("stopped", c, 0))
       ELSE /\ r.open = s.open /\ r.owned = s.owned
            /\ p = IF Head(s.queue[c]).kind = "error" THEN o ELSE Append(o, Head(s.queue[c]))

\* What may be played next is in order behind what was emitted.
LEMMA NextFollows ==
    ASSUME NEW s, NEW o, NEW c \in Turns, InLine(s, o, c), s.queue[c] # <<>>
    PROVE  LET x == Head(s.queue[c])
           IN  /\ x \in Items /\ x.kind \in SpokenKinds \cup {"close", "error"} /\ x.turn = c
               /\ x.kind \in SpokenKinds => Follows(o, x)
               /\ Follows(o, Frame("stopped", c, 0))
<1>. DEFINE x == Head(s.queue[c])
            q == s.queue[c]
<1>1. /\ Sound(s, c) /\ q \in Seq(Items) /\ c # None /\ c \in SomeTurn /\ c \in s.open
  BY NoTurn, SoundFields DEF InLine, Sound, Consistent
<1>2. /\ x \in Items /\ 1 \in DOMAIN q /\ q[1] = x /\ \A kind, t, n : ~HoldingBefore(q, 1, kind, t, n)
  BY <1>1, InFront
<1>3. QueueItem(q, 1, c, s.serial, o)
  BY <1>1, <1>2 DEF InLine, QueuesInOrder
<1>4. Has(o, "start", c) /\ ~Has(o, "end", c) /\ ~Has(s.serial, "agg", c)
  BY <1>1 DEF InLine, PlayedInOrder
<1>5. \A n : ~Holding(s.serial, "agg", c, n)
  BY <1>4 DEF Has, Holding
<1>. HIDE DEF x, q
<1>6. /\ x.kind \in SpokenKinds \cup {"close", "error"} /\ x.turn = c
      /\ x.kind = "played" => Holding(o, "agg", c, x.n)
      /\ x.kind = "words" => Holding(o, "played", c, x.n)
  BY <1>2, <1>3, <1>5 DEF QueueItem
<1>7. x.kind \in SpokenKinds => Follows(o, x)
  BY <1>2, <1>4, <1>6 DEF Follows, SpokenKinds
<1>8. Follows(o, Frame("stopped", c, 0))
  <2>1. Frame("stopped", c, 0) \in Items /\ Frame("stopped", c, 0).kind = "stopped"
        /\ Frame("stopped", c, 0).turn = c
    BY <1>1 DEF Frame, Items, Kinds, SpokenKinds
  <2>. QED
    BY <1>4, <2>1 DEF Follows
<1>. QED
  BY <1>2, <1>6, <1>7, <1>8 DEF x, q

\* The context that is played moves up, and ends with its end marker.
LEMMA PlayedOn ==
    ASSUME NEW s, NEW o, NEW c \in Turns, InLine(s, o, c), NEW r, NEW p, Plays(s, o, c, r, p),
           Head(s.queue[c]).kind = "close" => s.context # c
    PROVE  /\ SerialInOrder(r, p) /\ QueuesInOrder(r, p) /\ ResponseInOrder(r, p) /\ p \in Seq(Items)
           /\ PlayedInOrder(r, p, c) /\ r.open \subseteq s.open
           /\ \A t : StartedIn(r, p, t) <=> StartedIn(s, o, t)
           /\ \A d \in r.open : \A n : Holding(s.queue[d], "agg", d, n) \/ Holding(o, "agg", d, n)
                  => Holding(r.queue[d], "agg", d, n) \/ Holding(p, "agg", d, n)
<1>. DEFINE x == Head(s.queue[c])
            q == s.queue[c]
<1>1. /\ Sound(s, c) /\ q \in Seq(Items) /\ o \in Seq(Items) /\ c # None /\ c \in SomeTurn /\ c \in s.open
      /\ s.open \subseteq s.owned
  BY NoTurn, SoundFields DEF InLine, Sound, Consistent, QueuesInOrder
<1>2. x \in Items /\ x.kind \in SpokenKinds \cup {"close", "error"} /\ x.turn = c
  BY NextFollows DEF Plays
<1>3. /\ \A i \in DOMAIN r.queue[c] : i + 1 \in DOMAIN q /\ r.queue[c][i] = q[i + 1]
      /\ \A i \in DOMAIN r.queue[c] : \A kind, t, n : HoldingBefore(q, i + 1, kind, t, n)
            <=> HoldingBefore(r.queue[c], i, kind, t, n) \/ (x.kind = kind /\ x.turn = t /\ x.n = n)
      /\ \A kind, t, n : Holding(q, kind, t, n)
            <=> Holding(r.queue[c], kind, t, n) \/ (x.kind = kind /\ x.turn = t /\ x.n = n)
  BY <1>1, InFront DEF Plays
<1>4. /\ p \in Seq(Items)
      /\ \A kind \in {"start", "end"} : \A t : Has(p, kind, t) <=> Has(o, kind, t)
      /\ \A kind, t, n : Holding(o, kind, t, n) => Holding(p, kind, t, n)
      /\ \A kind \in {"agg", "played"} : \A t, n :
             x.kind = kind /\ x.turn = t /\ x.n = n => Holding(p, kind, t, n)
  <2>1. ASSUME NEW y \in Items, y.kind \in SpokenKinds, p = Append(o, y)
        PROVE  /\ p \in Seq(Items)
               /\ \A kind \in {"start", "end"} : \A t : Has(p, kind, t) <=> Has(o, kind, t)
               /\ \A kind, t, n : Holding(o, kind, t, n) => Holding(p, kind, t, n)
               /\ \A kind, t, n : y.kind = kind /\ y.turn = t /\ y.n = n => Holding(p, kind, t, n)
    <3>1. /\ p \in Seq(Items)
          /\ \A kind, t : Has(p, kind, t) <=> Has(o, kind, t) \/ (y.kind = kind /\ y.turn = t)
          /\ \A kind, t, n : Holding(p, kind, t, n)
                <=> Holding(o, kind, t, n) \/ (y.kind = kind /\ y.turn = t /\ y.n = n)
      BY <1>1, <2>1, BehindAll
    <3>. QED
      BY <2>1, <3>1 DEF SpokenKinds
  <2>2. CASE p = o
    <3>1. x.kind \in {"close", "error"} \/ p = Append(o, x)
      BY DEF Plays
    <3>2. Append(o, x) # o
      BY <1>1, <1>2
    <3>3. x.kind \in {"close", "error"}
      BY <2>2, <3>1, <3>2
    <3>. QED
      BY <1>1, <2>2, <3>3
  <2>3. CASE x.kind = "close" /\ p = Append(o, Frame("stopped", c, 0))
    <3>1. Frame("stopped", c, 0) \in Items /\ Frame("stopped", c, 0).kind = "stopped"
      BY <1>1 DEF Frame, Items, Kinds, SpokenKinds
    <3>2. Frame("stopped", c, 0).kind \in SpokenKinds
      BY <3>1 DEF SpokenKinds
    <3>. QED
      BY <2>1, <2>3, <3>1, <3>2
  <2>4. CASE x.kind \in SpokenKinds /\ p = Append(o, x)
    BY <1>2, <2>1, <2>4
  <2>. QED
    BY <1>2, <2>2, <2>3, <2>4 DEF Plays
<1>. HIDE DEF x, q
<1>5. /\ r.serial = s.serial /\ r.context = s.context /\ r.response = s.response
      /\ \A d \in s.open \ {c} : r.queue[d] = s.queue[d]
      /\ x.kind # "close" => r.open = s.open /\ r.owned = s.owned
      /\ x.kind = "close" => r.open = s.open \ {c} /\ r.owned = s.owned \ {c}
  BY DEF Plays, x
<1>6. Has(o, "start", c) /\ ~Has(o, "end", c) /\ ~Has(s.serial, "agg", c)
  BY <1>1 DEF InLine, PlayedInOrder
<1>7. PlayedInOrder(r, p, c)
  BY <1>4, <1>5, <1>6 DEF PlayedInOrder
<1>8. SerialInOrder(r, p)
  <2>. SUFFICES ASSUME NEW i \in DOMAIN s.serial PROVE SerialItem(s.serial, i, p, r.open)
    BY <1>5 DEF SerialInOrder
  <2>1. SerialItem(s.serial, i, o, s.open)
    BY DEF InLine, SerialInOrder
  <2>2. s.serial[i].kind = "agg" => s.serial[i].turn # c
    BY <1>6 DEF Has
  <2>3. s.serial[i].kind = "agg" /\ s.serial[i].turn \in s.open => s.serial[i].turn \in r.open
    BY <1>5, <2>2
  <2>. QED
    BY <1>4, <2>1, <2>3 DEF SerialItem
<1>9. QueuesInOrder(r, p)
  <2>1. r.open \subseteq r.owned
    BY <1>1, <1>5
  <2>2. ASSUME NEW d \in s.open \ {c}, NEW i \in DOMAIN r.queue[d]
        PROVE  QueueItem(r.queue[d], i, d, r.serial, p)
    <3>1. QueueItem(s.queue[d], i, d, s.serial, o)
      BY <1>5 DEF InLine, QueuesInOrder
    <3>. QED
      BY <1>4, <1>5, <3>1 DEF QueueItem
  <2>3. ASSUME NEW i \in DOMAIN r.queue[c] PROVE QueueItem(r.queue[c], i, c, r.serial, p)
    <3>1. QueueItem(q, i + 1, c, s.serial, o)
      BY <1>1, <1>3 DEF InLine, QueuesInOrder, q
    <3>. QED
      BY <1>3, <1>4, <1>5, <3>1 DEF QueueItem
  <2>4. \A d \in r.open : d \in s.open \ {c} \/ d = c
    BY <1>5
  <2>. QED
    BY <2>1, <2>2, <2>3, <2>4 DEF QueuesInOrder
<1>10. ResponseInOrder(r, p)
  <2>1. s.context \in s.owned => s.context \in r.owned
    BY <1>5 DEF x
  <2>. QED
    BY <1>4, <1>5, <2>1 DEF InLine, ResponseInOrder
<1>11. \A t : StartedIn(r, p, t) <=> StartedIn(s, o, t)
  BY <1>4, <1>5 DEF StartedIn
<1>12. ASSUME NEW d \in r.open, NEW n, Holding(s.queue[d], "agg", d, n) \/ Holding(o, "agg", d, n)
       PROVE  Holding(r.queue[d], "agg", d, n) \/ Holding(p, "agg", d, n)
  <2>1. CASE d = c
    BY <1>3, <1>4, <1>12, <2>1 DEF q
  <2>2. CASE d # c
    BY <1>4, <1>5, <1>12, <2>2
  <2>. QED
    BY <2>1, <2>2
<1>13. r.open \subseteq s.open
  BY <1>5
<1>. QED
  BY <1>4, <1>7, <1>8, <1>9, <1>10, <1>11, <1>12, <1>13

\* A field that says nothing of the order may change freely.
LEMMA SameLine ==
    ASSUME NEW s, NEW o, NEW a, InLine(s, o, a), NEW r \in Services, r.serial = s.serial,
           r.queue = s.queue, r.open = s.open, r.owned = s.owned, r.context = s.context,
           r.response = s.response
    PROVE  InLine(r, o, a)
<1>1. Sound(r, a)
  BY OtherFields DEF InLine
<1>2. /\ SerialInOrder(r, o) /\ QueuesInOrder(r, o) /\ ResponseInOrder(r, o) /\ PlayedInOrder(r, o, a)
  BY DEF InLine, SerialInOrder, QueuesInOrder, ResponseInOrder, PlayedInOrder
<1>. QED
  BY <1>1, <1>2 DEF InLine

-----------------------------------------------------------------------------
(* What a step of the service has to keep *)

LEMMA FrameIsItem == ASSUME NEW q \in Seq(Frames) PROVE q \in Seq(Items)
<1>1. Frames \subseteq Items
  BY DEF Frames
<1>2. \A i \in 1 .. Len(q) : q[i] \in Items
  BY <1>1
<1>. QED
  BY <1>2

\* Frames that wait to be handled may become fewer.
Fewer(q, r) ==
    /\ \A t : Newer(q, t) => Newer(r, t)
    /\ \A kind, t : Has(r, kind, t) => Has(q, kind, t)
    /\ (\A i \in DOMAIN q : q[i].kind \in Uninterruptible) => \A i \in DOMAIN r : r[i].kind \in Uninterruptible

LEMMA FewerLeft == ASSUME NEW q \in Seq(Frames), NEW r, r = q \/ (q # <<>> /\ r = Tail(q)) PROVE Fewer(q, r)
<1>1. CASE r = q
  BY <1>1 DEF Fewer
<1>2. CASE q # <<>> /\ r = Tail(q)
  <2>1. /\ \A i \in DOMAIN r : i + 1 \in DOMAIN q /\ r[i] = q[i + 1]
        /\ \A kind, t : Has(r, kind, t) => Has(q, kind, t)
    BY <1>2, FrameIsItem, InFront
  <2>2. \A t : Newer(q, t) => Newer(r, t)
    BY <2>1 DEF Newer, Flags
  <2>. QED
    BY <2>1, <2>2 DEF Fewer
<1>. QED
  BY <1>1, <1>2

\* The responses taken up stay the same or become fewer.
LEMMA TakenUpStill ==
    ASSUME TakenUp, \A t : StartedIn(tts', out', t) => StartedIn(tts, out, t),
           turn' = turn, llm'.turn = llm.turn, Fewer(inq, inq'), Fewer(procq, procq'),
           Interrupting' <=> Interrupting
    PROVE  TakenUp'
<1>. SUFFICES ASSUME NEW t, StartedIn(tts', out', t)
              PROVE  /\ t \in Turns /\ t <= llm'.turn /\ Newer(inq', t) /\ Newer(procq', t)
                     /\ Interrupting' <=> t # turn'
  BY DEF TakenUp, StartedIn, Has, Newer, Flags, Turns
<1>. QED
  BY DEF TakenUp, Fewer

\* What the service does next, while its audio task lives, leaves it in line.
Onward ==
    /\ InLine(tts', out', audio'.context) /\ SentenceInOrder(tts', out', proc')
    /\ \A t : StartedIn(tts', out', t) => StartedIn(tts, out, t)

LEMMA Unchanged ==
    ASSUME UNCHANGED <<given, urgent, intask>> PROVE Interrupting' <=> Interrupting
  BY DEF Interrupting, given

LEMMA ServiceStep ==
    ASSUME ContextsInvariant, OutputInvariant, UNCHANGED <<given, urgent, inq, intask>>,
           llm'.turn = llm.turn, procq' = procq \/ (procq # <<>> /\ procq' = Tail(procq)),
           OutputInOrder', out' \in Seq(Items),
           proc'.pc \in {"draining", "drained"} => proc'.frame.kind = "finish",
           proc'.pc = "speaking" => /\ proc'.frame.kind \in {"text", "end", "finish"}
                                    /\ intask = "audio" => proc'.frame.kind = "finish",
           audio'.alive => audio.alive, ~audio'.alive => audio'.context = None,
           audio'.alive => /\ InLine(tts', out', audio'.context) /\ SentenceInOrder(tts', out', proc')
                           /\ TakenUp' \/ \A t : StartedIn(tts', out', t) => StartedIn(tts, out, t)
    PROVE  OutputInvariant'
<1>1. Fewer(inq, inq') /\ Fewer(procq, procq')
  BY FewerLeft, Now
<1>2. Interrupting' <=> Interrupting
  BY Unchanged
<1>3. turn' = turn /\ breaking' = breaking /\ urgent' = urgent /\ intask' = intask
  BY DEF given
<1>4. NextWaits'
  BY <1>1, <1>2, <1>3 DEF OutputInvariant, NextWaits, Fewer
<1>5. Finishing'
  BY <1>1, <1>3 DEF OutputInvariant, Finishing, Fewer
<1>6. audio'.alive => TakenUp'
  BY <1>1, <1>2, <1>3, TakenUpStill DEF OutputInvariant
<1>. QED
  BY <1>3, <1>4, <1>5, <1>6 DEF OutputInvariant

-----------------------------------------------------------------------------
(* The process task and the native request *)

LEMMA RestsInOrder == ASSUME NEW s, NEW o PROVE SentenceInOrder(s, o, Idle)
  BY DEF SentenceInOrder, Idle

\* A handler that comes to rest and leaves the service in line.
LEMMA RestsOnward ==
    ASSUME proc' = Idle, InLine(tts', out', audio'.context), NoNewStarts(tts, tts'), out' = out
    PROVE  Onward
<1>1. SentenceInOrder(tts', out', proc')
  BY RestsInOrder
<1>. QED
  BY <1>1 DEF Onward, NoNewStarts, StartedIn

\* When a response is taken up nothing is left of another.
LEMMA BeginInOrder ==
    ASSUME ContextsInvariant, BlameInvariant, BlameInvariant', OutputInvariant, audio.alive,
           procq # <<>>, UNCHANGED <<given, urgent, intask, audio>>, NEW f, f = Head(procq), Begin(f)
    PROVE  /\ InLine(tts', out', audio'.context) /\ SentenceInOrder(tts', out', proc')
           /\ TakenUp' \/ \A t : StartedIn(tts', out', t) => StartedIn(tts, out, t)
<1>1. /\ f.kind = "start" /\ proc' = Idle /\ out' = out /\ llm' = llm /\ turn' = turn
      /\ audio'.context = audio.context
  BY DEF Begin, given
<1>2. InLine(tts, out, audio.context) /\ TakenUp /\ NextWaits /\ OutputInOrder /\ out \in Seq(Items)
  BY DEF OutputInvariant
<1>3. SentenceInOrder(tts', out', proc')
  BY <1>1, RestsInOrder
<1>4. /\ f \in Frames /\ f = procq[1] /\ 1 \in Flags(procq, "start") /\ 1 \in DOMAIN procq
      /\ f \in Items /\ f.turn \in Turns
  <2>1. procq \in Seq(Frames)
    BY Now
  <2>2. f \in Frames /\ f = procq[1] /\ (1 \in Flags(procq, "start") <=> f.kind = "start")
    BY <2>1, FlagsTaken
  <2>. QED
    BY <1>1, <2>2 DEF Frames, Flags
<1>5. CASE f.turn # turn
  <2>1. tts' = tts
    BY <1>5 DEF Begin
  <2>. QED
    BY <1>1, <1>2, <1>3, <2>1
<1>6. CASE f.turn = turn
  <2>1. ~Interrupting
    BY <1>1, <1>2, <1>4, <1>6 DEF NextWaits, Has
  <2>2. \A t : ~StartedIn(tts, out, t)
    <3>1. SUFFICES ASSUME NEW t, StartedIn(tts, out, t) PROVE FALSE
      OBVIOUS
    <3>2. t = turn /\ Newer(procq, t) /\ t \in Turns
      BY <1>2, <2>1, <3>1 DEF TakenUp
    <3>3. t < turn /\ turn \in Nat
      BY <1>4, <1>6, <3>2, FreshNow DEF Newer, BlameInvariant
    <3>. QED
      BY <3>2, <3>3
  <2>3. ~Has(out, "end", f.turn)
    <3>1. SUFFICES ASSUME NEW i \in DOMAIN out, out[i].kind = "end" PROVE FALSE
      BY DEF Has
    <3>2. OutputItem(out, i)
      BY <1>2, OrderedNow, OrderedItems
    <3>3. HasBefore(out, i, "start", out[i].turn)
      BY <3>1, <3>2 DEF OutputItem
    <3>4. \A j \in 1 .. i - 1 : j \in DOMAIN out
      BY <1>2
    <3>5. Has(out, "start", out[i].turn)
      BY <3>3, <3>4 DEF HasBefore, Has
    <3>. QED
      BY <2>2, <3>5 DEF StartedIn
  <2>4. tts' = [Put(tts, f) EXCEPT !.response = f.turn, !.context = f.turn, !.owned = @ \cup {f.turn}]
    BY <1>6 DEF Begin
  <2>5. InLine(tts', out, audio.context) /\ \A t : StartedIn(tts', out, t) => t = f.turn
    <3>1. \A t : ~Has(out, "start", t) /\ ~Has(tts.serial, "start", t)
      BY <2>2 DEF StartedIn
    <3>2. LET r == [Put(tts, f) EXCEPT !.response = f.turn, !.context = f.turn, !.owned = @ \cup {f.turn}]
          IN  InLine(r, out, audio.context) /\ \A t : StartedIn(r, out, t) => t = f.turn
      BY <1>1, <1>2, <1>4, <2>3, <3>1, BeginInLine
    <3>. QED
      BY <2>4, <3>2
  <2>6. f.turn <= llm'.turn /\ Newer(inq', f.turn) /\ Newer(procq', f.turn)
    <3>1. tts'.context = f.turn
      <4>1. Put(tts, f) \in Services
        BY <1>1, <1>4, Fields, PutKeeps DEF Sound
      <4>2. f.turn \in SomeTurn
        BY <1>4, NoTurn
      <4>. HIDE DEF Put
      <4>. QED
        BY <2>4, <4>1, <4>2 DEF Services
    <3>2. f.turn \in Names(tts')
      BY <3>1 DEF Names
    <3>3. \A c \in Names(tts') : c <= llm'.turn /\ Newer(inq', c) /\ Newer(procq', c)
      BY DEF BlameInvariant, Fresh, Newer, Flags, Names
    <3>. QED
      BY <3>2, <3>3
  <2>7. ~Interrupting'
    BY <2>1, Unchanged
  <2>8. ASSUME NEW t, StartedIn(tts', out', t)
        PROVE  /\ t \in Turns /\ t <= llm'.turn /\ Newer(inq', t) /\ Newer(procq', t)
               /\ Interrupting' <=> t # turn'
    <3>1. t = f.turn /\ t = turn'
      BY <1>1, <1>6, <2>5, <2>8
    <3>. QED
      BY <1>4, <2>6, <2>7, <3>1
  <2>9. TakenUp'
    BY <2>8 DEF TakenUp, StartedIn, Has, Newer, Flags, Turns
  <2>. QED
    BY <1>1, <1>3, <2>5, <2>9
<1>. QED
  BY <1>5, <1>6

\* A sentence is spoken for the context of the response.
LEMMA SpeakInOrder ==
    ASSUME ContextsInvariant, InLine(tts, out, audio.context), tts.context \in Turns,
           NEW f \in Items, f.kind # "finish", NEW n \in Nat, Speak(f, n), out' = out, audio' = audio
    PROVE  Onward
<1>. DEFINE q == Announce(tts, n)
<1>1. /\ InLine(q, out, audio.context) /\ NoNewStarts(tts, q) /\ q.context = tts.context /\ q.context \in q.open
      /\ \/ Holding(q.queue[q.context], "agg", q.context, n)
         \/ Holding(q.serial, "agg", q.context, n)
  BY AnnounceInLine
<1>2. tts' = [q EXCEPT !.remainder = FALSE] /\ proc'.frame = [f EXCEPT !.turn = tts.context, !.n = n]
  BY DEF Speak
<1>. HIDE DEF q
<1>3. q \in Services
  BY <1>1 DEF InLine, Sound
<1>4. /\ tts' \in Services /\ tts'.serial = q.serial /\ tts'.queue = q.queue /\ tts'.open = q.open
      /\ tts'.owned = q.owned /\ tts'.context = q.context /\ tts'.response = q.response
  BY <1>2, <1>3 DEF Services
<1>5. InLine(tts', out, audio.context)
  BY <1>1, <1>4, SameLine
<1>6. proc'.frame.turn = tts.context /\ proc'.frame.n = n /\ proc'.frame.kind # "finish"
  BY <1>2 DEF Items
<1>7. SentenceInOrder(tts', out', proc')
  BY <1>1, <1>4, <1>6 DEF SentenceInOrder
<1>8. \A t : StartedIn(tts', out', t) => StartedIn(tts, out, t)
  BY <1>1, <1>4 DEF StartedIn, NoNewStarts
<1>. QED
  BY <1>5, <1>7, <1>8 DEF Onward

\* What is spoken is known as a sentence of its frame.
LEMMA SpeakFrame ==
    ASSUME NEW f \in Items, NEW n, Speak(f, n)
    PROVE  proc'.frame.kind = f.kind /\ proc'.pc \in {"speaking", "dead"}
<1>1. proc' = [pc |-> IF tts.context = turn /\ turn \in tts.owned THEN "speaking" ELSE "dead",
               frame |-> [f EXCEPT !.turn = tts.context, !.n = n]]
  BY DEF Speak
<1>2. [f EXCEPT !.turn = tts.context, !.n = n].kind = f.kind
  BY DEF Items
<1>. QED
  BY <1>1, <1>2

LEMMA TextOnward ==
    ASSUME ContextsInvariant, OutputInvariant, audio.alive, NEW f \in Frames, Text(f), audio' = audio
    PROVE  Onward
<1>1. /\ InLine(tts, out, audio.context) /\ out' = out /\ f \in Items /\ f.kind = "text" /\ f.n \in Nat
  BY DEF OutputInvariant, Text, Frames, Items
<1>2. CASE Wanted(f) /\ Speak(f, f.n)
  <2>1. tts.context \in Turns
    BY <1>1, <1>2, WantedResponse, ContextOfResponse
  <2>. QED
    BY <1>1, <1>2, <2>1, SpeakInOrder
<1>3. CASE tts' = [tts EXCEPT !.remainder = TRUE] /\ proc' = Idle
  <2>1. /\ tts' \in Services /\ tts'.serial = tts.serial /\ tts'.queue = tts.queue /\ tts'.open = tts.open
        /\ tts'.owned = tts.owned /\ tts'.context = tts.context /\ tts'.response = tts.response
    BY <1>3, Fields DEF Services
  <2>2. InLine(tts', out, audio.context) /\ NoNewStarts(tts, tts')
    BY <1>1, <2>1, SameLine DEF NoNewStarts
  <2>. QED
    BY <1>1, <1>3, <2>2, RestsOnward
<1>4. CASE UNCHANGED tts /\ proc' = Idle
  BY <1>1, <1>4, RestsOnward DEF NoNewStarts
<1>. QED
  BY <1>2, <1>3, <1>4 DEF Text

LEMMA EndOnward ==
    ASSUME ContextsInvariant, OutputInvariant, audio.alive, NEW f \in Frames, End(f), audio' = audio
    PROVE  Onward
<1>1. /\ InLine(tts, out, audio.context) /\ out' = out /\ f \in Items /\ f.kind = "end" /\ f.n \in Nat
  BY DEF OutputInvariant, End, Frames, Items
<1>2. Wanted(f) => tts.context \in Turns
  BY <1>1, WantedResponse, ContextOfResponse
<1>3. CASE Wanted(f) /\ Speak(f, f.n)
  BY <1>1, <1>2, <1>3, SpeakInOrder
<1>4. CASE Wanted(f) /\ tts' = EndResponse(tts) /\ proc' = Idle
  <2>1. InLine(tts', out, audio.context) /\ NoNewStarts(tts, tts')
    BY <1>1, <1>2, <1>4, EndResponseInLine
  <2>. QED
    BY <1>1, <1>4, <2>1, RestsOnward
<1>5. CASE tts' = tts /\ proc' = Idle
  BY <1>1, <1>5, RestsOnward DEF NoNewStarts
<1>. QED
  BY <1>3, <1>4, <1>5 DEF End

LEMMA BetweenOnward ==
    ASSUME OutputInvariant, audio.alive, NEW f \in Items, f.kind \in {"flush", "none"},
           tts' = Put(tts, f), out' = out, audio' = audio,
           proc' = Idle \/ proc'.pc = "draining"
    PROVE  Onward
<1>1. InLine(tts', out', audio'.context) /\ NoNewStarts(tts, tts')
  BY BetweenInLine DEF OutputInvariant
<1>2. SentenceInOrder(tts', out', proc')
  BY RestsInOrder DEF SentenceInOrder
<1>. QED
  BY <1>1, <1>2 DEF Onward, NoNewStarts, StartedIn

LEMMA TakeInOrder ==
    ASSUME ContextsInvariant, BlameInvariant, BlameInvariant', OutputInvariant, Take PROVE OutputInvariant'
<1>. DEFINE f == Head(procq)
<1>1. procq \in Seq(Frames) /\ procq # <<>> /\ proc.pc = "idle" /\ procq' = Tail(procq)
      /\ UNCHANGED <<given, urgent, inq, intask, audio>>
  BY Now DEF Take
<1>2. f \in Frames /\ f \in Items /\ f = procq[1] /\ 1 \in DOMAIN procq /\ f.kind \in FrameKinds
  BY <1>1 DEF Frames
<1>3. Begin(f) \/ Text(f) \/ End(f) \/ Call(f) \/ Flush(f) \/ Finish(f)
  BY DEF Take
<1>4. f = Head(procq)
  OBVIOUS
<1>5. intask = "audio" => f.kind \in Uninterruptible
  BY <1>2 DEF OutputInvariant, Finishing
<1>. HIDE DEF f
<1>6. out' = out /\ llm'.turn = llm.turn
  <2>1. CASE Call(f)
    <3>1. PassOn(f) /\ f.kind = "call"
      BY <2>1 DEF Call
    <3>. QED
      BY <3>1, PassOnTurn DEF PassOn
  <2>. QED
    BY <1>3, <2>1 DEF Begin, Text, End, Flush, Finish
<1>7. /\ proc'.pc \in {"draining", "drained"} => proc'.frame.kind = "finish"
      /\ proc'.pc = "speaking" => /\ proc'.frame.kind \in {"text", "end", "finish"}
                                  /\ intask = "audio" => proc'.frame.kind = "finish"
  <2>1. CASE proc' = Idle
    BY <2>1 DEF Idle
  <2>2. CASE Finish(f)
    <3>1. proc'.pc = "draining" /\ proc'.frame = f /\ f.kind = "finish"
      BY <2>2 DEF Finish
    <3>. QED
      BY <3>1
  <2>3. CASE f.kind \in {"text", "end"} /\ \E n : Speak(f, n)
    BY <1>2, <1>5, <2>3, SpeakFrame DEF Uninterruptible
  <2>. QED
    BY <1>3, <2>1, <2>2, <2>3 DEF Begin, Text, End, Call, Flush
<1>8. ASSUME audio.alive
      PROVE  /\ InLine(tts', out', audio'.context) /\ SentenceInOrder(tts', out', proc')
             /\ TakenUp' \/ \A t : StartedIn(tts', out', t) => StartedIn(tts, out, t)
  <2>1. CASE Begin(f)
    BY <1>1, <1>4, <1>8, <2>1, BeginInOrder
  <2>2. ASSUME Onward
        PROVE  /\ InLine(tts', out', audio'.context) /\ SentenceInOrder(tts', out', proc')
               /\ TakenUp' \/ \A t : StartedIn(tts', out', t) => StartedIn(tts, out, t)
    BY <2>2 DEF Onward
  <2>3. CASE Text(f) \/ End(f)
    BY <1>1, <1>2, <1>8, <2>2, <2>3, TextOnward, EndOnward
  <2>4. CASE Call(f)
    <3>1. tts' = tts /\ proc' = Idle /\ InLine(tts, out, audio.context)
      BY <1>8, <2>4 DEF Call, OutputInvariant
    <3>2. Onward
      BY <1>1, <1>6, <3>1, RestsOnward DEF NoNewStarts
    <3>. QED
      BY <2>2, <3>2
  <2>5. CASE Flush(f)
    BY <1>1, <1>2, <1>6, <1>8, <2>2, <2>5, BetweenOnward DEF Flush
  <2>6. CASE Finish(f)
    <3>1. NoFrame \in Items /\ NoFrame.kind = "none"
      BY NoTurn DEF NoFrame, Frame, Items, Kinds
    <3>2. tts' = Put(tts, NoFrame) /\ proc'.pc = "draining"
      BY <2>6 DEF Finish
    <3>. QED
      BY <1>1, <1>6, <1>8, <2>2, <3>1, <3>2, BetweenOnward
  <2>. QED
    BY <1>3, <2>1, <2>3, <2>4, <2>5, <2>6
<1>9. OutputInOrder' /\ out' \in Seq(Items) /\ (~audio'.alive => audio'.context = None)
  BY <1>1, <1>6, OrderedNow DEF OutputInvariant
<1>. QED
  BY <1>1, <1>6, <1>7, <1>8, <1>9, ServiceStep

\* The EndFrame may follow whatever was emitted.
LEMMA FinishEmitted ==
    ASSUME out \in Seq(Items), OutputInOrder, NEW s, FinishEnd(s)
    PROVE  OutputInOrder' /\ out' \in Seq(Items) /\ proc' = Idle
<1>1. Frame("finish", None, 0) \in Items /\ Frame("finish", None, 0).kind = "finish"
  BY NoTurn DEF Frame, Items, Kinds, FrameKinds
<1>2. Follows(out, Frame("finish", None, 0))
  BY <1>1 DEF Follows, SpokenKinds
<1>. QED
  BY <1>2, EmittedInOrder DEF FinishEnd

LEMMA FinishOnward ==
    ASSUME NEW s, InLine(s, out, audio.context), s.context = None, s.open = {}, s.serial = tts.serial,
           FinishEnd(s), audio' = audio
    PROVE  Onward
<1>. DEFINE r == [Complete(s) EXCEPT !.response = None, !.owned = {}]
            x == Frame("finish", None, 0)
<1>1. tts' = r /\ out' = Append(out, x) /\ proc' = Idle
  BY DEF FinishEnd
<1>2. x \in Items /\ x.kind = "finish"
  BY NoTurn DEF Frame, Items, Kinds, FrameKinds
<1>3. InLine(r, out, audio.context) /\ r.serial = s.serial
  BY FinishInLine
<1>. HIDE DEF r, x
<1>4. InLine(r, out', audio.context)
  BY <1>1, <1>2, <1>3, EmittedInLine
<1>5. \A t : Has(out', "start", t) => Has(out, "start", t)
  <2>1. out \in Seq(Items)
    BY DEF InLine
  <2>2. \A t : Has(Append(out, x), "start", t) <=> Has(out, "start", t) \/ (x.kind = "start" /\ x.turn = t)
    BY <1>2, <2>1, BehindAll
  <2>. QED
    BY <1>1, <1>2, <2>2
<1>6. SentenceInOrder(tts', out', proc')
  BY <1>1, RestsInOrder
<1>. QED
  BY <1>1, <1>3, <1>4, <1>5, <1>6 DEF Onward, StartedIn

LEMMA SpeechEndsInOrder ==
    ASSUME ContextsInvariant, OutputInvariant, SpeechEnds PROVE OutputInvariant'
<1>. DEFINE f == proc.frame
<1>1. PICK ok \in BOOLEAN :
          IF f.turn = turn THEN GoOn(Spoken(f.turn, f.n, ok))
          ELSE proc' = [proc EXCEPT !.pc = "dead"] /\ UNCHANGED <<tts, out, flushes, ending>>
  BY DEF SpeechEnds
<1>2. /\ proc.pc = "speaking" /\ f.turn \in Turns /\ proc \in [pc : Tasks, frame : Items] /\ f.n \in Nat
      /\ UNCHANGED <<given, llm, urgent, inq, procq, intask, audio>>
  BY DEF SpeechEnds, ContextsInvariant, Known, TypeOK, Items, queues
<1>3. out \in Seq(Items) /\ OutputInOrder /\ (~audio.alive => audio.context = None)
  BY DEF OutputInvariant
<1>4. /\ proc'.pc \notin {"speaking", "draining", "drained"}
      /\ OutputInOrder' /\ out' \in Seq(Items)
  <2>1. CASE f.turn = turn
    <3>1. CASE f.kind = "finish"
      <4>1. FinishEnd(Spoken(f.turn, f.n, ok))
        BY <1>1, <2>1, <3>1 DEF GoOn
      <4>2. OutputInOrder' /\ out' \in Seq(Items) /\ proc' = Idle
        BY <1>3, <4>1, FinishEmitted
      <4>. QED
        BY <4>2 DEF Idle
    <3>2. CASE f.kind # "finish"
      <4>1. proc' = Idle /\ out' = out
        BY <1>1, <2>1, <3>2 DEF GoOn
      <4>. QED
        BY <1>3, <4>1, OrderedNow DEF Idle
    <3>. QED
      BY <3>1, <3>2
  <2>2. CASE f.turn # turn
    <3>1. proc'.pc = "dead" /\ out' = out
      BY <1>1, <1>2, <2>2
    <3>. QED
      BY <1>3, <3>1, OrderedNow
  <2>. QED
    BY <2>1, <2>2
<1>5. ASSUME audio.alive PROVE Onward
  <2>1. InLine(tts, out, audio.context) /\ SentenceInOrder(tts, out, proc)
    BY <1>5 DEF OutputInvariant
  <2>2. CASE f.turn = turn
    <3>. DEFINE s == Spoken(f.turn, f.n, ok)
    <3>1. GoOn(s)
      BY <1>1, <2>2
    <3>2. \/ /\ f.kind # "finish" /\ tts.context = f.turn /\ f.turn \in tts.open
             /\ \/ Holding(tts.queue[f.turn], "agg", f.turn, f.n) \/ Holding(tts.serial, "agg", f.turn, f.n)
                \/ Holding(out, "agg", f.turn, f.n)
          \/ f.kind = "finish" /\ tts.context = None /\ tts.open = {}
      BY <1>2, <2>1 DEF SentenceInOrder
    <3>3. InLine(s, out, audio.context) /\ s.context = tts.context /\ s.open = tts.open /\ s.serial = tts.serial
      BY <1>2, <2>1, <3>2, SpokenInLine
    <3>. HIDE DEF s
    <3>4. CASE f.kind = "finish"
      <4>1. FinishEnd(s)
        BY <3>1, <3>4 DEF GoOn
      <4>. QED
        BY <1>2, <3>2, <3>3, <3>4, <4>1, FinishOnward
    <3>5. CASE f.kind = "end"
      <4>1. tts' = EndResponse(s) /\ proc' = Idle /\ out' = out
        BY <3>1, <3>5 DEF GoOn
      <4>2. InLine(tts', out, audio.context) /\ NoNewStarts(s, tts')
        BY <1>2, <3>2, <3>3, <3>5, <4>1, EndResponseInLine
      <4>. QED
        BY <1>2, <3>3, <4>1, <4>2, RestsOnward DEF NoNewStarts
    <3>6. CASE f.kind \notin {"finish", "end"}
      <4>1. tts' = s /\ proc' = Idle /\ out' = out
        BY <3>1, <3>6 DEF GoOn
      <4>. QED
        BY <1>2, <3>3, <4>1, RestsOnward DEF NoNewStarts
    <3>. QED
      BY <3>4, <3>5, <3>6
  <2>3. CASE f.turn # turn
    <3>1. proc'.pc = "dead" /\ out' = out /\ tts' = tts
      BY <1>1, <1>2, <2>3
    <3>. QED
      BY <1>2, <2>1, <3>1 DEF Onward, SentenceInOrder
  <2>. QED
    BY <2>2, <2>3
<1>. HIDE DEF f
<1>6. audio'.alive => /\ InLine(tts', out', audio'.context) /\ SentenceInOrder(tts', out', proc')
                      /\ TakenUp' \/ \A t : StartedIn(tts', out', t) => StartedIn(tts, out, t)
  BY <1>2, <1>5 DEF Onward
<1>. QED
  BY <1>2, <1>3, <1>4, <1>6, ServiceStep

\* What the aggregator holds belongs to a response: behind an interruption there is none.
LEMMA DrainedInOrder ==
    ASSUME ContextsInvariant, OutputInvariant, Drained PROVE OutputInvariant'
<1>1. /\ proc.pc = "drained" /\ proc.frame.kind = "finish" /\ proc.frame \in Items
      /\ UNCHANGED <<given, llm, urgent, inq, procq, intask, audio>>
  BY DEF Drained, OutputInvariant, Finishing, ContextsInvariant, TypeOK, queues
<1>2. out \in Seq(Items) /\ OutputInOrder /\ (~audio.alive => audio.context = None)
  BY DEF OutputInvariant
<1>3. CASE tts.remainder /\ Speak(proc.frame, MaxTexts) /\ out' = out
  <2>1. proc'.frame.kind = "finish"
    BY <1>1, <1>3, SpeakFrame
  <2>2. ~audio.alive
    <3>1. SUFFICES ASSUME audio.alive PROVE FALSE
      OBVIOUS
    <3>2. tts.context = None /\ tts.response = tts.context
      BY <1>1, <3>1 DEF OutputInvariant, InLine, SentenceInOrder, ResponseInOrder
    <3>. QED
      BY <1>3, <3>2 DEF ContextsInvariant, Known
  <2>. QED
    BY <1>1, <1>2, <1>3, <2>1, <2>2, OrderedNow, ServiceStep
<1>4. CASE FinishEnd(tts)
  <2>1. OutputInOrder' /\ out' \in Seq(Items) /\ proc' = Idle
    BY <1>2, <1>4, FinishEmitted
  <2>2. ASSUME audio.alive PROVE Onward
    <3>1. InLine(tts, out, audio.context) /\ tts.context = None /\ tts.open = {}
      BY <1>1, <2>2 DEF OutputInvariant, SentenceInOrder
    <3>. QED
      BY <1>1, <1>4, <3>1, FinishOnward
  <2>3. audio'.alive => /\ InLine(tts', out', audio'.context) /\ SentenceInOrder(tts', out', proc')
                        /\ TakenUp' \/ \A t : StartedIn(tts', out', t) => StartedIn(tts, out, t)
    BY <1>1, <2>2 DEF Onward
  <2>4. proc'.pc \notin {"speaking", "draining", "drained"}
    BY <2>1 DEF Idle
  <2>. QED
    BY <1>1, <1>2, <2>1, <2>3, <2>4, ServiceStep
<1>. QED
  BY <1>3, <1>4 DEF Drained

-----------------------------------------------------------------------------
(* The audio task *)

\* What belongs to a context that is open carries its turn.
LEMMA OwnTurn ==
    ASSUME NEW item \in Items, tts.open \subseteq tts.owned, item.kind \in SpokenKinds => item.turn \in tts.open
    PROVE  Tagged(item) = item
  BY DEF Tagged

LEMMA ServeInOrder ==
    ASSUME ContextsInvariant, ContextsInvariant', BlameInvariant, OutputInvariant, Serve
    PROVE  OutputInvariant'
<1>. DEFINE x == Head(tts.serial)
<1>1. /\ audio.alive /\ audio.context = None /\ tts.serial # <<>> /\ tts.serial \in Seq(Items)
      /\ tts' = [tts EXCEPT !.serial = Tail(@)] /\ UNCHANGED <<given, urgent, inq, procq, intask>>
  BY Fields DEF Serve, queues
<1>2. \/ /\ x.kind = "context" /\ audio' = [Draining EXCEPT !.context = x.turn] /\ UNCHANGED <<proc, llm, out>>
      \/ /\ x.kind = "none" /\ audio' = Gone /\ proc' = [proc EXCEPT !.pc = "drained"] /\ UNCHANGED <<llm, out>>
      \/ /\ x.kind \notin {"context", "none"} /\ PassOn(Tagged(x)) /\ UNCHANGED <<audio, proc>>
  BY DEF Serve
<1>3. /\ tts'.serial = Tail(tts.serial) /\ tts'.queue = tts.queue /\ tts'.open = tts.open
      /\ tts'.owned = tts.owned /\ tts'.context = tts.context /\ tts'.response = tts.response
  BY <1>1, Fields DEF Services
<1>4. /\ InLine(tts, out, None) /\ SentenceInOrder(tts, out, proc) /\ Finishing
      /\ out \in Seq(Items) /\ OutputInOrder
  BY <1>1 DEF OutputInvariant
<1>5. x \in Items /\ 1 \in DOMAIN tts.serial /\ tts.serial[1] = x
  BY <1>1, InFront
<1>6. Tagged(x) = x
  <2>1. SerialItem(tts.serial, 1, out, tts.open) /\ tts.open \subseteq tts.owned
    BY <1>4, <1>5 DEF InLine, SerialInOrder, QueuesInOrder
  <2>2. x.kind \in SpokenKinds => x.kind = "agg"
    BY <1>5, <2>1 DEF SerialItem, SpokenKinds, Uninterruptible
  <2>3. x.kind = "agg" => x.turn \in tts.open
    BY <1>5, <2>1 DEF SerialItem
  <2>. QED
    BY <1>5, <2>1, <2>2, <2>3, OwnTurn
<1>7. llm'.turn = llm.turn
  BY <1>2, PassOnTurn
<1>8. out' = IF x.kind \in {"context", "none", "flush", "call"} THEN out ELSE Append(out, x)
  BY <1>2, <1>6 DEF PassOn
<1>9. Serves(tts, out, tts', out')
  BY <1>1, <1>3, <1>8 DEF Serves
<1>10. /\ SerialInOrder(tts', out') /\ QueuesInOrder(tts', out') /\ ResponseInOrder(tts', out')
       /\ out' \in Seq(Items)
       /\ \A t : StartedIn(tts', out', t) <=> StartedIn(tts, out, t)
       /\ \A t, n : Holding(tts.serial, "agg", t, n) \/ Holding(out, "agg", t, n)
              => Holding(tts'.serial, "agg", t, n) \/ Holding(out', "agg", t, n)
       /\ x.kind \notin {"context", "none", "flush", "call"} => Follows(out, x)
       /\ x.kind = "context" => PlayedInOrder(tts', out', x.turn)
  BY <1>4, <1>9, ServedInOrder
<1>11. OutputInOrder'
  BY <1>4, <1>8, <1>10, EmittedInOrder, OrderedNow
<1>12. intask # "audio" /\ Awaited(tts, proc) /\ proc \in [pc : Tasks, frame : Items]
  BY <1>1 DEF BlameInvariant, Blameless, ContextsInvariant, TypeOK
<1>. HIDE DEF x
<1>13. /\ proc'.frame = proc.frame /\ (proc' = proc \/ (proc'.pc = "drained" /\ proc.frame.kind = "finish"))
  <2>1. CASE x.kind = "none"
    <3>1. proc.frame.kind = "finish"
      BY <1>5, <1>12, <2>1 DEF Awaited, Flags
    <3>. QED
      BY <1>2, <1>12, <2>1, <3>1
  <2>. QED
    BY <1>2, <2>1
<1>14. /\ proc'.pc \in {"draining", "drained"} => proc'.frame.kind = "finish"
       /\ proc'.pc = "speaking" => /\ proc'.frame.kind \in {"text", "end", "finish"}
                                   /\ intask = "audio" => proc'.frame.kind = "finish"
  BY <1>4, <1>12, <1>13 DEF Finishing
<1>15. ~audio'.alive => audio'.context = None
  BY <1>1, <1>2 DEF Gone, Draining
<1>16. ASSUME audio'.alive
       PROVE  /\ InLine(tts', out', audio'.context) /\ SentenceInOrder(tts', out', proc')
              /\ \A t : StartedIn(tts', out', t) => StartedIn(tts, out, t)
  <2>1. Sound(tts', audio'.context)
    BY DEF ContextsInvariant
  <2>2. PlayedInOrder(tts', out', audio'.context)
    <3>1. CASE x.kind = "context"
      <4>1. audio'.context = x.turn
        BY <1>2, <3>1 DEF Draining
      <4>. QED
        BY <1>10, <3>1, <4>1
    <3>2. CASE x.kind # "context"
      <4>1. audio'.context = None
        BY <1>1, <1>2, <3>2 DEF Gone, Draining
      <4>. QED
        BY <4>1 DEF PlayedInOrder
    <3>. QED
      BY <3>1, <3>2
  <2>3. proc' = proc
    BY <1>2, <1>16 DEF Gone, Draining
  <2>4. SentenceInOrder(tts', out', proc')
    BY <1>3, <1>4, <1>10, <2>3 DEF SentenceInOrder
  <2>. QED
    BY <1>10, <2>1, <2>2, <2>4 DEF InLine
<1>. QED
  BY <1>1, <1>7, <1>10, <1>11, <1>14, <1>15, <1>16, ServiceStep

LEMMA PlayInOrder ==
    ASSUME ContextsInvariant, ContextsInvariant', BlameInvariant, OutputInvariant, Play
    PROVE  OutputInvariant'
<1>. DEFINE c == audio.context
            q == tts.queue[c]
            x == Head(q)
            rest == [tts EXCEPT !.queue[c] = Tail(@)]
            stop == Frame("stopped", c, 0)
<1>1. /\ c # None /\ q # <<>> /\ UNCHANGED <<given, llm, urgent, inq, procq, intask, proc>>
  BY DEF Play, queues
<1>2. /\ c \in tts.open /\ c \in Turns /\ q \in Seq(Items) /\ tts \in Services /\ tts.open \subseteq Turns
      /\ tts.queue \in [Turns -> Seq(Items)] /\ audio \in AudioTasks
  BY <1>1, Fields DEF Sound, Consistent, Services, ContextsInvariant, TypeOK
<1>3. /\ audio.alive /\ InLine(tts, out, c) /\ SentenceInOrder(tts, out, proc) /\ Finishing
      /\ out \in Seq(Items) /\ OutputInOrder
  BY <1>1 DEF OutputInvariant
<1>4. /\ x \in Items /\ x.kind \in SpokenKinds \cup {"close", "error"} /\ x.turn = c
      /\ x.kind \in SpokenKinds => Follows(out, x)
      /\ Follows(out, stop)
  BY <1>1, <1>2, <1>3, NextFollows
<1>5. Tagged(x) = x /\ Tagged(stop) = stop
  <2>1. tts.open \subseteq tts.owned
    BY <1>3 DEF InLine, QueuesInOrder
  <2>2. stop \in Items /\ stop.turn = c
    BY <1>2, <1>4 DEF Follows, Frame
  <2>. QED
    BY <1>2, <1>4, <2>1, <2>2, OwnTurn
<1>6. IF x.kind = "close"
      THEN /\ tts' = [rest EXCEPT !.open = @ \ {c}, !.owned = @ \ {c}] /\ audio' = Draining
           /\ out' = IF audio.stopped THEN out ELSE Append(out, stop)
      ELSE /\ tts' = rest
           /\ audio' = [audio EXCEPT !.stopped = @ \/ x.kind = "stopped",
                                     !.received = @ \/ x.kind = "played",
                                     !.failed = @ \/ x.kind = "error"]
           /\ out' = IF x.kind = "error" THEN out ELSE Append(out, x)
  BY <1>5 DEF Play
<1>7. /\ rest \in Services /\ rest.queue = [tts.queue EXCEPT ![c] = Tail(@)] /\ rest.open = tts.open
      /\ rest.serial = tts.serial /\ rest.context = tts.context /\ rest.owned = tts.owned
      /\ rest.response = tts.response
  <2>1. Tail(tts.queue[c]) \in Seq(Items)
    BY <1>1, <1>2
  <2>. QED
    BY <1>2, <2>1 DEF Services
<1>8. /\ tts'.queue[c] = Tail(q) /\ \A d \in tts.open \ {c} : tts'.queue[d] = tts.queue[d]
      /\ tts'.serial = tts.serial /\ tts'.context = tts.context /\ tts'.response = tts.response
      /\ x.kind = "close" => tts'.open = tts.open \ {c} /\ tts'.owned = tts.owned \ {c}
      /\ x.kind # "close" => tts'.open = tts.open /\ tts'.owned = tts.owned
  <2>. HIDE DEF x, rest
  <2>1. /\ tts'.queue = rest.queue /\ tts'.serial = rest.serial /\ tts'.context = rest.context
        /\ tts'.response = rest.response
        /\ x.kind = "close" => tts'.open = rest.open \ {c} /\ tts'.owned = rest.owned \ {c}
        /\ x.kind # "close" => tts'.open = rest.open /\ tts'.owned = rest.owned
    <3>1. CASE x.kind = "close"
      <4>1. tts' = [rest EXCEPT !.open = @ \ {c}, !.owned = @ \ {c}]
        BY <1>6, <3>1
      <4>. QED
        BY <1>7, <3>1, <4>1 DEF Services
    <3>2. CASE x.kind # "close"
      <4>1. tts' = rest
        BY <1>6, <3>2
      <4>. QED
        BY <3>2, <4>1
    <3>. QED
      BY <3>1, <3>2
  <2>2. rest.queue[c] = Tail(q) /\ \A d \in tts.open \ {c} : rest.queue[d] = tts.queue[d]
    BY <1>2, <1>7
  <2>. QED
    BY <1>7, <2>1, <2>2
<1>9. Plays(tts, out, c, tts', out')
  <2>. HIDE DEF x, rest
  <2>. QED
    BY <1>1, <1>6, <1>8 DEF Plays, x
<1>10. x.kind = "close" => tts.context # c
  <2>1. Clean(tts, audio)
    BY <1>1 DEF BlameInvariant, Blameless
  <2>2. 1 \in DOMAIN q /\ q[1] = x
    BY <1>1, <1>2
  <2>3. tts.context = c /\ x.kind = "close" => 1 \in Flags(tts.queue[tts.context], "close")
    BY <2>2 DEF Flags
  <2>. QED
    BY <1>2, <2>1, <2>3 DEF Clean
<1>11. /\ SerialInOrder(tts', out') /\ QueuesInOrder(tts', out') /\ ResponseInOrder(tts', out')
       /\ out' \in Seq(Items) /\ PlayedInOrder(tts', out', c) /\ tts'.open \subseteq tts.open
       /\ \A t : StartedIn(tts', out', t) <=> StartedIn(tts, out, t)
       /\ \A d \in tts'.open : \A n : Holding(tts.queue[d], "agg", d, n) \/ Holding(out, "agg", d, n)
              => Holding(tts'.queue[d], "agg", d, n) \/ Holding(out', "agg", d, n)
  BY <1>2, <1>3, <1>9, <1>10, PlayedOn
<1>. HIDE DEF x, rest, stop
<1>12. OutputInOrder'
  <2>1. out' = out \/ (out' = Append(out, stop)) \/ (out' = Append(out, x) /\ x.kind \in SpokenKinds)
    BY <1>4, <1>6
  <2>. QED
    BY <1>3, <1>4, <2>1, EmittedInOrder, OrderedNow
<1>13. audio'.alive /\ audio'.context \in {None, c}
  <2>1. CASE x.kind = "close"
    BY <1>6, <2>1 DEF Draining
  <2>2. CASE x.kind # "close"
    BY <1>2, <1>3, <1>6, <2>2 DEF AudioTasks
  <2>. QED
    BY <2>1, <2>2
<1>14. InLine(tts', out', audio'.context)
  <2>1. Sound(tts', audio'.context)
    BY DEF ContextsInvariant
  <2>2. PlayedInOrder(tts', out', audio'.context)
    BY <1>11, <1>13 DEF PlayedInOrder
  <2>. QED
    BY <1>11, <2>1, <2>2 DEF InLine
<1>15. SentenceInOrder(tts', out', proc')
  <2>1. ASSUME tts.context \in tts.open PROVE tts'.context \in tts'.open
    BY <1>8, <1>10, <2>1
  <2>2. tts.open = {} => tts'.open = {}
    BY <1>11
  <2>. QED
    BY <1>1, <1>3, <1>8, <1>11, <2>1, <2>2 DEF SentenceInOrder
<1>16. /\ proc'.pc \in {"draining", "drained"} => proc'.frame.kind = "finish"
       /\ proc'.pc = "speaking" => /\ proc'.frame.kind \in {"text", "end", "finish"}
                                   /\ intask = "audio" => proc'.frame.kind = "finish"
  BY <1>1, <1>3 DEF Finishing
<1>. QED
  BY <1>1, <1>3, <1>11, <1>12, <1>13, <1>14, <1>15, <1>16, ServiceStep

-----------------------------------------------------------------------------
(* The input task, and those around the service *)

\* A step that leaves the service, what it emitted and its audio task alone.
LEMMA ElsewhereInOrder ==
    ASSUME OutputInvariant, UNCHANGED <<tts, audio, out>>, urgent' \in Nat, Finishing', NextWaits',
           audio.alive => SentenceInOrder(tts, out, proc') /\ TakenUp'
    PROVE  OutputInvariant'
<1>1. OutputInOrder'
  BY OrderedNow DEF OutputInvariant
<1>2. audio'.alive => InLine(tts', out', audio'.context) /\ SentenceInOrder(tts', out', proc') /\ TakenUp'
  BY DEF OutputInvariant
<1>. QED
  BY <1>1, <1>2 DEF OutputInvariant

LEMMA MoveInOrder ==
    ASSUME ContextsInvariant, BlameInvariant, BlameInvariant', OutputInvariant, Move PROVE OutputInvariant'
<1>. DEFINE f == Head(inq)
<1>1. /\ intask = "idle" /\ inq # <<>> /\ inq \in Seq(Frames) /\ procq \in Seq(Frames)
      /\ inq' = Tail(inq) /\ procq' = Append(procq, f)
      /\ UNCHANGED <<given, llm, urgent, intask, proc, tts, audio, out>>
  BY Now DEF Move, service
<1>2. inq \in Seq(Items) /\ procq \in Seq(Items) /\ f \in Frames /\ f \in Items
  BY <1>1, FrameIsItem DEF Frames
<1>3. turn' = turn /\ breaking' = breaking /\ llm' = llm /\ tts' = tts /\ out' = out /\ proc' = proc
      /\ urgent' = urgent /\ intask' = intask
  BY <1>1 DEF given
<1>4. Interrupting' <=> Interrupting
  BY <1>1, Unchanged
<1>5. Finishing'
  BY <1>1, <1>3 DEF OutputInvariant, Finishing
<1>6. f = inq[1] /\ (f.kind = "start" => 1 \in Flags(inq, "start"))
  BY <1>1, FlagsTaken
<1>. HIDE DEF f
<1>7. \A kind, t : Has(procq', kind, t) <=> Has(procq, kind, t) \/ (f.kind = kind /\ f.turn = t)
  BY <1>1, <1>2, BehindAll
<1>8. NextWaits'
  <2>1. breaking /\ f.kind = "start" => f.turn # turn
    <3>1. SUFFICES ASSUME breaking, f.kind = "start", f.turn = turn PROVE FALSE
      OBVIOUS
    <3>2. f.turn <= llm.turn /\ f.turn \in Nat /\ f.turn \in Turns /\ llm.turn \in Nat
      BY <1>6, <3>1, FreshNow DEF BlameInvariant, Fresh
    <3>3. turn = None \/ llm.turn < turn
      BY <3>1 DEF OutputInvariant, NextWaits
    <3>. QED
      BY <3>1, <3>2, <3>3, NoTurn
  <2>2. Interrupting => breaking
    BY <1>1 DEF Interrupting, Move
  <2>. QED
    BY <1>3, <1>4, <1>7, <2>1, <2>2 DEF OutputInvariant, NextWaits
<1>9. ASSUME audio.alive PROVE TakenUp'
  <2>. SUFFICES ASSUME NEW t, StartedIn(tts, out, t)
                PROVE  /\ t \in Turns /\ t <= llm.turn /\ Newer(inq', t) /\ Newer(procq', t)
                       /\ Interrupting' <=> t # turn
    BY <1>3 DEF TakenUp
  <2>1. /\ t \in Turns /\ t <= llm.turn /\ Newer(inq, t) /\ Newer(procq, t)
        /\ Interrupting <=> t # turn
    BY <1>9 DEF OutputInvariant, TakenUp
  <2>2. Newer(inq', t)
    <3>1. Fewer(inq, inq')
      BY <1>1, FewerLeft
    <3>. QED
      BY <2>1, <3>1 DEF Fewer
  <2>3. Newer(procq', t)
    <3>1. \A i \in DOMAIN procq' : (i \in DOMAIN procq /\ procq'[i] = procq[i]) \/ procq'[i] = f
      BY <1>1, <1>2, BehindAll
    <3>2. f.kind = "start" => t < f.turn
      BY <1>6, <2>1 DEF Newer
    <3>. QED
      BY <2>1, <3>1, <3>2 DEF Newer, Flags
  <2>. QED
    BY <1>4, <2>1, <2>2, <2>3
<1>. QED
  BY <1>1, <1>3, <1>5, <1>8, <1>9, ElsewhereInOrder DEF OutputInvariant

\* An interruption leaves no frame that starts a response, and of the process task
\* at most what ends the pipeline.
LEMMA CancelAudioInOrder ==
    ASSUME ContextsInvariant, OutputInvariant, CancelAudio, UNCHANGED <<given, llm, inq, out>>, urgent' \in Nat,
           proc'.pc \in {"speaking", "draining", "drained"} => proc'.frame.kind = "finish"
    PROVE  OutputInvariant'
<1>1. audio' = Gone /\ intask' = "audio" /\ procq' = Kept(procq) /\ procq \in Seq(Frames)
      /\ turn' = turn /\ breaking' = breaking /\ llm' = llm /\ out' = out
  BY Now DEF CancelAudio, given
<1>2. \A i \in DOMAIN procq' : procq'[i].kind \in Uninterruptible
  BY <1>1, KeptFrames DEF Kept
<1>3. Finishing'
  BY <1>1, <1>2 DEF Finishing
<1>4. NextWaits'
  <2>1. ~Has(procq', "start", turn')
    BY <1>2 DEF Has, Uninterruptible
  <2>. QED
    BY <1>1, <2>1 DEF OutputInvariant, NextWaits
<1>5. OutputInOrder' /\ out' \in Seq(Items)
  BY <1>1, OrderedNow DEF OutputInvariant
<1>6. ~audio'.alive /\ audio'.context = None
  BY <1>1 DEF Gone, Draining
<1>. QED
  BY <1>3, <1>4, <1>5, <1>6 DEF OutputInvariant

LEMMA InterruptInOrder == ASSUME ContextsInvariant, OutputInvariant, Interrupt PROVE OutputInvariant'
<1>1. /\ urgent > 0 /\ urgent' = urgent - 1 /\ urgent' \in Nat /\ UNCHANGED <<given, llm, inq, out>>
  BY DEF Interrupt, OutputInvariant
<1>2. CASE proc.frame.kind \in Uninterruptible
  <2>1. CancelAudio /\ proc' = proc
    BY <1>2 DEF Interrupt
  <2>2. proc.pc \in {"speaking", "draining", "drained"} => proc.frame.kind = "finish"
    BY <1>2 DEF OutputInvariant, Finishing, Uninterruptible
  <2>. QED
    BY <1>1, <2>1, <2>2, CancelAudioInOrder
<1>3. CASE proc.frame.kind \notin Uninterruptible
  <2>1. /\ proc'.pc = "cancelled" /\ intask' = "process" /\ UNCHANGED <<tts, audio, procq>>
    BY <1>3 DEF Interrupt
  <2>2. turn' = turn /\ breaking' = breaking /\ llm' = llm /\ Interrupting /\ Interrupting'
    BY <1>1, <2>1 DEF given, Interrupting
  <2>3. Finishing'
    BY <2>1 DEF Finishing
  <2>4. NextWaits'
    BY <2>1, <2>2 DEF OutputInvariant, NextWaits
  <2>5. ASSUME audio.alive PROVE SentenceInOrder(tts, out, proc') /\ TakenUp'
    <3>1. Fewer(inq, inq') /\ Fewer(procq, procq')
      BY <1>1, <2>1, Now, FewerLeft
    <3>2. TakenUp'
      BY <1>1, <2>1, <2>2, <2>5, <3>1, TakenUpStill DEF OutputInvariant
    <3>. QED
      BY <2>1, <3>2 DEF SentenceInOrder
  <2>. QED
    BY <1>1, <2>1, <2>3, <2>4, <2>5, ElsewhereInOrder
<1>. QED
  BY <1>2, <1>3

LEMMA ProcessCancelledInOrder ==
    ASSUME ContextsInvariant, OutputInvariant, ProcessCancelled PROVE OutputInvariant'
<1>1. CancelAudio /\ UNCHANGED <<given, llm, inq, out>> /\ urgent' \in Nat /\ proc'.pc = "idle"
  BY DEF ProcessCancelled, Idle, OutputInvariant
<1>. QED
  BY <1>1, CancelAudioInOrder

\* The new service stands before an empty output, with nothing of a response in its queue.
LEMMA AudioCancelledInOrder ==
    ASSUME ContextsInvariant, ContextsInvariant', OutputInvariant, AudioCancelled PROVE OutputInvariant'
<1>. DEFINE serial == Emptied(tts.serial)
<1>1. /\ intask = "audio" /\ intask' = "idle" /\ tts' = NewService(serial) /\ audio' = Draining /\ out' = <<>>
      /\ proc' = (IF proc.pc = "draining" THEN [proc EXCEPT !.pc = "dead"] ELSE proc)
      /\ UNCHANGED <<given, llm, urgent, inq, procq>> /\ proc \in [pc : Tasks, frame : Items]
  BY DEF AudioCancelled, queues, ContextsInvariant, TypeOK
<1>2. \A i \in DOMAIN serial : serial[i].kind \in Uninterruptible
  <2>1. tts.serial \in Seq(Items)
    BY Fields
  <2>2. \A i \in DOMAIN Keep(tts.serial, Uninterruptible) : Keep(tts.serial, Uninterruptible)[i].kind \in Uninterruptible
    BY <2>1, KeptFrames
  <2>. QED
    BY <2>2 DEF Emptied, Kept
<1>. HIDE DEF serial
<1>3. /\ tts'.serial = serial /\ tts'.open = {} /\ tts'.context = None /\ tts'.response = None
  BY <1>1 DEF NewService
<1>4. audio'.alive /\ audio'.context = None
  BY <1>1 DEF Draining
<1>5. InLine(tts', out', audio'.context)
  <2>1. Sound(tts', audio'.context)
    BY DEF ContextsInvariant
  <2>2. SerialInOrder(tts', out')
    BY <1>2, <1>3 DEF SerialInOrder, SerialItem, Uninterruptible
  <2>3. QueuesInOrder(tts', out') /\ ResponseInOrder(tts', out') /\ PlayedInOrder(tts', out', audio'.context)
    BY <1>3, <1>4 DEF QueuesInOrder, ResponseInOrder, PlayedInOrder
  <2>4. out' \in Seq(Items)
    BY <1>1
  <2>. QED
    BY <2>1, <2>2, <2>3, <2>4 DEF InLine
<1>6. \A t : ~StartedIn(tts', out', t)
  BY <1>1, <1>2, <1>3 DEF StartedIn, Has, Uninterruptible
<1>7. TakenUp'
  BY <1>6 DEF TakenUp, StartedIn, Has
<1>8. \/ proc' = proc
      \/ proc'.pc = "dead"
  BY <1>1
<1>9. Finishing'
  BY <1>1, <1>8 DEF OutputInvariant, Finishing
<1>10. SentenceInOrder(tts', out', proc')
  BY <1>1, <1>3, <1>8 DEF OutputInvariant, Finishing, SentenceInOrder
<1>11. NextWaits'
  <2>1. Interrupting /\ turn' = turn /\ breaking' = breaking /\ llm' = llm /\ procq' = procq
    BY <1>1 DEF Interrupting, given
  <2>. QED
    BY <2>1 DEF OutputInvariant, NextWaits
<1>12. OutputInOrder'
  BY <1>1 DEF OutputInOrder
<1>13. urgent' \in Nat /\ out' \in Seq(Items)
  BY <1>1 DEF OutputInvariant
<1>. QED
  BY <1>4, <1>5, <1>7, <1>9, <1>10, <1>11, <1>12, <1>13 DEF OutputInvariant

LEMMA StaysFewer ==
    ASSUME ContextsInvariant, inq' = inq, procq' = procq PROVE Fewer(inq, inq') /\ Fewer(procq, procq')
  BY DEF Fewer

\* A response of the turn before is the one that is interrupted.
LEMMA TurnOverInOrder ==
    ASSUME ContextsInvariant, BlameInvariant, OutputInvariant, TurnOver PROVE OutputInvariant'
<1>1. /\ ~breaking /\ breaking' /\ UNCHANGED <<llm, urgent, inq, procq, intask, proc, tts, audio, out>>
      /\ turn' = turns + 1 \/ turn' = None
  BY DEF TurnOver, queues, service
<1>2. turns \in Nat /\ llm.turn \in Nat /\ llm.turn <= turns
      /\ \A i \in Flags(procq, "start") : procq[i].turn \in Turns /\ procq[i].turn \in Nat /\ procq[i].turn <= llm.turn
  BY FreshNow DEF BlameInvariant, Fresh
<1>3. llm' = llm /\ procq' = procq /\ inq' = inq /\ proc' = proc /\ tts' = tts /\ out' = out /\ Interrupting'
  BY <1>1 DEF Interrupting
<1>4. NextWaits'
  <2>1. ~Has(procq, "start", turn')
    <3>1. SUFFICES ASSUME NEW i \in Flags(procq, "start"), procq[i].turn = turn' PROVE FALSE
      BY DEF Has, Flags
    <3>2. turn' # None
      BY <1>2, <3>1, NoTurn
    <3>. QED
      BY <1>1, <1>2, <3>1, <3>2
  <2>2. turn' = None \/ llm.turn < turn'
    BY <1>1, <1>2
  <2>. QED
    BY <1>3, <2>1, <2>2 DEF NextWaits
<1>5. Finishing'
  BY <1>1, <1>3 DEF OutputInvariant, Finishing
<1>6. ASSUME audio.alive PROVE SentenceInOrder(tts, out, proc') /\ TakenUp'
  <2>1. ASSUME NEW t, StartedIn(tts, out, t)
        PROVE  t \in Turns /\ t <= llm.turn /\ Newer(inq, t) /\ Newer(procq, t) /\ t # turn'
    <3>1. t \in Turns /\ t <= llm.turn /\ Newer(inq, t) /\ Newer(procq, t)
      BY <1>6, <2>1 DEF OutputInvariant, TakenUp
    <3>2. t \in Nat
      BY <3>1, ContextsAssumption DEF Turns
    <3>3. t # turn'
      BY <1>1, <1>2, <3>1, <3>2, NoTurn
    <3>. QED
      BY <3>1, <3>3
  <2>2. TakenUp'
    BY <1>3, <2>1 DEF TakenUp
  <2>. QED
    BY <1>3, <1>6, <2>2 DEF OutputInvariant
<1>. QED
  BY <1>1, <1>4, <1>5, <1>6, ElsewhereInOrder DEF OutputInvariant

LEMMA BreakInOrder ==
    ASSUME ContextsInvariant, OutputInvariant, Break PROVE OutputInvariant'
<1>1. /\ breaking /\ ~breaking' /\ urgent' = urgent + 1 /\ urgent \in Nat
      /\ turn' = turn /\ UNCHANGED <<inq, procq, intask, proc, tts, audio, out>>
      /\ llm' = [llm EXCEPT !.stage = "none"] /\ llm \in Responses
  BY Now DEF Break, service, OutputInvariant
<1>2. llm'.turn = llm.turn /\ urgent' \in Nat /\ urgent' > 0
  BY <1>1 DEF Responses
<1>3. Interrupting /\ Interrupting'
  BY <1>1, <1>2 DEF Interrupting
<1>4. Finishing' /\ NextWaits'
  BY <1>1, <1>2, <1>3 DEF OutputInvariant, Finishing, NextWaits
<1>5. audio.alive => SentenceInOrder(tts, out, proc') /\ TakenUp'
  BY <1>1, <1>2, <1>3, StaysFewer, TakenUpStill DEF OutputInvariant
<1>. QED
  BY <1>1, <1>2, <1>4, <1>5, ElsewhereInOrder

LEMMA AbandonInOrder ==
    ASSUME ContextsInvariant, OutputInvariant, Abandon PROVE OutputInvariant'
<1>1. /\ UNCHANGED <<given, urgent, inq, procq, intask, proc, tts, audio, out>>
      /\ llm' = [llm EXCEPT !.stage = "none"] /\ llm \in Responses
  BY Now DEF Abandon, queues, service
<1>2. llm'.turn = llm.turn /\ turn' = turn /\ breaking' = breaking /\ (Interrupting' <=> Interrupting)
  BY <1>1, Unchanged DEF given, Responses
<1>3. Finishing' /\ NextWaits'
  BY <1>1, <1>2 DEF OutputInvariant, Finishing, NextWaits
<1>4. audio.alive => SentenceInOrder(tts, out, proc') /\ TakenUp'
  BY <1>1, <1>2, StaysFewer, TakenUpStill DEF OutputInvariant
<1>. QED
  BY <1>1, <1>3, <1>4, ElsewhereInOrder DEF OutputInvariant

LEMMA SentInOrder ==
    ASSUME ContextsInvariant, BlameInvariant, OutputInvariant, NEW f \in Frames, Send(f), llm'.turn \in Nat,
           IF f.kind = "start" THEN f.turn = llm'.turn /\ llm.turn < llm'.turn /\ ~breaking
           ELSE llm'.turn = llm.turn
    PROVE  OutputInvariant'
<1>1. inq' = Append(inq, f) /\ UNCHANGED <<given, urgent, procq, intask, proc, tts, audio, out>>
      /\ inq \in Seq(Frames) /\ llm.turn \in Nat
  BY FreshNow DEF Send, service, BlameInvariant
<1>2. turn' = turn /\ breaking' = breaking /\ (Interrupting' <=> Interrupting)
  BY <1>1, Unchanged DEF given
<1>3. Finishing' /\ NextWaits'
  BY <1>1, <1>2 DEF OutputInvariant, Finishing, NextWaits
<1>4. ASSUME audio.alive PROVE SentenceInOrder(tts, out, proc') /\ TakenUp'
  <2>1. ASSUME NEW t, StartedIn(tts, out, t)
        PROVE  /\ t \in Turns /\ t <= llm'.turn /\ Newer(inq', t) /\ Newer(procq, t)
               /\ Interrupting <=> t # turn
    <3>1. /\ t \in Turns /\ t <= llm.turn /\ Newer(inq, t) /\ Newer(procq, t)
          /\ Interrupting <=> t # turn
      BY <1>4, <2>1 DEF OutputInvariant, TakenUp
    <3>2. t \in Nat
      BY <3>1, ContextsAssumption DEF Turns
    <3>3. t <= llm'.turn /\ (f.kind = "start" => t < f.turn)
      BY <1>1, <3>1, <3>2
    <3>4. \A i \in DOMAIN inq' : (i \in DOMAIN inq /\ inq'[i] = inq[i]) \/ inq'[i] = f
      <4>1. inq \in Seq(Items) /\ f \in Items
        BY <1>1, FrameIsItem DEF Frames
      <4>. QED
        BY <1>1, <4>1, BehindAll
    <3>5. Newer(inq', t)
      BY <3>1, <3>3, <3>4 DEF Newer, Flags
    <3>. QED
      BY <3>1, <3>3, <3>5
  <2>2. TakenUp'
    BY <1>1, <1>2, <2>1 DEF TakenUp
  <2>. QED
    BY <1>1, <1>4, <2>2 DEF OutputInvariant
<1>. QED
  BY <1>1, <1>3, <1>4, ElsewhereInOrder DEF OutputInvariant

LEMMA RespondInOrder ==
    ASSUME ContextsInvariant, BlameInvariant, OutputInvariant, Respond PROVE OutputInvariant'
<1>. DEFINE f == Frame("start", turn, 0)
<1>1. /\ turn # None /\ llm.turn # turn /\ ~breaking /\ Send(f) /\ llm'.turn = turn
  BY DEF Respond
<1>2. turn \in Turns /\ llm.turn < turn /\ turn \in Nat
  <2>1. turn \in {None, turns} /\ llm.turn <= turns /\ turn \in Nat /\ turns \in Nat /\ llm.turn \in Nat
    BY FreshNow DEF BlameInvariant, Fresh
  <2>2. MaxTurns \in Nat /\ turn \in 0 .. MaxTurns
    BY ContextsAssumption, Now DEF SomeTurn
  <2>. QED
    BY <1>1, <2>1, <2>2 DEF Turns, None
<1>3. f \in Frames /\ f.kind = "start" /\ f.turn = turn
  <2>1. f \in Frames /\ f.kind = "start"
    BY <1>2, NoTurn, FrameMade DEF FrameKinds
  <2>. QED
    BY <2>1 DEF Frame
<1>. HIDE DEF f
<1>. QED
  BY <1>1, <1>2, <1>3, SentInOrder

LEMMA GenerateInOrder ==
    ASSUME ContextsInvariant, BlameInvariant, OutputInvariant, Generate PROVE OutputInvariant'
<1>1. turn \in Turns /\ turn \in SomeTurn /\ llm.stage = "open" /\ llm.texts \in Nat /\ llm.texts + 1 \in Nat
  BY Now DEF Responses, Generate
<1>2. llm'.turn = llm.turn /\ llm.turn \in Nat
  BY Now, FreshNow DEF Generate, Responses, BlameInvariant
<1>3. PICK f \in Frames : Send(f) /\ f.kind # "start"
  <2>1. /\ Frame("text", turn, llm.texts + 1) \in Frames /\ Frame("text", turn, llm.texts + 1).kind = "text"
        /\ Frame("call", turn, 0) \in Frames /\ Frame("call", turn, 0).kind = "call"
        /\ Frame("end", turn, llm.texts) \in Frames /\ Frame("end", turn, llm.texts).kind = "end"
    BY <1>1, FrameMade DEF FrameKinds
  <2>2. \/ Send(Frame("text", turn, llm.texts + 1)) \/ Send(Frame("call", turn, 0))
        \/ Send(Frame("end", turn, llm.texts))
    BY DEF Generate
  <2>. QED
    BY <2>1, <2>2
<1>. QED
  BY <1>2, <1>3, SentInOrder

LEMMA WorkerInOrder ==
    ASSUME ContextsInvariant, BlameInvariant, OutputInvariant, Worker PROVE OutputInvariant'
<1>1. llm' = llm /\ llm.turn \in SomeTurn /\ llm.turn \in Nat
  BY Now, FreshNow DEF Responses, Worker, BlameInvariant
<1>2. PICK f \in Frames : Send(f) /\ f.kind # "start"
  <2>1. /\ Frame("flush", llm.turn, 0) \in Frames /\ Frame("flush", llm.turn, 0).kind = "flush"
        /\ Frame("finish", None, 0) \in Frames /\ Frame("finish", None, 0).kind = "finish"
    BY <1>1, NoTurn, FrameMade DEF FrameKinds
  <2>2. Send(Frame("flush", llm.turn, 0)) \/ Send(Frame("finish", None, 0))
    BY DEF Worker
  <2>. QED
    BY <2>1, <2>2
<1>. QED
  BY <1>1, <1>2, SentInOrder

LEMMA StartsInOrder == Init => OutputInvariant
<1>. SUFFICES ASSUME Init PROVE OutputInvariant
  OBVIOUS
<1>1. /\ breaking = FALSE /\ urgent = 0 /\ intask = "idle" /\ procq = <<>> /\ proc = Idle /\ out = <<>>
      /\ tts = NewService(<<>>) /\ audio = Draining
  BY DEF Init
<1>2. tts.serial = <<>> /\ tts.open = {} /\ tts.context = None /\ tts.response = None
  BY <1>1 DEF NewService
<1>3. audio.alive /\ audio.context = None
  BY <1>1 DEF Draining
<1>4. InLine(tts, out, audio.context)
  <2>1. Sound(tts, audio.context)
    BY StartsSound DEF ContextsInvariant
  <2>2. SerialInOrder(tts, out) /\ QueuesInOrder(tts, out) /\ ResponseInOrder(tts, out)
        /\ PlayedInOrder(tts, out, audio.context)
    BY <1>2, <1>3 DEF SerialInOrder, QueuesInOrder, ResponseInOrder, PlayedInOrder
  <2>. QED
    BY <1>1, <2>1, <2>2 DEF InLine
<1>5. SentenceInOrder(tts, out, proc) /\ TakenUp
  BY <1>1, <1>2, RestsInOrder DEF TakenUp, StartedIn, Has
<1>6. OutputInOrder /\ Finishing /\ NextWaits
  BY <1>1 DEF OutputInOrder, Finishing, NextWaits, Idle, Has
<1>. QED
  BY <1>1, <1>3, <1>4, <1>5, <1>6 DEF OutputInvariant

LEMMA StuttersInOrder ==
    ASSUME ContextsInvariant, OutputInvariant, UNCHANGED vars PROVE OutputInvariant'
<1>1. /\ UNCHANGED <<given, urgent, inq, procq, intask, proc, tts, audio, out>> /\ llm' = llm
  BY DEF vars, queues, service
<1>2. turn' = turn /\ breaking' = breaking /\ (Interrupting' <=> Interrupting)
  BY <1>1, Unchanged DEF given
<1>3. Finishing' /\ NextWaits'
  BY <1>1, <1>2 DEF OutputInvariant, Finishing, NextWaits
<1>4. audio.alive => SentenceInOrder(tts, out, proc') /\ TakenUp'
  BY <1>1, <1>2, StaysFewer, TakenUpStill DEF OutputInvariant
<1>. QED
  BY <1>1, <1>3, <1>4, ElsewhereInOrder DEF OutputInvariant

LEMMA NextInOrder ==
    ASSUME ContextsInvariant, ContextsInvariant', BlameInvariant, BlameInvariant', OutputInvariant,
           [Next]_vars
    PROVE  OutputInvariant'
<1>1. CASE Proceed
  BY <1>1, TakeInOrder, SpeechEndsInOrder, DrainedInOrder, ServeInOrder, PlayInOrder, MoveInOrder,
     InterruptInOrder, ProcessCancelledInOrder, AudioCancelledInOrder, BreakInOrder DEF Proceed
<1>2. CASE Surroundings
  BY <1>2, TurnOverInOrder, RespondInOrder, GenerateInOrder, AbandonInOrder, WorkerInOrder DEF Surroundings
<1>3. CASE UNCHANGED vars
  BY <1>3, StuttersInOrder
<1>. QED
  BY <1>1, <1>2, <1>3 DEF Next

-----------------------------------------------------------------------------
(* The theorems *)

\* Whatever the service, the input task and those around it do next keeps what
\* the service knows of its contexts, its response and its queues in agreement.
THEOREM ContextsInvariantHolds == Spec => []ContextsInvariant
<1>1. ContextsInvariant /\ [Next]_vars => ContextsInvariant'
  <2>. SUFFICES ASSUME ContextsInvariant, [Next]_vars PROVE ContextsInvariant'
    OBVIOUS
  <2>1. CASE Proceed
    BY <2>1, TakeKeeps, SpeechEndsKeeps, DrainedKeeps, ServeKeeps, PlayKeeps, MoveKeeps, InterruptKeeps,
       ProcessCancelledKeeps, AudioCancelledKeeps, BreakKeeps DEF Proceed
  <2>2. CASE Surroundings
    BY <2>2, TurnOverKeeps, RespondKeeps, GenerateKeeps, AbandonKeeps, WorkerKeeps DEF Surroundings
  <2>3. CASE UNCHANGED vars
    BY <2>3, Now, UpstreamKeeps DEF vars, given, queues, service, counts
  <2>. QED
    BY <2>1, <2>2, <2>3 DEF Next
<1>. QED
  BY <1>1, StartsSound, PTL DEF Spec

\* The audio task of TTSService finds every context the serialization queue names,
\* and finds it once, whatever is interrupted while it waits.
THEOREM FindsEveryContext == Spec => []ContextsExist
<1>1. ContextsInvariant => ContextsExist
  BY DEF ContextsInvariant, Sound, Consistent, ContextsIn, ContextsExist, Named
<1>. QED
  BY <1>1, ContextsInvariantHolds, PTL

\* A flush probe is in a queue or has gone on downstream: no interruption, and no
\* new queue, loses one.
THEOREM LosesNoFlush == Spec => []FlushSurvives
<1>1. ContextsInvariant => FlushSurvives
  BY DEF ContextsInvariant
<1>. QED
  BY <1>1, ContextsInvariantHolds, PTL

\* What is heard of a context is in it before its end is, and no context is taken up
\* again: of the service, its queues and what is spoken this holds throughout.
THEOREM BlameInvariantHolds == Spec => []BlameInvariant
<1>1. ContextsInvariant /\ BlameInvariant /\ [Next]_vars => BlameInvariant'
  <2>. SUFFICES ASSUME ContextsInvariant, BlameInvariant, [Next]_vars PROVE BlameInvariant'
    OBVIOUS
  <2>1. CASE Proceed
    BY <2>1, TakeBlames, SpeechEndsBlames, DrainedBlames, ServeBlames, PlayBlames, MoveBlames, InterruptBlames,
       ProcessCancelledBlames, AudioCancelledBlames, BreakBlames DEF Proceed
  <2>2. CASE Surroundings
    BY <2>2, TurnOverBlames, RespondBlames, GenerateBlames, AbandonBlames, WorkerBlames DEF Surroundings
  <2>3. CASE UNCHANGED vars
    <3>1. UNCHANGED <<turn, turns, llm, inq, procq, tts, intask, audio, proc, silent>>
      BY <2>3 DEF vars, given, queues, service
    <3>. QED
      BY <3>1, FreshStill, ElsewhereBlames DEF BlameInvariant
  <2>. QED
    BY <2>1, <2>2, <2>3 DEF Next
<1>. QED
  BY <1>1, StartsUnblamed, ContextsInvariantHolds, PTL DEF Spec

\* _record_context_audio_outcome counts no context as silent: neither one the user
\* cut off nor one whose playback failed.
THEOREM BlamesNoContext == Spec => []NeverBlamed
<1>1. BlameInvariant => NeverBlamed
  BY DEF BlameInvariant
<1>. QED
  BY <1>1, BlameInvariantHolds, PTL

\* What the service has emitted since the last interruption, what it has yet to emit
\* and what the input task and the LLM know of the turns stay in agreement: a
\* response is taken up only when nothing is left of another.
THEOREM OutputInvariantHolds == Spec => []OutputInvariant
<1>1. ContextsInvariant /\ ContextsInvariant' /\ BlameInvariant /\ BlameInvariant' /\ OutputInvariant
          /\ [Next]_vars => OutputInvariant'
  BY NextInOrder
<1>. QED
  BY <1>1, StartsInOrder, ContextsInvariantHolds, BlameInvariantHolds, PTL DEF Spec

\* Downstream of TTSService one response follows another, its speech between its
\* start and its end, and a sentence's announcement, playback and words in turn.
THEOREM EmitsInOrder == Spec => []OutputInOrder
<1>1. OutputInvariant => OutputInOrder
  BY DEF OutputInvariant
<1>. QED
  BY <1>1, OutputInvariantHolds, PTL
=============================================================================
