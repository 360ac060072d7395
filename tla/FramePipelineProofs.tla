------------------------ MODULE FramePipelineProofs ------------------------
(***************************************************************************)
(* A frame that must not be lost is not lost: whatever is interrupted,     *)
(* paused, drained or still starting, and however many processors there    *)
(* are, until the worker cancels or gives up.  And a flush probe that has  *)
(* made its trip has drained what was queued ahead of it.                  *)
(***************************************************************************)
EXTENDS FramePipeline, FiniteSetTheorems, WellFoundedInduction, TLAPS

-----------------------------------------------------------------------------
(* Queues *)

LEMMA LeastNumber == ASSUME NEW B \in SUBSET Nat, B # {} PROVE \E n \in B : \A m \in B : n <= m
<1>. DEFINE R == OpToRel(<, Nat)
<1>1. \A m, n \in Nat : m < n <=> <<m, n>> \in R
  BY DEF OpToRel
<1>2. IsWellFoundedOn(R, Nat)
  BY NatLessThanWellFounded
<1>. HIDE DEF R
<1>3. \E n \in B : \A m \in B : <<m, n>> \notin R
  BY <1>2, WFMin
<1>4. \A m, n \in Nat : ~(m < n) => n <= m
  OBVIOUS
<1>. QED
  BY <1>1, <1>3, <1>4

LEMMA ElementsOf ==
    ASSUME NEW S, NEW q \in Seq(S) PROVE Elements(q) \subseteq S /\ \A i \in DOMAIN q : q[i] \in Elements(q)
  BY DEF Elements

LEMMA ElementsTaken ==
    ASSUME NEW S, NEW q \in Seq(S), q # <<>>
    PROVE  /\ Tail(q) \in Seq(S) /\ Head(q) \in S /\ Head(q) = q[1]
           /\ Elements(q) = {Head(q)} \cup Elements(Tail(q))
           /\ \A i \in DOMAIN Tail(q) : i + 1 \in DOMAIN q /\ Tail(q)[i] = q[i + 1] /\ i \in Nat \ {0}
<1>1. Tail(q) \in Seq(S) /\ Head(q) \in S /\ Len(q) \in Nat /\ Len(q) # 0 /\ Head(q) = q[1]
      /\ Len(Tail(q)) = Len(q) - 1 /\ DOMAIN q = 1 .. Len(q) /\ DOMAIN Tail(q) = 1 .. Len(q) - 1
      /\ \A i \in 1 .. Len(q) - 1 : Tail(q)[i] = q[i + 1]
  OBVIOUS
<1>2. \A i \in 1 .. Len(q) : i = 1 \/ (i - 1 \in 1 .. Len(q) - 1 /\ Tail(q)[i - 1] = q[i])
  BY <1>1
<1>3. \A i \in 1 .. Len(q) - 1 : i + 1 \in 1 .. Len(q)
  BY <1>1
<1>4. ASSUME NEW x \in Elements(q) PROVE x \in {Head(q)} \cup Elements(Tail(q))
  <2>1. PICK i \in 1 .. Len(q) : x = q[i]
    BY <1>1 DEF Elements
  <2>2. CASE i = 1
    BY <1>1, <2>1, <2>2
  <2>3. CASE i # 1
    <3>1. i - 1 \in DOMAIN Tail(q) /\ Tail(q)[i - 1] = x
      BY <1>1, <1>2, <2>1, <2>3
    <3>. QED
      BY <3>1 DEF Elements
  <2>. QED
    BY <2>2, <2>3
<1>5. {Head(q)} \cup Elements(Tail(q)) \subseteq Elements(q)
  BY <1>1, <1>3 DEF Elements
<1>. QED
  BY <1>1, <1>3, <1>4, <1>5

LEMMA ElementsAppended ==
    ASSUME NEW S, NEW q \in Seq(S), NEW x \in S
    PROVE  Append(q, x) \in Seq(S) /\ Elements(Append(q, x)) = Elements(q) \cup {x}
<1>1. /\ Append(q, x) \in Seq(S) /\ DOMAIN Append(q, x) = 1 .. Len(q) + 1 /\ DOMAIN q = 1 .. Len(q)
      /\ Append(q, x)[Len(q) + 1] = x /\ \A i \in 1 .. Len(q) : Append(q, x)[i] = q[i]
      /\ Len(q) \in Nat
  OBVIOUS
<1>2. \A i \in 1 .. Len(q) + 1 : i \in 1 .. Len(q) \/ i = Len(q) + 1
  BY <1>1
<1>. QED
  BY <1>1, <1>2 DEF Elements

LEMMA ElementsJoined ==
    ASSUME NEW S, NEW q \in Seq(S), NEW r \in Seq(S)
    PROVE  q \o r \in Seq(S) /\ Elements(q \o r) = Elements(q) \cup Elements(r)
<1>1. /\ q \o r \in Seq(S) /\ DOMAIN (q \o r) = 1 .. Len(q) + Len(r)
      /\ DOMAIN q = 1 .. Len(q) /\ DOMAIN r = 1 .. Len(r) /\ Len(q) \in Nat /\ Len(r) \in Nat
      /\ \A i \in 1 .. Len(q) : (q \o r)[i] = q[i]
      /\ \A i \in 1 .. Len(q) + Len(r) : i \in 1 .. Len(q) \/ (i - Len(q) \in 1 .. Len(r) /\ (q \o r)[i] = r[i - Len(q)])
      /\ \A i \in 1 .. Len(r) : Len(q) + i \in 1 .. Len(q) + Len(r) /\ (q \o r)[Len(q) + i] = r[i]
  OBVIOUS
<1>2. Elements(q \o r) \subseteq Elements(q) \cup Elements(r)
  BY <1>1 DEF Elements
<1>3. Elements(q) \cup Elements(r) \subseteq Elements(q \o r)
  BY SMTT(60), <1>1 DEF Elements
<1>. QED
  BY <1>1, <1>2, <1>3

\* What Only builds of the first n frames.
Builds(q, I, n, kept) ==
    kept = [i \in 0 .. n |->
               IF i = 0 THEN <<>> ELSE IF i \in I THEN Append(kept[i - 1], q[i]) ELSE kept[i - 1]]

LEMMA BuildsExists == ASSUME NEW q, NEW I, NEW n \in Nat PROVE \E kept : Builds(q, I, n, kept)
<1>. DEFINE Bad == {m \in Nat : ~\E kept : Builds(q, I, m, kept)}
<1>. SUFFICES ASSUME Bad # {} PROVE FALSE
  OBVIOUS
<1>1. PICK m \in Bad : \A k \in Bad : m <= k
  BY LeastNumber
<1>2. m # 0
  <2>1. Builds(q, I, 0, [i \in 0 .. 0 |-> <<>>])
    BY DEF Builds
  <2>. QED
    BY <2>1
<1>3. m \in Nat /\ m - 1 \in Nat /\ m - 1 \notin Bad
  BY <1>1, <1>2
<1>4. PICK before : Builds(q, I, m - 1, before)
  BY <1>3
<1>. DEFINE all == [i \in 0 .. m |-> IF i # m THEN before[i]
                       ELSE IF m \in I THEN Append(before[m - 1], q[m]) ELSE before[m - 1]]
<1>5. \A i \in 0 .. m - 1 :
          before[i] = IF i = 0 THEN <<>> ELSE IF i \in I THEN Append(before[i - 1], q[i]) ELSE before[i - 1]
  BY <1>3, <1>4 DEF Builds
<1>6. \A i \in 0 .. m :
          all[i] = IF i = 0 THEN <<>> ELSE IF i \in I THEN Append(all[i - 1], q[i]) ELSE all[i - 1]
  BY <1>2, <1>3, <1>5
<1>7. Builds(q, I, m, all)
  BY <1>6 DEF Builds
<1>. QED
  BY <1>1, <1>7

\* What is left is what stood at the places named, and all of it.
LEMMA OnlyThose ==
    ASSUME NEW S, NEW q \in Seq(S), NEW I
    PROVE  Only(q, I) \in Seq(S) /\ Elements(Only(q, I)) = {q[i] : i \in I \cap DOMAIN q}
<1>. DEFINE made == CHOOSE kept : Builds(q, I, Len(q), kept)
<1>1. Builds(q, I, Len(q), made)
  BY BuildsExists
<1>2. Only(q, I) = made[Len(q)]
  BY DEF Only, Builds
<1>. HIDE DEF made
<1>. DEFINE Good(n) == made[n] \in Seq(S) /\ Elements(made[n]) = {q[i] : i \in I \cap (1 .. n)}
<1>3. Good(0)
  <2>1. made[0] = <<>>
    BY <1>1 DEF Builds
  <2>. QED
    BY <2>1 DEF Elements
<1>4. ASSUME NEW n \in 1 .. Len(q), Good(n - 1) PROVE Good(n)
  <2>1. q[n] \in S /\ n - 1 \in Nat /\ n \in Nat /\ n # 0 /\ n \in 0 .. Len(q)
    OBVIOUS
  <2>2. made[n] = IF n \in I THEN Append(made[n - 1], q[n]) ELSE made[n - 1]
    BY <1>1, <2>1 DEF Builds
  <2>3. \A i \in 1 .. n : i \in 1 .. n - 1 \/ i = n
    BY <2>1
  <2>4. 1 .. n - 1 \subseteq 1 .. n /\ n \in 1 .. n
    BY <2>1
  <2>5. CASE n \in I
    <3>1. made[n] \in Seq(S) /\ Elements(made[n]) = Elements(made[n - 1]) \cup {q[n]}
      BY <1>4, <2>1, <2>2, <2>5, ElementsAppended
    <3>2. {q[i] : i \in I \cap (1 .. n)} = {q[i] : i \in I \cap (1 .. n - 1)} \cup {q[n]}
      BY <2>3, <2>4, <2>5
    <3>. QED
      BY <1>4, <3>1, <3>2
  <2>6. CASE n \notin I
    <3>1. {q[i] : i \in I \cap (1 .. n)} = {q[i] : i \in I \cap (1 .. n - 1)}
      BY <2>3, <2>4, <2>6
    <3>. QED
      BY <1>4, <2>2, <2>6, <3>1
  <2>. QED
    BY <2>5, <2>6
<1>5. Good(Len(q))
  <2>. DEFINE Bad == {n \in 0 .. Len(q) : ~Good(n)}
  <2>. HIDE DEF Good
  <2>. SUFFICES ASSUME Bad # {} PROVE FALSE
    OBVIOUS
  <2>1. Bad \in SUBSET Nat
    OBVIOUS
  <2>2. PICK n \in Bad : \A m \in Bad : n <= m
    BY <2>1, LeastNumber
  <2>3. n \in 1 .. Len(q) /\ n - 1 \in 0 .. Len(q) /\ n - 1 \notin Bad
    BY <1>3, <2>2
  <2>. QED
    BY <1>4, <2>2, <2>3
<1>. QED
  BY <1>2, <1>5

LEMMA NothingOf == ASSUME NEW S, NEW q \in Seq(S), Elements(q) = {} PROVE q = <<>>
<1>1. Len(q) \in Nat /\ (Len(q) > 0 => 1 \in DOMAIN q)
  OBVIOUS
<1>2. Len(q) = 0
  BY <1>1 DEF Elements
<1>. QED
  BY <1>2

LEMMA OnlyOne == \A x, I : Only(<<x>>, I) = IF 1 \in I THEN <<x>> ELSE <<>>
<1>. SUFFICES ASSUME NEW x, NEW I PROVE Only(<<x>>, I) = IF 1 \in I THEN <<x>> ELSE <<>>
  OBVIOUS
<1>1. PICK kept : Builds(<<x>>, I, 1, kept)
  BY BuildsExists
<1>. DEFINE made == CHOOSE k : Builds(<<x>>, I, Len(<<x>>), k)
<1>2. Len(<<x>>) = 1 /\ <<x>>[1] = x
  OBVIOUS
<1>3. Builds(<<x>>, I, 1, made)
  BY <1>1, <1>2
<1>4. Only(<<x>>, I) = made[1]
  BY <1>2 DEF Only, Builds
<1>. HIDE DEF made
<1>5. made[0] = <<>> /\ made[1] = IF 1 \in I THEN Append(made[0], <<x>>[1]) ELSE made[0]
  <2>1. 0 \in 0 .. 1 /\ 1 \in 0 .. 1 /\ 1 # 0 /\ 1 - 1 = 0
    OBVIOUS
  <2>2. \A i \in 0 .. 1 :
            made[i] = IF i = 0 THEN <<>> ELSE IF i \in I THEN Append(made[i - 1], <<x>>[i]) ELSE made[i - 1]
    BY <1>3 DEF Builds
  <2>. QED
    BY <2>1, <2>2
<1>6. Append(<<>>, x) = <<x>>
  OBVIOUS
<1>. QED
  BY <1>2, <1>4, <1>5, <1>6

-----------------------------------------------------------------------------
(* What the variables hold *)

SystemFrames == {f \in Frames : f.kind \in System /\ (f.kind = "start" => f.dir = "down")}
OtherFrames == {f \in Frames : f.kind \in Uninterruptible \cup Interruptible}
\* What the application and the worker queue.
QueuedFrames == {f \in Frames : f.dir = "down" /\ f.kind \in Uninterruptible \cup {"text", "turnend", "cancel"}}

TypeOK ==
    /\ urgent \in [Procs -> Seq(SystemFrames)]
    /\ waiting \in [Procs -> Seq(OtherFrames)] /\ procq \in [Procs -> Seq(OtherFrames)]
    /\ intask \in [Procs -> SystemFrames \cup {NoFrame}]
    /\ current \in [Procs -> OtherFrames \cup {NoFrame}]
    /\ listening \subseteq Procs
    /\ pushq \in Seq(QueuedFrames)
    /\ script \in Seq(Uninterruptible \cup {"text", "turnend"})

Open == pushing \notin {"cancel", "finished"}

\* Nothing is cancelled while the worker has not pushed a CancelFrame.
NothingCancelled ==
    /\ cancelling = {}
    /\ \A p \in Procs : intask[p].kind # "cancel" /\ \A f \in Elements(urgent[p]) : f.kind # "cancel"

\* A processor that the StartFrame has not reached does nothing.
Asleep(p) == intask[p] = NoFrame /\ p \notin working /\ current[p] = NoFrame
Starting(p) == \E f \in Elements(urgent[p]) : f.kind = "start"
NotYet(p) == \A q \in Procs : q > p => q \notin listening

\* There is one StartFrame, and it is first wherever it comes.
StartsOnce ==
    /\ pushing = "new" => listening = {}
    /\ \A p \in Procs :
        /\ p \notin listening => Asleep(p) /\ ~Starting(p)
        /\ Starting(p) =>
              /\ Asleep(p) /\ NotYet(p)
              /\ urgent[p] # <<>> /\ Head(urgent[p]).kind = "start"
              /\ \A f \in Elements(Tail(urgent[p])) : f.kind # "start"
        /\ intask[p].kind = "start" => NotYet(p) /\ ~Starting(p)

\* Every frame that is neither with the application's frames nor at rest.
Carried(f) ==
    \/ f \in Elements(pushq)
    \/ \E p \in Procs : f \in Elements(waiting[p]) \/ f \in Elements(procq[p]) \/ f = current[p]
Alike(f, g) == f.id = g.id /\ f.kind = g.kind
NothingLost ==
    \A i \in 1 .. Len(script) :
        script[i] \in Uninterruptible =>
            i \in arrived \/ \E f : Carried(f) /\ f.id = i /\ f.kind = script[i]

PipelineInvariant == TypeOK /\ (Open => NothingCancelled /\ StartsOnce /\ NothingLost)

LEMMA Kindly ==
    /\ System \cap (Uninterruptible \cup Interruptible) = {}
    /\ NoFrame \notin SystemFrames /\ NoFrame \notin OtherFrames /\ NoFrame.kind = "none"
    /\ \A f \in SystemFrames : f.kind \in System /\ f \in Frames
    /\ \A f \in OtherFrames : f.kind \notin System /\ f \in Frames
    /\ \A f \in QueuedFrames : f.dir = "down" /\ f \in Frames /\ f.kind # "start"
  BY DEF SystemFrames, OtherFrames, QueuedFrames, Frames, Kinds, System, Uninterruptible, Interruptible, Terminal,
         NoFrame, Down, Frame

\* A queued frame survives a step if everything that carries it leaves a frame like it.
LEMMA CarriedOn ==
    ASSUME NothingLost, script' = script, arrived \subseteq arrived',
           \A f : Carried(f) /\ f.kind \in Uninterruptible /\ f.id # 0 =>
               f.id \in arrived' \/ \E g : Carried(g)' /\ Alike(f, g)
    PROVE  NothingLost'
<1>. SUFFICES ASSUME NEW i \in 1 .. Len(script), script[i] \in Uninterruptible
              PROVE  i \in arrived' \/ \E f : Carried(f)' /\ f.id = i /\ f.kind = script[i]
  BY DEF NothingLost
<1>1. CASE i \in arrived
  BY <1>1
<1>2. CASE \E f : Carried(f) /\ f.id = i /\ f.kind = script[i]
  <2>1. PICK f : Carried(f) /\ f.id = i /\ f.kind = script[i]
    BY <1>2
  <2>2. i # 0
    OBVIOUS
  <2>. QED
    BY <2>1, <2>2 DEF Alike
<1>. QED
  BY <1>1, <1>2 DEF NothingLost

LEMMA StartsWell == Init => PipelineInvariant
<1>. SUFFICES ASSUME Init PROVE PipelineInvariant
  OBVIOUS
<1>1. script \in Seq(Uninterruptible \cup {"text", "turnend"})
  BY PipelineAssumption DEF Init
<1>2. pushq \in Seq(QueuedFrames) /\ \A i \in 1 .. Len(script) : pushq[i] = Down(script[i], i) /\ i \in DOMAIN pushq
  <2>1. pushq = [i \in 1 .. Len(script) |-> Down(script[i], i)] /\ Len(script) \in Nat
    BY <1>1 DEF Init, Queued
  <2>2. ASSUME NEW i \in 1 .. Len(script) PROVE Down(script[i], i) \in QueuedFrames
    <3>1. script[i] \in Uninterruptible \cup {"text", "turnend"} /\ i \in Nat
      BY <1>1
    <3>. QED
      BY <3>1 DEF QueuedFrames, Frames, Kinds, Interruptible, Down, Frame
  <2>. QED
    BY <2>1, <2>2
<1>3. /\ <<>> \in Seq(SystemFrames) /\ <<>> \in Seq(OtherFrames)
  OBVIOUS
<1>4. TypeOK
  BY <1>1, <1>2, <1>3 DEF Init, TypeOK
<1>5. NothingCancelled
  BY Kindly DEF Init, NothingCancelled, Elements
<1>6. StartsOnce
  BY Kindly DEF Init, StartsOnce, Asleep, Starting, Elements
<1>7. NothingLost
  <2>. SUFFICES ASSUME NEW i \in 1 .. Len(script)
                PROVE  \E f : Carried(f) /\ f.id = i /\ f.kind = script[i]
    BY DEF NothingLost
  <2>1. pushq[i] = Down(script[i], i) /\ pushq[i] \in Elements(pushq)
    BY <1>2 DEF Elements
  <2>2. Down(script[i], i).id = i /\ Down(script[i], i).kind = script[i]
    BY DEF Down, Frame
  <2>. QED
    BY <2>1, <2>2 DEF Carried
<1>. QED
  BY <1>4, <1>5, <1>6, <1>7 DEF PipelineInvariant

-----------------------------------------------------------------------------
(* What a push does *)

Stations == 0 .. N + 1
Places == [at : Int, frame : Frames]

LEMMA LandingIs ==
    ASSUME NEW p \in Stations, NEW f \in Frames
    PROVE  /\ Landing(p, f) \in Places /\ Landing(p, f).at \in {Hop(p, f), N, 1}
           /\ Alike(Landing(p, f).frame, f)
           /\ f.kind = "start" /\ f.dir = "down" => Landing(p, f) = [at |-> p + 1, frame |-> f]
           /\ f.kind \notin {"flush", "endworker"} => Landing(p, f).frame = f
<1>1. N \in Nat \ {0} /\ p \in Int /\ Hop(p, f) \in Int
  BY PipelineAssumption DEF Hop, Stations
<1>2. f.dir \in {"down", "up"} /\ f.kind \in Kinds
  BY DEF Frames
<1>. DEFINE up == [f EXCEPT !.dir = "up"]
            down == [f EXCEPT !.dir = "down", !.back = TRUE]
<1>3. up \in Frames /\ down \in Frames /\ up.kind = f.kind /\ up.id = f.id /\ down.kind = f.kind /\ down.id = f.id
  BY DEF Frames
<1>. HIDE DEF up, down
<1>4. CASE Hop(p, f) = Sink /\ (f.kind = "endworker" \/ (f.kind = "flush" /\ ~f.back))
  <2>1. Landing(p, f) = [at |-> N, frame |-> up]
    BY <1>1, <1>4 DEF Landing, up, Sink, Source
  <2>. QED
    BY <1>1, <1>3, <1>4, <2>1 DEF Places, Alike
<1>5. CASE ~(Hop(p, f) = Sink /\ (f.kind = "endworker" \/ (f.kind = "flush" /\ ~f.back)))
           /\ Hop(p, f) = Source /\ f.kind = "flush"
  <2>1. Landing(p, f) = [at |-> 1, frame |-> down]
    BY <1>5 DEF Landing, down
  <2>. QED
    BY <1>1, <1>3, <1>5, <2>1 DEF Places, Alike
<1>6. CASE ~(Hop(p, f) = Sink /\ (f.kind = "endworker" \/ (f.kind = "flush" /\ ~f.back)))
           /\ ~(Hop(p, f) = Source /\ f.kind = "flush")
  <2>1. Landing(p, f) = [at |-> Hop(p, f), frame |-> f]
    BY <1>6 DEF Landing
  <2>2. f.dir = "down" => Hop(p, f) = p + 1
    BY DEF Hop
  <2>. QED
    BY <1>1, <2>1, <2>2 DEF Places, Alike
<1>. QED
  BY <1>4, <1>5, <1>6

\* Where what is pushed comes to.
LEMMA LandingsAre ==
    ASSUME NEW p \in Stations, NEW fs \in Seq(Frames)
    PROVE  /\ Landings(p, fs) \in Seq(Places)
           /\ \A l \in Elements(Landings(p, fs)) : \E f \in Elements(fs) : l = Landing(p, f)
           /\ cancelling = {} => \A f \in Elements(fs) : Landing(p, f) \in Elements(Landings(p, fs))
<1>. DEFINE landed == [i \in DOMAIN fs |-> Landing(p, fs[i])]
            I == {i \in DOMAIN fs : {Hop(p, fs[i]), landed[i].at} \cap cancelling = {}}
<1>1. DOMAIN fs = 1 .. Len(fs) /\ Len(fs) \in Nat /\ \A i \in DOMAIN fs : fs[i] \in Frames
  OBVIOUS
<1>2. landed \in Seq(Places) /\ DOMAIN landed = DOMAIN fs
  <2>1. \A i \in DOMAIN fs : Landing(p, fs[i]) \in Places
    BY <1>1, LandingIs
  <2>. QED
    BY <1>1, <2>1
<1>3. Landings(p, fs) = Only(landed, I)
  BY DEF Landings
<1>4. Only(landed, I) \in Seq(Places) /\ Elements(Only(landed, I)) = {landed[i] : i \in I \cap DOMAIN landed}
  BY <1>2, OnlyThose
<1>5. \A l \in Elements(Only(landed, I)) : \E f \in Elements(fs) : l = Landing(p, f)
  BY <1>2, <1>4 DEF Elements
<1>6. cancelling = {} => I = DOMAIN fs
  OBVIOUS
<1>7. ASSUME cancelling = {}, NEW f \in Elements(fs) PROVE Landing(p, f) \in Elements(Only(landed, I))
  <2>1. PICK i \in DOMAIN fs : f = fs[i]
    BY DEF Elements
  <2>2. landed[i] = Landing(p, f) /\ i \in I \cap DOMAIN landed
    BY <1>2, <1>6, <1>7, <2>1
  <2>. QED
    BY <1>4, <2>2
<1>. QED
  BY <1>3, <1>4, <1>5, <1>7

LEMMA ArrivingAre ==
    ASSUME NEW r, NEW ls \in Seq(Places), NEW tier \in BOOLEAN
    PROVE  /\ Arriving(r, ls, tier) \in Seq(Frames)
           /\ Elements(Arriving(r, ls, tier))
                  = {l.frame : l \in {k \in Elements(ls) : k.at = r /\ (k.frame.kind \in System) = tier}}
<1>. DEFINE I == {i \in DOMAIN ls : ls[i].at = r /\ (ls[i].frame.kind \in System) = tier}
            here == Only(ls, I)
            made == [i \in DOMAIN here |-> here[i].frame]
<1>1. here \in Seq(Places) /\ Elements(here) = {ls[i] : i \in I \cap DOMAIN ls}
  BY OnlyThose
<1>2. Elements(here) = {k \in Elements(ls) : k.at = r /\ (k.frame.kind \in System) = tier}
  BY <1>1 DEF Elements
<1>. HIDE DEF here
<1>3. DOMAIN here = 1 .. Len(here) /\ Len(here) \in Nat /\ \A i \in DOMAIN here : here[i].frame \in Frames
  <2>1. DOMAIN here = 1 .. Len(here) /\ Len(here) \in Nat /\ \A i \in DOMAIN here : here[i] \in Places
    BY <1>1
  <2>. QED
    BY <2>1 DEF Places
<1>4. made \in Seq(Frames) /\ Elements(made) = {l.frame : l \in Elements(here)}
  BY <1>3 DEF Elements
<1>5. Arriving(r, ls, tier) = made
  BY DEF Arriving, here
<1>. QED
  BY <1>2, <1>4, <1>5

\* The system frames that arrive follow those that wait, but for the StartFrame.
LEMMA PutUrgentIs ==
    ASSUME NEW S, NEW q \in Seq(S), NEW fs \in Seq(S)
    PROVE  /\ PutUrgent(q, fs) \in Seq(S) /\ Elements(PutUrgent(q, fs)) = Elements(q) \cup Elements(fs)
           /\ \A f : fs = <<f>> /\ f.kind = "start" => PutUrgent(q, fs) = <<f>> \o q
<1>. DEFINE I == {i \in DOMAIN fs : fs[i].kind = "start"}
            a == Only(fs, I)
            b == Only(fs, DOMAIN fs \ I)
<1>1. /\ a \in Seq(S) /\ Elements(a) = {fs[i] : i \in I \cap DOMAIN fs}
      /\ b \in Seq(S) /\ Elements(b) = {fs[i] : i \in (DOMAIN fs \ I) \cap DOMAIN fs}
  BY OnlyThose
<1>2. PutUrgent(q, fs) = (a \o q) \o b
  BY DEF PutUrgent
<1>3. Elements(fs) = Elements(a) \cup Elements(b)
  BY <1>1 DEF Elements
<1>4. ASSUME NEW f, fs = <<f>>, f.kind = "start" PROVE a = <<f>> /\ b = <<>>
  <2>1. 1 \in I /\ 1 \notin DOMAIN fs \ I
    BY <1>4
  <2>2. Only(<<f>>, I) = <<f>> /\ Only(<<f>>, DOMAIN fs \ I) = <<>>
    BY <2>1, OnlyOne
  <2>. QED
    BY <1>4, <2>2
<1>. HIDE DEF a, b, I
<1>6. a \o q \in Seq(S) /\ Elements(a \o q) = Elements(a) \cup Elements(q)
  BY <1>1, ElementsJoined
<1>7. (a \o q) \o b \in Seq(S) /\ Elements((a \o q) \o b) = Elements(a \o q) \cup Elements(b)
  <2>. DEFINE aq == a \o q
  <2>1. aq \in Seq(S) /\ b \in Seq(S)
    BY <1>1, <1>6
  <2>. HIDE DEF aq
  <2>2. aq \o b \in Seq(S) /\ Elements(aq \o b) = Elements(aq) \cup Elements(b)
    BY <2>1, ElementsJoined
  <2>. QED
    BY <2>2 DEF aq
<1>9. ASSUME NEW f, fs = <<f>>, f.kind = "start" PROVE PutUrgent(q, fs) = <<f>> \o q
  <2>1. a = <<f>> /\ b = <<>> /\ f \in S
    <3>1. fs[1] = f /\ 1 \in DOMAIN fs
      BY <1>9
    <3>. QED
      BY <1>4, <1>9, <3>1
  <2>2. (<<f>> \o q) \o <<>> = <<f>> \o q
    BY <2>1
  <2>. QED
    BY <1>2, <2>1, <2>2
<1>. QED
  BY <1>2, <1>3, <1>6, <1>7, <1>9

LEMMA PutUrgentBehind ==
    ASSUME NEW S, NEW q \in Seq(S), NEW fs \in Seq(S), \A f \in Elements(fs) : f.kind # "start"
    PROVE  \E more \in Seq(S) : PutUrgent(q, fs) = q \o more /\ Elements(more) = Elements(fs)
<1>. DEFINE I == {i \in DOMAIN fs : fs[i].kind = "start"}
            a == Only(fs, I)
            b == Only(fs, DOMAIN fs \ I)
<1>1. I = {}
  BY DEF Elements
<1>2. a \in Seq(S) /\ Elements(a) = {fs[i] : i \in I \cap DOMAIN fs}
  BY OnlyThose
<1>3. a = <<>>
  BY <1>1, <1>2, NothingOf
<1>4. b \in Seq(S) /\ Elements(b) = {fs[i] : i \in (DOMAIN fs \ I) \cap DOMAIN fs}
  BY OnlyThose
<1>5. Elements(b) = Elements(fs)
  BY <1>1, <1>4 DEF Elements
<1>6. PutUrgent(q, fs) = (a \o q) \o b
  BY DEF PutUrgent
<1>. HIDE DEF a, b, I
<1>7. <<>> \o q = q
  OBVIOUS
<1>. QED
  BY <1>3, <1>4, <1>5, <1>6, <1>7

\* A push of frames none of which is the StartFrame.
LEMMA Received ==
    ASSUME TypeOK, NEW p \in Stations, NEW fs \in Seq(Frames), NEW q \in Seq(QueuedFrames), Receive(p, fs, q),
           \A f \in Elements(fs) : f.kind # "start" /\ Hop(p, f) \in Stations
    PROVE  /\ urgent' \in [Procs -> Seq(SystemFrames)] /\ waiting' \in [Procs -> Seq(OtherFrames)]
           /\ listening' = listening /\ pushq' \in Seq(QueuedFrames) /\ arrived \subseteq arrived'
           /\ Elements(q) \subseteq Elements(pushq')
           /\ \A r \in Procs :
                /\ Elements(waiting[r]) \subseteq Elements(waiting'[r])
                /\ \E more \in Seq(SystemFrames) :
                       /\ urgent'[r] = urgent[r] \o more
                       /\ \A g \in Elements(more) : g.kind # "start" /\ \E f \in Elements(fs) : g.kind = f.kind
           /\ cancelling = {} /\ (\A f \in Elements(fs) : f.kind # "cancel") => cancelling' = {}
           /\ cancelling = {} =>
                \A f \in Elements(fs) : f.kind \in Uninterruptible /\ f.id # 0 =>
                    f.id \in arrived' \/ \E r \in Procs : \E g \in Elements(waiting'[r]) : Alike(f, g)
<1>. DEFINE ls == Landings(p, fs)
<1>1. /\ ls \in Seq(Places)
      /\ \A l \in Elements(ls) : \E f \in Elements(fs) : l = Landing(p, f)
      /\ cancelling = {} => \A f \in Elements(fs) : Landing(p, f) \in Elements(ls)
  BY LandingsAre
<1>2. Elements(fs) \subseteq Frames /\ \A i \in DOMAIN ls : ls[i] \in Elements(ls)
  BY <1>1, ElementsOf
<1>3. \A l \in Elements(ls) : l \in Places /\ l.frame \in Frames /\ \E f \in Elements(fs) : l.frame.kind = f.kind
  <2>1. ASSUME NEW l \in Elements(ls) PROVE l \in Places /\ l.frame \in Frames /\ \E f \in Elements(fs) : l.frame.kind = f.kind
    <3>1. PICK f \in Elements(fs) : l = Landing(p, f)
      BY <1>1
    <3>2. l \in Places /\ Alike(l.frame, f)
      BY <1>2, <3>1, LandingIs
    <3>. QED
      BY <3>2 DEF Places, Alike
  <2>. QED
    BY <2>1
<1>4. \A l \in Elements(ls) : l.frame.kind # "start"
  BY <1>3
<1>5. /\ urgent' = [r \in Procs |-> PutUrgent(urgent[r], Arriving(r, ls, TRUE))]
      /\ waiting' = [r \in Procs |-> waiting[r] \o Arriving(r, ls, FALSE)]
      /\ listening' = listening \cup {r \in Procs : Reaches(ls, "start", r)}
      /\ cancelling' = cancelling \cup (IF Reaches(ls, "cancel", 1) THEN {Source} ELSE {})
                                  \cup (IF Reaches(ls, "cancel", Sink) THEN {Sink} ELSE {})
      /\ pushq' = IF Reaches(ls, "endworker", Source) THEN Append(q, Down("end", 0)) ELSE q
      /\ arrived' = arrived \cup {ls[i].frame.id : i \in {i \in DOMAIN ls : ls[i].at \in {Source, Sink} /\ ls[i].frame.id > 0
                                                                        /\ ls[i].frame.kind # "reply"}}
  <2>1. Deliver(ls, q)
    BY DEF Receive
  <2>. HIDE DEF ls
  <2>. QED
    BY <2>1 DEF Deliver
<1>. HIDE DEF ls
<1>6. ASSUME NEW r \in Procs
      PROVE  /\ waiting'[r] \in Seq(OtherFrames)
             /\ Elements(waiting'[r]) = Elements(waiting[r])
                    \cup {l.frame : l \in {k \in Elements(ls) : k.at = r /\ (k.frame.kind \in System) = FALSE}}
  <2>. DEFINE new == Arriving(r, ls, FALSE)
  <2>1. new \in Seq(Frames)
        /\ Elements(new) = {l.frame : l \in {k \in Elements(ls) : k.at = r /\ (k.frame.kind \in System) = FALSE}}
    BY <1>1, ArrivingAre
  <2>2. \A f \in Elements(new) : f \in OtherFrames
    BY <1>3, <2>1 DEF OtherFrames, Frames, Kinds
  <2>3. \A i \in DOMAIN new : new[i] \in Elements(new)
    BY <2>1, ElementsOf
  <2>4. waiting[r] \in Seq(OtherFrames) /\ waiting'[r] = waiting[r] \o new
    BY <1>5 DEF TypeOK
  <2>. HIDE DEF new
  <2>5. new \in Seq(OtherFrames)
    BY <2>1, <2>2, <2>3
  <2>6. /\ waiting[r] \o new \in Seq(OtherFrames)
        /\ Elements(waiting[r] \o new) = Elements(waiting[r]) \cup Elements(new)
    BY <2>4, <2>5, ElementsJoined
  <2>. QED
    BY <2>1, <2>4, <2>6
<1>7. ASSUME NEW r \in Procs
      PROVE  /\ urgent'[r] \in Seq(SystemFrames)
             /\ \E more \in Seq(SystemFrames) :
                       /\ urgent'[r] = urgent[r] \o more
                       /\ \A g \in Elements(more) : g.kind # "start" /\ \E f \in Elements(fs) : g.kind = f.kind
  <2>. DEFINE new == Arriving(r, ls, TRUE)
  <2>1. new \in Seq(Frames)
        /\ Elements(new) = {l.frame : l \in {k \in Elements(ls) : k.at = r /\ (k.frame.kind \in System) = TRUE}}
    BY <1>1, ArrivingAre
  <2>2. \A g \in Elements(new) : g \in SystemFrames /\ g.kind # "start" /\ \E f \in Elements(fs) : g.kind = f.kind
    BY <1>3, <1>4, <2>1 DEF SystemFrames
  <2>3. new \in Seq(SystemFrames)
    <3>1. \A i \in DOMAIN new : new[i] \in SystemFrames
      BY <2>1, <2>2, ElementsOf
    <3>. HIDE DEF new
    <3>. QED
      BY <2>1, <3>1
  <2>4. urgent[r] \in Seq(SystemFrames) /\ urgent'[r] = PutUrgent(urgent[r], new)
    BY <1>5 DEF TypeOK
  <2>. HIDE DEF new
  <2>5. PutUrgent(urgent[r], new) \in Seq(SystemFrames)
        /\ \E more \in Seq(SystemFrames) : PutUrgent(urgent[r], new) = urgent[r] \o more /\ Elements(more) = Elements(new)
    <3>1. \A f \in Elements(new) : f.kind # "start"
      BY <2>2
    <3>2. urgent[r] \in Seq(SystemFrames)
      BY <2>4
    <3>3. PutUrgent(urgent[r], new) \in Seq(SystemFrames)
      BY <2>3, <3>2, PutUrgentIs
    <3>4. \E more \in Seq(SystemFrames) : PutUrgent(urgent[r], new) = urgent[r] \o more /\ Elements(more) = Elements(new)
      BY <2>3, <3>1, <3>2, PutUrgentBehind
    <3>. QED
      BY <3>3, <3>4
  <2>6. PICK more \in Seq(SystemFrames) : urgent'[r] = urgent[r] \o more /\ Elements(more) = Elements(new)
    BY <2>4, <2>5
  <2>. QED
    BY <2>2, <2>4, <2>5, <2>6
<1>8. urgent' \in [Procs -> Seq(SystemFrames)] /\ waiting' \in [Procs -> Seq(OtherFrames)]
  BY <1>5, <1>6, <1>7
<1>9. listening' = listening
  BY <1>2, <1>4, <1>5 DEF Reaches
<1>10. pushq' \in Seq(QueuedFrames) /\ Elements(q) \subseteq Elements(pushq')
  <2>1. Down("end", 0) \in QueuedFrames
    BY DEF Down, Frame, QueuedFrames, Frames, Kinds, Uninterruptible, Terminal
  <2>2. Append(q, Down("end", 0)) \in Seq(QueuedFrames) /\ Elements(q) \subseteq Elements(Append(q, Down("end", 0)))
    BY <2>1, ElementsAppended
  <2>. QED
    BY <1>5, <2>2
<1>11. ASSUME cancelling = {}, \A f \in Elements(fs) : f.kind # "cancel" PROVE cancelling' = {}
  <2>1. \A i \in DOMAIN ls : ls[i].frame.kind # "cancel"
    BY <1>2, <1>3, <1>11
  <2>. QED
    BY <1>5, <1>11, <2>1 DEF Reaches
<1>12. ASSUME cancelling = {}, NEW f \in Elements(fs), f.kind \in Uninterruptible, f.id # 0
       PROVE  f.id \in arrived' \/ \E r \in Procs : \E g \in Elements(waiting'[r]) : Alike(f, g)
  <2>. DEFINE l == Landing(p, f)
  <2>1. f \in Frames /\ l \in Elements(ls)
    BY <1>1, <1>2, <1>12
  <2>2. l \in Places /\ l.at \in {Hop(p, f), N, 1} /\ Alike(l.frame, f)
    BY <2>1, LandingIs
  <2>. HIDE DEF l
  <2>3. l.frame.kind = f.kind /\ l.frame.id = f.id /\ f.id > 0 /\ f.kind # "reply" /\ f.kind \notin System
    BY <1>12, <2>1, <2>2 DEF Alike, Frames, Uninterruptible, Terminal, System
  <2>4. l.at \in 0 .. N + 1 /\ N \in Nat
    BY <2>2, PipelineAssumption DEF Stations
  <2>5. PICK i \in DOMAIN ls : l = ls[i]
    BY <2>1 DEF Elements
  <2>6. CASE l.at \in Procs
    <3>1. l \in {k \in Elements(ls) : k.at = l.at /\ (k.frame.kind \in System) = FALSE}
      BY <2>1, <2>3
    <3>2. l.frame \in Elements(waiting'[l.at])
      BY <1>6, <2>6, <3>1
    <3>. QED
      BY <2>2, <2>6, <3>2 DEF Alike
  <2>7. CASE l.at \in {Source, Sink}
    <3>1. f.id \in arrived'
      BY <1>5, <2>3, <2>5, <2>7
    <3>. QED
      BY <3>1
  <2>8. l.at \in Procs \cup {Source, Sink}
    BY <2>4 DEF Procs, Source, Sink
  <2>. QED
    BY <2>6, <2>7, <2>8
<1>13. \A r \in Procs : Elements(waiting[r]) \subseteq Elements(waiting'[r])
  BY <1>6
<1>. QED
  BY <1>5, <1>7, <1>8, <1>9, <1>10, <1>11, <1>12, <1>13

LEMMA JoinNothing == ASSUME NEW S, NEW q \in Seq(S) PROVE q \o <<>> = q /\ <<>> \in Seq(S) /\ Elements(<<>>) = {}
  BY DEF Elements

\* The StartFrame goes on to the next processor and ahead of what waits there.
LEMMA ReceivedStart ==
    ASSUME TypeOK, NEW p \in 0 .. N, NEW f \in SystemFrames, f.kind = "start", NEW q \in Seq(QueuedFrames),
           Receive(p, <<f>>, q)
    PROVE  /\ urgent' \in [Procs -> Seq(SystemFrames)] /\ waiting' = waiting
           /\ listening' \subseteq Procs /\ pushq' = q /\ arrived \subseteq arrived'
           /\ cancelling = {} =>
                /\ cancelling' = {} /\ listening' = listening \cup ({p + 1} \cap Procs)
                /\ \A r \in Procs : urgent'[r] = IF r = p + 1 THEN <<f>> \o urgent[r] ELSE urgent[r]
<1>. DEFINE l == [at |-> p + 1, frame |-> f]
            ls == Landings(p, <<f>>)
<1>1. f \in Frames /\ f.dir = "down" /\ p \in Stations /\ N \in Nat \ {0}
  BY PipelineAssumption DEF SystemFrames, Stations
<1>2. Landing(p, f) = l
  BY <1>1, LandingIs
<1>3. ls \in {<<l>>, <<>>} /\ (cancelling = {} => ls = <<l>>)
  <2>. DEFINE landed == [i \in DOMAIN <<f>> |-> Landing(p, <<f>>[i])]
              I == {i \in DOMAIN <<f>> : {Hop(p, <<f>>[i]), landed[i].at} \cap cancelling = {}}
  <2>1. landed = <<l>>
    BY <1>2
  <2>2. ls = Only(landed, I)
    BY DEF Landings
  <2>3. cancelling = {} => 1 \in I
    OBVIOUS
  <2>. HIDE DEF I, landed, ls
  <2>. QED
    BY <2>1, <2>2, <2>3, OnlyOne
<1>4. /\ urgent' = [r \in Procs |-> PutUrgent(urgent[r], Arriving(r, ls, TRUE))]
      /\ waiting' = [r \in Procs |-> waiting[r] \o Arriving(r, ls, FALSE)]
      /\ listening' = listening \cup {r \in Procs : Reaches(ls, "start", r)}
      /\ cancelling' = cancelling \cup (IF Reaches(ls, "cancel", 1) THEN {Source} ELSE {})
                                  \cup (IF Reaches(ls, "cancel", Sink) THEN {Sink} ELSE {})
      /\ pushq' = IF Reaches(ls, "endworker", Source) THEN Append(q, Down("end", 0)) ELSE q
      /\ arrived \subseteq arrived'
  <2>1. Deliver(ls, q)
    BY DEF Receive
  <2>. HIDE DEF ls
  <2>. QED
    BY <2>1 DEF Deliver
<1>. HIDE DEF ls
<1>5. l.at = p + 1 /\ l.frame = f /\ f.kind \in System
  BY Kindly
<1>. HIDE DEF l
<1>6. ASSUME NEW r \in Procs, NEW tier \in BOOLEAN
      PROVE  Arriving(r, ls, tier) = IF ls = <<l>> /\ r = p + 1 /\ tier = TRUE THEN <<f>> ELSE <<>>
  <2>. DEFINE I == {i \in DOMAIN ls : ls[i].at = r /\ (ls[i].frame.kind \in System) = tier}
              here == Only(ls, I)
  <2>1. Arriving(r, ls, tier) = [i \in DOMAIN here |-> here[i].frame]
    BY DEF Arriving
  <2>2. CASE ls = <<l>>
    <3>1. 1 \in I <=> r = p + 1 /\ tier = TRUE
      BY <1>5, <2>2
    <3>. HIDE DEF I
    <3>2. here = IF r = p + 1 /\ tier = TRUE THEN <<l>> ELSE <<>>
      BY <2>2, <3>1, OnlyOne
    <3>. HIDE DEF here
    <3>3. [i \in DOMAIN <<l>> |-> <<l>>[i].frame] = <<f>> /\ [i \in DOMAIN <<>> |-> <<>>[i].frame] = <<>>
      BY <1>5
    <3>. QED
      BY <2>1, <2>2, <3>2, <3>3
  <2>3. CASE ls = <<>>
    <3>1. <<>> \in Seq({}) /\ <<>> # <<l>>
      OBVIOUS
    <3>2. here \in Seq({})
      BY <2>3, <3>1, OnlyThose
    <3>. HIDE DEF here
    <3>3. here = <<>>
      BY <3>2
    <3>4. [i \in DOMAIN <<>> |-> <<>>[i].frame] = <<>>
      OBVIOUS
    <3>. QED
      BY <2>1, <2>3, <3>1, <3>3, <3>4
  <2>. QED
    BY <1>3, <2>2, <2>3
<1>7. waiting' = waiting
  <2>1. \A r \in Procs : Arriving(r, ls, FALSE) = <<>> /\ waiting[r] \in Seq(OtherFrames)
    BY <1>6 DEF TypeOK
  <2>2. \A r \in Procs : waiting[r] \o Arriving(r, ls, FALSE) = waiting[r]
    BY <2>1, JoinNothing
  <2>3. waiting = [r \in Procs |-> waiting[r]]
    BY DEF TypeOK
  <2>. QED
    BY <1>4, <2>2, <2>3
<1>8. ASSUME NEW r \in Procs
      PROVE  /\ urgent'[r] \in Seq(SystemFrames)
             /\ urgent'[r] = IF ls = <<l>> /\ r = p + 1 THEN <<f>> \o urgent[r] ELSE urgent[r]
  <2>1. urgent[r] \in Seq(SystemFrames) /\ <<f>> \in Seq(SystemFrames) /\ <<>> \in Seq(SystemFrames)
    BY DEF TypeOK
  <2>2. urgent'[r] = PutUrgent(urgent[r], Arriving(r, ls, TRUE))
    BY <1>4
  <2>3. CASE ls = <<l>> /\ r = p + 1
    <3>1. Arriving(r, ls, TRUE) = <<f>>
      BY <1>6, <2>3
    <3>2. PutUrgent(urgent[r], <<f>>) \in Seq(SystemFrames) /\ PutUrgent(urgent[r], <<f>>) = <<f>> \o urgent[r]
      BY <2>1, PutUrgentIs
    <3>. QED
      BY <2>2, <2>3, <3>1, <3>2
  <2>4. CASE ~(ls = <<l>> /\ r = p + 1)
    <3>1. Arriving(r, ls, TRUE) = <<>>
      BY <1>6, <2>4
    <3>2. \A g \in Elements(<<>>) : g.kind # "start"
      BY DEF Elements
    <3>3. PICK more \in Seq(SystemFrames) : PutUrgent(urgent[r], <<>>) = urgent[r] \o more /\ Elements(more) = Elements(<<>>)
      BY <2>1, <3>2, PutUrgentBehind
    <3>4. more = <<>>
      BY <3>3, NothingOf DEF Elements
    <3>5. urgent[r] \o <<>> = urgent[r]
      BY <2>1
    <3>. QED
      BY <2>1, <2>2, <2>4, <3>1, <3>3, <3>4, <3>5
  <2>. QED
    BY <2>3, <2>4
<1>9. urgent' \in [Procs -> Seq(SystemFrames)]
  BY <1>4, <1>8
<1>10. ~Reaches(ls, "cancel", 1) /\ ~Reaches(ls, "cancel", Sink) /\ ~Reaches(ls, "endworker", Source)
  <2>1. \A i \in DOMAIN ls : ls[i] = l
    BY <1>3
  <2>. QED
    BY <1>5, <2>1 DEF Reaches
<1>11. listening' \subseteq Procs
  BY <1>4 DEF TypeOK
<1>12. ASSUME cancelling = {} PROVE listening' = listening \cup ({p + 1} \cap Procs)
  <2>1. ls = <<l>>
    BY <1>3, <1>12
  <2>2. \A r : Reaches(ls, "start", r) <=> r = p + 1
    BY <1>5, <2>1 DEF Reaches
  <2>. QED
    BY <1>4, <2>2
<1>. QED
  BY <1>3, <1>4, <1>7, <1>8, <1>9, <1>10, <1>11, <1>12

-----------------------------------------------------------------------------
(* The StartFrame *)

LEMMA StillFirst ==
    ASSUME NEW S, NEW q \in Seq(S), NEW more \in Seq(S), \A f \in Elements(more) : f.kind # "start"
    PROVE  /\ (\E f \in Elements(q \o more) : f.kind = "start") => \E f \in Elements(q) : f.kind = "start"
           /\ q # <<>> => /\ q \o more # <<>> /\ Head(q \o more) = Head(q)
                          /\ \A f \in Elements(Tail(q \o more)) : f \in Elements(Tail(q)) \/ f.kind # "start"
<1>1. Elements(q \o more) = Elements(q) \cup Elements(more)
  BY ElementsJoined
<1>2. ASSUME q # <<>> PROVE q \o more # <<>> /\ Head(q \o more) = Head(q) /\ Tail(q \o more) = Tail(q) \o more /\ Tail(q) \in Seq(S)
  BY <1>2
<1>3. ASSUME q # <<>> PROVE Elements(Tail(q \o more)) = Elements(Tail(q)) \cup Elements(more)
  <2>. DEFINE rest == Tail(q)
  <2>1. rest \in Seq(S) /\ Tail(q \o more) = rest \o more
    BY <1>2, <1>3
  <2>. HIDE DEF rest
  <2>2. Elements(rest \o more) = Elements(rest) \cup Elements(more)
    BY <2>1, ElementsJoined
  <2>. QED
    BY <2>1, <2>2 DEF rest
<1>. QED
  BY <1>1, <1>2, <1>3

\* Nothing that is not the StartFrame touches what it has not reached.
LEMMA StartsKept ==
    ASSUME TypeOK, StartsOnce, listening' = listening, pushing' = "new" => pushing = "new",
           \A p \in Procs : Asleep(p) => Asleep(p)',
           \A p \in Procs : intask'[p].kind = "start" => intask[p].kind = "start",
           \A p \in Procs : \E more \in Seq(SystemFrames) :
               urgent'[p] = urgent[p] \o more /\ \A f \in Elements(more) : f.kind # "start"
    PROVE  StartsOnce'
<1>1. pushing' = "new" => listening' = {}
  BY DEF StartsOnce
<1>2. ASSUME NEW p \in Procs
      PROVE  /\ Starting(p)' => Starting(p)
             /\ urgent[p] # <<>> =>
                   /\ urgent'[p] # <<>> /\ Head(urgent'[p]) = Head(urgent[p])
                   /\ \A f \in Elements(Tail(urgent'[p])) : f \in Elements(Tail(urgent[p])) \/ f.kind # "start"
  <2>1. PICK more \in Seq(SystemFrames) : urgent'[p] = urgent[p] \o more /\ \A f \in Elements(more) : f.kind # "start"
    OBVIOUS
  <2>2. urgent[p] \in Seq(SystemFrames)
    BY DEF TypeOK
  <2>3. /\ (\E f \in Elements(urgent[p] \o more) : f.kind = "start") => \E f \in Elements(urgent[p]) : f.kind = "start"
        /\ urgent[p] # <<>> => /\ urgent[p] \o more # <<>> /\ Head(urgent[p] \o more) = Head(urgent[p])
                          /\ \A f \in Elements(Tail(urgent[p] \o more)) : f \in Elements(Tail(urgent[p])) \/ f.kind # "start"
    BY ZenonT(60), <2>1, <2>2, StillFirst
  <2>. QED
    BY <2>1, <2>3 DEF Starting
<1>3. ASSUME NEW p \in Procs, p \notin listening' PROVE Asleep(p)' /\ ~Starting(p)'
  BY <1>2, <1>3 DEF StartsOnce
<1>4. ASSUME NEW p \in Procs, Starting(p)'
      PROVE  /\ Asleep(p)' /\ NotYet(p)' /\ urgent'[p] # <<>> /\ Head(urgent'[p]).kind = "start"
             /\ \A f \in Elements(Tail(urgent'[p])) : f.kind # "start"
  <2>1. Starting(p)
    BY <1>2, <1>4
  <2>2. NotYet(p)'
    BY <2>1 DEF StartsOnce, NotYet
  <2>. QED
    BY <1>2, <2>1, <2>2 DEF StartsOnce
<1>5. ASSUME NEW p \in Procs, intask'[p].kind = "start" PROVE NotYet(p)' /\ ~Starting(p)'
  <2>1. intask[p].kind = "start"
    BY <1>5
  <2>. QED
    BY <1>2, <2>1 DEF StartsOnce, NotYet
<1>. QED
  BY <1>1, <1>3, <1>4, <1>5 DEF StartsOnce

-----------------------------------------------------------------------------
(* Every step *)

LEMMA Types ==
    ASSUME TypeOK
    PROVE  \A p \in Procs :
               /\ urgent[p] \in Seq(SystemFrames) /\ waiting[p] \in Seq(OtherFrames)
               /\ procq[p] \in Seq(OtherFrames)
               /\ intask[p] \in SystemFrames \cup {NoFrame} /\ current[p] \in OtherFrames \cup {NoFrame}
  BY DEF TypeOK

LEMMA KeptIs ==
    ASSUME NEW q \in Seq(OtherFrames)
    PROVE  /\ Kept(q) \in Seq(OtherFrames)
           /\ \A f \in Elements(q) : f.kind \in Uninterruptible => f \in Elements(Kept(q))
<1>. DEFINE I == {i \in DOMAIN q : q[i].kind \in Uninterruptible}
<1>1. Only(q, I) \in Seq(OtherFrames) /\ Elements(Only(q, I)) = {q[i] : i \in I \cap DOMAIN q}
  BY OnlyThose
<1>2. Kept(q) = Only(q, I)
  BY DEF Kept
<1>. QED
  BY <1>1, <1>2 DEF Elements

LEMMA SameUrgent ==
    ASSUME TypeOK
    PROVE  \A p \in Procs : \E more \in Seq(SystemFrames) :
               urgent[p] = urgent[p] \o more /\ Elements(more) = {}
<1>. SUFFICES ASSUME NEW p \in Procs
              PROVE  \E more \in Seq(SystemFrames) : urgent[p] = urgent[p] \o more /\ Elements(more) = {}
  OBVIOUS
<1>1. urgent[p] \in Seq(SystemFrames)
  BY Types
<1>2. urgent[p] \o <<>> = urgent[p] /\ <<>> \in Seq(SystemFrames) /\ Elements(<<>>) = {}
  BY <1>1, JoinNothing
<1>. QED
  BY <1>2

\* Frames come to rest only where they are seen again.
LEMMA NothingCancelledKept ==
    ASSUME TypeOK, NothingCancelled, cancelling' = {},
           \A p \in Procs : intask'[p].kind # "cancel",
           \A p \in Procs : \E more \in Seq(SystemFrames) :
               urgent'[p] = urgent[p] \o more /\ \A f \in Elements(more) : f.kind # "cancel"
    PROVE  NothingCancelled'
<1>1. ASSUME NEW p \in Procs, NEW f \in Elements(urgent'[p]) PROVE f.kind # "cancel"
  <2>1. PICK more \in Seq(SystemFrames) : urgent'[p] = urgent[p] \o more /\ \A g \in Elements(more) : g.kind # "cancel"
    OBVIOUS
  <2>2. urgent[p] \in Seq(SystemFrames)
    BY Types
  <2>3. Elements(urgent[p] \o more) = Elements(urgent[p]) \cup Elements(more)
    BY <2>1, <2>2, ElementsJoined
  <2>4. f \in Elements(urgent[p]) \/ f \in Elements(more)
    BY <1>1, <2>1, <2>3
  <2>. QED
    BY <2>1, <2>4 DEF NothingCancelled
<1>. QED
  BY <1>1 DEF NothingCancelled

\* What happens aside of the processors: more is queued or expected.
LEMMA Aside ==
    ASSUME PipelineInvariant, UNCHANGED <<waiting, procq, current, intask, working, listening, cancelling, arrived, script>>,
           pushq' \in Seq(QueuedFrames), Elements(pushq) \subseteq Elements(pushq'),
           urgent' \in [Procs -> Seq(SystemFrames)],
           \A p \in Procs : \E more \in Seq(SystemFrames) :
               urgent'[p] = urgent[p] \o more /\ \A f \in Elements(more) : f.kind \notin {"start", "cancel"},
           Open' => Open, pushing' = "new" => pushing = "new"
    PROVE  PipelineInvariant'
<1>1. TypeOK /\ TypeOK'
  BY DEF PipelineInvariant, TypeOK
<1>2. ASSUME Open' PROVE NothingCancelled'
  <2>1. NothingCancelled
    BY <1>2 DEF PipelineInvariant
  <2>2. cancelling' = {} /\ \A p \in Procs : intask'[p].kind # "cancel"
    BY <2>1 DEF NothingCancelled
  <2>. QED
    BY <1>1, <2>1, <2>2, NothingCancelledKept
<1>3. ASSUME Open' PROVE StartsOnce'
  <2>1. StartsOnce /\ \A p \in Procs : Asleep(p) => Asleep(p)'
    BY <1>3 DEF PipelineInvariant, Asleep
  <2>. QED
    BY <1>1, <2>1, StartsKept
<1>4. ASSUME Open' PROVE NothingLost'
  <2>1. NothingLost
    BY <1>4 DEF PipelineInvariant
  <2>2. \A f : Carried(f) => Carried(f)' /\ Alike(f, f)
    BY DEF Carried, Alike
  <2>. QED
    BY <2>1, <2>2, CarriedOn
<1>. QED
  BY <1>1, <1>2, <1>3, <1>4 DEF PipelineInvariant

LEMMA WakeKeeps == ASSUME PipelineInvariant, Wake \/ Starts PROVE PipelineInvariant'
<1>1. UNCHANGED <<waiting, procq, current, intask, working, listening, cancelling, arrived, script, pushq, urgent>>
      /\ (Open' => Open) /\ (pushing' = "new" => pushing = "new")
  BY DEF Wake, Starts, Open, input, process, voice, worker, given
<1>2. TypeOK
  BY DEF PipelineInvariant
<1>3. \A p \in Procs : \E more \in Seq(SystemFrames) :
          urgent'[p] = urgent[p] \o more /\ \A f \in Elements(more) : f.kind \notin {"start", "cancel"}
  BY <1>1, <1>2, SameUrgent
<1>4. pushq' \in Seq(QueuedFrames) /\ urgent' \in [Procs -> Seq(SystemFrames)]
  BY <1>1, <1>2 DEF TypeOK
<1>. QED
  BY <1>1, <1>3, <1>4, Aside

LEMMA CancelKeeps == ASSUME PipelineInvariant, Cancel PROVE PipelineInvariant'
<1>1. UNCHANGED <<waiting, procq, current, intask, working, listening, cancelling, arrived, script, urgent, pushing>>
      /\ pushq' = Append(pushq, Down("cancel", 0))
  BY DEF Cancel, input, process, given
<1>2. TypeOK
  BY DEF PipelineInvariant
<1>3. \A p \in Procs : \E more \in Seq(SystemFrames) :
          urgent'[p] = urgent[p] \o more /\ \A f \in Elements(more) : f.kind \notin {"start", "cancel"}
  BY <1>1, <1>2, SameUrgent
<1>4. pushq' \in Seq(QueuedFrames) /\ Elements(pushq) \subseteq Elements(pushq') /\ urgent' \in [Procs -> Seq(SystemFrames)]
  <2>1. Down("cancel", 0) \in QueuedFrames
    BY DEF Down, Frame, QueuedFrames, Frames, Kinds, System
  <2>. QED
    BY <1>1, <1>2, <2>1, ElementsAppended DEF TypeOK
<1>. QED
  BY <1>1, <1>3, <1>4, Aside DEF Open

\* A system frame enters the input queue of r.
LEMMA SendKeeps ==
    ASSUME PipelineInvariant, NEW r \in Procs, NEW x \in SystemFrames, x.kind \notin {"start", "cancel"}, Send(r, x),
           UNCHANGED <<waiting, procq, current, intask, working, listening, cancelling, arrived, script, pushq, pushing>>
    PROVE  PipelineInvariant'
<1>1. TypeOK
  BY DEF PipelineInvariant
<1>2. urgent' = [urgent EXCEPT ![r] = IF r \in cancelling THEN @ ELSE Append(@, x)]
  BY DEF Send
<1>3. ASSUME NEW p \in Procs
      PROVE  /\ urgent'[p] \in Seq(SystemFrames)
             /\ \E more \in Seq(SystemFrames) :
                    urgent'[p] = urgent[p] \o more /\ \A f \in Elements(more) : f.kind \notin {"start", "cancel"}
  <2>1. urgent[p] \in Seq(SystemFrames) /\ urgent'[p] = IF p = r /\ r \notin cancelling THEN Append(urgent[p], x) ELSE urgent[p]
    BY <1>1, <1>2, Types DEF TypeOK
  <2>2. CASE p = r /\ r \notin cancelling
    <3>1. Append(urgent[p], x) = urgent[p] \o <<x>> /\ <<x>> \in Seq(SystemFrames) /\ Append(urgent[p], x) \in Seq(SystemFrames)
      BY <2>1
    <3>2. \A f \in Elements(<<x>>) : f = x
      BY DEF Elements
    <3>. QED
      BY <2>1, <2>2, <3>1, <3>2
  <2>3. CASE ~(p = r /\ r \notin cancelling)
    BY <1>1, <2>1, <2>3, SameUrgent
  <2>. QED
    BY <2>2, <2>3
<1>4. urgent' \in [Procs -> Seq(SystemFrames)] /\ pushq' \in Seq(QueuedFrames)
  BY <1>1, <1>2, <1>3 DEF TypeOK
<1>. QED
  BY <1>3, <1>4, Aside DEF Open

LEMMA SurroundingsKeep == ASSUME PipelineInvariant, Hear \/ Played PROVE PipelineInvariant'
<1>1. CASE Hear
  <2>1. Down("speech", 0) \in SystemFrames /\ Down("speech", 0).kind \notin {"start", "cancel"}
    BY DEF Down, Frame, SystemFrames, Frames, Kinds, System
  <2>2. Breaker \in Procs
    BY PipelineAssumption
  <2>. QED
    BY <1>1, <2>1, <2>2, SendKeeps DEF Hear, process, worker
<1>2. CASE Played
  <2>1. Up("stopped", 0) \in SystemFrames /\ Up("stopped", 0).kind \notin {"start", "cancel"}
    BY DEF Up, Frame, SystemFrames, Frames, Kinds, System
  <2>2. Speaker \in Procs
    BY PipelineAssumption
  <2>. QED
    BY <1>2, <2>1, <2>2, SendKeeps DEF Played, process, worker, given
<1>. QED
  BY <1>1, <1>2

\* A worker that cleans up is done with its frames.
LEMMA CleanUpKeeps ==
    ASSUME PipelineInvariant, pushing' = "finished", UNCHANGED <<urgent, waiting, procq, current, pushq, script>>,
           listening' = listening \/ listening' = {},
           intask' = intask \/ intask' = [p \in Procs |-> NoFrame]
    PROVE  PipelineInvariant'
<1>1. ~Open'
  BY DEF Open
<1>2. TypeOK'
  BY DEF PipelineInvariant, TypeOK
<1>. QED
  BY <1>1, <1>2 DEF PipelineInvariant

LEMMA StopsKeep == ASSUME PipelineInvariant, Ends \/ StartTimeout \/ CancelTimeout PROVE PipelineInvariant'
<1>1. /\ pushing' = "finished" /\ UNCHANGED <<urgent, waiting, procq, current, pushq, script>>
      /\ listening' = listening \/ listening' = {}
      /\ intask' = intask \/ intask' = [p \in Procs |-> NoFrame]
  BY DEF Ends, StartTimeout, CancelTimeout, CleanUp, given
<1>. QED
  BY <1>1, CleanUpKeeps

LEMMA TakeOtherKeeps == ASSUME PipelineInvariant, NEW p \in Procs, TakeOther(p) PROVE PipelineInvariant'
<1>1. TypeOK /\ waiting[p] # <<>>
      /\ procq' = [procq EXCEPT ![p] = Append(@, Head(waiting[p]))]
      /\ waiting' = [waiting EXCEPT ![p] = Tail(@)]
      /\ UNCHANGED <<urgent, listening, intask, working, current, cancelling, pushq, pushing, arrived, script>>
  BY DEF PipelineInvariant, TakeOther, worker, given
<1>2. /\ waiting[p] \in Seq(OtherFrames) /\ procq[p] \in Seq(OtherFrames) /\ Tail(waiting[p]) \in Seq(OtherFrames)
      /\ Head(waiting[p]) \in OtherFrames
      /\ Elements(waiting[p]) = {Head(waiting[p])} \cup Elements(Tail(waiting[p]))
  BY <1>1, Types, ElementsTaken
<1>3. /\ Append(procq[p], Head(waiting[p])) \in Seq(OtherFrames)
      /\ Elements(Append(procq[p], Head(waiting[p]))) = Elements(procq[p]) \cup {Head(waiting[p])}
  BY <1>2, ElementsAppended
<1>4. TypeOK'
  BY <1>1, <1>2, <1>3 DEF TypeOK
<1>5. ASSUME Open' PROVE NothingCancelled' /\ StartsOnce'
  BY <1>1, <1>5 DEF PipelineInvariant, Open, NothingCancelled, StartsOnce, Asleep, Starting, NotYet
<1>6. \A f : Carried(f) => Carried(f)'
  <2>1. \A q \in Procs : q # p => waiting'[q] = waiting[q] /\ procq'[q] = procq[q]
    BY <1>1 DEF TypeOK
  <2>2. waiting'[p] = Tail(waiting[p]) /\ procq'[p] = Append(procq[p], Head(waiting[p]))
    BY <1>1 DEF TypeOK
  <2>3. \A q \in Procs : \A f : f \in Elements(waiting[q]) \/ f \in Elements(procq[q]) \/ f = current[q] =>
            f \in Elements(waiting'[q]) \/ f \in Elements(procq'[q]) \/ f = current'[q]
    BY <1>1, <1>2, <1>3, <2>1, <2>2
  <2>. QED
    BY <1>1, <2>3 DEF Carried
<1>7. ASSUME Open' PROVE NothingLost'
  <2>1. NothingLost /\ script' = script /\ arrived' = arrived
    BY <1>1, <1>7 DEF PipelineInvariant, Open
  <2>. QED
    BY <1>6, <2>1, CarriedOn DEF Alike
<1>. QED
  BY <1>4, <1>5, <1>7 DEF PipelineInvariant

LEMMA TakeKeeps == ASSUME PipelineInvariant, NEW p \in Procs, Take(p) PROVE PipelineInvariant'
<1>1. TypeOK /\ procq[p] # <<>> /\ p \in working /\ current[p] = NoFrame
      /\ current' = [current EXCEPT ![p] = Head(procq[p])]
      /\ procq' = [procq EXCEPT ![p] = Tail(@)]
      /\ UNCHANGED <<urgent, waiting, listening, intask, working, cancelling, pushq, pushing, arrived, script>>
  BY DEF PipelineInvariant, Take, input, worker, given
<1>2. /\ procq[p] \in Seq(OtherFrames) /\ Tail(procq[p]) \in Seq(OtherFrames) /\ Head(procq[p]) \in OtherFrames
      /\ Elements(procq[p]) = {Head(procq[p])} \cup Elements(Tail(procq[p]))
  BY <1>1, Types, ElementsTaken
<1>3. TypeOK'
  BY <1>1, <1>2 DEF TypeOK
<1>4. \A q \in Procs : q # p => procq'[q] = procq[q] /\ current'[q] = current[q]
  BY <1>1 DEF TypeOK
<1>5. ASSUME Open' PROVE NothingCancelled'
  BY <1>1, <1>5 DEF PipelineInvariant, Open, NothingCancelled
<1>6. ASSUME Open' PROVE StartsOnce'
  <2>1. StartsOnce
    BY <1>1, <1>6 DEF PipelineInvariant, Open
  <2>2. \A q \in Procs : Asleep(q) => Asleep(q)'
    BY <1>1, <1>4 DEF Asleep
  <2>3. \A q \in Procs : (Starting(q)' <=> Starting(q)) /\ (NotYet(q)' <=> NotYet(q))
    BY <1>1 DEF Starting, NotYet
  <2>. QED
    BY <1>1, <2>1, <2>2, <2>3 DEF StartsOnce
<1>7. ASSUME Open' PROVE NothingLost'
  <2>1. NothingLost /\ script' = script /\ arrived' = arrived
    BY <1>1, <1>7 DEF PipelineInvariant, Open
  <2>2. procq'[p] = Tail(procq[p]) /\ current'[p] = Head(procq[p])
    BY <1>1 DEF TypeOK
  <2>3. NoFrame.id = 0
    BY DEF NoFrame, Down, Frame
  <2>4. \A q \in Procs : \A f :
            (f \in Elements(waiting[q]) \/ f \in Elements(procq[q]) \/ f = current[q]) /\ f.id # 0 =>
                f \in Elements(waiting'[q]) \/ f \in Elements(procq'[q]) \/ f = current'[q]
    BY <1>1, <1>2, <1>4, <2>2, <2>3
  <2>5. \A f : Carried(f) /\ f.id # 0 => Carried(f)'
    BY <1>1, <2>4 DEF Carried
  <2>. QED
    BY <2>1, <2>5, CarriedOn DEF Alike
<1>. QED
  BY <1>3, <1>5, <1>6, <1>7 DEF PipelineInvariant

\* An interruption, or the start or end of a task, as the base class sees to it.
LEMMA TakeSystemKeeps == ASSUME PipelineInvariant, NEW p \in Procs, TakeSystem(p) PROVE PipelineInvariant'
<1>. DEFINE f == Head(urgent[p])
<1>1. TypeOK /\ p \in listening /\ intask[p] = NoFrame /\ urgent[p] # <<>>
      /\ intask' = [intask EXCEPT ![p] = f] /\ urgent' = [urgent EXCEPT ![p] = Tail(@)]
      /\ cancelling' = (IF f.kind = "cancel" THEN cancelling \cup {p} ELSE cancelling)
      /\ UNCHANGED <<waiting, listening, pushq, pushing, arrived, script>>
  BY DEF PipelineInvariant, TakeSystem, Idle, worker, given
<1>2. /\ f.kind = "start" => StartTask(p)
      /\ f.kind = "interrupt" => Interrupt(p)
      /\ f.kind = "cancel" => CancelTask(p)
      /\ f.kind \notin {"start", "interrupt", "cancel"} => UNCHANGED process
  BY DEF TakeSystem
<1>3. /\ f \in SystemFrames /\ Tail(urgent[p]) \in Seq(SystemFrames)
      /\ Elements(urgent[p]) = {f} \cup Elements(Tail(urgent[p]))
  BY <1>1, Types, ElementsTaken
<1>. HIDE DEF f
<1>4. procq[p] \in Seq(OtherFrames) /\ current[p] \in OtherFrames \cup {NoFrame}
  BY <1>1, Types
<1>5. /\ Kept(procq[p]) \in Seq(OtherFrames)
      /\ \A g \in Elements(procq[p]) : g.kind \in Uninterruptible => g \in Elements(Kept(procq[p]))
  BY <1>4, KeptIs
<1>6. procq' \in [Procs -> Seq(OtherFrames)] /\ current' \in [Procs -> OtherFrames \cup {NoFrame}]
      /\ \A q \in Procs : q # p => procq'[q] = procq[q] /\ current'[q] = current[q] /\ (q \in working' <=> q \in working)
  <2>1. CASE StartTask(p)
    BY <1>1, <1>5, <2>1 DEF StartTask, TypeOK
  <2>2. CASE Interrupt(p)
    <3>1. CASE current[p].kind \in Uninterruptible
      BY <1>1, <1>5, <2>2, <3>1 DEF Interrupt, TypeOK
    <3>2. CASE current[p].kind \notin Uninterruptible
      BY <2>1, <2>2, <3>2 DEF Interrupt
    <3>. QED
      BY <3>1, <3>2
  <2>3. CASE CancelTask(p)
    BY <1>1, <2>3 DEF CancelTask, TypeOK
  <2>4. CASE UNCHANGED process
    BY <1>1, <2>4 DEF process, TypeOK
  <2>. QED
    BY <1>2, <2>1, <2>2, <2>3, <2>4
<1>7. TypeOK'
  BY <1>1, <1>3, <1>6 DEF TypeOK
<1>8. \A q \in Procs : q # p => intask'[q] = intask[q] /\ urgent'[q] = urgent[q]
  BY <1>1 DEF TypeOK
<1>9. intask'[p] = f /\ urgent'[p] = Tail(urgent[p])
  BY <1>1 DEF TypeOK
<1>10. ASSUME Open' PROVE NothingCancelled' /\ f.kind # "cancel"
  <2>1. NothingCancelled
    BY <1>1, <1>10 DEF PipelineInvariant, Open
  <2>2. f.kind # "cancel" /\ \A g \in Elements(Tail(urgent[p])) : g.kind # "cancel"
    BY <1>3, <2>1 DEF NothingCancelled
  <2>3. \A q \in Procs : intask'[q].kind # "cancel" /\ \A g \in Elements(urgent'[q]) : g.kind # "cancel"
    BY <1>8, <1>9, <2>1, <2>2 DEF NothingCancelled
  <2>. QED
    BY <1>1, <2>1, <2>2, <2>3 DEF NothingCancelled
<1>11. ASSUME Open' PROVE StartsOnce
  BY <1>1, <1>11 DEF PipelineInvariant, Open
<1>12. ASSUME Open', f.kind = "start" PROVE Asleep(p) /\ NotYet(p)
  BY <1>3, <1>11, <1>12 DEF StartsOnce, Starting
<1>13. ASSUME Open' PROVE StartsOnce'
  <2>1. ~Starting(p)'
    <3>1. CASE f.kind = "start"
      <4>1. Starting(p)
        BY <1>3, <3>1 DEF Starting
      <4>. QED
        BY <1>9, <1>11, <1>13, <4>1 DEF StartsOnce, Starting
    <3>2. CASE f.kind # "start"
      <4>1. ~Starting(p)
        BY <1>11, <1>13, <3>2 DEF StartsOnce, f
      <4>. QED
        BY <1>3, <1>9, <4>1 DEF Starting
    <3>. QED
      BY <3>1, <3>2
  <2>2. \A q \in Procs : q # p => (Asleep(q)' <=> Asleep(q)) /\ (Starting(q)' <=> Starting(q))
    BY <1>6, <1>8 DEF Asleep, Starting
  <2>3. \A q \in Procs : NotYet(q)' <=> NotYet(q)
    BY <1>1 DEF NotYet
  <2>4. intask'[p].kind = "start" => NotYet(p)
    BY <1>9, <1>12, <1>13
  <2>5. ASSUME NEW q \in Procs
        PROVE  /\ q \notin listening' => Asleep(q)' /\ ~Starting(q)'
               /\ Starting(q)' =>
                      /\ Asleep(q)' /\ NotYet(q)'
                      /\ urgent'[q] # <<>> /\ Head(urgent'[q]).kind = "start"
                      /\ \A g \in Elements(Tail(urgent'[q])) : g.kind # "start"
               /\ intask'[q].kind = "start" => NotYet(q)' /\ ~Starting(q)'
    <3>1. CASE q = p
      BY <1>1, <2>1, <2>3, <2>4, <3>1
    <3>2. CASE q # p
      BY <1>1, <1>8, <1>11, <1>13, <2>2, <2>3, <3>2 DEF StartsOnce
    <3>. QED
      BY <3>1, <3>2
  <2>6. pushing' = "new" => listening' = {}
    BY <1>1, <1>11, <1>13 DEF StartsOnce
  <2>. QED
    BY <2>5, <2>6 DEF StartsOnce
<1>14. ASSUME Open' PROVE NothingLost'
  <2>1. NothingLost /\ script' = script /\ arrived' = arrived
    BY <1>1, <1>14 DEF PipelineInvariant, Open
  <2>2. NoFrame.kind \notin Uninterruptible
    BY DEF NoFrame, Down, Frame, Uninterruptible, Terminal
  <2>3. \A g : g \in Elements(procq[p]) /\ g.kind \in Uninterruptible => g \in Elements(procq'[p])
    <3>1. procq'[p] = procq[p] \/ procq'[p] = Kept(procq[p])
      <4>1. CASE StartTask(p)
        BY <1>1, <4>1 DEF StartTask, TypeOK
      <4>2. CASE Interrupt(p)
        BY <1>1, <4>2 DEF Interrupt, StartTask, TypeOK
      <4>3. CASE CancelTask(p) \/ UNCHANGED process
        BY <4>3 DEF CancelTask, process
      <4>. QED
        BY <1>2, <4>1, <4>2, <4>3
    <3>. QED
      BY <1>5, <3>1
  <2>4. current[p].kind \in Uninterruptible => current'[p] = current[p]
    <3>1. CASE f.kind = "start"
      BY <1>12, <1>14, <2>2, <3>1 DEF Asleep
    <3>2. CASE f.kind = "interrupt"
      BY <1>2, <3>2 DEF Interrupt
    <3>3. CASE f.kind = "cancel"
      BY <1>2, <3>3 DEF CancelTask
    <3>4. CASE f.kind \notin {"start", "interrupt", "cancel"}
      BY <1>2, <3>4 DEF process
    <3>. QED
      BY <3>1, <3>2, <3>3, <3>4
  <2>5. \A q \in Procs : \A g :
            (g \in Elements(waiting[q]) \/ g \in Elements(procq[q]) \/ g = current[q]) /\ g.kind \in Uninterruptible =>
                g \in Elements(waiting'[q]) \/ g \in Elements(procq'[q]) \/ g = current'[q]
    BY <1>1, <1>6, <2>3, <2>4
  <2>6. \A g : Carried(g) /\ g.kind \in Uninterruptible => Carried(g)'
    BY <1>1, <2>5 DEF Carried
  <2>. QED
    BY <2>1, <2>6, CarriedOn DEF Alike
<1>. QED
  BY <1>7, <1>10, <1>13, <1>14 DEF PipelineInvariant

-----------------------------------------------------------------------------
(* Steps that push *)

\* A push of frames none of which is the StartFrame.
LEMMA PushKeeps ==
    ASSUME PipelineInvariant, NEW p \in Stations, NEW fs \in Seq(Frames), NEW q \in Seq(QueuedFrames), Receive(p, fs, q),
           \A f \in Elements(fs) : f.kind # "start" /\ Hop(p, f) \in Stations,
           script' = script, Open' => Open, pushing' = "new" => pushing = "new",
           Open' => \A f \in Elements(fs) : f.kind # "cancel",
           procq' \in [Procs -> Seq(OtherFrames)], current' \in [Procs -> OtherFrames \cup {NoFrame}],
           intask' \in [Procs -> SystemFrames \cup {NoFrame}],
           \A r \in Procs : intask'[r] = intask[r] \/ intask'[r] = NoFrame,
           \A r \in Procs : Asleep(r) => Asleep(r)',
           \A f : Carried(f) /\ f.kind \in Uninterruptible /\ f.id # 0 =>
               \/ f \in Elements(q) \/ f \in Elements(fs)
               \/ \E r \in Procs : f \in Elements(waiting[r]) \/ f \in Elements(procq'[r]) \/ f = current'[r]
    PROVE  PipelineInvariant'
<1>1. TypeOK
  BY DEF PipelineInvariant
<1>2. /\ urgent' \in [Procs -> Seq(SystemFrames)] /\ waiting' \in [Procs -> Seq(OtherFrames)]
      /\ listening' = listening /\ pushq' \in Seq(QueuedFrames) /\ arrived \subseteq arrived'
      /\ Elements(q) \subseteq Elements(pushq')
      /\ \A r \in Procs :
           /\ Elements(waiting[r]) \subseteq Elements(waiting'[r])
           /\ \E more \in Seq(SystemFrames) :
                  /\ urgent'[r] = urgent[r] \o more
                  /\ \A g \in Elements(more) : g.kind # "start" /\ \E f \in Elements(fs) : g.kind = f.kind
      /\ cancelling = {} /\ (\A f \in Elements(fs) : f.kind # "cancel") => cancelling' = {}
      /\ cancelling = {} =>
           \A f \in Elements(fs) : f.kind \in Uninterruptible /\ f.id # 0 =>
               f.id \in arrived' \/ \E r \in Procs : \E g \in Elements(waiting'[r]) : Alike(f, g)
  BY <1>1, Received
<1>3. TypeOK'
  BY <1>1, <1>2 DEF TypeOK
<1>4. ASSUME Open' PROVE NothingCancelled'
  <2>1. NothingCancelled /\ cancelling = {}
    BY <1>4 DEF PipelineInvariant, NothingCancelled
  <2>2. \A r \in Procs : intask'[r].kind # "cancel"
    BY <2>1, Kindly DEF NothingCancelled
  <2>3. \A r \in Procs : \E more \in Seq(SystemFrames) :
            urgent'[r] = urgent[r] \o more /\ \A g \in Elements(more) : g.kind # "cancel"
    <3>1. SUFFICES ASSUME NEW r \in Procs
                   PROVE  \E more \in Seq(SystemFrames) :
                              urgent'[r] = urgent[r] \o more /\ \A g \in Elements(more) : g.kind # "cancel"
      OBVIOUS
    <3>2. PICK more \in Seq(SystemFrames) :
              /\ urgent'[r] = urgent[r] \o more
              /\ \A g \in Elements(more) : g.kind # "start" /\ \E f \in Elements(fs) : g.kind = f.kind
      BY <1>2
    <3>3. \A g \in Elements(more) : g.kind # "cancel"
      BY <1>4, <3>2
    <3>. QED
      BY <3>2, <3>3
  <2>. QED
    BY <1>1, <1>2, <1>4, <2>1, <2>2, <2>3, NothingCancelledKept
<1>5. ASSUME Open' PROVE StartsOnce'
  <2>1. StartsOnce
    BY <1>5 DEF PipelineInvariant
  <2>2. \A r \in Procs : intask'[r].kind = "start" => intask[r].kind = "start"
    BY Kindly
  <2>3. \A r \in Procs : \E more \in Seq(SystemFrames) :
            urgent'[r] = urgent[r] \o more /\ \A g \in Elements(more) : g.kind # "start"
    BY <1>2
  <2>. QED
    BY <1>1, <1>2, <2>1, <2>2, <2>3, StartsKept
<1>6. ASSUME Open' PROVE NothingLost'
  <2>1. NothingLost /\ cancelling = {}
    BY <1>6 DEF PipelineInvariant, NothingCancelled
  <2>2. ASSUME NEW f, Carried(f), f.kind \in Uninterruptible, f.id # 0
        PROVE  f.id \in arrived' \/ \E g : Carried(g)' /\ Alike(f, g)
    <3>1. Alike(f, f)
      BY DEF Alike
    <3>2. CASE f \in Elements(fs)
      <4>1. f.id \in arrived' \/ \E r \in Procs : \E g \in Elements(waiting'[r]) : Alike(f, g)
        BY <1>2, <2>1, <2>2, <3>2
      <4>. QED
        BY <4>1 DEF Carried
    <3>3. CASE f \notin Elements(fs)
      <4>1. f \in Elements(q) \/ \E r \in Procs : f \in Elements(waiting[r]) \/ f \in Elements(procq'[r]) \/ f = current'[r]
        BY <2>2, <3>3
      <4>2. Carried(f)'
        BY <1>2, <4>1 DEF Carried
      <4>. QED
        BY <3>1, <4>2
    <3>. QED
      BY <3>2, <3>3
  <2>. QED
    BY <1>2, <2>1, <2>2, CarriedOn
<1>. QED
  BY <1>3, <1>4, <1>5, <1>6 DEF PipelineInvariant

\* The StartFrame moves on from p, and nothing after p has been started.
LEMMA StartMovesOn ==
    ASSUME TypeOK, StartsOnce, NothingCancelled, NEW p \in 0 .. N, NEW f \in SystemFrames, f.kind = "start",
           listening' = listening \cup ({p + 1} \cap Procs), pushing' # "new", cancelling' = {},
           \A r \in Procs : urgent'[r] = IF r = p + 1 THEN <<f>> \o urgent[r] ELSE urgent[r],
           \A r \in Procs : r > p => r \notin listening,
           \A r \in Procs : ~Starting(r),
           \A r \in Procs : intask'[r].kind \notin {"start", "cancel"},
           \A r \in Procs : r \notin listening => (Asleep(r) => Asleep(r)')
    PROVE  StartsOnce' /\ NothingCancelled'
<1>. p \in Nat /\ N \in Nat /\ Procs \subseteq Nat
  BY PipelineAssumption DEF Procs
<1>1. ASSUME NEW r \in Procs, r = p + 1
      PROVE  /\ r \notin listening /\ Elements(urgent'[r]) = {f} \cup Elements(urgent[r])
             /\ urgent'[r] # <<>> /\ Head(urgent'[r]) = f /\ Tail(urgent'[r]) = urgent[r]
  <2>1. urgent[r] \in Seq(SystemFrames) /\ urgent'[r] = <<f>> \o urgent[r] /\ <<f>> \in Seq(SystemFrames)
    <3>1. urgent[r] \in Seq(SystemFrames)
      BY Types
    <3>2. urgent'[r] = <<f>> \o urgent[r]
      BY <1>1
    <3>3. <<f>> \in Seq(SystemFrames)
      OBVIOUS
    <3>. QED
      BY <3>1, <3>2, <3>3
  <2>2. Elements(<<f>> \o urgent[r]) = Elements(<<f>>) \cup Elements(urgent[r]) /\ Elements(<<f>>) = {f}
    <3>1. Elements(<<f>> \o urgent[r]) = Elements(<<f>>) \cup Elements(urgent[r])
      <4>. DEFINE a == <<f>>
                  b == urgent[r]
      <4>1. a \in Seq(SystemFrames) /\ b \in Seq(SystemFrames)
        BY <2>1
      <4>. HIDE DEF a, b
      <4>2. Elements(a \o b) = Elements(a) \cup Elements(b)
        BY <4>1, ElementsJoined
      <4>. QED
        BY <4>2 DEF a, b
    <3>2. Elements(<<f>>) = {f}
      BY DEF Elements
    <3>. QED
      BY <3>1, <3>2
  <2>3. <<f>> \o urgent[r] # <<>> /\ Head(<<f>> \o urgent[r]) = f /\ Tail(<<f>> \o urgent[r]) = urgent[r]
    BY <2>1
  <2>4. r \notin listening
    BY <1>1
  <2>. QED
    BY <2>1, <2>2, <2>3, <2>4
<1>2. \A r \in Procs : Starting(r)' => r = p + 1
  BY DEF Starting
<1>3. ASSUME NEW r \in Procs, Starting(r)'
      PROVE  /\ Asleep(r)' /\ NotYet(r)' /\ urgent'[r] # <<>> /\ Head(urgent'[r]).kind = "start"
             /\ \A g \in Elements(Tail(urgent'[r])) : g.kind # "start"
  <2>1. r = p + 1
    BY <1>2, <1>3
  <2>2. \A s \in Procs : s > r => s > p /\ s # p + 1
    BY <2>1
  <2>3. NotYet(r)'
    BY <2>2 DEF NotYet
  <2>4. Asleep(r)'
    BY <1>1, <2>1 DEF StartsOnce
  <2>. QED
    BY <1>1, <2>1, <2>3, <2>4 DEF Starting
<1>4. ASSUME NEW r \in Procs, r \notin listening' PROVE Asleep(r)' /\ ~Starting(r)'
  BY <1>2, <1>4 DEF StartsOnce
<1>5. StartsOnce'
  BY <1>3, <1>4 DEF StartsOnce
<1>6. ASSUME NEW r \in Procs, NEW g \in Elements(urgent'[r]) PROVE g.kind # "cancel"
  BY <1>1, <1>6 DEF NothingCancelled
<1>. QED
  BY <1>5, <1>6 DEF NothingCancelled

LEMMA RunKeeps == ASSUME PipelineInvariant, Run PROVE PipelineInvariant'
<1>. DEFINE f == Down("start", 0)
<1>1. /\ TypeOK /\ pushing = "new" /\ pushing' = "starting" /\ Receive(0, <<f>>, pushq)
      /\ UNCHANGED <<intask, procq, working, current, script>>
  BY DEF PipelineInvariant, Run, Feed, Source, process, given
<1>2. f \in SystemFrames /\ f.kind = "start"
  BY DEF Down, Frame, SystemFrames, Frames, Kinds, System
<1>. HIDE DEF f
<1>3. 0 \in 0 .. N /\ pushq \in Seq(QueuedFrames)
  BY <1>1, PipelineAssumption DEF TypeOK
<1>4. /\ urgent' \in [Procs -> Seq(SystemFrames)] /\ waiting' = waiting
      /\ listening' \subseteq Procs /\ pushq' = pushq /\ arrived \subseteq arrived'
      /\ cancelling = {} =>
           /\ cancelling' = {} /\ listening' = listening \cup ({0 + 1} \cap Procs)
           /\ \A r \in Procs : urgent'[r] = IF r = 0 + 1 THEN <<f>> \o urgent[r] ELSE urgent[r]
  BY <1>1, <1>2, <1>3, ReceivedStart
<1>5. TypeOK'
  BY <1>1, <1>4 DEF TypeOK
<1>6. NothingCancelled /\ StartsOnce /\ NothingLost /\ cancelling = {}
  BY <1>1 DEF PipelineInvariant, Open, NothingCancelled
<1>7. listening = {} /\ \A r \in Procs : Asleep(r) /\ ~Starting(r)
  BY <1>1, <1>6 DEF StartsOnce
<1>8. \A r \in Procs : intask'[r].kind \notin {"start", "cancel"} /\ Asleep(r)'
  BY <1>1, <1>7, Kindly DEF Asleep
<1>9. StartsOnce' /\ NothingCancelled'
  BY <1>1, <1>2, <1>3, <1>4, <1>6, <1>7, <1>8, StartMovesOn
<1>10. NothingLost'
  <2>1. \A g : Carried(g) => Carried(g)' /\ Alike(g, g)
    BY <1>1, <1>4 DEF Carried, Alike
  <2>. QED
    BY <1>1, <1>4, <1>6, <2>1, CarriedOn
<1>. QED
  BY <1>5, <1>9, <1>10 DEF PipelineInvariant

LEMMA PushFrameKeeps == ASSUME PipelineInvariant, Push PROVE PipelineInvariant'
<1>. DEFINE f == Head(pushq)
            q == Tail(pushq)
<1>1. /\ TypeOK /\ pushing = "running" /\ pushq # <<>> /\ Receive(0, <<f>>, q)
      /\ pushing' = (IF f.kind \in Terminal \cup {"cancel"} THEN f.kind ELSE "running")
      /\ UNCHANGED <<intask, procq, working, current, script>>
  BY DEF PipelineInvariant, Push, Feed, Source, process, given
<1>2. f \in QueuedFrames /\ q \in Seq(QueuedFrames) /\ Elements(pushq) = {f} \cup Elements(q)
  <2>1. pushq \in Seq(QueuedFrames)
    BY <1>1 DEF TypeOK
  <2>. QED
    BY <1>1, <2>1, ElementsTaken
<1>. HIDE DEF f, q
<1>3. f \in Frames /\ f.dir = "down" /\ f.kind # "start" /\ <<f>> \in Seq(Frames) /\ Elements(<<f>>) = {f}
  <2>1. f \in Frames /\ f.dir = "down" /\ f.kind # "start"
    BY <1>2, Kindly
  <2>. QED
    BY <2>1 DEF Elements
<1>4. 0 \in Stations /\ Hop(0, f) \in Stations
  BY <1>3, PipelineAssumption DEF Hop, Stations
<1>5. pushing' # "new" /\ Open /\ (Open' => f.kind # "cancel")
  BY <1>1 DEF Open, Terminal
<1>6. /\ procq' \in [Procs -> Seq(OtherFrames)] /\ current' \in [Procs -> OtherFrames \cup {NoFrame}]
      /\ intask' \in [Procs -> SystemFrames \cup {NoFrame}]
  BY <1>1 DEF TypeOK
<1>7. \A r \in Procs : intask'[r] = intask[r] /\ (Asleep(r) => Asleep(r)')
  BY <1>1 DEF Asleep
<1>8. \A g : Carried(g) => \/ g \in Elements(q) \/ g \in Elements(<<f>>)
                           \/ \E r \in Procs : g \in Elements(waiting[r]) \/ g \in Elements(procq'[r]) \/ g = current'[r]
  BY <1>1, <1>2, <1>3 DEF Carried
<1>. QED
  BY <1>1, <1>2, <1>3, <1>4, <1>5, <1>6, <1>7, <1>8, PushKeeps

\* A processor is between the source and the sink.
LEMMA HopsWithin == \A p \in Procs : p \in Stations /\ p \in 0 .. N /\ \A f : Hop(p, f) \in Stations
  BY PipelineAssumption DEF Procs, Stations, Hop

LEMMA FinishKeeps == ASSUME PipelineInvariant, NEW p \in Procs, Finish(p) PROVE PipelineInvariant'
<1>. DEFINE f == current[p]
            fs == Pushed(p, f)
<1>1. /\ TypeOK /\ f # NoFrame /\ Receive(p, fs, pushq) /\ current' = [current EXCEPT ![p] = NoFrame]
      /\ UNCHANGED <<intask, procq, working, pushing, script>>
  BY DEF PipelineInvariant, Finish, Handling, given
<1>2. f \in OtherFrames /\ f \in Frames /\ f.kind \notin System
  BY <1>1, Types, Kindly
<1>3. /\ fs \in Seq(Frames) /\ \A g \in Elements(fs) : g.kind \notin System
      /\ f.kind \in Uninterruptible => f \in Elements(fs)
  <2>1. /\ Up("context", f.id) \in Frames /\ Up("context", f.id).kind = "context"
        /\ Down("reply", f.id) \in Frames /\ Down("reply", f.id).kind = "reply"
        /\ "context" \notin System /\ "reply" \notin System /\ "context" \notin Uninterruptible
    BY <1>2 DEF Up, Down, Frame, Frames, Kinds, Interruptible, System, Uninterruptible, Terminal
  <2>. HIDE DEF f
  <2>2. CASE f.kind = "result" /\ p = Aggregator
    <3>1. fs = <<Up("context", f.id), f>>
      BY <2>2 DEF Pushed
    <3>2. fs \in Seq(Frames) /\ Elements(fs) = {Up("context", f.id), f}
      BY <1>2, <2>1, <3>1 DEF Elements
    <3>. QED
      BY <1>2, <2>1, <3>2
  <2>3. CASE ~(f.kind = "result" /\ p = Aggregator) /\ f.kind = "context" /\ p = Model
    <3>1. fs = <<Down("reply", f.id)>>
      BY <2>3 DEF Pushed
    <3>2. fs \in Seq(Frames) /\ Elements(fs) = {Down("reply", f.id)}
      BY <2>1, <3>1 DEF Elements
    <3>. QED
      BY <2>1, <2>3, <3>2
  <2>4. CASE ~(f.kind = "result" /\ p = Aggregator) /\ ~(f.kind = "context" /\ p = Model)
    <3>1. fs = <<f>>
      BY <2>4 DEF Pushed
    <3>2. fs \in Seq(Frames) /\ Elements(fs) = {f}
      BY <1>2, <3>1 DEF Elements
    <3>. QED
      BY <1>2, <3>2
  <2>. QED
    BY <2>2, <2>3, <2>4
<1>. HIDE DEF f, fs
<1>4. \A g \in Elements(fs) : g.kind # "start" /\ g.kind # "cancel"
  BY <1>3 DEF System
<1>5. p \in Stations /\ \A g : Hop(p, g) \in Stations
  BY HopsWithin
<1>6. /\ procq' \in [Procs -> Seq(OtherFrames)] /\ current' \in [Procs -> OtherFrames \cup {NoFrame}]
      /\ intask' \in [Procs -> SystemFrames \cup {NoFrame}] /\ pushq \in Seq(QueuedFrames)
      /\ \A r \in Procs : current'[r] = IF r = p THEN NoFrame ELSE current[r]
  BY <1>1 DEF TypeOK
<1>7. \A r \in Procs : intask'[r] = intask[r] /\ (Asleep(r) => Asleep(r)')
  BY <1>1, <1>6 DEF Asleep
<1>8. \A g : Carried(g) /\ g.kind \in Uninterruptible =>
          \/ g \in Elements(pushq) \/ g \in Elements(fs)
          \/ \E r \in Procs : g \in Elements(waiting[r]) \/ g \in Elements(procq'[r]) \/ g = current'[r]
  BY <1>1, <1>3, <1>6 DEF Carried, f
<1>9. Open' => Open
  BY <1>1 DEF Open
<1>. QED
  <2>1. /\ PipelineInvariant /\ script' = script /\ (Open' => Open) /\ (pushing' = "new" => pushing = "new")
        /\ Open' => \A g \in Elements(fs) : g.kind # "cancel"
    BY <1>1, <1>4, <1>9
  <2>2. \A r \in Procs : intask'[r] = intask[r] \/ intask'[r] = NoFrame
    BY <1>7
  <2>3. \A r \in Procs : Asleep(r) => Asleep(r)'
    BY <1>7
  <2>4. \A g \in Elements(fs) : g.kind # "start" /\ Hop(p, g) \in Stations
    BY <1>4, <1>5
  <2>5. fs \in Seq(Frames) /\ Receive(p, fs, pushq)
    BY <1>1, <1>3
  <2>. QED
    BY <1>5, <1>6, <1>8, <2>1, <2>2, <2>3, <2>4, <2>5, PushKeeps

\* The handler of a system frame other than the StartFrame returns.
LEMMA HandledKeeps ==
    ASSUME PipelineInvariant, NEW p \in Procs, FinishSystem(p), intask[p].kind # "start"
    PROVE  PipelineInvariant'
<1>. DEFINE f == intask[p]
            fs == IF Breaks(p, f) THEN <<Down("interrupt", 0), Up("interrupt", 0), f>> ELSE <<f>>
<1>1. /\ TypeOK /\ f # NoFrame /\ Receive(p, fs, pushq) /\ intask' = [intask EXCEPT ![p] = NoFrame]
      /\ procq' = (IF Breaks(p, f) THEN [procq EXCEPT ![p] = Kept(@)] ELSE procq)
      /\ UNCHANGED <<working, current, pushing, script>>
  BY DEF PipelineInvariant, FinishSystem, given
<1>2. f \in SystemFrames /\ f \in Frames /\ f.kind # "start"
  BY <1>1, Types, Kindly
<1>3. fs \in Seq(Frames) /\ \A g \in Elements(fs) : g.kind = "interrupt" \/ g = f
  <2>1. /\ Up("interrupt", 0) \in Frames /\ Up("interrupt", 0).kind = "interrupt"
        /\ Down("interrupt", 0) \in Frames /\ Down("interrupt", 0).kind = "interrupt"
    BY DEF Up, Down, Frame, Frames, Kinds, System
  <2>. HIDE DEF f
  <2>2. CASE Breaks(p, f)
    <3>1. fs = <<Down("interrupt", 0), Up("interrupt", 0), f>>
      BY <2>2
    <3>2. fs \in Seq(Frames) /\ Elements(fs) = {Down("interrupt", 0), Up("interrupt", 0), f}
      BY <1>2, <2>1, <3>1 DEF Elements
    <3>. QED
      BY <2>1, <3>2
  <2>3. CASE ~Breaks(p, f)
    <3>1. fs = <<f>>
      BY <2>3
    <3>2. fs \in Seq(Frames) /\ Elements(fs) = {f}
      BY <1>2, <3>1 DEF Elements
    <3>. QED
      BY <3>2
  <2>. QED
    BY <2>2, <2>3
<1>4. \A g \in Elements(fs) : g.kind # "start"
  BY <1>2, <1>3
<1>5. ASSUME Open' PROVE Open /\ \A g \in Elements(fs) : g.kind # "cancel"
  <2>1. Open
    BY <1>1, <1>5 DEF Open
  <2>2. f.kind # "cancel"
    BY <2>1 DEF PipelineInvariant, NothingCancelled
  <2>. QED
    BY <1>3, <2>1, <2>2
<1>. HIDE DEF fs
<1>6. p \in Stations /\ \A g : Hop(p, g) \in Stations
  BY HopsWithin
<1>7. /\ Kept(procq[p]) \in Seq(OtherFrames)
      /\ \A g \in Elements(procq[p]) : g.kind \in Uninterruptible => g \in Elements(Kept(procq[p]))
  BY <1>1, Types, KeptIs
<1>8. /\ procq' \in [Procs -> Seq(OtherFrames)] /\ current' \in [Procs -> OtherFrames \cup {NoFrame}]
      /\ intask' \in [Procs -> SystemFrames \cup {NoFrame}] /\ pushq \in Seq(QueuedFrames)
      /\ \A r \in Procs : intask'[r] = IF r = p THEN NoFrame ELSE intask[r]
      /\ \A r \in Procs : procq'[r] = procq[r] \/ (r = p /\ procq'[r] = Kept(procq[p]))
  BY <1>1, <1>7 DEF TypeOK
<1>9. \A r \in Procs : (intask'[r] = intask[r] \/ intask'[r] = NoFrame) /\ (Asleep(r) => Asleep(r)')
  BY <1>1, <1>8 DEF Asleep
<1>10. \A g : Carried(g) /\ g.kind \in Uninterruptible =>
          \/ g \in Elements(pushq)
          \/ \E r \in Procs : g \in Elements(waiting[r]) \/ g \in Elements(procq'[r]) \/ g = current'[r]
  BY <1>1, <1>7, <1>8 DEF Carried
<1>. QED
  BY <1>1, <1>3, <1>4, <1>5, <1>6, <1>8, <1>9, <1>10, PushKeeps

\* The handler of the StartFrame passes it on.
LEMMA StartHandledKeeps ==
    ASSUME PipelineInvariant, NEW p \in Procs, FinishSystem(p), intask[p].kind = "start"
    PROVE  PipelineInvariant'
<1>. DEFINE f == intask[p]
<1>1. /\ TypeOK /\ f # NoFrame /\ Receive(p, <<f>>, pushq) /\ intask' = [intask EXCEPT ![p] = NoFrame]
      /\ UNCHANGED <<procq, working, current, pushing, script>>
  <2>1. ~Breaks(p, f)
    BY DEF Breaks
  <2>. QED
    BY <2>1 DEF PipelineInvariant, FinishSystem, given
<1>2. f \in SystemFrames /\ f.kind = "start" /\ p \in 0 .. N /\ pushq \in Seq(QueuedFrames)
  BY <1>1, Types, HopsWithin DEF TypeOK
<1>. HIDE DEF f
<1>3. /\ urgent' \in [Procs -> Seq(SystemFrames)] /\ waiting' = waiting
      /\ listening' \subseteq Procs /\ pushq' = pushq /\ arrived \subseteq arrived'
      /\ cancelling = {} =>
           /\ cancelling' = {} /\ listening' = listening \cup ({p + 1} \cap Procs)
           /\ \A r \in Procs : urgent'[r] = IF r = p + 1 THEN <<f>> \o urgent[r] ELSE urgent[r]
  BY <1>1, <1>2, ReceivedStart
<1>4. \A r \in Procs : intask'[r] = IF r = p THEN NoFrame ELSE intask[r]
  BY <1>1 DEF TypeOK
<1>5. TypeOK'
  BY <1>1, <1>3 DEF TypeOK
<1>6. ASSUME Open' PROVE NothingCancelled /\ StartsOnce /\ NothingLost /\ cancelling = {}
  BY <1>1, <1>6 DEF PipelineInvariant, Open, NothingCancelled
<1>7. ASSUME Open' PROVE StartsOnce' /\ NothingCancelled'
  <2>1. NothingCancelled /\ StartsOnce /\ cancelling = {}
    BY <1>6, <1>7
  <2>2. p \in listening /\ NotYet(p) /\ ~Starting(p)
    BY <1>1, <1>2, <2>1 DEF StartsOnce, Asleep, f
  <2>3. Procs \subseteq Nat
    BY DEF Procs
  <2>4. \A r \in Procs : ~Starting(r)
    <3>1. SUFFICES ASSUME NEW r \in Procs, Starting(r) PROVE FALSE
      OBVIOUS
    <3>2. r \in listening /\ NotYet(r) /\ r # p
      BY <2>1, <2>2, <3>1 DEF StartsOnce
    <3>3. ~(r > p) /\ ~(p > r)
      BY <2>2, <3>2 DEF NotYet
    <3>. QED
      BY <2>3, <3>2, <3>3
  <2>5. \A r \in Procs : intask'[r].kind \notin {"start", "cancel"}
    <3>1. SUFFICES ASSUME NEW r \in Procs, r # p, intask[r].kind = "start" PROVE FALSE
      BY <1>4, <2>1, Kindly DEF NothingCancelled
    <3>2. r \in listening /\ NotYet(r)
      BY <2>1, <3>1, Kindly DEF StartsOnce, Asleep
    <3>3. ~(r > p) /\ ~(p > r)
      BY <2>2, <3>2 DEF NotYet
    <3>. QED
      BY <2>3, <3>1, <3>3
  <2>6. \A r \in Procs : r \notin listening => (Asleep(r) => Asleep(r)')
    BY <1>1, <1>4 DEF Asleep
  <2>7. pushing' # "new"
    BY <1>1, <2>1, <2>2 DEF StartsOnce
  <2>8. \A r \in Procs : r > p => r \notin listening
    BY <2>2 DEF NotYet
  <2>. QED
    BY <1>1, <1>2, <1>3, <2>1, <2>4, <2>5, <2>6, <2>7, <2>8, StartMovesOn
<1>8. ASSUME Open' PROVE NothingLost'
  <2>1. \A g : Carried(g) => Carried(g)' /\ Alike(g, g)
    BY <1>1, <1>3 DEF Carried, Alike
  <2>. QED
    BY <1>1, <1>3, <1>6, <1>8, <2>1, CarriedOn
<1>. QED
  BY <1>5, <1>7, <1>8 DEF PipelineInvariant

LEMMA StepsKeep == PipelineInvariant /\ [Next]_vars => PipelineInvariant'
<1>. SUFFICES ASSUME PipelineInvariant, [Next]_vars PROVE PipelineInvariant'
  OBVIOUS
<1>1. CASE Run
  BY <1>1, RunKeeps
<1>2. CASE Wake \/ Starts
  BY <1>2, WakeKeeps
<1>3. CASE Push
  BY <1>3, PushFrameKeeps
<1>4. CASE Ends \/ StartTimeout \/ CancelTimeout
  BY <1>4, StopsKeep
<1>5. CASE Hear \/ Played
  BY <1>5, SurroundingsKeep
<1>6. CASE Cancel
  BY <1>6, CancelKeeps
<1>7. ASSUME NEW p \in Procs, TakeSystem(p) PROVE PipelineInvariant'
  BY <1>7, TakeSystemKeeps
<1>8. ASSUME NEW p \in Procs, TakeOther(p) PROVE PipelineInvariant'
  BY <1>8, TakeOtherKeeps
<1>9. ASSUME NEW p \in Procs, Take(p) PROVE PipelineInvariant'
  BY <1>9, TakeKeeps
<1>10. ASSUME NEW p \in Procs, FinishSystem(p) PROVE PipelineInvariant'
  BY <1>10, HandledKeeps, StartHandledKeeps
<1>11. ASSUME NEW p \in Procs, Finish(p) PROVE PipelineInvariant'
  BY <1>11, FinishKeeps
<1>12. CASE UNCHANGED vars
  BY <1>12 DEF vars, input, process, worker, given, PipelineInvariant, TypeOK, Open, NothingCancelled, StartsOnce,
               NothingLost, Asleep, Starting, NotYet, Carried
<1>. QED
  BY <1>1, <1>2, <1>3, <1>4, <1>5, <1>6, <1>7, <1>8, <1>9, <1>10, <1>11, <1>12 DEF Next, Proceed, Return

LEMMA SurvivesByInvariant == PipelineInvariant => UninterruptibleSurvives
<1>. SUFFICES ASSUME PipelineInvariant, Open, NEW i \in 1 .. Len(script), script[i] \in Uninterruptible, i \notin arrived
              PROVE  \/ \E j \in DOMAIN pushq : pushq[j].id = i
                     \/ \E f \in InTransit : f.id = i /\ f.kind = script[i]
  BY DEF UninterruptibleSurvives, Open
<1>1. PICK f : Carried(f) /\ f.id = i /\ f.kind = script[i]
  BY DEF PipelineInvariant, NothingLost
<1>2. CASE f \in Elements(pushq)
  BY <1>1, <1>2 DEF Elements
<1>3. CASE f \notin Elements(pushq)
  <2>1. f \in InTransit
    BY <1>1, <1>3 DEF Carried, InTransit, Held
  <2>. QED
    BY <1>1, <2>1
<1>. QED
  BY <1>2, <1>3

-----------------------------------------------------------------------------
(* What a flush drains *)

\* How far f has come when p holds it.  A probe goes down, up and down again;
\* contexts go up with it at the earliest, and replies down with it.
Rank(f, p) ==
    IF f.dir = "up" THEN 2 * N + 1 - p
    ELSE IF f.back \/ f.kind = "reply" THEN 2 * N + p ELSE p

\* f is to be done before the probe g is, and if it is in line behind it nonetheless,
\* that is because it is a turn or two further on.
Drains(f, g) == g.kind = "flush" /\ 0 < f.id /\ f.id < g.id
Later(f, g, p) == Drains(f, g) => Rank(f, p) > Rank(g, p)
Sorted(q, p) == \A i, j \in DOMAIN q : i < j => Later(q[j], q[i], p)

InLine(p) ==
    /\ Sorted(waiting[p], p) /\ Sorted(procq[p], p)
    /\ \A f \in Elements(waiting[p]) : \A g \in Elements(procq[p]) : Later(f, g, p)
    /\ \A f \in Elements(waiting[p]) \cup Elements(procq[p]) : Later(f, current[p], p)

\* A probe is never ahead of what it drains.
NeverAhead ==
    \A p, r \in Procs : \A f \in Held(p), g \in Held(r) : Drains(f, g) => Rank(f, p) >= Rank(g, r)

\* The worker pushes what it queued in order, and frames of its own in between.
Numbered ==
    /\ \A i, j \in DOMAIN pushq : i < j => pushq[j].id = 0 \/ pushq[i].id < pushq[j].id
    /\ \A j \in DOMAIN pushq : pushq[j].id # 0 =>
           /\ \A i \in arrived : i < pushq[j].id
           /\ \A f \in InTransit : f.id < pushq[j].id

\* What a frame says of the queued frame it stems from.
Known ==
    /\ arrived \subseteq Nat
    /\ \A f \in Elements(pushq) : ~f.back /\ (f.id # 0 => f.id \in DOMAIN script /\ f.kind = script[f.id])
    /\ \A f \in InTransit :
          /\ f.back => f.kind = "flush"
          /\ f.id # 0 => f.id \in DOMAIN script /\ (script[f.id] = "flush" => f.kind = "flush")
    /\ \A p \in Procs : intask[p].id = 0 /\ \A f \in Elements(urgent[p]) : f.id = 0

FlushInvariant ==
    /\ Known /\ Numbered /\ NeverAhead /\ DrainedMeansDrained
    /\ \A p \in Procs : InLine(p)

LEMMA NumberOfProcessors == N \in Nat \ {0} /\ \A p \in Procs : p \in Nat /\ 1 <= p /\ p <= N
  BY PipelineAssumption DEF Procs

LEMMA SortedNothing == \A p : Sorted(<<>>, p)
  BY DEF Sorted

LEMMA SortedTaken ==
    ASSUME NEW S, NEW q \in Seq(S), q # <<>>, NEW p, Sorted(q, p)
    PROVE  Sorted(Tail(q), p) /\ \A f \in Elements(Tail(q)) : Later(f, Head(q), p)
<1>1. /\ Head(q) = q[1] /\ 1 \in DOMAIN q
      /\ \A i \in DOMAIN Tail(q) : i + 1 \in DOMAIN q /\ Tail(q)[i] = q[i + 1] /\ i \in Nat \ {0}
  <2>1. 1 \in DOMAIN q
    OBVIOUS
  <2>. QED
    BY <2>1, ElementsTaken
<1>2. \A i, j \in DOMAIN Tail(q) : i < j => i + 1 < j + 1
  BY <1>1
<1>3. Sorted(Tail(q), p)
  BY <1>1, <1>2 DEF Sorted
<1>4. ASSUME NEW f \in Elements(Tail(q)) PROVE Later(f, Head(q), p)
  <2>1. PICK i \in DOMAIN Tail(q) : f = Tail(q)[i]
    BY DEF Elements
  <2>2. i + 1 \in DOMAIN q /\ f = q[i + 1] /\ 1 < i + 1
    BY <1>1, <2>1
  <2>. QED
    BY <1>1, <2>2 DEF Sorted
<1>. QED
  BY <1>3, <1>4

LEMMA SortedAppended ==
    ASSUME NEW S, NEW q \in Seq(S), NEW x \in S, NEW p, Sorted(q, p), \A g \in Elements(q) : Later(x, g, p)
    PROVE  Sorted(Append(q, x), p)
<1>1. /\ DOMAIN Append(q, x) = 1 .. Len(q) + 1 /\ DOMAIN q = 1 .. Len(q) /\ Len(q) \in Nat
      /\ Append(q, x)[Len(q) + 1] = x /\ \A i \in 1 .. Len(q) : Append(q, x)[i] = q[i]
  OBVIOUS
<1>2. \A i, j \in 1 .. Len(q) + 1 : i < j => i \in 1 .. Len(q) /\ (j \in 1 .. Len(q) \/ j = Len(q) + 1)
  BY <1>1
<1>3. \A i \in 1 .. Len(q) : q[i] \in Elements(q)
  BY <1>1 DEF Elements
<1>. DEFINE r == Append(q, x)
<1>4. SUFFICES ASSUME NEW i \in 1 .. Len(q) + 1, NEW j \in 1 .. Len(q) + 1, i < j PROVE Later(r[j], r[i], p)
  BY <1>1 DEF Sorted
<1>. HIDE DEF r
<1>5. i \in 1 .. Len(q) /\ r[i] = q[i] /\ ((j \in 1 .. Len(q) /\ r[j] = q[j]) \/ r[j] = x)
  BY <1>1, <1>2, <1>4 DEF r
<1>. QED
  BY <1>1, <1>3, <1>4, <1>5 DEF Sorted

LEMMA SortedJoined ==
    ASSUME NEW S, NEW q \in Seq(S), NEW m \in Seq(S), NEW p, Sorted(q, p), Sorted(m, p),
           \A f \in Elements(m) : \A g \in Elements(q) : Later(f, g, p)
    PROVE  Sorted(q \o m, p)
<1>. DEFINE r == q \o m
            a == Len(q)
            b == Len(m)
<1>1. /\ DOMAIN r = 1 .. a + b /\ DOMAIN q = 1 .. a /\ DOMAIN m = 1 .. b /\ a \in Nat /\ b \in Nat
      /\ \A i \in 1 .. a : r[i] = q[i]
      /\ \A i \in 1 .. a + b : i \in 1 .. a \/ (i - a \in 1 .. b /\ r[i] = m[i - a])
  OBVIOUS
<1>2. SUFFICES ASSUME NEW i \in DOMAIN r, NEW j \in DOMAIN r, i < j PROVE Later(r[j], r[i], p)
  BY DEF Sorted
<1>. HIDE DEF r, a, b
<1>3. /\ i \in 1 .. a + b /\ j \in 1 .. a + b /\ (j \in 1 .. a => i \in 1 .. a)
      /\ i - a < j - a
  BY <1>1, <1>2
<1>5. CASE i \in 1 .. a /\ j \in 1 .. a
  BY <1>1, <1>2, <1>5 DEF Sorted
<1>6. CASE i \in 1 .. a /\ j \notin 1 .. a
  <2>1. r[i] \in Elements(q) /\ r[j] \in Elements(m)
    BY <1>1, <1>3, <1>6 DEF Elements
  <2>. QED
    BY <2>1
<1>7. CASE i \notin 1 .. a
  <2>1. i - a \in DOMAIN m /\ j - a \in DOMAIN m /\ r[i] = m[i - a] /\ r[j] = m[j - a]
    BY <1>1, <1>3, <1>7
  <2>. QED
    BY <1>3, <2>1 DEF Sorted
<1>. QED
  BY <1>5, <1>6, <1>7

\* What is left of a queue keeps its order.
LEMMA SortedOnly ==
    ASSUME NEW S, NEW q \in Seq(S), NEW I, NEW p, Sorted(q, p)
    PROVE  Sorted(Only(q, I), p)
<1>. DEFINE made == CHOOSE kept : Builds(q, I, Len(q), kept)
<1>1. Builds(q, I, Len(q), made)
  <2>1. Len(q) \in Nat
    OBVIOUS
  <2>2. \E kept : Builds(q, I, Len(q), kept)
    BY <2>1, BuildsExists
  <2>. QED
    BY <2>2, Zenon
<1>2. Only(q, I) = made[Len(q)]
  BY DEF Only, Builds
<1>. HIDE DEF made
<1>. DEFINE Good(n) == made[n] \in Seq(S) /\ Sorted(made[n], p) /\ Elements(made[n]) \subseteq {q[i] : i \in 1 .. n}
<1>3. Good(0)
  <2>1. made[0] = <<>>
    BY <1>1 DEF Builds
  <2>. QED
    BY <2>1, SortedNothing DEF Elements
<1>4. ASSUME NEW n \in 1 .. Len(q), Good(n - 1) PROVE Good(n)
  <2>1. q[n] \in S /\ n - 1 \in Nat /\ n \in Nat /\ n # 0 /\ n \in 0 .. Len(q)
    OBVIOUS
  <2>2. made[n] = IF n \in I THEN Append(made[n - 1], q[n]) ELSE made[n - 1]
    BY <1>1, <2>1 DEF Builds
  <2>3. 1 .. n - 1 \subseteq 1 .. n /\ n \in 1 .. n /\ \A i \in 1 .. n - 1 : i < n /\ i \in DOMAIN q
    BY <2>1
  <2>4. \A g \in Elements(made[n - 1]) : Later(q[n], g, p)
    BY <1>4, <2>3 DEF Sorted
  <2>5. CASE n \in I
    <3>. DEFINE m == made[n - 1]
    <3>0. m \in Seq(S) /\ Sorted(m, p) /\ \A g \in Elements(m) : Later(q[n], g, p)
      BY <1>4, <2>4
    <3>. HIDE DEF m
    <3>1. Append(m, q[n]) \in Seq(S) /\ Elements(Append(m, q[n])) = Elements(m) \cup {q[n]}
      BY <2>1, <3>0, ElementsAppended
    <3>2. Sorted(Append(m, q[n]), p)
      BY <2>1, <3>0, SortedAppended
    <3>3. made[n] = Append(m, q[n])
      BY <2>2, <2>5 DEF m
    <3>. QED
      BY <1>4, <2>3, <3>1, <3>2, <3>3 DEF m
  <2>6. CASE n \notin I
    BY <1>4, <2>2, <2>3, <2>6
  <2>. QED
    BY <2>5, <2>6
<1>5. Good(Len(q))
  <2>. DEFINE Bad == {n \in 0 .. Len(q) : ~Good(n)}
  <2>. HIDE DEF Good
  <2>. SUFFICES ASSUME Bad # {} PROVE FALSE
    OBVIOUS
  <2>1. Bad \in SUBSET Nat
    OBVIOUS
  <2>2. PICK n \in Bad : \A m \in Bad : n <= m
    BY <2>1, LeastNumber
  <2>3. n \in 1 .. Len(q) /\ n - 1 \in 0 .. Len(q) /\ n - 1 \notin Bad
    BY <1>3, <2>2
  <2>. QED
    BY <1>4, <2>2, <2>3
<1>. QED
  BY <1>2, <1>5

HeldFrames == OtherFrames \cup {NoFrame}

LEMMA HeldIs ==
    /\ \A f \in HeldFrames : f.id \in Nat /\ f.dir \in {"down", "up"} /\ f.back \in BOOLEAN
    /\ NoFrame.id = 0 /\ ~NoFrame.back /\ NoFrame.kind = "none" /\ NoFrame \in HeldFrames
<1>1. NoFrame.id = 0 /\ ~NoFrame.back /\ NoFrame.kind = "none" /\ NoFrame.dir = "down" /\ NoFrame.back \in BOOLEAN
  BY DEF NoFrame, Down, Frame
<1>2. \A f \in OtherFrames : f.id \in Nat /\ f.dir \in {"down", "up"} /\ f.back \in BOOLEAN
  BY DEF OtherFrames, Frames
<1>. QED
  BY <1>1, <1>2 DEF HeldFrames

LEMMA HeldTypes ==
    ASSUME TypeOK
    PROVE  /\ \A p \in Procs : /\ Held(p) \subseteq HeldFrames /\ Held(p) \subseteq InTransit
                               /\ Elements(waiting[p]) \subseteq OtherFrames /\ Elements(procq[p]) \subseteq OtherFrames
           /\ InTransit \subseteq HeldFrames
           /\ \A f \in InTransit : \E p \in Procs : f \in Held(p)
<1>1. ASSUME NEW p \in Procs
      PROVE  /\ Held(p) \subseteq HeldFrames /\ Held(p) \subseteq InTransit
             /\ Elements(waiting[p]) \subseteq OtherFrames /\ Elements(procq[p]) \subseteq OtherFrames
  <2>1. Elements(waiting[p]) \subseteq OtherFrames /\ Elements(procq[p]) \subseteq OtherFrames
    BY Types, ElementsOf
  <2>2. current[p] \in HeldFrames
    BY Types DEF HeldFrames
  <2>. QED
    BY <2>1, <2>2 DEF Held, HeldFrames, InTransit
<1>2. \A f \in InTransit : \E p \in Procs : f \in Held(p)
  BY DEF InTransit
<1>. QED
  BY <1>1, <1>2

LEMMA RankIs ==
    ASSUME NEW p \in Procs, NEW f \in HeldFrames
    PROVE  /\ Rank(f, p) \in Nat /\ 1 <= Rank(f, p) /\ Rank(f, p) <= 3 * N
           /\ f.dir = "up" => N < Rank(f, p) /\ Rank(f, p) <= 2 * N /\ Rank(f, p) = 2 * N + 1 - p
           /\ f.dir # "up" /\ (f.back \/ f.kind = "reply") => 2 * N < Rank(f, p) /\ Rank(f, p) = 2 * N + p
           /\ f.dir # "up" /\ ~(f.back \/ f.kind = "reply") => Rank(f, p) <= N /\ Rank(f, p) = p
<1>1. N \in Nat /\ p \in Nat /\ 1 <= p /\ p <= N
  BY NumberOfProcessors
<1>. QED
  BY <1>1 DEF Rank

LEMMA SameRank ==
    ASSUME NEW p \in Procs, NEW r \in Procs, NEW f \in HeldFrames, NEW g \in HeldFrames, Rank(f, p) = Rank(g, r)
    PROVE  p = r
<1>1. N \in Nat /\ p \in Nat /\ r \in Nat
  BY NumberOfProcessors
<1>. QED
  BY <1>1, RankIs

LEMMA NoDrain ==
    ASSUME NEW f, NEW p
    PROVE  /\ ~Drains(f, NoFrame) /\ Later(f, NoFrame, p)
           /\ \A g : f.id = 0 /\ g \in HeldFrames => ~Drains(f, g) /\ Later(f, g, p)
  BY HeldIs DEF Drains, Later

LEMMA FlushFirst == Init => FlushInvariant
<1>. SUFFICES ASSUME Init PROVE FlushInvariant
  OBVIOUS
<1>1. \A p \in Procs : /\ waiting[p] = <<>> /\ procq[p] = <<>> /\ urgent[p] = <<>>
                       /\ current[p] = NoFrame /\ intask[p] = NoFrame /\ Held(p) = {NoFrame}
  BY DEF Init, Held, Elements
<1>2. \A f \in InTransit : f = NoFrame
  BY <1>1 DEF InTransit
<1>3. /\ arrived = {} /\ script \in Seq(Uninterruptible \cup {"text", "turnend"})
      /\ pushq = [i \in 1 .. Len(script) |-> Down(script[i], i)]
  BY PipelineAssumption DEF Init, Queued
<1>4. /\ DOMAIN pushq = DOMAIN script /\ DOMAIN pushq = 1 .. Len(script)
      /\ \A i \in DOMAIN pushq : i \in Nat /\ pushq[i].id = i /\ pushq[i].kind = script[i] /\ ~pushq[i].back
  BY <1>3 DEF Down, Frame
<1>5. Known
  BY <1>1, <1>2, <1>3, <1>4, HeldIs DEF Known, Elements
<1>6. Numbered
  BY <1>2, <1>3, <1>4, HeldIs DEF Numbered
<1>7. NeverAhead
  BY <1>1, NoDrain DEF NeverAhead
<1>8. DrainedMeansDrained
  BY <1>3 DEF DrainedMeansDrained
<1>9. \A p \in Procs : InLine(p)
  BY <1>1, SortedNothing DEF InLine, Elements
<1>. QED
  BY <1>5, <1>6, <1>7, <1>8, <1>9 DEF FlushInvariant

\* What the worker queues itself has no number.
LEMMA NumberedKept ==
    ASSUME NEW q \in Seq(QueuedFrames),
           \A i, j \in DOMAIN q : i < j => q[j].id = 0 \/ q[i].id < q[j].id,
           \A j \in DOMAIN q : q[j].id # 0 =>
               /\ \A i \in arrived' : i < q[j].id
               /\ \A f \in InTransit' : f.id < q[j].id,
           NEW kind \in {"cancel", "end"}, pushq' = q \/ pushq' = Append(q, Down(kind, 0))
    PROVE  Numbered' /\ \A f \in Elements(pushq') : f \in Elements(q) \/ (f.id = 0 /\ ~f.back)
<1>. DEFINE x == Down(kind, 0)
<1>1. x.id = 0 /\ ~x.back /\ x \in QueuedFrames
  BY DEF Down, Frame, QueuedFrames, Frames, Kinds, System, Uninterruptible, Terminal
<1>. HIDE DEF x
<1>2. CASE pushq' = q
  BY <1>2 DEF Numbered
<1>3. CASE pushq' = Append(q, x)
  <2>1. Elements(Append(q, x)) = Elements(q) \cup {x}
    BY <1>1, ElementsAppended
  <2>. DEFINE r == Append(q, x)
  <2>2. /\ DOMAIN q = 1 .. Len(q) /\ DOMAIN r = 1 .. Len(q) + 1 /\ Len(q) \in Nat
        /\ r[Len(q) + 1] = x /\ \A i \in 1 .. Len(q) : r[i] = q[i]
    BY <1>1
  <2>3. pushq' = r
    BY <1>3
  <2>. HIDE DEF r
  <2>4. /\ \A i, j \in DOMAIN r : i < j => i \in DOMAIN q
        /\ \A i \in DOMAIN r : i \in DOMAIN q \/ i = Len(q) + 1
    BY <2>2
  <2>5. \A i, j \in DOMAIN r : i < j => r[j].id = 0 \/ r[i].id < r[j].id
    BY <1>1, <2>2, <2>4
  <2>6. ASSUME NEW j \in DOMAIN r, r[j].id # 0
        PROVE  (\A i \in arrived' : i < r[j].id) /\ (\A f \in InTransit' : f.id < r[j].id)
    <3>1. j \in DOMAIN q /\ r[j] = q[j]
      BY <1>1, <2>2, <2>4, <2>6
    <3>. QED
      BY <2>6, <3>1
  <2>7. Numbered'
    BY <2>3, <2>5, <2>6 DEF Numbered
  <2>. QED
    BY <1>1, <1>3, <2>1, <2>7
<1>. QED
  BY <1>2, <1>3 DEF x

\* A step that brings nothing new to the process tasks.
LEMMA QuietKeeps ==
    ASSUME TypeOK, FlushInvariant, script' = script, arrived' = arrived,
           \A p \in Procs : Held(p)' \subseteq Held(p) \cup {NoFrame},
           \A p \in Procs : InLine(p)',
           NEW kind \in {"cancel", "end"}, pushq' = pushq \/ pushq' = Append(pushq, Down(kind, 0)),
           \A p \in Procs : intask'[p].id = 0 /\ \A f \in Elements(urgent'[p]) : f.id = 0
    PROVE  FlushInvariant'
<1>1. \A f \in InTransit' : f \in InTransit \/ f = NoFrame
  BY DEF InTransit
<1>2. Numbered' /\ \A f \in Elements(pushq') : f \in Elements(pushq) \/ (f.id = 0 /\ ~f.back)
  <2>1. Numbered /\ pushq \in Seq(QueuedFrames)
    BY DEF FlushInvariant, TypeOK
  <2>2. ASSUME NEW j \in DOMAIN pushq, pushq[j].id # 0
        PROVE  /\ \A i \in arrived' : i < pushq[j].id
               /\ \A f \in InTransit' : f.id < pushq[j].id
    <3>1. pushq[j].id \in Nat
      BY <2>1 DEF QueuedFrames, Frames
    <3>. QED
      BY <1>1, <2>1, <2>2, <3>1, HeldIs DEF Numbered
  <2>3. \A i, j \in DOMAIN pushq : i < j => pushq[j].id = 0 \/ pushq[i].id < pushq[j].id
    BY <2>1 DEF Numbered
  <2>. QED
    BY <2>1, <2>2, <2>3, NumberedKept
<1>3. Known'
  BY <1>1, <1>2, HeldIs DEF FlushInvariant, Known
<1>5. NeverAhead'
  <2>1. ASSUME NEW p \in Procs, NEW r \in Procs, NEW f \in Held(p)', NEW g \in Held(r)', Drains(f, g)
        PROVE  Rank(f, p) >= Rank(g, r)
    <3>1. f # NoFrame /\ g # NoFrame
      BY <2>1, HeldIs DEF Drains
    <3>2. f \in Held(p) /\ g \in Held(r)
      BY <3>1
    <3>. QED
      BY <2>1, <3>2 DEF FlushInvariant, NeverAhead
  <2>. QED
    BY <2>1 DEF NeverAhead
<1>6. DrainedMeansDrained'
  BY <1>1 DEF FlushInvariant, DrainedMeansDrained
<1>. QED
  BY <1>2, <1>3, <1>5, <1>6 DEF FlushInvariant

\* What a push brings, and where to.
LEMMA ReceivedOf ==
    ASSUME TypeOK, NEW p \in Stations, NEW fs \in Seq(Frames), NEW q \in Seq(QueuedFrames), Receive(p, fs, q)
    PROVE  /\ \A r \in Procs : \E new \in Seq(Frames) :
                  /\ waiting'[r] = waiting[r] \o new
                  /\ \A x \in Elements(new) : x.kind \notin System
                         /\ \E f \in Elements(fs) : Landing(p, f) = [at |-> r, frame |-> x]
           /\ \A r \in Procs : \A x \in Elements(urgent'[r]) :
                  x \in Elements(urgent[r]) \/ (x.kind \in System /\ \E f \in Elements(fs) : Alike(x, f))
           /\ pushq' = q \/ pushq' = Append(q, Down("end", 0))
           /\ \A i \in arrived' : i \in arrived
                  \/ \E f \in Elements(fs) : f.id = i /\ i > 0 /\ Landing(p, f).at \in {Source, Sink}
<1>. DEFINE ls == Landings(p, fs)
<1>1. ls \in Seq(Places) /\ \A l \in Elements(ls) : \E f \in Elements(fs) : l = Landing(p, f)
  BY LandingsAre
<1>2. Elements(fs) \subseteq Frames /\ \A i \in DOMAIN ls : ls[i] \in Elements(ls)
  BY <1>1, ElementsOf
<1>3. \A f \in Elements(fs) : Landing(p, f) \in Places /\ Alike(Landing(p, f).frame, f)
  BY <1>2, LandingIs
<1>4. /\ urgent' = [r \in Procs |-> PutUrgent(urgent[r], Arriving(r, ls, TRUE))]
      /\ waiting' = [r \in Procs |-> waiting[r] \o Arriving(r, ls, FALSE)]
      /\ pushq' = IF Reaches(ls, "endworker", Source) THEN Append(q, Down("end", 0)) ELSE q
      /\ arrived' = arrived \cup {ls[i].frame.id : i \in {i \in DOMAIN ls : ls[i].at \in {Source, Sink} /\ ls[i].frame.id > 0
                                                                        /\ ls[i].frame.kind # "reply"}}
  <2>1. Deliver(ls, q)
    BY DEF Receive
  <2>. HIDE DEF ls
  <2>. QED
    BY <2>1 DEF Deliver
<1>. HIDE DEF ls
<1>5. ASSUME NEW r \in Procs
      PROVE  \E new \in Seq(Frames) :
                  /\ waiting'[r] = waiting[r] \o new
                  /\ \A x \in Elements(new) : x.kind \notin System
                         /\ \E f \in Elements(fs) : Landing(p, f) = [at |-> r, frame |-> x]
  <2>. DEFINE new == Arriving(r, ls, FALSE)
  <2>1. new \in Seq(Frames)
        /\ Elements(new) = {l.frame : l \in {k \in Elements(ls) : k.at = r /\ (k.frame.kind \in System) = FALSE}}
    BY <1>1, ArrivingAre
  <2>2. waiting'[r] = waiting[r] \o new
    BY <1>4
  <2>. HIDE DEF new
  <2>3. ASSUME NEW x \in Elements(new)
        PROVE  x.kind \notin System /\ \E f \in Elements(fs) : Landing(p, f) = [at |-> r, frame |-> x]
    <3>1. PICK l \in Elements(ls) : x = l.frame /\ l.at = r /\ (l.frame.kind \in System) = FALSE
      BY <2>1, <2>3
    <3>2. PICK f \in Elements(fs) : l = Landing(p, f)
      BY <1>1
    <3>3. l = [at |-> r, frame |-> x]
      BY <1>3, <3>1, <3>2 DEF Places
    <3>. QED
      BY <3>1, <3>2, <3>3
  <2>. QED
    BY <2>1, <2>2, <2>3
<1>6. ASSUME NEW r \in Procs, NEW x \in Elements(urgent'[r])
      PROVE  x \in Elements(urgent[r]) \/ (x.kind \in System /\ \E f \in Elements(fs) : Alike(x, f))
  <2>. DEFINE new == Arriving(r, ls, TRUE)
  <2>1. new \in Seq(Frames)
        /\ Elements(new) = {l.frame : l \in {k \in Elements(ls) : k.at = r /\ (k.frame.kind \in System) = TRUE}}
    BY <1>1, ArrivingAre
  <2>2. urgent'[r] = PutUrgent(urgent[r], new)
    BY <1>4
  <2>. HIDE DEF new
  <2>3. urgent[r] \in Seq(Frames)
    <3>1. urgent[r] \in Seq(SystemFrames) /\ SystemFrames \subseteq Frames
      BY Types DEF SystemFrames
    <3>. QED
      BY <3>1
  <2>4. Elements(PutUrgent(urgent[r], new)) = Elements(urgent[r]) \cup Elements(new)
    BY <2>1, <2>3, PutUrgentIs
  <2>5. CASE x \in Elements(new)
    <3>1. PICK l \in Elements(ls) : x = l.frame /\ (l.frame.kind \in System) = TRUE
      BY <2>1, <2>5
    <3>2. PICK f \in Elements(fs) : l = Landing(p, f)
      BY <1>1
    <3>. QED
      BY <1>3, <3>1, <3>2
  <2>. QED
    BY <1>6, <2>2, <2>4, <2>5
<1>7. ASSUME NEW i \in arrived', i \notin arrived
      PROVE  \E f \in Elements(fs) : f.id = i /\ i > 0 /\ Landing(p, f).at \in {Source, Sink}
  <2>1. PICK k \in DOMAIN ls : ls[k].at \in {Source, Sink} /\ ls[k].frame.id > 0 /\ i = ls[k].frame.id
    BY <1>4, <1>7
  <2>2. PICK f \in Elements(fs) : ls[k] = Landing(p, f)
    BY <1>1, <1>2
  <2>. QED
    BY <1>3, <2>1, <2>2 DEF Alike
<1>. QED
  BY <1>4, <1>5, <1>6, <1>7

LEMMA SameLine ==
    ASSUME NEW p \in Procs, InLine(p), waiting'[p] = waiting[p],
           \/ procq'[p] = procq[p]
           \/ Sorted(procq'[p], p) /\ Elements(procq'[p]) \subseteq Elements(procq[p]),
           current'[p] = current[p] \/ current'[p] = NoFrame
    PROVE  InLine(p)' /\ Held(p)' \subseteq Held(p) \cup {NoFrame}
<1>1. Sorted(procq'[p], p) /\ Elements(procq'[p]) \subseteq Elements(procq[p])
  BY DEF InLine
<1>2. \A f : Later(f, NoFrame, p)
  BY NoDrain
<1>3. /\ \A f \in Elements(waiting'[p]) : \A g \in Elements(procq'[p]) : Later(f, g, p)
      /\ \A f \in Elements(waiting'[p]) \cup Elements(procq'[p]) : Later(f, current'[p], p)
  BY <1>1, <1>2 DEF InLine
<1>4. InLine(p)'
  BY <1>1, <1>3 DEF InLine
<1>5. Held(p)' \subseteq Held(p) \cup {NoFrame}
  BY <1>1 DEF Held
<1>. QED
  BY <1>4, <1>5

\* Steps beside the process tasks.
LEMMA BesideDrains ==
    ASSUME TypeOK, FlushInvariant, Wake \/ Starts \/ Cancel \/ Hear \/ Played \/ Ends \/ StartTimeout \/ CancelTimeout
    PROVE  FlushInvariant'
<1>1. /\ UNCHANGED <<waiting, procq, current, arrived, script>>
      /\ pushq' = pushq \/ pushq' = Append(pushq, Down("cancel", 0))
      /\ intask' = intask \/ intask' = [p \in Procs |-> NoFrame]
  BY DEF Wake, Starts, Cancel, Hear, Played, Ends, StartTimeout, CancelTimeout, CleanUp,
         input, process, worker, given
<1>2. \A p \in Procs : InLine(p)' /\ Held(p)' \subseteq Held(p) \cup {NoFrame}
  BY <1>1, SameLine DEF FlushInvariant
<1>3. ASSUME NEW p \in Procs, NEW f \in Elements(urgent'[p]) PROVE f.id = 0
  <2>1. urgent[p] \in Seq(SystemFrames) /\ \A g \in Elements(urgent[p]) : g.id = 0
    BY Types DEF FlushInvariant, Known
  <2>2. CASE urgent'[p] = urgent[p]
    BY <1>3, <2>1, <2>2
  <2>3. ASSUME NEW x \in SystemFrames, x.id = 0, urgent'[p] = Append(urgent[p], x) PROVE f.id = 0
    <3>1. Elements(Append(urgent[p], x)) = Elements(urgent[p]) \cup {x}
      BY <2>1, <2>3, ElementsAppended
    <3>. QED
      BY <1>3, <2>1, <2>3, <3>1
  <2>4. urgent'[p] = urgent[p] \/ \E x \in SystemFrames : x.id = 0 /\ urgent'[p] = Append(urgent[p], x)
    <3>1. /\ Down("speech", 0) \in SystemFrames /\ Down("speech", 0).id = 0
          /\ Up("stopped", 0) \in SystemFrames /\ Up("stopped", 0).id = 0
      BY DEF Down, Up, Frame, SystemFrames, Frames, Kinds, System
    <3>2. UNCHANGED urgent \/ Send(Breaker, Down("speech", 0)) \/ Send(Speaker, Up("stopped", 0))
      BY DEF Wake, Starts, Cancel, Hear, Played, Ends, StartTimeout, CancelTimeout, CleanUp, input
    <3>3. ASSUME NEW r, NEW x \in SystemFrames, x.id = 0, Send(r, x)
          PROVE  urgent'[p] = urgent[p] \/ urgent'[p] = Append(urgent[p], x)
      BY <3>3 DEF Send, TypeOK
    <3>. QED
      BY <3>1, <3>2, <3>3
  <2>. QED
    BY <2>2, <2>3, <2>4
<1>4. \A p \in Procs : intask'[p].id = 0
  BY <1>1, HeldIs DEF FlushInvariant, Known
<1>. QED
  BY <1>1, <1>2, <1>3, <1>4, QuietKeeps

LEMMA TakeOtherDrains == ASSUME TypeOK, FlushInvariant, NEW p \in Procs, TakeOther(p) PROVE FlushInvariant'
<1>. DEFINE x == Head(waiting[p])
            rest == Tail(waiting[p])
            more == Append(procq[p], x)
<1>1. waiting[p] # <<>>
      /\ procq' = [procq EXCEPT ![p] = more] /\ waiting' = [waiting EXCEPT ![p] = rest]
      /\ UNCHANGED <<urgent, intask, current, pushq, arrived, script>>
  BY DEF TakeOther, worker, given
<1>2. /\ waiting'[p] = rest /\ procq'[p] = more /\ current' = current
      /\ \A r \in Procs : r # p => waiting'[r] = waiting[r] /\ procq'[r] = procq[r]
  BY <1>1 DEF TypeOK
<1>3. InLine(p) /\ waiting[p] \in Seq(OtherFrames) /\ procq[p] \in Seq(OtherFrames)
  BY Types DEF FlushInvariant
<1>4. /\ x \in OtherFrames /\ rest \in Seq(OtherFrames) /\ Elements(waiting[p]) = {x} \cup Elements(rest)
      /\ Sorted(rest, p) /\ \A f \in Elements(rest) : Later(f, x, p)
  BY <1>1, <1>3, ElementsTaken, SortedTaken DEF InLine
<1>. HIDE DEF x, rest
<1>5. Elements(more) = Elements(procq[p]) \cup {x}
  BY <1>3, <1>4, ElementsAppended
<1>6. \A g \in Elements(procq[p]) : Later(x, g, p)
  BY <1>3, <1>4 DEF InLine
<1>7. Sorted(more, p)
  BY <1>3, <1>4, <1>6, SortedAppended DEF InLine
<1>. HIDE DEF more
<1>8. InLine(p)' /\ Held(p)' \subseteq Held(p) \cup {NoFrame}
  <2>1. /\ \A f \in Elements(rest) : \A g \in Elements(more) : Later(f, g, p)
        /\ \A f \in Elements(rest) \cup Elements(more) : Later(f, current[p], p)
    BY <1>3, <1>4, <1>5 DEF InLine
  <2>2. InLine(p)'
    BY <1>2, <1>4, <1>7, <2>1 DEF InLine
  <2>3. Held(p)' = Elements(rest) \cup Elements(more) \cup {current[p]}
    BY <1>2 DEF Held
  <2>. QED
    BY <1>4, <1>5, <2>2, <2>3 DEF Held
<1>9. \A r \in Procs : InLine(r)' /\ Held(r)' \subseteq Held(r) \cup {NoFrame}
  BY <1>2, <1>8, SameLine DEF FlushInvariant
<1>10. \A r \in Procs : intask'[r].id = 0 /\ \A f \in Elements(urgent'[r]) : f.id = 0
  BY <1>1 DEF FlushInvariant, Known
<1>. QED
  BY <1>1, <1>9, <1>10, QuietKeeps

LEMMA TakeDrains == ASSUME TypeOK, FlushInvariant, NEW p \in Procs, Take(p) PROVE FlushInvariant'
<1>. DEFINE x == Head(procq[p])
            rest == Tail(procq[p])
<1>1. procq[p] # <<>>
      /\ procq' = [procq EXCEPT ![p] = rest] /\ current' = [current EXCEPT ![p] = x]
      /\ UNCHANGED <<urgent, intask, waiting, pushq, arrived, script>>
  BY DEF Take, input, worker, given
<1>2. /\ procq'[p] = rest /\ current'[p] = x /\ waiting' = waiting
      /\ \A r \in Procs : r # p => procq'[r] = procq[r] /\ current'[r] = current[r]
  BY <1>1 DEF TypeOK
<1>3. InLine(p) /\ procq[p] \in Seq(OtherFrames)
  BY Types DEF FlushInvariant
<1>4. /\ x \in OtherFrames /\ rest \in Seq(OtherFrames) /\ Elements(procq[p]) = {x} \cup Elements(rest)
      /\ Sorted(rest, p) /\ \A f \in Elements(rest) : Later(f, x, p)
  BY <1>1, <1>3, ElementsTaken, SortedTaken DEF InLine
<1>. HIDE DEF x, rest
<1>5. InLine(p)' /\ Held(p)' \subseteq Held(p) \cup {NoFrame}
  <2>1. /\ \A f \in Elements(waiting[p]) : \A g \in Elements(rest) : Later(f, g, p)
        /\ \A f \in Elements(waiting[p]) \cup Elements(rest) : Later(f, x, p)
    BY <1>3, <1>4 DEF InLine
  <2>2. InLine(p)'
    BY <1>2, <1>3, <1>4, <2>1 DEF InLine
  <2>3. Held(p)' = Elements(waiting[p]) \cup Elements(rest) \cup {x}
    BY <1>2 DEF Held
  <2>. QED
    BY <1>4, <2>2, <2>3 DEF Held
<1>6. \A r \in Procs : InLine(r)' /\ Held(r)' \subseteq Held(r) \cup {NoFrame}
  BY <1>2, <1>5, SameLine DEF FlushInvariant
<1>7. \A r \in Procs : intask'[r].id = 0 /\ \A f \in Elements(urgent'[r]) : f.id = 0
  BY <1>1 DEF FlushInvariant, Known
<1>. QED
  BY <1>1, <1>6, <1>7, QuietKeeps

\* FrameQueue.reset drops frames and leaves the others in order.
LEMMA KeptInOrder ==
    ASSUME NEW q \in Seq(OtherFrames), NEW p, Sorted(q, p)
    PROVE  Sorted(Kept(q), p) /\ Elements(Kept(q)) \subseteq Elements(q)
<1>. DEFINE I == {i \in DOMAIN q : q[i].kind \in Uninterruptible}
<1>1. Elements(Only(q, I)) = {q[i] : i \in I \cap DOMAIN q} /\ Sorted(Only(q, I), p)
  BY OnlyThose, SortedOnly
<1>2. Kept(q) = Only(q, I)
  BY DEF Kept
<1>. QED
  BY ZenonT(60), <1>1, <1>2 DEF Elements

LEMMA TakeSystemDrains == ASSUME TypeOK, FlushInvariant, NEW p \in Procs, TakeSystem(p) PROVE FlushInvariant'
<1>. DEFINE x == Head(urgent[p])
<1>1. /\ urgent[p] # <<>> /\ intask' = [intask EXCEPT ![p] = x] /\ urgent' = [urgent EXCEPT ![p] = Tail(@)]
      /\ StartTask(p) \/ Interrupt(p) \/ CancelTask(p) \/ UNCHANGED process
      /\ UNCHANGED <<waiting, pushq, arrived, script>>
  BY DEF TakeSystem, worker, given
<1>2. /\ procq' = procq \/ procq' = [procq EXCEPT ![p] = Kept(@)]
      /\ current' = current \/ current' = [current EXCEPT ![p] = NoFrame]
  BY <1>1 DEF StartTask, Interrupt, CancelTask, process
<1>3. procq[p] \in Seq(OtherFrames) /\ Sorted(procq[p], p)
  BY Types DEF FlushInvariant, InLine
<1>4. Sorted(Kept(procq[p]), p) /\ Elements(Kept(procq[p])) \subseteq Elements(procq[p])
  BY <1>3, KeptInOrder
<1>5. \A r \in Procs :
          /\ procq'[r] = procq[r] \/ (Sorted(procq'[r], r) /\ Elements(procq'[r]) \subseteq Elements(procq[r]))
          /\ current'[r] = current[r] \/ current'[r] = NoFrame
  BY <1>2, <1>4 DEF TypeOK
<1>6. \A r \in Procs : InLine(r)' /\ Held(r)' \subseteq Held(r) \cup {NoFrame}
  BY <1>1, <1>5, SameLine DEF FlushInvariant
<1>7. /\ urgent[p] \in Seq(SystemFrames) /\ Elements(urgent[p]) = {x} \cup Elements(Tail(urgent[p]))
  BY <1>1, Types, ElementsTaken
<1>8. \A r \in Procs : intask'[r].id = 0 /\ \A f \in Elements(urgent'[r]) : f.id = 0
  BY <1>1, <1>7 DEF FlushInvariant, Known, TypeOK
<1>. QED
  BY <1>1, <1>6, <1>8, QuietKeeps

\* The handler of a system frame pushes system frames.
LEMMA SystemDrains == ASSUME TypeOK, FlushInvariant, NEW p \in Procs, FinishSystem(p) PROVE FlushInvariant'
<1>. DEFINE f == intask[p]
            fs == IF Breaks(p, f) THEN <<Down("interrupt", 0), Up("interrupt", 0), f>> ELSE <<f>>
<1>1. /\ f # NoFrame /\ Receive(p, fs, pushq) /\ intask' = [intask EXCEPT ![p] = NoFrame]
      /\ procq' = (IF Breaks(p, f) THEN [procq EXCEPT ![p] = Kept(@)] ELSE procq)
      /\ UNCHANGED <<current, script>>
  BY DEF FinishSystem, given
<1>2. f \in SystemFrames /\ f \in Frames /\ f.kind \in System /\ f.id = 0
  BY <1>1, Types, Kindly DEF FlushInvariant, Known
<1>3. fs \in Seq(Frames) /\ \A g \in Elements(fs) : g.kind \in System /\ g.id = 0
  <2>1. /\ Up("interrupt", 0) \in Frames /\ Up("interrupt", 0).kind \in System /\ Up("interrupt", 0).id = 0
        /\ Down("interrupt", 0) \in Frames /\ Down("interrupt", 0).kind \in System /\ Down("interrupt", 0).id = 0
    BY DEF Up, Down, Frame, Frames, Kinds, System
  <2>. HIDE DEF f
  <2>2. CASE Breaks(p, f)
    <3>1. fs = <<Down("interrupt", 0), Up("interrupt", 0), f>>
      BY <2>2
    <3>2. fs \in Seq(Frames) /\ Elements(fs) = {Down("interrupt", 0), Up("interrupt", 0), f}
      BY <1>2, <2>1, <3>1 DEF Elements
    <3>. QED
      BY <1>2, <2>1, <3>2
  <2>3. CASE ~Breaks(p, f)
    <3>1. fs = <<f>>
      BY <2>3
    <3>2. fs \in Seq(Frames) /\ Elements(fs) = {f}
      BY <1>2, <3>1 DEF Elements
    <3>. QED
      BY <1>2, <3>2
  <2>. QED
    BY <2>2, <2>3
<1>. HIDE DEF f, fs
<1>4. p \in Stations /\ pushq \in Seq(QueuedFrames)
  BY HopsWithin DEF TypeOK
<1>5. /\ \A r \in Procs : \E new \in Seq(Frames) :
             /\ waiting'[r] = waiting[r] \o new
             /\ \A x \in Elements(new) : x.kind \notin System
                    /\ \E g \in Elements(fs) : Landing(p, g) = [at |-> r, frame |-> x]
      /\ \A r \in Procs : \A x \in Elements(urgent'[r]) :
             x \in Elements(urgent[r]) \/ (x.kind \in System /\ \E g \in Elements(fs) : Alike(x, g))
      /\ pushq' = pushq \/ pushq' = Append(pushq, Down("end", 0))
      /\ \A i \in arrived' : i \in arrived
             \/ \E g \in Elements(fs) : g.id = i /\ i > 0 /\ Landing(p, g).at \in {Source, Sink}
  BY <1>1, <1>3, <1>4, ReceivedOf
<1>6. ASSUME NEW r \in Procs PROVE waiting'[r] = waiting[r]
  <2>1. PICK new \in Seq(Frames) :
             /\ waiting'[r] = waiting[r] \o new
             /\ \A x \in Elements(new) : x.kind \notin System
                    /\ \E g \in Elements(fs) : Landing(p, g) = [at |-> r, frame |-> x]
    BY <1>5
  <2>2. ASSUME NEW x \in Elements(new) PROVE FALSE
    <3>1. PICK g \in Elements(fs) : Landing(p, g) = [at |-> r, frame |-> x]
      BY <2>1
    <3>2. g \in Frames /\ g.kind \in System
      BY <1>3, ElementsOf
    <3>3. Alike(Landing(p, g).frame, g)
      BY <1>4, <3>2, LandingIs
    <3>4. x.kind = g.kind
      BY <3>1, <3>3 DEF Alike
    <3>. QED
      BY <2>1, <3>2, <3>4
  <2>3. new = <<>>
    BY <2>2, NothingOf
  <2>. QED
    BY <2>1, <2>3, Types, JoinNothing
<1>7. arrived' = arrived
  <2>1. arrived' \subseteq arrived
    BY <1>3, <1>5
  <2>2. arrived \subseteq arrived'
    BY <1>1 DEF Receive, Deliver
  <2>. QED
    BY <2>1, <2>2
<1>8. procq[p] \in Seq(OtherFrames) /\ Sorted(procq[p], p)
  BY Types DEF FlushInvariant, InLine
<1>9. Sorted(Kept(procq[p]), p) /\ Elements(Kept(procq[p])) \subseteq Elements(procq[p])
  BY <1>8, KeptInOrder
<1>10. \A r \in Procs :
          \/ procq'[r] = procq[r]
          \/ Sorted(procq'[r], r) /\ Elements(procq'[r]) \subseteq Elements(procq[r])
  BY <1>1, <1>9 DEF TypeOK
<1>11. \A r \in Procs : InLine(r)' /\ Held(r)' \subseteq Held(r) \cup {NoFrame}
  BY <1>1, <1>6, <1>10, SameLine DEF FlushInvariant
<1>12. \A r \in Procs : intask'[r].id = 0 /\ \A x \in Elements(urgent'[r]) : x.id = 0
  <2>1. \A r \in Procs : intask[r].id = 0 /\ \A x \in Elements(urgent[r]) : x.id = 0
    BY DEF FlushInvariant, Known
  <2>2. \A r \in Procs : intask'[r] = intask[r] \/ intask'[r] = NoFrame
    BY <1>1 DEF TypeOK
  <2>3. \A x : (\E g \in Elements(fs) : Alike(x, g)) => x.id = 0
    BY <1>3 DEF Alike
  <2>. QED
    BY <1>5, <2>1, <2>2, <2>3, HeldIs
<1>. QED
  BY <1>1, <1>5, <1>7, <1>11, <1>12, QuietKeeps

\* The StartFrame enters the pipeline.
LEMMA RunDrains == ASSUME TypeOK, FlushInvariant, Run PROVE FlushInvariant'
<1>. DEFINE f == Down("start", 0)
<1>1. Receive(0, <<f>>, pushq) /\ UNCHANGED <<intask, procq, current, script>>
  BY DEF Run, Feed, Source, process, given
<1>2. f \in Frames /\ f \in SystemFrames /\ f.kind = "start" /\ f.id = 0
  BY DEF Down, Frame, SystemFrames, Frames, Kinds, System
<1>. HIDE DEF f
<1>3. 0 \in 0 .. N /\ 0 \in Stations /\ pushq \in Seq(QueuedFrames)
  BY PipelineAssumption DEF Stations, TypeOK
<1>4. waiting' = waiting /\ pushq' = pushq /\ arrived \subseteq arrived'
  BY <1>1, <1>2, <1>3, ReceivedStart
<1>5. <<f>> \in Seq(Frames) /\ \A g \in Elements(<<f>>) : g = f
  BY <1>2 DEF Elements
<1>6. /\ \A r \in Procs : \A x \in Elements(urgent'[r]) :
             x \in Elements(urgent[r]) \/ (x.kind \in System /\ \E g \in Elements(<<f>>) : Alike(x, g))
      /\ \A i \in arrived' : i \in arrived
             \/ \E g \in Elements(<<f>>) : g.id = i /\ i > 0 /\ Landing(0, g).at \in {Source, Sink}
  BY <1>1, <1>3, <1>5, ReceivedOf
<1>7. arrived' = arrived
  BY <1>2, <1>4, <1>5, <1>6
<1>8. \A r \in Procs : InLine(r)' /\ Held(r)' \subseteq Held(r) \cup {NoFrame}
  BY <1>1, <1>4, SameLine DEF FlushInvariant
<1>9. \A r \in Procs : intask'[r].id = 0 /\ \A x \in Elements(urgent'[r]) : x.id = 0
  BY <1>1, <1>2, <1>5, <1>6 DEF FlushInvariant, Known, Alike
<1>. QED
  BY <1>1, <1>4, <1>7, <1>8, <1>9, QuietKeeps

\* What p holds without the frames that arrive in this step.
Old(p) == Elements(waiting[p]) \cup Elements(procq[p]) \cup {current'[p]}

\* Frames arrive behind those they must follow and ahead of those they must precede.
LEMMA Incoming ==
    ASSUME TypeOK, NeverAhead, \A r \in Procs : InLine(r), procq' = procq,
           \A r \in Procs : current'[r] = current[r] \/ current'[r] = NoFrame,
           NEW New \in [Procs -> SUBSET OtherFrames],
           \A r \in Procs : \E m \in Seq(OtherFrames) : waiting'[r] = waiting[r] \o m /\ Elements(m) \subseteq New[r],
           \A r, s \in Procs : \A x \in New[r], y \in New[s] : x.id = y.id,
           \A r, s \in Procs : \A x \in New[r], y \in Old(s) :
               /\ Drains(x, y) => Rank(x, r) > Rank(y, s)
               /\ Drains(y, x) => Rank(y, s) >= Rank(x, r)
    PROVE  /\ NeverAhead' /\ \A r \in Procs : InLine(r)'
           /\ \A r \in Procs : Held(r)' \subseteq Old(r) \cup New[r] /\ Old(r) \subseteq Held(r) \cup {NoFrame}
<1>1. ASSUME NEW r \in Procs
      PROVE  /\ Elements(waiting'[r]) \subseteq Elements(waiting[r]) \cup New[r]
             /\ Held(r)' \subseteq Old(r) \cup New[r] /\ Old(r) \subseteq Held(r) \cup {NoFrame}
  <2>1. PICK m \in Seq(OtherFrames) : waiting'[r] = waiting[r] \o m /\ Elements(m) \subseteq New[r]
    OBVIOUS
  <2>2. Elements(waiting'[r]) = Elements(waiting[r]) \cup Elements(m)
    BY <2>1, Types, ElementsJoined
  <2>. QED
    BY <2>1, <2>2 DEF Held, Old
<1>2. \A r, s \in Procs : \A x \in New[r], y \in New[s] : ~Drains(x, y)
  <2>1. \A r \in Procs : \A x \in New[r] : x.id \in Nat
    BY DEF OtherFrames, Frames
  <2>. QED
    BY <2>1 DEF Drains
<1>3. ASSUME NEW r \in Procs, NEW s \in Procs, NEW f \in Old(r), NEW g \in Old(s), Drains(f, g)
      PROVE  Rank(f, r) >= Rank(g, s)
  <2>1. f # NoFrame /\ g # NoFrame
    BY <1>3, HeldIs DEF Drains
  <2>2. f \in Held(r) /\ g \in Held(s)
    BY <1>1, <2>1
  <2>. QED
    BY <1>3, <2>2 DEF NeverAhead
<1>4. ASSUME NEW r \in Procs, NEW s \in Procs, NEW f \in New[r], NEW g \in Old(s), Drains(f, g)
      PROVE  Rank(f, r) >= Rank(g, s)
  <2>1. Rank(f, r) > Rank(g, s)
    BY <1>4
  <2>2. f \in HeldFrames /\ g \in HeldFrames
    BY <1>1, HeldTypes, HeldIs DEF HeldFrames
  <2>. QED
    BY <2>1, <2>2, RankIs
<1>5. NeverAhead'
  <2>1. ASSUME NEW r \in Procs, NEW s \in Procs, NEW f \in Held(r)', NEW g \in Held(s)', Drains(f, g)
        PROVE  Rank(f, r) >= Rank(g, s)
    BY <1>1, <1>2, <1>3, <1>4, <2>1
  <2>. QED
    BY <2>1 DEF NeverAhead
<1>6. ASSUME NEW r \in Procs PROVE InLine(r)'
  <2>1. PICK m \in Seq(OtherFrames) : waiting'[r] = waiting[r] \o m /\ Elements(m) \subseteq New[r]
    OBVIOUS
  <2>2. \A f \in New[r] : \A g \in Old(r) : Later(f, g, r)
    BY DEF Later
  <2>3. InLine(r) /\ waiting[r] \in Seq(OtherFrames)
    BY Types
  <2>4. Sorted(m, r)
    <3>1. ASSUME NEW i \in DOMAIN m, NEW j \in DOMAIN m PROVE Later(m[j], m[i], r)
      <4>1. m[i] \in New[r] /\ m[j] \in New[r]
        BY <2>1 DEF Elements
      <4>. QED
        BY <1>2, <4>1 DEF Later
    <3>. QED
      BY <3>1 DEF Sorted
  <2>5. \A f \in Elements(m) : \A g \in Elements(waiting[r]) : Later(f, g, r)
    BY <2>1, <2>2 DEF Old
  <2>6. Sorted(waiting[r], r)
    BY <2>3 DEF InLine
  <2>7. Sorted(waiting'[r], r)
    BY <2>1, <2>3, <2>4, <2>5, <2>6, SortedJoined
  <2>8. \A f : Later(f, NoFrame, r)
    BY NoDrain
  <2>9. \A f \in Elements(waiting'[r]) : \A g \in Elements(procq[r]) : Later(f, g, r)
    BY <1>1, <2>2, <2>3 DEF InLine, Old
  <2>10. \A f \in Elements(waiting'[r]) \cup Elements(procq[r]) : Later(f, current'[r], r)
    <3>1. \A f \in New[r] : Later(f, current'[r], r)
      BY <2>2 DEF Old
    <3>2. \A f \in Elements(waiting[r]) \cup Elements(procq[r]) : Later(f, current'[r], r)
      BY <2>3, <2>8 DEF InLine
    <3>. QED
      BY <1>1, <3>1, <3>2
  <2>. QED
    BY <2>3, <2>7, <2>9, <2>10 DEF InLine
<1>. QED
  BY <1>1, <1>5, <1>6

\* A frame that the worker pushes has everything in the pipeline ahead of it.
LEMMA PushDrains == ASSUME TypeOK, FlushInvariant, Push PROVE FlushInvariant'
<1>. DEFINE f == Head(pushq)
            q == Tail(pushq)
<1>1. /\ pushq # <<>> /\ Receive(0, <<f>>, q) /\ UNCHANGED <<intask, procq, current, script>>
  BY DEF Push, Feed, Source, process, given
<1>2. /\ f \in QueuedFrames /\ q \in Seq(QueuedFrames) /\ Elements(pushq) = {f} \cup Elements(q)
      /\ f = pushq[1] /\ 1 \in DOMAIN pushq
      /\ \A i \in DOMAIN q : i + 1 \in DOMAIN pushq /\ q[i] = pushq[i + 1] /\ i \in Nat \ {0}
  <2>1. pushq \in Seq(QueuedFrames) /\ pushq # <<>>
    BY <1>1 DEF TypeOK
  <2>2. 1 \in DOMAIN pushq
    BY <2>1
  <2>. QED
    BY <2>1, <2>2, ElementsTaken
<1>. HIDE DEF f, q
<1>3. /\ f \in Frames /\ f.dir = "down" /\ ~f.back /\ f.id \in Nat /\ f.kind # "reply"
      /\ f.id # 0 => f.id \in DOMAIN script /\ f.kind = script[f.id] /\ f.kind \notin System
      /\ f.kind \notin System => f \in OtherFrames
  <2>1. f \in Elements(pushq) /\ script \in Seq(Uninterruptible \cup {"text", "turnend"})
    BY <1>2 DEF TypeOK
  <2>2. ~f.back /\ (f.id # 0 => f.id \in DOMAIN script /\ f.kind = script[f.id])
    BY <2>1 DEF FlushInvariant, Known
  <2>3. /\ f \in Frames /\ f.dir = "down" /\ f.id \in Nat /\ f.kind # "reply"
        /\ f.kind \notin System => f \in OtherFrames
    BY <1>2 DEF QueuedFrames, Frames, OtherFrames, Kinds, Uninterruptible, Terminal
  <2>4. f.id \in DOMAIN script => script[f.id] \in Uninterruptible \cup {"text", "turnend"}
    BY <2>1
  <2>5. \A kind \in Uninterruptible \cup {"text", "turnend"} : kind \notin System
    BY DEF Uninterruptible, Terminal, System
  <2>. QED
    BY <2>2, <2>3, <2>4, <2>5
<1>4. 0 \in Stations /\ <<f>> \in Seq(Frames) /\ \A g \in Elements(<<f>>) : g = f
  BY <1>3, PipelineAssumption DEF Stations, Elements
<1>5. Landing(0, f) = [at |-> 1, frame |-> f]
  <2>1. Hop(0, f) = 1 /\ Hop(0, f) # Sink /\ Hop(0, f) # Source
    BY <1>3, NumberOfProcessors DEF Hop, Sink, Source
  <2>. QED
    BY <2>1 DEF Landing
<1>6. /\ \A r \in Procs : \E new \in Seq(Frames) :
             /\ waiting'[r] = waiting[r] \o new
             /\ \A x \in Elements(new) : x.kind \notin System
                    /\ \E g \in Elements(<<f>>) : Landing(0, g) = [at |-> r, frame |-> x]
      /\ \A r \in Procs : \A x \in Elements(urgent'[r]) :
             x \in Elements(urgent[r]) \/ (x.kind \in System /\ \E g \in Elements(<<f>>) : Alike(x, g))
      /\ pushq' = q \/ pushq' = Append(q, Down("end", 0))
      /\ \A i \in arrived' : i \in arrived
             \/ \E g \in Elements(<<f>>) : g.id = i /\ i > 0 /\ Landing(0, g).at \in {Source, Sink}
  BY <1>1, <1>2, <1>4, ReceivedOf
<1>7. arrived' \subseteq arrived
  <2>1. Landing(0, f).at \notin {Source, Sink}
    BY <1>5, NumberOfProcessors DEF Source, Sink
  <2>. QED
    BY <1>4, <1>6, <2>1
<1>8. Numbered /\ Known /\ NeverAhead /\ DrainedMeansDrained /\ \A p \in Procs : InLine(p)
  BY DEF FlushInvariant
<1>9. f.id # 0 => (\A i \in arrived : i < f.id) /\ (\A y \in InTransit : y.id < f.id)
  BY <1>2, <1>8 DEF Numbered
<1>. DEFINE New == [r \in Procs |-> IF r = 1 /\ f.kind \notin System THEN {f} ELSE {}]
<1>10. /\ New \in [Procs -> SUBSET OtherFrames]
       /\ \A r \in Procs : \A x \in New[r] : x = f /\ r = 1 /\ Rank(x, r) = 1
  <2>1. Rank(f, 1) = 1
    BY <1>3 DEF Rank
  <2>. QED
    BY <1>3, <2>1
<1>11. ASSUME NEW r \in Procs
       PROVE  \E m \in Seq(OtherFrames) : waiting'[r] = waiting[r] \o m /\ Elements(m) \subseteq New[r]
  <2>1. PICK new \in Seq(Frames) :
             /\ waiting'[r] = waiting[r] \o new
             /\ \A x \in Elements(new) : x.kind \notin System
                    /\ \E g \in Elements(<<f>>) : Landing(0, g) = [at |-> r, frame |-> x]
    BY <1>6
  <2>2. \A x \in Elements(new) : x = f /\ r = 1 /\ f.kind \notin System
    BY <1>4, <1>5, <2>1
  <2>3. new \in Seq(OtherFrames)
    <3>1. \A i \in DOMAIN new : new[i] \in OtherFrames
      BY <1>3, <2>2 DEF Elements
    <3>. QED
      BY <2>1, <3>1
  <2>. QED
    BY <2>1, <2>2, <2>3
<1>. HIDE DEF New
<1>12. ASSUME NEW r \in Procs, NEW s \in Procs, NEW x \in New[r], NEW y \in Old(s)
       PROVE  /\ Drains(x, y) => Rank(x, r) > Rank(y, s)
              /\ Drains(y, x) => Rank(y, s) >= Rank(x, r)
  <2>1. x = f /\ Rank(x, r) = 1
    BY <1>10
  <2>2. y \in InTransit /\ y \in HeldFrames
    BY <1>1, HeldTypes DEF Old, Held
  <2>3. ~Drains(x, y)
    BY <1>3, <1>9, <2>1, <2>2, HeldIs DEF Drains
  <2>. QED
    BY <2>1, <2>2, <2>3, RankIs
<1>13. /\ NeverAhead' /\ \A r \in Procs : InLine(r)'
       /\ \A r \in Procs : Held(r)' \subseteq Old(r) \cup New[r] /\ Old(r) \subseteq Held(r) \cup {NoFrame}
  <2>1. \A r, s \in Procs : \A x \in New[r], y \in New[s] : x.id = y.id
    BY <1>10
  <2>2. \A r \in Procs : current'[r] = current[r] \/ current'[r] = NoFrame
    BY <1>1
  <2>3. procq' = procq /\ NeverAhead /\ \A r \in Procs : InLine(r)
    BY <1>1, <1>8
  <2>4. \A r \in Procs : \E m \in Seq(OtherFrames) : waiting'[r] = waiting[r] \o m /\ Elements(m) \subseteq New[r]
    BY <1>11
  <2>5. \A r, s \in Procs : \A x \in New[r], y \in Old(s) :
            /\ Drains(x, y) => Rank(x, r) > Rank(y, s)
            /\ Drains(y, x) => Rank(y, s) >= Rank(x, r)
    BY <1>12
  <2>6. New \in [Procs -> SUBSET OtherFrames]
    BY <1>10
  <2>. QED
    BY <2>1, <2>2, <2>3, <2>4, <2>5, <2>6, Incoming
<1>14. \A y \in InTransit' : y \in InTransit \/ y = NoFrame \/ (y = f /\ f.kind \notin System)
  <2>1. ASSUME NEW r \in Procs, NEW y \in Held(r)' PROVE y \in InTransit \/ y = NoFrame \/ (y = f /\ f.kind \notin System)
    <3>1. y \in New[r] => y = f /\ f.kind \notin System
      BY DEF New
    <3>2. Held(r) \subseteq InTransit
      BY HeldTypes
    <3>. QED
      BY <1>13, <2>1, <3>1, <3>2
  <2>. QED
    BY <2>1 DEF InTransit
<1>15. Numbered' /\ \A x \in Elements(pushq') : x \in Elements(q) \/ (x.id = 0 /\ ~x.back)
  <2>1. ASSUME NEW i \in DOMAIN q, NEW j \in DOMAIN q, i < j PROVE q[j].id = 0 \/ q[i].id < q[j].id
    <3>1. i + 1 \in DOMAIN pushq /\ q[i] = pushq[i + 1] /\ j + 1 \in DOMAIN pushq /\ q[j] = pushq[j + 1]
      BY <1>2
    <3>2. i + 1 < j + 1
      BY <1>2, <2>1
    <3>. QED
      BY <1>8, <3>1, <3>2 DEF Numbered
  <2>2. ASSUME NEW j \in DOMAIN q, q[j].id # 0
        PROVE  /\ \A i \in arrived' : i < q[j].id
               /\ \A y \in InTransit' : y.id < q[j].id
    <3>1. j + 1 \in DOMAIN pushq /\ q[j] = pushq[j + 1] /\ 1 < j + 1
      BY <1>2
    <3>2. (\A i \in arrived : i < q[j].id) /\ (\A y \in InTransit : y.id < q[j].id)
      BY <1>8, <2>2, <3>1 DEF Numbered
    <3>3. f.id < q[j].id
      BY <1>2, <1>8, <2>2, <3>1 DEF Numbered
    <3>4. q[j].id \in Nat /\ 0 < q[j].id
      <4>1. q[j] \in QueuedFrames
        BY <1>2
      <4>. QED
        BY <2>2, <4>1 DEF QueuedFrames, Frames
    <3>5. ASSUME NEW y \in InTransit' PROVE y.id < q[j].id
      BY <1>14, <3>2, <3>3, <3>4, HeldIs
    <3>. QED
      BY <1>7, <3>2, <3>5
  <2>. QED
    BY <1>2, <1>6, <2>1, <2>2, NumberedKept
<1>16. Known'
  <2>1. arrived' \subseteq Nat
    BY <1>7, <1>8 DEF Known
  <2>2. \A x \in Elements(pushq') : ~x.back /\ (x.id # 0 => x.id \in DOMAIN script' /\ x.kind = script'[x.id])
    BY <1>1, <1>2, <1>8, <1>15 DEF Known
  <2>3. \A y \in InTransit' :
            /\ y.back => y.kind = "flush"
            /\ y.id # 0 => y.id \in DOMAIN script' /\ (script'[y.id] = "flush" => y.kind = "flush")
    BY <1>1, <1>3, <1>8, <1>14, HeldIs DEF Known
  <2>4. \A p \in Procs : intask'[p].id = 0 /\ \A x \in Elements(urgent'[p]) : x.id = 0
    BY <1>1, <1>3, <1>4, <1>6, <1>8 DEF Known, Alike
  <2>. QED
    BY <2>1, <2>2, <2>3, <2>4 DEF Known
<1>17. DrainedMeansDrained'
  <2>1. ASSUME NEW i \in arrived', script'[i] = "flush", NEW y \in InTransit'
        PROVE  y = NoFrame \/ y.id >= i \/ y.id = 0
    <3>1. i \in arrived /\ i \in Nat /\ script[i] = "flush"
      BY <1>1, <1>7, <1>8, <2>1 DEF Known
    <3>2. CASE y \in InTransit
      BY <1>8, <3>1, <3>2 DEF DrainedMeansDrained
    <3>3. CASE y = f
      BY <1>3, <1>9, <3>1, <3>3
    <3>. QED
      BY <1>14, <3>2, <3>3
  <2>. QED
    BY <2>1 DEF DrainedMeansDrained
<1>. QED
  BY <1>13, <1>15, <1>16, <1>17 DEF FlushInvariant

\* A frame that goes on to a processor comes a step further there, and a probe just one.
LEMMA OneFurther ==
    ASSUME NEW p \in Procs, NEW f \in OtherFrames, f.back => f.kind = "flush",
           NEW r \in Procs, NEW x, Landing(p, f) = [at |-> r, frame |-> x]
    PROVE  /\ x \in OtherFrames /\ x.id = f.id /\ x.kind = f.kind /\ (x.back => x.kind = "flush")
           /\ Rank(x, r) = Rank(f, p) + 1
<1>1. N \in Nat \ {0} /\ p \in Nat /\ 1 <= p /\ p <= N /\ r \in Nat /\ 1 <= r /\ r <= N
  BY NumberOfProcessors
<1>2. f \in Frames /\ f.kind \notin System /\ f.dir \in {"down", "up"} /\ f.back \in BOOLEAN
  BY Kindly DEF OtherFrames, Frames
<1>3. x = Landing(p, f).frame /\ r = Landing(p, f).at
  OBVIOUS
<1>4. CASE f.dir = "down" /\ p < N
  <2>1. Hop(p, f) = p + 1 /\ Hop(p, f) # Sink /\ Hop(p, f) # Source
    BY <1>1, <1>4 DEF Hop, Sink, Source
  <2>2. Landing(p, f) = [at |-> p + 1, frame |-> f]
    BY <2>1 DEF Landing
  <2>3. x = f /\ r = p + 1
    BY <1>3, <2>2
  <2>. QED
    BY <1>1, <1>4, <2>3 DEF Rank
<1>5. CASE f.dir = "down" /\ p = N
  <2>1. Hop(p, f) = Sink /\ Sink = N + 1 /\ Source = 0 /\ Sink # Source
    BY <1>1, <1>5 DEF Hop, Sink, Source
  <2>2. f.kind = "endworker" \/ (f.kind = "flush" /\ ~f.back)
    <3>1. ASSUME ~(f.kind = "endworker" \/ (f.kind = "flush" /\ ~f.back)) PROVE FALSE
      <4>1. Landing(p, f) = [at |-> Sink, frame |-> f]
        BY <2>1, <3>1 DEF Landing
      <4>. QED
        BY <1>1, <1>3, <2>1, <4>1
    <3>. QED
      BY <3>1
  <2>3. Landing(p, f) = [at |-> N, frame |-> [f EXCEPT !.dir = "up"]]
    BY <2>1, <2>2 DEF Landing
  <2>4. x = [f EXCEPT !.dir = "up"] /\ r = N
    BY <1>3, <2>3
  <2>5. x \in OtherFrames /\ x.id = f.id /\ x.kind = f.kind /\ x.back = f.back /\ x.dir = "up"
    BY <1>2, <2>4 DEF OtherFrames, Frames
  <2>6. ~f.back /\ f.kind # "reply"
    BY <2>2
  <2>7. Rank(f, p) = N /\ Rank(x, r) = N + 1
    BY <1>1, <1>5, <2>4, <2>5, <2>6 DEF Rank
  <2>. QED
    BY <2>5, <2>6, <2>7
<1>6. CASE f.dir = "up" /\ p > 1
  <2>1. Hop(p, f) = p - 1 /\ Hop(p, f) # Sink /\ Hop(p, f) # Source
    BY <1>1, <1>6 DEF Hop, Sink, Source
  <2>2. Landing(p, f) = [at |-> p - 1, frame |-> f]
    BY <2>1 DEF Landing
  <2>3. x = f /\ r = p - 1
    BY <1>3, <2>2
  <2>4. Rank(f, p) = 2 * N + 1 - p /\ Rank(x, r) = 2 * N + 1 - r
    BY <1>6, <2>3 DEF Rank
  <2>5. Rank(x, r) = Rank(f, p) + 1
    BY <1>1, <2>3, <2>4
  <2>. QED
    BY <2>3, <2>5
<1>7. CASE f.dir = "up" /\ p = 1
  <2>1. Hop(p, f) = Source /\ Sink = N + 1 /\ Source = 0 /\ Sink # Source
    BY <1>1, <1>7 DEF Hop, Sink, Source
  <2>2. f.kind = "flush"
    <3>1. ASSUME f.kind # "flush" PROVE FALSE
      <4>1. Landing(p, f) = [at |-> Source, frame |-> f]
        BY <2>1, <3>1 DEF Landing
      <4>. QED
        BY <1>1, <1>3, <2>1, <4>1
    <3>. QED
      BY <3>1
  <2>3. Landing(p, f) = [at |-> 1, frame |-> [f EXCEPT !.dir = "down", !.back = TRUE]]
    BY <2>1, <2>2 DEF Landing
  <2>4. x = [f EXCEPT !.dir = "down", !.back = TRUE] /\ r = 1
    BY <1>3, <2>3
  <2>5. x \in OtherFrames /\ x.id = f.id /\ x.kind = f.kind /\ x.back /\ x.dir = "down"
    BY <1>2, <2>4 DEF OtherFrames, Frames
  <2>6. Rank(f, p) = 2 * N /\ Rank(x, r) = 2 * N + 1
    BY <1>1, <1>7, <2>4, <2>5 DEF Rank
  <2>. QED
    BY <1>1, <2>2, <2>5, <2>6
<1>. QED
  BY <1>1, <1>2, <1>4, <1>5, <1>6, <1>7

\* What a handler pushes stems from the frame it handles, and is as far.
LEMMA PushedAre ==
    ASSUME NEW p \in Procs, NEW f \in OtherFrames, f.back => f.kind = "flush"
    PROVE  /\ Pushed(p, f) \in Seq(Frames)
           /\ \A g \in Elements(Pushed(p, f)) :
                  /\ g \in OtherFrames /\ g.id = f.id /\ (g.back => g.kind = "flush")
                  /\ Rank(g, p) >= Rank(f, p)
                  /\ (f.kind = "flush" \/ g.kind = "flush") => g = f
<1>1. f.id \in Nat /\ f \in Frames /\ N \in Nat /\ p \in Nat /\ 1 <= p /\ p <= N
  BY NumberOfProcessors DEF OtherFrames, Frames
<1>2. Rank(f, p) >= Rank(f, p)
  BY RankIs DEF HeldFrames
<1>3. CASE f.kind = "result" /\ p = Aggregator
  <2>. DEFINE c == Up("context", f.id)
  <2>1. c \in OtherFrames /\ c \in Frames /\ c.id = f.id /\ ~c.back /\ c.kind = "context" /\ c.dir = "up"
    BY <1>1 DEF Up, Frame, OtherFrames, Frames, Kinds, Interruptible, System
  <2>2. Pushed(p, f) = <<c, f>>
    BY <1>3 DEF Pushed
  <2>. HIDE DEF c
  <2>3. Pushed(p, f) \in Seq(Frames) /\ Elements(Pushed(p, f)) = {c, f}
    BY <1>1, <2>1, <2>2 DEF Elements
  <2>4. Rank(c, p) >= Rank(f, p)
    BY <1>1, <1>3, <2>1 DEF Rank
  <2>. QED
    BY <1>2, <1>3, <2>1, <2>3, <2>4
<1>4. CASE f.kind = "context" /\ p = Model
  <2>. DEFINE c == Down("reply", f.id)
  <2>1. c \in OtherFrames /\ c \in Frames /\ c.id = f.id /\ ~c.back /\ c.kind = "reply" /\ c.dir = "down"
    BY <1>1 DEF Down, Frame, OtherFrames, Frames, Kinds, Interruptible, System
  <2>2. Pushed(p, f) = <<c>>
    BY <1>4 DEF Pushed
  <2>. HIDE DEF c
  <2>3. Pushed(p, f) \in Seq(Frames) /\ Elements(Pushed(p, f)) = {c}
    BY <1>1, <2>1, <2>2 DEF Elements
  <2>4. Rank(c, p) >= Rank(f, p)
    BY <1>1, <1>4, <2>1 DEF Rank
  <2>. QED
    BY <1>4, <2>1, <2>3, <2>4
<1>5. CASE ~(f.kind = "result" /\ p = Aggregator) /\ ~(f.kind = "context" /\ p = Model)
  <2>1. Pushed(p, f) = <<f>>
    BY <1>5 DEF Pushed
  <2>2. Pushed(p, f) \in Seq(Frames) /\ Elements(Pushed(p, f)) = {f}
    BY <1>1, <2>1 DEF Elements
  <2>. QED
    BY <1>2, <2>2
<1>. QED
  BY <1>3, <1>4, <1>5

\* The probe is done when it comes to the sink for the second time.
LEMMA ProbeDone ==
    ASSUME NEW p \in Procs, NEW f \in OtherFrames, f.kind = "flush", Landing(p, f).at \in {Source, Sink}
    PROVE  Rank(f, p) = 3 * N
<1>1. N \in Nat \ {0} /\ p \in Nat /\ 1 <= p /\ p <= N /\ f.dir \in {"down", "up"}
  BY NumberOfProcessors DEF OtherFrames, Frames
<1>2. Source = 0 /\ Sink = N + 1
  BY DEF Source, Sink
<1>3. Hop(p, f) # Source
  <2>1. ASSUME Hop(p, f) = Source PROVE Landing(p, f).at = 1
    BY <1>1, <1>2, <2>1 DEF Landing
  <2>. QED
    BY <1>1, <1>2, <2>1
<1>4. ~(Hop(p, f) = Sink /\ ~f.back)
  <2>1. ASSUME Hop(p, f) = Sink, ~f.back PROVE Landing(p, f).at = N
    <3>1. Landing(p, f) = [at |-> N, frame |-> [f EXCEPT !.dir = "up"]]
      BY <1>1, <1>2, <2>1 DEF Landing
    <3>. QED
      BY <3>1
  <2>. QED
    BY <1>1, <1>2, <2>1
<1>5. Landing(p, f).at = Hop(p, f)
  BY <1>3, <1>4 DEF Landing
<1>6. Hop(p, f) = Sink /\ f.back
  BY <1>3, <1>4, <1>5
<1>7. f.dir = "down" /\ p = N
  BY <1>1, <1>2, <1>6 DEF Hop
<1>. QED
  BY <1>1, <1>6, <1>7 DEF Rank

\* What a handler pushes when it returns stays ahead of and behind what the frame was.
LEMMA FinishDrains == ASSUME TypeOK, FlushInvariant, NEW p \in Procs, Finish(p) PROVE FlushInvariant'
<1>. DEFINE f == current[p]
            fs == Pushed(p, f)
<1>1. /\ f # NoFrame /\ Receive(p, fs, pushq) /\ current' = [current EXCEPT ![p] = NoFrame]
      /\ UNCHANGED <<intask, procq, script>>
  BY DEF Finish, Handling, given
<1>2. /\ f \in OtherFrames /\ f \in HeldFrames /\ f \in Held(p) /\ f \in InTransit /\ f.id \in Nat
      /\ pushq \in Seq(QueuedFrames)
  <2>1. f \in OtherFrames /\ f \in Held(p)
    BY <1>1, Types DEF Held
  <2>. QED
    BY <2>1, HeldTypes, HeldIs DEF HeldFrames, TypeOK
<1>3. Numbered /\ Known /\ NeverAhead /\ DrainedMeansDrained /\ \A r \in Procs : InLine(r)
  BY DEF FlushInvariant
<1>4. /\ f.back => f.kind = "flush"
      /\ f.id # 0 => f.id \in DOMAIN script /\ (script[f.id] = "flush" => f.kind = "flush")
  BY <1>2, <1>3 DEF Known
<1>5. /\ fs \in Seq(Frames)
      /\ \A g \in Elements(fs) :
             /\ g \in OtherFrames /\ g.id = f.id /\ (g.back => g.kind = "flush")
             /\ Rank(g, p) >= Rank(f, p)
             /\ (f.kind = "flush" \/ g.kind = "flush") => g = f
  BY <1>2, <1>4, PushedAre
<1>6. current'[p] = NoFrame /\ \A r \in Procs : current'[r] = current[r] \/ current'[r] = NoFrame
  BY <1>1 DEF TypeOK
<1>7. ASSUME NEW r \in Procs, NEW y \in Old(r) PROVE y = NoFrame \/ y \in Held(r)
  BY <1>1, <1>6 DEF Old, Held
<1>8. ASSUME NEW r \in Procs, NEW y \in Elements(waiting[r]) \cup Elements(procq[r]), r = p PROVE Later(y, f, p)
  BY <1>3, <1>8 DEF InLine
<1>9. ASSUME NEW r \in Procs, NEW y \in Old(r), Drains(y, f) PROVE Rank(y, r) >= Rank(f, p) + 1
  <2>1. y # NoFrame
    BY <1>9, HeldIs DEF Drains
  <2>2. y \in Held(r) /\ y \in HeldFrames
    BY <1>7, <2>1, HeldTypes
  <2>3. Rank(y, r) >= Rank(f, p)
    BY <1>2, <1>3, <1>9, <2>2 DEF NeverAhead
  <2>4. Rank(y, r) \in Nat /\ Rank(f, p) \in Nat
    BY <1>2, <2>2, RankIs
  <2>5. ASSUME Rank(y, r) = Rank(f, p) PROVE FALSE
    <3>1. r = p
      BY <1>2, <2>2, <2>5, SameRank
    <3>2. y \in Elements(waiting[r]) \cup Elements(procq[r])
      BY <1>1, <1>6, <2>1, <3>1 DEF Old
    <3>3. Rank(y, p) > Rank(f, p)
      BY <1>8, <1>9, <3>1, <3>2 DEF Later
    <3>. QED
      BY <2>4, <2>5, <3>1, <3>3
  <2>. QED
    BY <2>3, <2>4, <2>5
<1>10. ASSUME NEW r \in Procs, NEW y \in Old(r), NEW g \in OtherFrames, g.id = f.id, Drains(g, y)
       PROVE  Rank(f, p) >= Rank(y, r)
  <2>1. y # NoFrame /\ Drains(f, y)
    BY <1>10, HeldIs DEF Drains
  <2>2. y \in Held(r)
    BY <1>7, <2>1
  <2>. QED
    BY <1>2, <1>3, <2>1, <2>2 DEF NeverAhead
<1>11. p \in Stations
  BY HopsWithin
<1>. HIDE DEF f, fs
<1>12. /\ \A r \in Procs : \E new \in Seq(Frames) :
             /\ waiting'[r] = waiting[r] \o new
             /\ \A x \in Elements(new) : x.kind \notin System
                    /\ \E g \in Elements(fs) : Landing(p, g) = [at |-> r, frame |-> x]
       /\ \A r \in Procs : \A x \in Elements(urgent'[r]) :
             x \in Elements(urgent[r]) \/ (x.kind \in System /\ \E g \in Elements(fs) : Alike(x, g))
       /\ pushq' = pushq \/ pushq' = Append(pushq, Down("end", 0))
       /\ \A i \in arrived' : i \in arrived
             \/ \E g \in Elements(fs) : g.id = i /\ i > 0 /\ Landing(p, g).at \in {Source, Sink}
  BY <1>1, <1>2, <1>5, <1>11, ReceivedOf
<1>. DEFINE New == [r \in Procs |-> {x \in OtherFrames : \E g \in Elements(fs) : Landing(p, g) = [at |-> r, frame |-> x]}]
<1>13. ASSUME NEW r \in Procs, NEW g \in Elements(fs), NEW x, Landing(p, g) = [at |-> r, frame |-> x]
       PROVE  /\ x \in OtherFrames /\ x.id = f.id /\ x.kind = g.kind /\ (x.back => x.kind = "flush")
              /\ Rank(x, r) > Rank(f, p)
              /\ x.kind = "flush" => f.kind = "flush" /\ Rank(x, r) = Rank(f, p) + 1
              /\ f.kind = "flush" => x.kind = "flush"
  <2>1. /\ x \in OtherFrames /\ x.id = g.id /\ x.kind = g.kind /\ (x.back => x.kind = "flush")
        /\ Rank(x, r) = Rank(g, p) + 1
    BY <1>5, <1>13, OneFurther
  <2>2. Rank(g, p) \in Nat /\ Rank(f, p) \in Nat /\ Rank(g, p) >= Rank(f, p)
    <3>1. g \in HeldFrames
      BY <1>5 DEF HeldFrames
    <3>. QED
      BY <1>2, <1>5, <3>1, RankIs
  <2>3. (f.kind = "flush" \/ g.kind = "flush") => g = f
    BY <1>5
  <2>. QED
    BY <1>5, <2>1, <2>2, <2>3
<1>14. New \in [Procs -> SUBSET OtherFrames]
  OBVIOUS
<1>15. ASSUME NEW r \in Procs, NEW x \in New[r]
       PROVE  /\ x.id = f.id /\ (x.back => x.kind = "flush") /\ x \in OtherFrames
              /\ Rank(x, r) > Rank(f, p)
              /\ x.kind = "flush" => f.kind = "flush" /\ Rank(x, r) = Rank(f, p) + 1
              /\ f.kind = "flush" => x.kind = "flush"
  <2>1. PICK g \in Elements(fs) : Landing(p, g) = [at |-> r, frame |-> x]
    OBVIOUS
  <2>. QED
    BY <1>13, <2>1
<1>16. ASSUME NEW r \in Procs
       PROVE  \E m \in Seq(OtherFrames) : waiting'[r] = waiting[r] \o m /\ Elements(m) \subseteq New[r]
  <2>1. PICK new \in Seq(Frames) :
             /\ waiting'[r] = waiting[r] \o new
             /\ \A x \in Elements(new) : x.kind \notin System
                    /\ \E g \in Elements(fs) : Landing(p, g) = [at |-> r, frame |-> x]
    BY <1>12
  <2>2. \A x \in Elements(new) : x \in OtherFrames /\ x \in New[r]
    BY <1>13, <2>1
  <2>3. new \in Seq(OtherFrames)
    <3>1. \A i \in DOMAIN new : new[i] \in OtherFrames
      BY <2>2 DEF Elements
    <3>. QED
      BY <2>1, <3>1
  <2>. QED
    BY <2>1, <2>2, <2>3
<1>. HIDE DEF New
<1>17. ASSUME NEW r \in Procs, NEW s \in Procs, NEW x \in New[r], NEW y \in Old(s)
       PROVE  /\ Drains(x, y) => Rank(x, r) > Rank(y, s)
              /\ Drains(y, x) => Rank(y, s) >= Rank(x, r)
  <2>1. /\ x.id = f.id /\ x \in OtherFrames /\ Rank(x, r) > Rank(f, p)
        /\ x.kind = "flush" => f.kind = "flush" /\ Rank(x, r) = Rank(f, p) + 1
    BY <1>15
  <2>2. x \in HeldFrames /\ y \in HeldFrames
    BY <1>7, <2>1, HeldTypes, HeldIs DEF HeldFrames
  <2>3. Rank(x, r) \in Nat /\ Rank(f, p) \in Nat /\ Rank(y, s) \in Nat
    BY <1>2, <2>2, RankIs
  <2>4. ASSUME Drains(x, y) PROVE Rank(x, r) > Rank(y, s)
    <3>1. Rank(f, p) >= Rank(y, s)
      BY <1>10, <2>1, <2>4
    <3>. QED
      BY <2>1, <2>3, <3>1
  <2>5. ASSUME Drains(y, x) PROVE Rank(y, s) >= Rank(x, r)
    <3>1. x.kind = "flush" /\ f.kind = "flush" /\ Drains(y, f)
      BY <2>1, <2>5 DEF Drains
    <3>2. Rank(y, s) >= Rank(f, p) + 1
      BY <1>9, <3>1
    <3>. QED
      BY <2>1, <3>1, <3>2
  <2>. QED
    BY <2>4, <2>5
<1>18. /\ NeverAhead' /\ \A r \in Procs : InLine(r)'
       /\ \A r \in Procs : Held(r)' \subseteq Old(r) \cup New[r] /\ Old(r) \subseteq Held(r) \cup {NoFrame}
  <2>1. \A r, s \in Procs : \A x \in New[r], y \in New[s] : x.id = y.id
    BY <1>15
  <2>2. procq' = procq /\ NeverAhead /\ \A r \in Procs : InLine(r)
    BY <1>1, <1>3
  <2>3. \A r \in Procs : \E m \in Seq(OtherFrames) : waiting'[r] = waiting[r] \o m /\ Elements(m) \subseteq New[r]
    BY <1>16
  <2>4. \A r, s \in Procs : \A x \in New[r], y \in Old(s) :
            /\ Drains(x, y) => Rank(x, r) > Rank(y, s)
            /\ Drains(y, x) => Rank(y, s) >= Rank(x, r)
    BY <1>17
  <2>. QED
    BY <1>6, <1>14, <2>1, <2>2, <2>3, <2>4, Incoming
<1>19. ASSUME NEW y \in InTransit'
       PROVE  \E r \in Procs : y \in Held(r)' /\ (y \in Old(r) \/ y \in New[r])
  <2>1. PICK r \in Procs : y \in Held(r)'
    BY DEF InTransit
  <2>. QED
    BY <1>18, <2>1
<1>20. ASSUME NEW y \in InTransit'
       PROVE  \/ y \in InTransit \/ y = NoFrame
              \/ /\ y.id = f.id /\ (y.back => y.kind = "flush") /\ (f.kind = "flush" => y.kind = "flush")
  <2>1. PICK r \in Procs : y \in Old(r) \/ y \in New[r]
    BY <1>19
  <2>2. y \in Old(r) => y \in InTransit \/ y = NoFrame
    BY <1>18, HeldTypes
  <2>. QED
    BY <1>15, <2>1, <2>2
<1>21. ASSUME NEW i \in arrived', i \notin arrived
       PROVE  /\ i = f.id /\ i \in Nat /\ i > 0
              /\ f.kind = "flush" => Rank(f, p) = 3 * N
  <2>1. PICK g \in Elements(fs) : g.id = i /\ i > 0 /\ Landing(p, g).at \in {Source, Sink}
    BY <1>12, <1>21
  <2>2. f.kind = "flush" => g = f
    BY <1>5, <2>1
  <2>3. f.kind = "flush" => Rank(f, p) = 3 * N
    BY <1>2, <2>1, <2>2, ProbeDone
  <2>. QED
    BY <1>2, <1>5, <2>1, <2>3
<1>22. Numbered' /\ \A x \in Elements(pushq') : x \in Elements(pushq) \/ (x.id = 0 /\ ~x.back)
  <2>1. \A i, j \in DOMAIN pushq : i < j => pushq[j].id = 0 \/ pushq[i].id < pushq[j].id
    BY <1>3 DEF Numbered
  <2>2. ASSUME NEW j \in DOMAIN pushq, pushq[j].id # 0
        PROVE  /\ \A i \in arrived' : i < pushq[j].id
               /\ \A y \in InTransit' : y.id < pushq[j].id
    <3>1. (\A i \in arrived : i < pushq[j].id) /\ (\A y \in InTransit : y.id < pushq[j].id)
      BY <1>3, <2>2 DEF Numbered
    <3>2. f.id < pushq[j].id
      BY <1>2, <3>1
    <3>3. NoFrame.id < pushq[j].id
      <4>1. pushq[j] \in QueuedFrames
        BY <1>2
      <4>2. pushq[j].id \in Nat /\ NoFrame.id = 0
        BY <4>1, HeldIs DEF QueuedFrames, Frames
      <4>. QED
        BY <2>2, <4>2
    <3>. QED
      BY <1>20, <1>21, <3>1, <3>2, <3>3
  <2>. QED
    BY <1>2, <1>12, <2>1, <2>2, NumberedKept
<1>23. Known'
  <2>1. arrived' \subseteq Nat
    BY <1>3, <1>21 DEF Known
  <2>2. \A x \in Elements(pushq') : ~x.back /\ (x.id # 0 => x.id \in DOMAIN script' /\ x.kind = script'[x.id])
    BY <1>1, <1>3, <1>22 DEF Known
  <2>3. \A y \in InTransit' :
            /\ y.back => y.kind = "flush"
            /\ y.id # 0 => y.id \in DOMAIN script' /\ (script'[y.id] = "flush" => y.kind = "flush")
    BY <1>1, <1>3, <1>4, <1>20, HeldIs DEF Known
  <2>4. ASSUME NEW r \in Procs PROVE intask'[r].id = 0 /\ \A x \in Elements(urgent'[r]) : x.id = 0
    <3>1. intask'[r].id = 0 /\ \A x \in Elements(urgent[r]) : x.id = 0
      BY <1>1, <1>3 DEF Known
    <3>2. \A x : (x.kind \in System /\ \E g \in Elements(fs) : Alike(x, g)) => FALSE
      BY <1>5, Kindly DEF Alike
    <3>. QED
      BY <1>12, <3>1, <3>2
  <2>. QED
    BY <2>1, <2>2, <2>3, <2>4 DEF Known
<1>24. DrainedMeansDrained'
  <2>1. ASSUME NEW i \in arrived', script'[i] = "flush", NEW y \in InTransit', y # NoFrame, y.id # 0, ~(y.id >= i)
        PROVE  FALSE
    <3>1. PICK r \in Procs : y \in Held(r)' /\ (y \in Old(r) \/ y \in New[r])
      BY <1>19
    <3>2. y \in HeldFrames /\ y.id \in Nat /\ i \in Nat
      <4>1. y \in HeldFrames
        BY <1>7, <1>15, <3>1, HeldTypes, HeldIs DEF HeldFrames
      <4>. QED
        BY <1>3, <1>21, <4>1, HeldIs DEF Known
    <3>3. CASE i \in arrived /\ y \in Old(r)
      <4>1. y \in InTransit
        BY <1>7, <2>1, <3>3, HeldTypes
      <4>. QED
        BY <1>1, <1>3, <2>1, <3>3, <4>1 DEF DrainedMeansDrained
    <3>4. CASE i \in arrived /\ y \in New[r]
      <4>1. y.id = f.id
        BY <1>15, <3>4
      <4>. QED
        BY <1>1, <1>2, <1>3, <2>1, <3>4, <4>1 DEF DrainedMeansDrained
    <3>5. CASE i \notin arrived /\ y \in New[r]
      BY <1>15, <1>21, <2>1, <3>2, <3>5
    <3>6. CASE i \notin arrived /\ y \in Old(r)
      <4>1. i = f.id /\ i > 0 /\ (f.kind = "flush" => Rank(f, p) = 3 * N)
        BY <1>21, <2>1, <3>6
      <4>2. f.kind = "flush"
        BY <1>1, <1>4, <2>1, <4>1
      <4>3. Drains(y, f)
        BY <2>1, <3>2, <4>1, <4>2 DEF Drains
      <4>4. Rank(y, r) >= 3 * N + 1
        BY <1>9, <3>6, <4>1, <4>2, <4>3
      <4>5. Rank(y, r) \in Nat /\ Rank(y, r) <= 3 * N /\ N \in Nat
        BY <3>2, RankIs, NumberOfProcessors
      <4>. QED
        BY <4>4, <4>5
    <3>. QED
      BY <3>1, <3>3, <3>4, <3>5, <3>6
  <2>2. ASSUME NEW i \in arrived', script'[i] = "flush", NEW y \in InTransit' PROVE y = NoFrame \/ y.id >= i \/ y.id = 0
    BY <2>1, <2>2
  <2>. QED
    BY <2>2 DEF DrainedMeansDrained
<1>. QED
  BY <1>18, <1>22, <1>23, <1>24 DEF FlushInvariant

LEMMA FlushKept == TypeOK /\ FlushInvariant /\ [Next]_vars => FlushInvariant'
<1>. SUFFICES ASSUME TypeOK, FlushInvariant, [Next]_vars PROVE FlushInvariant'
  OBVIOUS
<1>1. CASE Run
  BY <1>1, RunDrains
<1>2. CASE Push
  BY <1>2, PushDrains
<1>3. CASE Wake \/ Starts \/ Cancel \/ Hear \/ Played \/ Ends \/ StartTimeout \/ CancelTimeout
  BY <1>3, BesideDrains
<1>4. ASSUME NEW p \in Procs, TakeSystem(p) PROVE FlushInvariant'
  BY <1>4, TakeSystemDrains
<1>5. ASSUME NEW p \in Procs, TakeOther(p) PROVE FlushInvariant'
  BY <1>5, TakeOtherDrains
<1>6. ASSUME NEW p \in Procs, Take(p) PROVE FlushInvariant'
  BY <1>6, TakeDrains
<1>7. ASSUME NEW p \in Procs, FinishSystem(p) PROVE FlushInvariant'
  BY <1>7, SystemDrains
<1>8. ASSUME NEW p \in Procs, Finish(p) PROVE FlushInvariant'
  BY <1>8, FinishDrains
<1>9. CASE UNCHANGED vars
  BY <1>9 DEF vars, input, process, worker, given, FlushInvariant, Known, Numbered, NeverAhead, InLine, Held, InTransit,
              DrainedMeansDrained
<1>. QED
  BY <1>1, <1>2, <1>3, <1>4, <1>5, <1>6, <1>7, <1>8, <1>9 DEF Next, Proceed, Return

-----------------------------------------------------------------------------
(* The theorems *)

\* The invariant the proof is by: until a CancelFrame is pushed or the worker has
\* finished, nothing is cancelling, the one StartFrame is first wherever it comes
\* and meets only processors that do nothing yet, and every uninterruptible frame
\* that was queued is carried somewhere or has arrived (worker.py, frame_processor.py).
THEOREM PipelineInvariantHolds == Spec => []PipelineInvariant
<1>1. Init => PipelineInvariant
  BY StartsWell
<1>2. PipelineInvariant /\ [Next]_vars => PipelineInvariant'
  BY StepsKeep
<1>. QED
  BY <1>1, <1>2, PTL DEF Spec

\* However many processors a pipeline has, whatever the application queues and
\* however often speech interrupts, no frame that is marked uninterruptible is
\* lost before a CancelFrame is pushed or the worker has finished
\* (FrameProcessor._start_interruption, FrameQueue.reset).
THEOREM KeepsUninterruptible == Spec => []UninterruptibleSurvives
<1>1. Spec => []PipelineInvariant
  BY PipelineInvariantHolds
<1>2. PipelineInvariant => UninterruptibleSurvives
  BY SurvivesByInvariant
<1>. QED
  BY <1>1, <1>2, PTL

\* The invariant the second proof is by: a probe is nowhere further along its three
\* trips than a frame it must drain, a frame in line behind it is a turn or two
\* further on, and what the worker has yet to push is numbered above all it has
\* pushed (Pipeline's source and sink, FrameProcessor.queue_frame).
THEOREM FlushInvariantHolds == Spec => []FlushInvariant
<1>1. Init => FlushInvariant
  BY FlushFirst
<1>2. PipelineInvariant => TypeOK
  BY DEF PipelineInvariant
<1>3. Spec => []PipelineInvariant
  BY PipelineInvariantHolds
<1>. QED
  BY <1>1, <1>2, <1>3, FlushKept, PTL DEF Spec

\* However many processors a pipeline has, and whatever is interrupted, dropped or
\* cancelled on the way, when a PipelineFlushFrame has made its trip nothing that
\* was queued ahead of it, and nothing such a frame started by pushing upstream, is
\* in the pipeline any more (frames.py, PipelineFlushFrame: "every frame queued
\* ahead of the probe has been processed").
THEOREM FlushDrains == Spec => []DrainedMeansDrained
<1>1. Spec => []FlushInvariant
  BY FlushInvariantHolds
<1>2. FlushInvariant => DrainedMeansDrained
  BY DEF FlushInvariant
<1>. QED
  BY <1>1, <1>2, PTL

=============================================================================
