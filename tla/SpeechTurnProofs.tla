-------------------------- MODULE SpeechTurnProofs --------------------------
(***************************************************************************)
(* However words, scores, acknowledgments and lifecycle events interleave: *)
(* the stop that closes a turn is never dropped, no start or interruption  *)
(* overtakes words, and only the finalization of the latest span of speech *)
(* closes a turn, behind every word received before it.  The end of the    *)
(* module is about the scores themselves (VadDebounce): how they are       *)
(* debounced, for every start and stop duration.                           *)
(***************************************************************************)
EXTENDS SpeechTurn, VadDebounce, FiniteSetTheorems, WellFoundedInduction, TLAPS

-----------------------------------------------------------------------------
(* What the queues and the service hold *)

Data == {"stopped", "final", "interim"}
Has(q, kinds) == \E i \in DOMAIN q : q[i].kind \in kinds

Frames ==
    [kind : {"started", "vad_started", "vad_stopped", "interruption"}]
        \cup [kind : {"stopped"}, closer : {"endpoint", "reset"}]
        \cup [kind : {"final", "interim"}, end : Ends, epoch : Nat, turn : Nat]
Texts == [kind : {"transcription"}, epoch : Nat, session : Nat, end : Ends,
          final : BOOLEAN, nr : Nat]
Acknowledgments == [kind : {"endpoint"}, epoch : Nat, session : Nat, turn : Nat,
                    id : Nat \ {0}, nr : Nat]
Scores == [kind : {"vad"}, epoch : Nat, session : Nat, state : VADStates, cutoff : 0 .. MaxEnd]
Signals == [kind : LifecycleKinds \cup {"end_turn"}, epoch : Nat, session : Nat]
DataEvents == Texts \cup Acknowledgments
Events == DataEvents \cup Scores \cup Signals

Endpoint == [state : {"none", "created", "waiting", "over", "cancelling"}, turn : Nat,
             epoch : Nat, session : Nat, id : Nat]
Closers == {"none", "endpoint", "reset"}
Stt == [speechActive : BOOLEAN, acousticPending : BOOLEAN, turnOpen : BOOLEAN,
        waitForQuiet : BOOLEAN, buffered : Seq(Texts), earliest : Nat,
        finalizedUntil : Nat, endpoint : Endpoint, endpointId : Nat,
        endpoints : Nat, closing : Closers, turn : Nat, turns : Nat,
        failed : BOOLEAN, out : Seq(Frames)]
Input == [pc : {"idle", "begin_wait", "begin_cancel", "reset_wait", "reset_cancel", "reset_closing"},
          kind : {"none", "vad", "end_turn"} \cup LifecycleKinds, epoch : Nat, session : Nat,
          wasOpen : BOOLEAN]

TypeOK ==
    /\ epoch \in Nat /\ session \in Nat /\ words \in Nat
    /\ inbox \in Seq(Events) /\ queued \in Seq(DataEvents)
    /\ stt \in Stt /\ stt.out = <<>> /\ input \in Input
    /\ aggInput \in Seq(Frames) /\ aggQueue \in Seq(Frames) /\ userTurn \in BOOLEAN

-----------------------------------------------------------------------------
(* The inductive invariant *)

\* A closed turn has left nothing behind in the aggregator.
Closed ==
    stt.closing = "none" /\ ~stt.turnOpen =>
        aggQueue = <<>> /\ ~Has(aggInput, Data \cup {"started"}) /\ ~userTurn

OneStart == \A i, j \in DOMAIN aggInput :
                aggInput[i].kind = "started" /\ aggInput[j].kind = "started" => i = j

\* The stop is the last word: it waits in the input queue or has been admitted.
StopAt(q, i) ==
    /\ q[i].kind = "stopped"
    /\ \A j \in DOMAIN q : j # i => q[j].kind # "stopped" /\ (i < j => q[j].kind \notin Data)
Stopping ==
    \/ ~Has(aggQueue, {"stopped"}) /\ \E i \in DOMAIN aggInput : StopAt(aggInput, i)
    \/ ~Has(aggInput, Data) /\ aggQueue # <<>> /\ StopAt(aggQueue, Len(aggQueue))
StopKept ==
    IF stt.closing = "none" THEN ~Has(aggInput, {"stopped"}) /\ ~Has(aggQueue, {"stopped"})
    ELSE Stopping

OnlyData == \A i \in DOMAIN aggQueue : aggQueue[i].kind \in Data

\* What may close the turn, and what the input task waits for meanwhile.
Cancelling == {"begin_cancel", "reset_cancel"}
SpanOK(s) ==
    /\ s.endpoint.state # "none" => s.endpoint.id # None
    /\ s.endpointId \in {None, s.endpoints}
ServiceOK(s, in) ==
    /\ s.closing # "none" => ~s.speechActive /\ in.pc \notin Cancelling
    /\ s.closing = "endpoint" => s.turnOpen
    /\ s.closing = "reset" => in.pc = "reset_closing"
    /\ in.pc = "reset_closing" =>
           ~s.turnOpen /\ ~s.speechActive /\ s.endpoint.state = "none" /\ s.closing # "endpoint"
    /\ in.pc \in Cancelling => s.endpointId = None /\ s.endpoint.state = "cancelling"
    /\ in.pc = "reset_cancel" => in.wasOpen = s.turnOpen
    /\ SpanOK(s)
InService == ServiceOK(stt, input)

\* No word received after an acknowledgment is ahead of it.
Behind(a, b) == a.kind = "endpoint" /\ b.kind = "transcription" => a.nr < b.nr
Ordered ==
    /\ \A i, j \in DOMAIN queued : i < j => Behind(queued[i], queued[j])
    /\ \A i, j \in DOMAIN inbox : i < j => Behind(inbox[i], inbox[j])
    /\ \A i \in DOMAIN queued, j \in DOMAIN inbox : Behind(queued[i], inbox[j])
    /\ \A i \in DOMAIN queued : queued[i].kind = "endpoint" => queued[i].nr <= words
    /\ \A i \in DOMAIN inbox : inbox[i].kind = "endpoint" => inbox[i].nr <= words

QueueInv == Closed /\ OneStart /\ StopKept /\ OnlyData /\ NothingOvertaken
TurnInv == TypeOK /\ QueueInv /\ InService /\ Ordered

-----------------------------------------------------------------------------
(* Queues *)

LEMMA LeastNumber == ASSUME NEW B \in SUBSET Nat, B # {} PROVE \E n \in B : \A m \in B : n <= m
<1>. DEFINE R == OpToRel(<, Nat)
<1>1. \A m, n \in Nat : m < n <=> <<m, n>> \in R
  BY DEF OpToRel
<1>2. IsWellFoundedOn(R, Nat)
  BY NatLessThanWellFounded
<1>. HIDE DEF R
<1>3. \E n \in B : \A m \in B : <<m, n>> \notin R
  BY <1>2, WFMin
<1>4. \A m, n \in Nat : ~(m < n) => n <= m
  OBVIOUS
<1>. QED
  BY <1>1, <1>3, <1>4

\* Where the elements of a longer or shorter queue come from.
LEMMA Joined ==
    ASSUME NEW S, NEW q \in Seq(S), NEW o \in Seq(S), NEW r, r = q \o o
    PROVE  /\ r \in Seq(S)
           /\ \A i \in DOMAIN q : i \in DOMAIN r /\ r[i] = q[i]
           /\ \A i \in DOMAIN o : Len(q) + i \in DOMAIN r /\ r[Len(q) + i] = o[i]
           /\ \A k \in DOMAIN r : \/ k \in DOMAIN q /\ r[k] = q[k]
                                  \/ k > Len(q) /\ k - Len(q) \in DOMAIN o /\ r[k] = o[k - Len(q)]
  OBVIOUS

LEMMA Appended ==
    ASSUME NEW S, NEW q \in Seq(S), NEW e \in S, NEW r, r = Append(q, e)
    PROVE  /\ r \in Seq(S) /\ r # <<>> /\ Len(r) = Len(q) + 1 /\ r[Len(q) + 1] = e
           /\ Len(q) + 1 \in DOMAIN r /\ Len(q) \in Nat
           /\ \A i \in DOMAIN q : i \in DOMAIN r /\ r[i] = q[i] /\ i < Len(q) + 1
           /\ \A k \in DOMAIN r : \/ k \in DOMAIN q /\ r[k] = q[k]
                                  \/ k = Len(q) + 1 /\ r[k] = e
  OBVIOUS

LEMMA Shortened ==
    ASSUME NEW S, NEW q \in Seq(S), q # <<>>, NEW r, r = Tail(q)
    PROVE  /\ r \in Seq(S) /\ Len(r) = Len(q) - 1 /\ Len(q) \in Nat /\ Head(q) = q[1]
           /\ 1 \in DOMAIN q /\ Head(q) \in S
           /\ \A k \in DOMAIN r : k \in Nat /\ k + 1 \in DOMAIN q /\ k + 1 > 1 /\ r[k] = q[k + 1]
           /\ \A k \in DOMAIN q : k > 1 => k - 1 \in DOMAIN r /\ r[k - 1] = q[k]
  OBVIOUS

\* The index in q of what stands at k once i is removed.
From(i, k) == IF k < i THEN k ELSE k + 1
LEMMA Removed ==
    ASSUME NEW S, NEW q \in Seq(S), NEW i \in DOMAIN q, NEW r, r = RemoveAt(q, i)
    PROVE  /\ r \in Seq(S)
           /\ \A k \in DOMAIN r : /\ k \in Nat /\ From(i, k) \in DOMAIN q /\ r[k] = q[From(i, k)]
                                  /\ From(i, k) # i
           /\ \A j, k \in DOMAIN r : j < k <=> From(i, j) < From(i, k)
           /\ \A k \in DOMAIN q : k # i => \E j \in DOMAIN r : From(i, j) = k
<1>0. r = SubSeq(q, 1, i - 1) \o SubSeq(q, i + 1, Len(q))
  BY DEF RemoveAt
<1>1. i \in Int /\ 1 <= i /\ i <= Len(q) /\ Len(q) \in Nat
  OBVIOUS
<1>. DEFINE a == SubSeq(q, 1, i - 1)
            b == SubSeq(q, i + 1, Len(q))
<1>2. a \in Seq(S) /\ Len(a) = i - 1 /\ \A k \in 1 .. i - 1 : a[k] = q[k]
  BY <1>1
<1>3. b \in Seq(S) /\ Len(b) = Len(q) - i /\ \A k \in 1 .. Len(q) - i : b[k] = q[i + k]
  BY <1>1
<1>4. r = a \o b
  BY <1>0
<1>. HIDE DEF a, b
<1>5. /\ r \in Seq(S) /\ Len(r) = Len(q) - 1 /\ DOMAIN r = 1 .. Len(q) - 1
      /\ \A k \in 1 .. Len(q) - 1 : r[k] = IF k < i THEN q[k] ELSE q[k + 1]
  <2>1. /\ r \in Seq(S) /\ Len(r) = Len(q) - 1
        /\ \A k \in 1 .. Len(r) : r[k] = IF k <= Len(a) THEN a[k] ELSE b[k - Len(a)]
    <3>1. Len(r) = Len(a) + Len(b)
      BY <1>2, <1>3, <1>4
    <3>2. Len(r) = Len(q) - 1
      BY <1>1, <1>2, <1>3, <3>1
    <3>. QED
      BY <1>2, <1>3, <1>4, <3>2, SMTT(60)
  <2>2. ASSUME NEW k \in 1 .. Len(q) - 1 PROVE r[k] = IF k < i THEN q[k] ELSE q[k + 1]
    <3>1. CASE k < i
      <4>1. k \in 1 .. i - 1 /\ k <= Len(a) /\ k \in 1 .. Len(r)
        BY <1>1, <1>2, <2>1, <3>1
      <4>. QED
        BY <1>2, <2>1, <3>1, <4>1
    <3>2. CASE ~(k < i)
      <4>. DEFINE m == k - (i - 1)
      <4>1. m \in 1 .. Len(q) - i /\ ~(k <= Len(a)) /\ k \in 1 .. Len(r)
            /\ i + m = k + 1 /\ m = k - Len(a)
        BY <1>1, <1>2, <2>1, <3>2
      <4>. HIDE DEF m
      <4>2. b[m] = q[k + 1]
        BY <1>3, <4>1
      <4>. QED
        BY <1>1, <1>2, <2>1, <3>2, <4>1, <4>2
    <3>. QED
      BY <3>1, <3>2
  <2>. QED
    BY <2>1, <2>2
<1>6. DOMAIN q = 1 .. Len(q)
  OBVIOUS
<1>7. \A k \in DOMAIN r : /\ k \in Nat /\ From(i, k) \in DOMAIN q /\ r[k] = q[From(i, k)]
                          /\ From(i, k) # i
  BY <1>1, <1>5, <1>6 DEF From
<1>80. \A k \in DOMAIN r : k \in Int
  BY <1>1, <1>5
<1>8. ASSUME NEW j \in DOMAIN r, NEW k \in DOMAIN r PROVE j < k <=> From(i, j) < From(i, k)
  <2>1. i \in Int /\ j \in Int /\ k \in Int
    BY <1>1, <1>80
  <2>. QED
    BY <2>1 DEF From
<1>9. ASSUME NEW k \in DOMAIN q, k # i PROVE \E j \in DOMAIN r : From(i, j) = k
  <2>1. CASE k < i
    BY <1>1, <1>5, <1>6, <2>1 DEF From
  <2>2. CASE k > i
    <3>1. k - 1 \in DOMAIN r /\ From(i, k - 1) = k
      BY <1>1, <1>5, <1>6, <2>2 DEF From
    <3>. QED
      BY <3>1
  <2>. QED
    BY <1>1, <1>6, <1>9, <2>1, <2>2
<1>. QED
  BY <1>5, <1>7, <1>8, <1>9

LEMMA NextSystemIs ==
    ASSUME aggInput \in Seq(Frames), Systems # {}
    PROVE  NextSystem \in DOMAIN aggInput /\ IsSystem(aggInput[NextSystem])
<1>1. Systems \in SUBSET Nat /\ DOMAIN aggInput = 1 .. Len(aggInput)
  BY DEF Systems
<1>2. \E i \in Systems : \A j \in Systems : i <= j
  BY <1>1, LeastNumber
<1>3. NextSystem \in Systems
  BY <1>2 DEF NextSystem
<1>. QED
  BY <1>1, <1>3 DEF Systems

LEMMA NextControlIs ==
    ASSUME inbox \in Seq(Events), Controls # {}
    PROVE  NextControl \in DOMAIN inbox /\ IsControl(inbox[NextControl])
<1>1. Controls \in SUBSET Nat /\ DOMAIN inbox = 1 .. Len(inbox)
  BY DEF Controls
<1>2. \E i \in Controls : \A j \in Controls : i <= j
  BY <1>1, LeastNumber
<1>3. NextControl \in Controls
  BY <1>2 DEF NextControl
<1>. QED
  BY <1>1, <1>3 DEF Controls

-----------------------------------------------------------------------------
(* The methods of the service *)

VadKinds == {"vad_started", "vad_stopped"}
OnlyVad(o) == \A i \in DOMAIN o : o[i].kind \in VadKinds

\* What the service may queue while no turn is closing, from the turn open0.
InTurn(o, open0, open) ==
    /\ \A i \in DOMAIN o : o[i].kind \notin {"stopped", "interruption"}
    /\ \A i, j \in DOMAIN o : o[i].kind = "started" /\ o[j].kind = "started" => i = j
    /\ Has(o, Data \cup {"started"}) => open
    /\ Has(o, {"started"}) => ~open0
    /\ open0 => open
Begins(s, open0) == s \in Stt /\ s.closing = "none" /\ InTurn(s.out, open0, s.turnOpen)

\* What a method leaves alone.
SameSpan(s, g) ==
    /\ g.closing = s.closing /\ g.endpoint = s.endpoint /\ g.endpointId = s.endpointId
    /\ g.endpoints = s.endpoints /\ g.speechActive = s.speechActive
SameTurn(s, g) == g.turnOpen = s.turnOpen /\ g.buffered = s.buffered

LEMMA FrameKinds ==
    /\ \A kind \in {"started", "vad_started", "vad_stopped", "interruption"} :
          Frame(kind) \in Frames /\ Frame(kind).kind = kind
    /\ \A closer \in {"endpoint", "reset"} :
          [kind |-> "stopped", closer |-> closer] \in Frames
  BY DEF Frame, Frames

LEMMA PushIs ==
    ASSUME NEW s \in Stt, NEW f \in Frames, NEW g, g = Push(s, f)
    PROVE  g \in Stt /\ SameSpan(s, g) /\ SameTurn(s, g) /\ g.out = Append(s.out, f)
           /\ g.turn = s.turn /\ g.turns = s.turns
<1>1. s.out \in Seq(Frames)
  BY DEF Stt
<1>. DEFINE o == Append(s.out, f)
<1>2. o \in Seq(Frames)
  BY <1>1
<1>3. g = [s EXCEPT !.out = o]
  BY DEF Push
<1>. HIDE DEF o
<1>4. g \in Stt /\ g.out = o /\ SameSpan(s, g) /\ SameTurn(s, g) /\ g.turn = s.turn /\ g.turns = s.turns
  BY <1>2, <1>3, ZenonT(60) DEF Stt, SameSpan, SameTurn
<1>. QED
  BY <1>4 DEF o

LEMMA InTurnWith ==
    ASSUME NEW o \in Seq(Frames), NEW f \in Frames, NEW p, p = Append(o, f),
           NEW open0 \in BOOLEAN, NEW open \in BOOLEAN, InTurn(o, open0, open)
    PROVE  /\ f.kind \in {"final", "interim"} /\ open => InTurn(p, open0, open)
           /\ f.kind \in VadKinds => InTurn(p, open0, open)
<1>1. \A k \in DOMAIN p : \/ k \in DOMAIN o /\ p[k] = o[k]
                          \/ k = Len(o) + 1 /\ p[k] = f
  BY Appended
<1>2. CASE f.kind \in {"final", "interim"} /\ open
  BY <1>1, <1>2 DEF InTurn, Has, VadKinds
<1>3. CASE f.kind \in VadKinds
  BY <1>1, <1>3 DEF InTurn, Has, VadKinds, Data
<1>. QED
  BY <1>2, <1>3

LEMMA InTurnStarts ==
    ASSUME NEW o \in Seq(Frames), NEW f \in Frames, NEW p, p = Append(o, f),
           NEW open0 \in BOOLEAN, InTurn(o, open0, FALSE), f.kind = "started"
    PROVE  InTurn(p, open0, TRUE)
<1>1. \A k \in DOMAIN p : \/ k \in DOMAIN o /\ p[k] = o[k]
                          \/ k = Len(o) + 1 /\ p[k] = f
  BY Appended
<1>2. ~open0 /\ ~Has(o, Data \cup {"started"})
  BY DEF InTurn
<1>3. \A i \in DOMAIN o : o[i].kind # "started" /\ o[i].kind \notin {"stopped", "interruption"}
  BY <1>2 DEF Has, InTurn
<1>4. \A k \in DOMAIN p : p[k].kind = "started" => k = Len(o) + 1
  BY <1>1, <1>3
<1>5. \A k \in DOMAIN p : p[k].kind \notin {"stopped", "interruption"}
  BY <1>1, <1>3
<1>6. \A i, j \in DOMAIN p : p[i].kind = "started" /\ p[j].kind = "started" => i = j
  BY <1>4
<1>. QED
  BY <1>2, <1>5, <1>6 DEF InTurn

LEMMA DeliverIs ==
    ASSUME NEW s \in Stt, NEW e \in Texts, NEW g, g = Deliver(s, e)
    PROVE  /\ g \in Stt /\ SameSpan(s, g) /\ SameTurn(s, g)
           /\ ~Fresh(s, e) => g = s
           /\ \A open0 \in BOOLEAN : Begins(s, open0) /\ s.turnOpen => Begins(g, open0)
<1>1. CASE ~Fresh(s, e)
  BY <1>1 DEF Deliver, SameSpan, SameTurn
<1>2. CASE Fresh(s, e)
  <2>. DEFINE f == [kind |-> IF e.final THEN "final" ELSE "interim",
                    end |-> e.end, epoch |-> e.epoch, turn |-> s.turn]
              p == Push(s, f)
              until == IF e.final THEN e.end ELSE p.finalizedUntil
  <2>1. f \in Frames /\ f.kind \in {"final", "interim"} /\ e.end \in Nat
    <3>1. e.end \in Ends /\ e.epoch \in Nat /\ s.turn \in Nat /\ e.final \in BOOLEAN
      BY DEF Texts, Stt
    <3>2. e.end \in Nat
      BY <3>1, SpeechAssumption DEF Ends
    <3>. QED
      BY <3>1, <3>2 DEF Frames
  <2>2. g = [p EXCEPT !.finalizedUntil = until]
    BY <1>2 DEF Deliver
  <2>. HIDE DEF f
  <2>3. p \in Stt /\ SameSpan(s, p) /\ SameTurn(s, p) /\ p.out = Append(s.out, f)
    BY <2>1, PushIs
  <2>. HIDE DEF p
  <2>4. until \in Nat
    BY <2>1, <2>3 DEF Stt
  <2>. HIDE DEF until
  <2>5. g \in Stt /\ g.out = p.out /\ SameSpan(p, g) /\ SameTurn(p, g)
    BY <2>2, <2>3, <2>4, ZenonT(60) DEF Stt, SameSpan, SameTurn
  <2>6. SameSpan(s, g) /\ SameTurn(s, g)
    BY <2>3, <2>5 DEF SameSpan, SameTurn
  <2>7. ASSUME NEW open0 \in BOOLEAN, Begins(s, open0), s.turnOpen PROVE Begins(g, open0)
    <3>1. s.out \in Seq(Frames) /\ InTurn(s.out, open0, TRUE)
      BY <2>7 DEF Begins, Stt
    <3>2. InTurn(Append(s.out, f), open0, TRUE)
      BY <2>1, <3>1, InTurnWith, ZenonT(60)
    <3>. QED
      BY <2>3, <2>5, <2>6, <2>7, <3>2 DEF Begins, SameTurn, SameSpan
  <2>. QED
    BY <1>2, <2>5, <2>6, <2>7
<1>. QED
  BY <1>1, <1>2

\* What DeliverAll and Since have made of the first i transcripts.
Delivers(s, texts, n, after) ==
    after = [i \in 0 .. n |-> IF i = 0 THEN s ELSE Deliver(after[i - 1], texts[i])]

LEMMA DeliversExists == ASSUME NEW s, NEW texts, NEW n \in Nat PROVE \E after : Delivers(s, texts, n, after)
<1>. DEFINE Bad == {m \in Nat : ~\E after : Delivers(s, texts, m, after)}
<1>. SUFFICES ASSUME Bad # {} PROVE FALSE
  OBVIOUS
<1>1. PICK m \in Bad : \A k \in Bad : m <= k
  BY LeastNumber
<1>2. m # 0
  <2>1. Delivers(s, texts, 0, [i \in 0 .. 0 |-> s])
    BY DEF Delivers
  <2>. QED
    BY <2>1
<1>3. m \in Nat /\ m - 1 \in Nat /\ m - 1 \notin Bad
  BY <1>1, <1>2
<1>4. PICK before : Delivers(s, texts, m - 1, before)
  BY <1>3
<1>. DEFINE all == [i \in 0 .. m |-> IF i # m THEN before[i] ELSE Deliver(before[m - 1], texts[m])]
<1>5. \A i \in 0 .. m - 1 :
          before[i] = IF i = 0 THEN s ELSE Deliver(before[i - 1], texts[i])
  BY <1>3, <1>4 DEF Delivers
<1>6. \A i \in 0 .. m :
          all[i] = IF i = 0 THEN s ELSE Deliver(all[i - 1], texts[i])
  BY <1>2, <1>3, <1>5
<1>7. Delivers(s, texts, m, all)
  BY <1>6 DEF Delivers
<1>. QED
  BY <1>1, <1>7

LEMMA DeliverAllIs ==
    ASSUME NEW s \in Stt, NEW texts \in Seq(Texts), NEW g, g = DeliverAll(s, texts),
           NEW open0 \in BOOLEAN, Begins(s, open0), s.turnOpen
    PROVE  g \in Stt /\ SameSpan(s, g) /\ SameTurn(s, g) /\ Begins(g, open0)
<1>. DEFINE made == CHOOSE after : Delivers(s, texts, Len(texts), after)
            Good(n) == made[n] \in Stt /\ SameSpan(s, made[n]) /\ SameTurn(s, made[n])
                       /\ Begins(made[n], open0)
<1>5. Len(texts) \in Nat
  OBVIOUS
<1>1. Delivers(s, texts, Len(texts), made)
  BY <1>5, DeliversExists
<1>2. g = made[Len(texts)]
  BY DEF DeliverAll, Delivers
<1>. HIDE DEF made
<1>3. Good(0)
  <2>1. made[0] = s
    BY <1>1 DEF Delivers
  <2>. QED
    BY <2>1 DEF SameSpan, SameTurn
<1>4. ASSUME NEW n \in 1 .. Len(texts), Good(n - 1) PROVE Good(n)
  <2>1. texts[n] \in Texts /\ n - 1 \in Nat /\ n \in Nat /\ n # 0 /\ n \in 0 .. Len(texts)
    OBVIOUS
  <2>2. made[n] = Deliver(made[n - 1], texts[n])
    BY <1>1, <2>1 DEF Delivers
  <2>3. made[n - 1].turnOpen
    BY <1>4 DEF SameTurn
  <2>4. /\ made[n] \in Stt /\ SameSpan(made[n - 1], made[n]) /\ SameTurn(made[n - 1], made[n])
        /\ Begins(made[n], open0)
    BY <1>4, <2>1, <2>2, <2>3, DeliverIs
  <2>. QED
    BY <1>4, <2>4 DEF SameSpan, SameTurn
<1>. HIDE DEF Good
<1>. DEFINE Bad == {n \in 0 .. Len(texts) : ~Good(n)}
<1>6. Bad = {}
  <2>. SUFFICES ASSUME Bad # {} PROVE FALSE
    OBVIOUS
  <2>0. Bad \in SUBSET Nat
    BY <1>5
  <2>1. PICK n \in Bad : \A k \in Bad : n <= k
    BY <2>0, LeastNumber
  <2>2. n \in Nat /\ n # 0 /\ n \in 1 .. Len(texts) /\ n - 1 \in 0 .. Len(texts)
    BY <1>3, <1>5, <2>1
  <2>3. n - 1 \notin Bad
    BY <2>1, <2>2
  <2>4. Good(n - 1)
    BY <2>2, <2>3
  <2>. QED
    BY <1>4, <2>1, <2>2, <2>4
<1>7. Good(Len(texts))
  BY <1>5, <1>6
<1>. QED
  BY <1>2, <1>7 DEF Good

Keeps(texts, earliest, n, kept) ==
    kept = [i \in 0 .. n |->
               IF i = 0 THEN <<>>
               ELSE IF texts[i].end >= earliest THEN Append(kept[i - 1], texts[i]) ELSE kept[i - 1]]

LEMMA KeepsExists ==
    ASSUME NEW texts, NEW earliest, NEW n \in Nat PROVE \E kept : Keeps(texts, earliest, n, kept)
<1>. DEFINE Bad == {m \in Nat : ~\E kept : Keeps(texts, earliest, m, kept)}
<1>. SUFFICES ASSUME Bad # {} PROVE FALSE
  OBVIOUS
<1>1. PICK m \in Bad : \A k \in Bad : m <= k
  BY LeastNumber
<1>2. m # 0
  <2>1. Keeps(texts, earliest, 0, [i \in 0 .. 0 |-> <<>>])
    BY DEF Keeps
  <2>. QED
    BY <2>1
<1>3. m \in Nat /\ m - 1 \in Nat /\ m - 1 \notin Bad
  BY <1>1, <1>2
<1>4. PICK before : Keeps(texts, earliest, m - 1, before)
  BY <1>3
<1>. DEFINE all == [i \in 0 .. m |-> IF i # m THEN before[i]
                       ELSE IF texts[m].end >= earliest THEN Append(before[m - 1], texts[m])
                       ELSE before[m - 1]]
<1>5. \A i \in 0 .. m - 1 :
          before[i] = IF i = 0 THEN <<>>
              ELSE IF texts[i].end >= earliest THEN Append(before[i - 1], texts[i]) ELSE before[i - 1]
  BY <1>3, <1>4 DEF Keeps
<1>6. \A i \in 0 .. m :
          all[i] = IF i = 0 THEN <<>>
              ELSE IF texts[i].end >= earliest THEN Append(all[i - 1], texts[i]) ELSE all[i - 1]
  BY <1>2, <1>3, <1>5
<1>7. Keeps(texts, earliest, m, all)
  BY <1>6 DEF Keeps
<1>. QED
  BY <1>1, <1>7

LEMMA SinceIs ==
    ASSUME NEW texts \in Seq(Texts), NEW earliest PROVE Since(texts, earliest) \in Seq(Texts)
<1>. DEFINE made == CHOOSE kept : Keeps(texts, earliest, Len(texts), kept)
            Good(n) == made[n] \in Seq(Texts)
<1>5. Len(texts) \in Nat
  OBVIOUS
<1>1. Keeps(texts, earliest, Len(texts), made)
  BY <1>5, KeepsExists
<1>2. Since(texts, earliest) = made[Len(texts)]
  BY DEF Since, Keeps
<1>. HIDE DEF made
<1>3. Good(0)
  BY <1>1 DEF Keeps
<1>4. ASSUME NEW n \in 1 .. Len(texts), Good(n - 1) PROVE Good(n)
  <2>1. texts[n] \in Texts /\ n - 1 \in Nat /\ n \in Nat /\ n # 0 /\ n \in 0 .. Len(texts)
    OBVIOUS
  <2>2. made[n] = Append(made[n - 1], texts[n]) \/ made[n] = made[n - 1]
    BY <1>1, <2>1 DEF Keeps
  <2>3. made[n - 1] \in Seq(Texts)
    BY <1>4
  <2>4. Append(made[n - 1], texts[n]) \in Seq(Texts)
    BY <2>1, <2>3
  <2>. QED
    BY <2>2, <2>3, <2>4
<1>. HIDE DEF Good
<1>. DEFINE Bad == {n \in 0 .. Len(texts) : ~Good(n)}
<1>6. Bad = {}
  <2>. SUFFICES ASSUME Bad # {} PROVE FALSE
    OBVIOUS
  <2>0. Bad \in SUBSET Nat
    BY <1>5
  <2>1. PICK n \in Bad : \A k \in Bad : n <= k
    BY <2>0, LeastNumber
  <2>2. n \in Nat /\ n # 0 /\ n \in 1 .. Len(texts) /\ n - 1 \in 0 .. Len(texts)
    BY <1>3, <1>5, <2>1
  <2>3. n - 1 \notin Bad
    BY <2>1, <2>2
  <2>4. Good(n - 1)
    BY <2>2, <2>3
  <2>. QED
    BY <1>4, <2>1, <2>2, <2>4
<1>7. Good(Len(texts))
  BY <1>5, <1>6
<1>. QED
  BY <1>2, <1>7 DEF Good

LEMMA ConfirmTurnIs ==
    ASSUME NEW s \in Stt, NEW open0 \in BOOLEAN, Begins(s, open0), NEW g, g = ConfirmTurn(s)
    PROVE  g \in Stt /\ SameSpan(s, g) /\ Begins(g, open0) /\ (s.turnOpen => g.turnOpen)
<1>1. CASE s.buffered = <<>>
  BY <1>1 DEF ConfirmTurn, SameSpan
<1>2. CASE s.buffered # <<>>
  <2>. DEFINE p == Push(s, Frame("started"))
              n == s.turns + 1
              begun == IF s.turnOpen THEN s
                       ELSE [p EXCEPT !.turns = @ + 1, !.turn = n, !.turnOpen = TRUE]
              b == [begun EXCEPT !.buffered = <<>>]
  <2>1. g = DeliverAll(b, s.buffered)
    BY <1>2 DEF ConfirmTurn
  <2>2. s.buffered \in Seq(Texts) /\ s.out \in Seq(Frames) /\ n \in Nat /\ s.turnOpen \in BOOLEAN
        /\ s.turns \in Nat
    BY DEF Stt
  <2>3. Frame("started") \in Frames /\ Frame("started").kind = "started"
    BY FrameKinds
  <2>4. p \in Stt /\ SameSpan(s, p) /\ SameTurn(s, p) /\ p.out = Append(s.out, Frame("started"))
        /\ p.turns = s.turns
    BY <2>3, PushIs
  <2>. HIDE DEF p
  <2>5. begun \in Stt /\ SameSpan(s, begun) /\ Begins(begun, open0) /\ begun.turnOpen
    <3>1. CASE s.turnOpen
      BY <3>1 DEF SameSpan
    <3>2. CASE ~s.turnOpen
      <4>1. begun = [p EXCEPT !.turns = n, !.turn = n, !.turnOpen = TRUE]
        BY <2>4, <3>2
      <4>. HIDE DEF begun, n
      <4>2. begun \in Stt /\ SameSpan(p, begun) /\ begun.turnOpen = TRUE /\ begun.out = p.out
        BY <2>2, <2>4, <4>1, ZenonT(60) DEF Stt, SameSpan
      <4>3. InTurn(begun.out, open0, TRUE)
        <5>1. InTurn(s.out, open0, s.turnOpen)
          BY DEF Begins
        <5>. DEFINE f == Frame("started")
        <5>2. f \in Frames /\ f.kind = "started" /\ begun.out = Append(s.out, f)
          BY <2>3, <2>4, <4>2
        <5>. HIDE DEF f
        <5>3. s.turnOpen = FALSE
          BY <2>2, <3>2
        <5>4. InTurn(s.out, open0, FALSE)
          BY <5>1, <5>3
        <5>. QED
          BY <2>2, <5>2, <5>4, InTurnStarts
      <4>. QED
        BY <2>4, <4>2, <4>3 DEF SameSpan, Begins
    <3>. QED
      BY <3>1, <3>2
  <2>. HIDE DEF begun
  <2>6. b \in Stt /\ SameSpan(begun, b) /\ b.turnOpen = begun.turnOpen /\ b.out = begun.out
    <3>1. <<>> \in Seq(Texts)
      OBVIOUS
    <3>. QED
      BY <2>5, <3>1, ZenonT(60) DEF Stt, SameSpan
  <2>. HIDE DEF b
  <2>7. Begins(b, open0) /\ b.turnOpen
    BY <2>5, <2>6 DEF Begins, SameSpan
  <2>8. g \in Stt /\ SameSpan(b, g) /\ SameTurn(b, g) /\ Begins(g, open0)
    BY <2>1, <2>2, <2>6, <2>7, DeliverAllIs
  <2>. QED
    BY <2>5, <2>6, <2>7, <2>8 DEF SameSpan, SameTurn
<1>. QED
  BY <1>1, <1>2

\* While the turn that a reset closes is closing, a transcript is only buffered.
LEMMA TranscriptionIs ==
    ASSUME NEW s \in Stt, NEW e \in Texts, NEW g, g = Transcription(s, e), NEW open0 \in BOOLEAN,
           s.closing = "none" => Begins(s, open0),
           s.closing # "none" => ~s.turnOpen /\ ~s.speechActive
    PROVE  /\ g \in Stt /\ SameSpan(s, g)
           /\ s.turnOpen \/ ~s.speechActive \/ s.endpoint.state # "none" => g.turnOpen = s.turnOpen
           /\ s.closing = "none" => Begins(g, open0)
           /\ s.closing # "none" => g.out = s.out
<1>1. CASE s.turnOpen \/ ~Fresh(s, e)
  <2>1. g = Deliver(s, e)
    BY <1>1 DEF Transcription
  <2>2. /\ g \in Stt /\ SameSpan(s, g) /\ SameTurn(s, g)
        /\ ~Fresh(s, e) => g = s
        /\ Begins(s, open0) /\ s.turnOpen => Begins(g, open0)
    BY <2>1, DeliverIs
  <2>. QED
    BY <1>1, <2>2 DEF SameTurn
<1>2. CASE ~(s.turnOpen \/ ~Fresh(s, e))
  <2>. DEFINE kept == [s EXCEPT !.buffered = Append(@, e)]
              more == Append(s.buffered, e)
  <2>1. more \in Seq(Texts)
    BY DEF Stt
  <2>2. kept = [s EXCEPT !.buffered = more]
    OBVIOUS
  <2>3. g = IF Len(kept.buffered) > BufferLimit THEN [kept EXCEPT !.failed = TRUE]
            ELSE IF s.speechActive /\ s.endpoint.state = "none" THEN ConfirmTurn(kept)
            ELSE kept
    BY <1>2 DEF Transcription
  <2>. HIDE DEF kept, more
  <2>4. kept \in Stt /\ SameSpan(s, kept) /\ kept.turnOpen = s.turnOpen /\ kept.out = s.out
    BY <2>1, <2>2, ZenonT(60) DEF Stt, SameSpan
  <2>5. s.closing = "none" => Begins(kept, open0)
    BY <2>4 DEF Begins, SameSpan
  <2>6. CASE Len(kept.buffered) > BufferLimit
    <3>1. g = [kept EXCEPT !.failed = TRUE]
      BY <2>3, <2>6
    <3>2. g \in Stt /\ SameSpan(kept, g) /\ g.turnOpen = kept.turnOpen /\ g.out = kept.out
      BY <2>4, <3>1, ZenonT(60) DEF Stt, SameSpan
    <3>. QED
      BY <2>4, <2>5, <3>2 DEF Begins, SameSpan
  <2>7. CASE ~(Len(kept.buffered) > BufferLimit) /\ s.speechActive /\ s.endpoint.state = "none"
    <3>1. g = ConfirmTurn(kept)
      BY <2>3, <2>7
    <3>2. s.closing = "none" /\ Begins(kept, open0)
      BY <2>5, <2>7
    <3>3. g \in Stt /\ SameSpan(kept, g) /\ Begins(g, open0)
      BY <2>4, <3>1, <3>2, ConfirmTurnIs
    <3>. QED
      BY <1>2, <2>4, <2>7, <3>2, <3>3 DEF SameSpan
  <2>8. CASE ~(Len(kept.buffered) > BufferLimit) /\ ~(s.speechActive /\ s.endpoint.state = "none")
    BY <2>3, <2>4, <2>5, <2>8
  <2>. QED
    BY <2>6, <2>7, <2>8
<1>. QED
  BY <1>1, <1>2

LEMMA ExpireIs ==
    ASSUME NEW s \in Stt, NEW cutoff \in Nat, NEW g, g = ExpireEarlyTranscripts(s, cutoff)
    PROVE  g \in Stt /\ SameSpan(s, g) /\ g.turnOpen = s.turnOpen /\ g.out = s.out
<1>1. CASE s.turnOpen \/ s.acousticPending
  BY <1>1 DEF ExpireEarlyTranscripts, SameSpan
<1>2. CASE ~(s.turnOpen \/ s.acousticPending)
  <2>. DEFINE earliest == IF cutoff > s.earliest THEN cutoff ELSE s.earliest
              late == Since(s.buffered, earliest)
  <2>1. g = [s EXCEPT !.earliest = earliest, !.buffered = late]
    BY <1>2 DEF ExpireEarlyTranscripts
  <2>2. earliest \in Nat /\ s.buffered \in Seq(Texts)
    BY DEF Stt
  <2>. HIDE DEF earliest
  <2>3. late \in Seq(Texts)
    BY <2>2, SinceIs
  <2>. HIDE DEF late
  <2>. QED
    BY <2>1, <2>2, <2>3, ZenonT(60) DEF Stt, SameSpan
<1>. QED
  BY <1>1, <1>2

\* At most one of the frames that tell whether the user speaks.
VadMore(s, g) == g.out = s.out \/ \E f \in Frames : f.kind \in VadKinds /\ g.out = Append(s.out, f)

LEMMA VadMoreIs ==
    ASSUME NEW s \in Stt, NEW g \in Stt, VadMore(s, g)
    PROVE  /\ OnlyVad(s.out) => OnlyVad(g.out)
           /\ \A open0 \in BOOLEAN :
                 Begins(s, open0) /\ g.closing = s.closing /\ g.turnOpen = s.turnOpen => Begins(g, open0)
<1>1. CASE g.out = s.out
  BY <1>1 DEF Begins
<1>2. ASSUME NEW f \in Frames, f.kind \in VadKinds, g.out = Append(s.out, f)
      PROVE  /\ OnlyVad(s.out) => OnlyVad(g.out)
             /\ \A open0 \in BOOLEAN :
                   Begins(s, open0) /\ g.closing = s.closing /\ g.turnOpen = s.turnOpen => Begins(g, open0)
  <2>1. s.out \in Seq(Frames) /\ s.turnOpen \in BOOLEAN
    BY DEF Stt
  <2>2. OnlyVad(s.out) => OnlyVad(g.out)
    BY <1>2, <2>1, Appended DEF OnlyVad
  <2>3. ASSUME NEW open0 \in BOOLEAN, Begins(s, open0), g.closing = s.closing, g.turnOpen = s.turnOpen
        PROVE  Begins(g, open0)
    BY <1>2, <2>1, <2>3, InTurnWith, ZenonT(60) DEF Begins
  <2>. QED
    BY <2>2, <2>3
<1>. QED
  BY <1>1, <1>2 DEF VadMore

LEMMA EndSpeechIs ==
    ASSUME NEW s \in Stt, epoch \in Nat, session \in Nat, NEW g, g = EndSpeech(s)
    PROVE  /\ g \in Stt /\ g.closing = s.closing /\ g.turnOpen = s.turnOpen /\ VadMore(s, g)
           /\ g.speechActive = FALSE /\ (SpanOK(s) => SpanOK(g))
<1>. DEFINE p == Push(s, Frame("vad_stopped"))
            quiet == IF s.speechActive THEN [p EXCEPT !.speechActive = FALSE] ELSE s
            id == s.endpoints + 1
            e == [state |-> "created", turn |-> s.turn, epoch |-> epoch, session |-> session, id |-> id]
<1>1. g = IF (s.turnOpen \/ s.acousticPending) /\ s.endpoint.state = "none"
          THEN [quiet EXCEPT !.endpoints = id, !.endpointId = id, !.endpoint = e] ELSE quiet
  BY DEF EndSpeech
<1>2. Frame("vad_stopped") \in Frames /\ Frame("vad_stopped").kind \in VadKinds
  BY FrameKinds DEF VadKinds
<1>3. p \in Stt /\ SameSpan(s, p) /\ SameTurn(s, p) /\ p.out = Append(s.out, Frame("vad_stopped"))
  BY <1>2, PushIs
<1>. HIDE DEF p
<1>4. /\ quiet \in Stt /\ quiet.closing = s.closing /\ quiet.turnOpen = s.turnOpen /\ VadMore(s, quiet)
      /\ quiet.speechActive = FALSE /\ quiet.endpoint = s.endpoint /\ quiet.endpointId = s.endpointId
      /\ quiet.endpoints = s.endpoints
  <2>1. CASE s.speechActive
    <3>1. quiet = [p EXCEPT !.speechActive = FALSE]
      BY <2>1
    <3>. HIDE DEF quiet
    <3>2. /\ quiet \in Stt /\ quiet.closing = p.closing /\ quiet.turnOpen = p.turnOpen
          /\ quiet.speechActive = FALSE /\ quiet.endpoint = p.endpoint /\ quiet.endpointId = p.endpointId
          /\ quiet.endpoints = p.endpoints /\ quiet.out = p.out
      BY <1>3, <3>1, ZenonT(60) DEF Stt
    <3>. QED
      BY <1>2, <1>3, <3>2 DEF SameSpan, SameTurn, VadMore
  <2>2. CASE ~s.speechActive
    BY <2>2 DEF Stt, VadMore
  <2>. QED
    BY <2>1, <2>2
<1>. HIDE DEF quiet
<1>5. CASE (s.turnOpen \/ s.acousticPending) /\ s.endpoint.state = "none"
  <2>1. id \in Nat /\ id # None /\ s.turn \in Nat
    BY DEF Stt, None
  <2>. HIDE DEF id
  <2>2. e \in Endpoint /\ e.id = id
    BY <2>1 DEF Endpoint
  <2>. HIDE DEF e
  <2>3. g = [quiet EXCEPT !.endpoints = id, !.endpointId = id, !.endpoint = e]
    BY <1>1, <1>5
  <2>4. /\ g \in Stt /\ g.closing = quiet.closing /\ g.turnOpen = quiet.turnOpen /\ g.out = quiet.out
        /\ g.speechActive = quiet.speechActive /\ g.endpoints = id /\ g.endpointId = id /\ g.endpoint = e
    BY <1>4, <2>1, <2>2, <2>3, ZenonT(60) DEF Stt
  <2>. QED
    BY <1>4, <2>1, <2>2, <2>4 DEF VadMore, SpanOK
<1>6. CASE ~((s.turnOpen \/ s.acousticPending) /\ s.endpoint.state = "none")
  BY <1>1, <1>4, <1>6 DEF SpanOK
<1>. QED
  BY <1>5, <1>6

LEMMA NoEndpointIs == NoEndpoint \in Endpoint /\ NoEndpoint.state = "none"
  BY DEF NoEndpoint, Endpoint, None

LEMMA SpeechBegunIs ==
    ASSUME NEW s \in Stt, epoch \in Nat, session \in Nat, NEW kind, NEW g, g = SpeechBegun(s, kind),
           NEW open0 \in BOOLEAN, Begins(s, open0), SpanOK(s)
    PROVE  g \in Stt /\ Begins(g, open0) /\ SpanOK(g)
<1>. DEFINE p == Push(s, Frame("vad_started"))
            on == IF s.speechActive THEN s
                  ELSE [p EXCEPT !.speechActive = TRUE, !.acousticPending = TRUE]
            ready == [on EXCEPT !.endpoint = NoEndpoint]
            confirmed == ConfirmTurn(ready)
            waits == [confirmed EXCEPT !.waitForQuiet = TRUE]
<1>1. g = IF kind = "end_turn" THEN EndSpeech(waits) ELSE confirmed
  BY DEF SpeechBegun
<1>2. Frame("vad_started") \in Frames /\ Frame("vad_started").kind \in VadKinds
  BY FrameKinds DEF VadKinds
<1>3. p \in Stt /\ SameSpan(s, p) /\ SameTurn(s, p) /\ p.out = Append(s.out, Frame("vad_started"))
  BY <1>2, PushIs
<1>. HIDE DEF p
<1>4. /\ on \in Stt /\ on.closing = s.closing /\ on.turnOpen = s.turnOpen /\ VadMore(s, on)
      /\ on.endpointId = s.endpointId /\ on.endpoints = s.endpoints
  <2>1. CASE s.speechActive
    BY <2>1 DEF VadMore
  <2>2. CASE ~s.speechActive
    <3>1. on = [p EXCEPT !.speechActive = TRUE, !.acousticPending = TRUE]
      BY <2>2
    <3>. HIDE DEF on
    <3>2. /\ on \in Stt /\ on.closing = p.closing /\ on.turnOpen = p.turnOpen /\ on.out = p.out
          /\ on.endpointId = p.endpointId /\ on.endpoints = p.endpoints
      BY <1>3, <3>1, ZenonT(60) DEF Stt
    <3>. QED
      BY <1>2, <1>3, <3>2 DEF SameSpan, SameTurn, VadMore
  <2>. QED
    BY <2>1, <2>2
<1>. HIDE DEF on
<1>5. Begins(on, open0)
  BY <1>4, VadMoreIs
<1>6. /\ ready \in Stt /\ ready.closing = on.closing /\ ready.turnOpen = on.turnOpen
      /\ ready.out = on.out /\ ready.endpointId = on.endpointId /\ ready.endpoints = on.endpoints
      /\ ready.endpoint = NoEndpoint
  BY <1>4, NoEndpointIs, ZenonT(60) DEF Stt
<1>. HIDE DEF ready
<1>7. Begins(ready, open0) /\ SpanOK(ready)
  BY <1>4, <1>5, <1>6, NoEndpointIs DEF Begins, SpanOK
<1>8. confirmed \in Stt /\ SameSpan(ready, confirmed) /\ Begins(confirmed, open0)
  BY <1>6, <1>7, ConfirmTurnIs
<1>. HIDE DEF confirmed
<1>9. SpanOK(confirmed)
  BY <1>7, <1>8 DEF SpanOK, SameSpan
<1>10. CASE kind # "end_turn"
  BY <1>1, <1>8, <1>9, <1>10
<1>11. CASE kind = "end_turn"
  <2>1. /\ waits \in Stt /\ SameSpan(confirmed, waits) /\ waits.turnOpen = confirmed.turnOpen
        /\ waits.out = confirmed.out
    BY <1>8, ZenonT(60) DEF Stt, SameSpan
  <2>. HIDE DEF waits
  <2>2. Begins(waits, open0) /\ SpanOK(waits)
    BY <1>8, <1>9, <2>1 DEF Begins, SpanOK, SameSpan
  <2>3. g = EndSpeech(waits)
    BY <1>1, <1>11
  <2>4. /\ g \in Stt /\ g.closing = waits.closing /\ g.turnOpen = waits.turnOpen /\ VadMore(waits, g)
        /\ SpanOK(g)
    BY <2>1, <2>2, <2>3, EndSpeechIs
  <2>. QED
    BY <2>1, <2>2, <2>4, VadMoreIs
<1>. QED
  BY <1>10, <1>11

LEMMA CloseTurnIs ==
    ASSUME NEW s \in Stt, NEW closer \in {"endpoint", "reset"}, NEW g, g = CloseTurn(s, closer)
    PROVE  /\ g \in Stt /\ g.closing = closer /\ g.turnOpen = s.turnOpen
           /\ g.endpoint = s.endpoint /\ g.endpointId = s.endpointId /\ g.endpoints = s.endpoints
           /\ g.speechActive = s.speechActive
           /\ \E f \in Frames : f.kind = "stopped" /\ g.out = Append(s.out, f)
<1>. DEFINE f == [kind |-> "stopped", closer |-> closer]
            p == Push(s, f)
<1>1. f \in Frames /\ f.kind = "stopped"
  BY FrameKinds
<1>2. g = [p EXCEPT !.closing = closer]
  BY DEF CloseTurn
<1>. HIDE DEF f
<1>3. p \in Stt /\ SameSpan(s, p) /\ SameTurn(s, p) /\ p.out = Append(s.out, f)
  BY <1>1, PushIs
<1>. HIDE DEF p
<1>4. closer \in Closers
  BY DEF Closers
<1>5. /\ g \in Stt /\ g.closing = closer /\ g.turnOpen = p.turnOpen /\ g.out = p.out
      /\ g.endpoint = p.endpoint /\ g.endpointId = p.endpointId /\ g.endpoints = p.endpoints
      /\ g.speechActive = p.speechActive
  BY <1>2, <1>3, <1>4, ZenonT(60) DEF Stt
<1>. QED
  BY <1>1, <1>3, <1>5 DEF SameSpan, SameTurn

LEMMA InputResetIs ==
    ASSUME NEW s \in Stt, NEW g, g = InputReset(s)
    PROVE  /\ g \in Stt /\ g.closing = s.closing /\ ~g.turnOpen /\ ~g.speechActive
           /\ g.endpoint = NoEndpoint /\ g.endpointId = None /\ VadMore(s, g)
<1>. DEFINE quiet == IF s.speechActive THEN Push(s, Frame("vad_stopped")) ELSE s
<1>1. g = [quiet EXCEPT !.speechActive = FALSE, !.acousticPending = FALSE, !.turnOpen = FALSE,
              !.buffered = <<>>, !.earliest = 0, !.finalizedUntil = 0,
              !.waitForQuiet = FALSE, !.endpoint = NoEndpoint, !.endpointId = None]
  BY DEF InputReset
<1>2. Frame("vad_stopped") \in Frames /\ Frame("vad_stopped").kind \in VadKinds
  BY FrameKinds DEF VadKinds
<1>3. quiet \in Stt /\ quiet.closing = s.closing /\ VadMore(s, quiet)
  <2>1. CASE s.speechActive
    <3>1. quiet = Push(s, Frame("vad_stopped"))
      BY <2>1
    <3>. HIDE DEF quiet
    <3>2. quiet \in Stt /\ SameSpan(s, quiet) /\ quiet.out = Append(s.out, Frame("vad_stopped"))
      BY <1>2, <3>1, PushIs
    <3>. QED
      BY <1>2, <3>2 DEF SameSpan, VadMore
  <2>2. CASE ~s.speechActive
    BY <2>2 DEF VadMore
  <2>. QED
    BY <2>1, <2>2
<1>. HIDE DEF quiet
<1>4. <<>> \in Seq(Texts) /\ 0 \in Nat /\ None \in Nat
  BY DEF None
<1>5. /\ g \in Stt /\ g.closing = quiet.closing /\ ~g.turnOpen /\ ~g.speechActive
      /\ g.endpoint = NoEndpoint /\ g.endpointId = None /\ g.out = quiet.out
  <2>. DEFINE h == [quiet EXCEPT !.speechActive = FALSE, !.acousticPending = FALSE,
                                !.turnOpen = FALSE, !.buffered = <<>>, !.earliest = 0]
  <2>1. h \in Stt /\ h.closing = quiet.closing /\ ~h.turnOpen /\ ~h.speechActive /\ h.out = quiet.out
    BY <1>3, <1>4, ZenonT(60) DEF Stt
  <2>2. g = [h EXCEPT !.finalizedUntil = 0, !.waitForQuiet = FALSE, !.endpoint = NoEndpoint,
                      !.endpointId = None]
    BY <1>1
  <2>. HIDE DEF h
  <2>. QED
    BY <1>4, <2>1, <2>2, NoEndpointIs, ZenonT(120) DEF Stt
<1>. QED
  BY <1>3, <1>5 DEF VadMore

LEMMA ControlDoneIs ==
    ASSUME NEW s \in Stt, NEW kind, NEW g, g = ControlDone(s, kind)
    PROVE  /\ g \in Stt /\ SameSpan(s, g) /\ g.turnOpen = s.turnOpen
           /\ \/ g.out = s.out
              \/ \E f \in Frames : f.kind = "interruption" /\ g.out = Append(s.out, f)
<1>. DEFINE p == Push(s, Frame("interruption"))
<1>1. CASE kind \in InterruptingKinds
  <2>1. g = [p EXCEPT !.turn = None]
    BY <1>1 DEF ControlDone
  <2>2. Frame("interruption") \in Frames /\ Frame("interruption").kind = "interruption"
    BY FrameKinds
  <2>3. p \in Stt /\ SameSpan(s, p) /\ SameTurn(s, p) /\ p.out = Append(s.out, Frame("interruption"))
    BY <2>2, PushIs
  <2>. HIDE DEF p
  <2>4. None \in Nat
    BY DEF None
  <2>5. g \in Stt /\ SameSpan(p, g) /\ g.turnOpen = p.turnOpen /\ g.out = p.out
    BY <2>1, <2>3, <2>4, ZenonT(60) DEF Stt, SameSpan
  <2>. QED
    BY <2>2, <2>3, <2>5 DEF SameSpan, SameTurn
<1>2. CASE kind \notin InterruptingKinds
  BY <1>2 DEF ControlDone, SameSpan
<1>. QED
  BY <1>1, <1>2

\* What an acknowledgment leaves: the words confirmed, and the turn closing if there is one.
LEMMA EndpointAcknowledgedIs ==
    ASSUME stt \in Stt, stt.out = <<>>, stt.closing = "none", ~stt.speechActive,
           NEW g, g = EndpointAcknowledged
    PROVE  /\ g \in Stt /\ SpanOK(g)
           /\ \/ Begins(g, stt.turnOpen)
              \/ /\ g.closing = "endpoint" /\ g.turnOpen /\ ~g.speechActive
                 /\ \E o \in Seq(Frames), f \in Frames :
                       f.kind = "stopped" /\ InTurn(o, stt.turnOpen, TRUE) /\ g.out = Append(o, f)
<1>. DEFINE q == [stt EXCEPT !.endpoint = NoEndpoint, !.endpointId = None, !.acousticPending = FALSE]
            s == ConfirmTurn(q)
<1>1. g = IF s.turnOpen THEN CloseTurn(s, "endpoint") ELSE s
  BY DEF EndpointAcknowledged
<1>2. None \in Nat /\ stt.turnOpen \in BOOLEAN
  BY DEF None, Stt
<1>3. /\ q \in Stt /\ q.endpoint = NoEndpoint /\ q.endpointId = None /\ q.out = stt.out
      /\ q.turnOpen = stt.turnOpen /\ q.closing = stt.closing /\ q.speechActive = stt.speechActive
  BY <1>2, NoEndpointIs, ZenonT(60) DEF Stt
<1>. HIDE DEF q
<1>4. Begins(q, stt.turnOpen)
  BY <1>3 DEF Begins, InTurn, Has
<1>5. s \in Stt /\ SameSpan(q, s) /\ Begins(s, stt.turnOpen)
  BY <1>2, <1>3, <1>4, ConfirmTurnIs
<1>. HIDE DEF s
<1>6. SpanOK(s) /\ ~s.speechActive
  BY <1>3, <1>5, NoEndpointIs DEF SpanOK, SameSpan
<1>7. CASE s.turnOpen
  <2>1. /\ g \in Stt /\ g.closing = "endpoint" /\ g.turnOpen = s.turnOpen
        /\ g.endpoint = s.endpoint /\ g.endpointId = s.endpointId /\ g.endpoints = s.endpoints
        /\ g.speechActive = s.speechActive
        /\ \E f \in Frames : f.kind = "stopped" /\ g.out = Append(s.out, f)
    <3>1. g = CloseTurn(s, "endpoint")
      BY <1>1, <1>7
    <3>. QED
      BY <1>5, <3>1, CloseTurnIs
  <2>2. s.out \in Seq(Frames) /\ InTurn(s.out, stt.turnOpen, TRUE)
    BY <1>5, <1>7 DEF Begins, Stt
  <2>. QED
    BY <1>6, <1>7, <2>1, <2>2 DEF SpanOK
<1>8. CASE ~s.turnOpen
  BY <1>1, <1>5, <1>6, <1>8
<1>. QED
  BY <1>7, <1>8

-----------------------------------------------------------------------------
(* What a step of the service does to the queues of the aggregator *)

\* The aggregator's queues get the frames of a step, and nothing else happens there.
Queues(o) == aggInput' = aggInput \o o /\ aggQueue' = aggQueue /\ userTurn' = userTurn

LEMMA InputIndex ==
    ASSUME TypeOK, NEW o \in Seq(Frames), Queues(o)
    PROVE  /\ aggInput' \in Seq(Frames)
           /\ \A i \in DOMAIN aggInput : i \in DOMAIN aggInput' /\ aggInput'[i] = aggInput[i]
           /\ \A i \in DOMAIN o : Len(aggInput) + i \in DOMAIN aggInput' /\ aggInput'[Len(aggInput) + i] = o[i]
           /\ \A k \in DOMAIN aggInput' :
                  \/ k \in DOMAIN aggInput /\ aggInput'[k] = aggInput[k]
                  \/ /\ k > Len(aggInput) /\ k - Len(aggInput) \in DOMAIN o
                     /\ aggInput'[k] = o[k - Len(aggInput)]
           /\ \A k \in DOMAIN aggInput' : k \in Int
           /\ Len(aggInput) \in Nat /\ \A k \in DOMAIN aggInput : k <= Len(aggInput)
  BY Joined DEF TypeOK, Queues

LEMMA OvertakenIs ==
    ASSUME aggInput \in Seq(Frames)
    PROVE  NothingOvertaken <=>
             \A i \in DOMAIN aggInput :
                /\ aggInput[i].kind \in {"started", "interruption"} => aggQueue = <<>>
                /\ aggInput[i].kind = "started" => ~userTurn
<1>1. DOMAIN aggInput = 1 .. Len(aggInput)
  OBVIOUS
<1>. QED
  BY <1>1 DEF NothingOvertaken

\* Frames about the user's voice disturb nothing.
LEMMA MildStep ==
    ASSUME TypeOK, QueueInv, NEW o \in Seq(Frames), Queues(o), OnlyVad(o),
           stt'.closing = stt.closing, stt'.turnOpen = stt.turnOpen
    PROVE  QueueInv'
<1>1. /\ \A i \in DOMAIN aggInput : i \in DOMAIN aggInput' /\ aggInput'[i] = aggInput[i]
      /\ \A k \in DOMAIN aggInput' :
             \/ k \in DOMAIN aggInput /\ aggInput'[k] = aggInput[k]
             \/ aggInput'[k].kind \in VadKinds
      /\ aggInput' \in Seq(Frames)
  BY InputIndex DEF OnlyVad
<1>2. \A kinds : VadKinds \cap kinds = {} => (Has(aggInput', kinds) <=> Has(aggInput, kinds))
  BY <1>1 DEF Has
<1>3. VadKinds \cap (Data \cup {"started"}) = {} /\ VadKinds \cap Data = {} /\ VadKinds \cap {"stopped"} = {}
      /\ "started" \notin VadKinds /\ "interruption" \notin VadKinds /\ "stopped" \notin VadKinds
  BY DEF VadKinds, Data
<1>4. aggQueue' = aggQueue /\ userTurn' = userTurn
  BY DEF Queues
<1>5. Closed'
  BY <1>2, <1>3, <1>4 DEF Closed, QueueInv
<1>6. OneStart'
  BY <1>1, <1>3 DEF OneStart, QueueInv
<1>7. StopKept'
  <2>1. CASE stt.closing = "none"
    BY <1>2, <1>3, <1>4, <2>1 DEF StopKept, QueueInv
  <2>2. CASE stt.closing # "none"
    <3>1. Stopping
      BY <2>2 DEF StopKept, QueueInv
    <3>2. \A i \in DOMAIN aggInput : StopAt(aggInput, i) => i \in DOMAIN aggInput' /\ StopAt(aggInput', i)
      BY <1>1, <1>3 DEF StopAt
    <3>3. Stopping'
      BY <1>2, <1>3, <1>4, <3>1, <3>2 DEF Stopping
    <3>. QED
      BY <2>2, <3>3 DEF StopKept
  <2>. QED
    BY <2>1, <2>2
<1>8. OnlyData'
  BY <1>4 DEF OnlyData, QueueInv
<1>9. NothingOvertaken'
  <2>1. \A i \in DOMAIN aggInput :
                /\ aggInput[i].kind \in {"started", "interruption"} => aggQueue = <<>>
                /\ aggInput[i].kind = "started" => ~userTurn
    BY OvertakenIs DEF TypeOK, QueueInv
  <2>2. \A i \in DOMAIN aggInput' :
                /\ aggInput'[i].kind \in {"started", "interruption"} => aggQueue' = <<>>
                /\ aggInput'[i].kind = "started" => ~userTurn'
    BY <1>1, <1>3, <1>4, <2>1
  <2>3. DOMAIN aggInput' = 1 .. Len(aggInput')
    BY <1>1
  <2>. QED
    BY <2>2, <2>3 DEF NothingOvertaken
<1>. QED
  BY <1>5, <1>6, <1>7, <1>8, <1>9 DEF QueueInv

\* A turn begins or goes on.
LEMMA TurnStep ==
    ASSUME TypeOK, QueueInv, NEW o \in Seq(Frames), Queues(o), NEW open \in BOOLEAN,
           InTurn(o, stt.turnOpen, open), stt.closing = "none",
           stt'.closing = "none" /\ stt'.turnOpen = open
    PROVE  QueueInv'
<1>. DEFINE n == Len(aggInput)
<1>1. /\ \A i \in DOMAIN aggInput : i \in DOMAIN aggInput' /\ aggInput'[i] = aggInput[i]
      /\ \A k \in DOMAIN aggInput' :
             \/ k \in DOMAIN aggInput /\ aggInput'[k] = aggInput[k]
             \/ k > n /\ k - n \in DOMAIN o /\ aggInput'[k] = o[k - n]
      /\ aggInput' \in Seq(Frames) /\ n \in Nat /\ \A k \in DOMAIN aggInput : k <= n
      /\ \A k \in DOMAIN aggInput' : k \in Int
  BY InputIndex
<1>. HIDE DEF n
<1>2. \A kinds : Has(aggInput', kinds) => Has(aggInput, kinds) \/ Has(o, kinds)
  BY <1>1 DEF Has
<1>3. aggQueue' = aggQueue /\ userTurn' = userTurn
  BY DEF Queues
<1>4. /\ \A i \in DOMAIN o : o[i].kind \notin {"stopped", "interruption"}
      /\ \A i, j \in DOMAIN o : o[i].kind = "started" /\ o[j].kind = "started" => i = j
      /\ Has(o, Data \cup {"started"}) => open
      /\ Has(o, {"started"}) => ~stt.turnOpen
      /\ stt.turnOpen => open
  BY DEF InTurn
<1>5. ~stt.turnOpen => aggQueue = <<>> /\ ~Has(aggInput, Data \cup {"started"}) /\ ~userTurn
  BY DEF Closed, QueueInv
<1>6. Closed'
  BY <1>2, <1>3, <1>4, <1>5 DEF Closed
<1>7. OneStart'
  <2>1. CASE Has(o, {"started"})
    <3>1. \A i \in DOMAIN aggInput : aggInput[i].kind # "started"
      BY <1>4, <1>5, <2>1 DEF Has
    <3>2. ASSUME NEW i \in DOMAIN aggInput', NEW j \in DOMAIN aggInput',
                 aggInput'[i].kind = "started", aggInput'[j].kind = "started"
          PROVE  i = j
      <4>1. i - n \in DOMAIN o /\ o[i - n].kind = "started" /\ j - n \in DOMAIN o /\ o[j - n].kind = "started"
        BY <1>1, <3>1, <3>2
      <4>2. i - n = j - n /\ i \in Int /\ j \in Int
        BY <1>1, <1>4, <4>1
      <4>. QED
        BY <1>1, <4>2
    <3>. QED
      BY <3>2 DEF OneStart
  <2>2. CASE ~Has(o, {"started"})
    <3>1. \A k \in DOMAIN aggInput' : aggInput'[k].kind = "started" =>
                k \in DOMAIN aggInput /\ aggInput[k].kind = "started"
      BY <1>1, <2>2 DEF Has
    <3>. QED
      BY <3>1 DEF OneStart, QueueInv
  <2>. QED
    BY <2>1, <2>2
<1>8. StopKept'
  <2>1. ~Has(o, {"stopped"})
    BY <1>4 DEF Has
  <2>. QED
    BY <1>2, <1>3, <2>1 DEF StopKept, QueueInv
<1>9. OnlyData'
  BY <1>3 DEF OnlyData, QueueInv
<1>10. NothingOvertaken'
  <2>1. \A i \in DOMAIN aggInput :
                /\ aggInput[i].kind \in {"started", "interruption"} => aggQueue = <<>>
                /\ aggInput[i].kind = "started" => ~userTurn
    BY OvertakenIs DEF TypeOK, QueueInv
  <2>2. \A i \in DOMAIN o :
                /\ o[i].kind \in {"started", "interruption"} => aggQueue = <<>>
                /\ o[i].kind = "started" => ~userTurn
    BY <1>4, <1>5 DEF Has
  <2>3. \A i \in DOMAIN aggInput' :
                /\ aggInput'[i].kind \in {"started", "interruption"} => aggQueue' = <<>>
                /\ aggInput'[i].kind = "started" => ~userTurn'
    BY <1>1, <1>3, <2>1, <2>2
  <2>4. DOMAIN aggInput' = 1 .. Len(aggInput')
    BY <1>1
  <2>. QED
    BY <2>3, <2>4 DEF NothingOvertaken
<1>. QED
  BY <1>6, <1>7, <1>8, <1>9, <1>10 DEF QueueInv

\* The turn starts to close: the stop is the last frame.
LEMMA StopStep ==
    ASSUME TypeOK, QueueInv, NEW p \in Seq(Frames), NEW f \in Frames, f.kind = "stopped",
           Queues(Append(p, f)), InTurn(p, stt.turnOpen, TRUE), stt.closing = "none",
           stt'.closing # "none"
    PROVE  QueueInv'
<1>. DEFINE n == Len(aggInput)
            o == Append(p, f)
            stopAt == n + Len(p) + 1
<1>1. /\ o \in Seq(Frames) /\ Len(p) + 1 \in DOMAIN o /\ o[Len(p) + 1] = f /\ Len(p) \in Nat
      /\ \A k \in DOMAIN o : \/ k \in DOMAIN p /\ o[k] = p[k] /\ k < Len(p) + 1
                             \/ k = Len(p) + 1 /\ o[k] = f
  BY Appended
<1>. HIDE DEF o
<1>2. Queues(o)
  BY DEF o
<1>3. /\ \A k \in DOMAIN aggInput' :
             \/ k \in DOMAIN aggInput /\ aggInput'[k] = aggInput[k]
             \/ k > n /\ k - n \in DOMAIN o /\ aggInput'[k] = o[k - n]
      /\ aggInput' \in Seq(Frames) /\ n \in Nat /\ \A k \in DOMAIN aggInput : k <= n
      /\ \A k \in DOMAIN aggInput' : k \in Int
      /\ n + (Len(p) + 1) \in DOMAIN aggInput' /\ aggInput'[n + (Len(p) + 1)] = o[Len(p) + 1]
  BY <1>1, <1>2, InputIndex
<1>. HIDE DEF n
<1>4. stopAt \in DOMAIN aggInput' /\ aggInput'[stopAt] = f /\ stopAt > n
      /\ \A k \in DOMAIN aggInput' :
             \/ k \in DOMAIN aggInput /\ aggInput'[k] = aggInput[k] /\ k < stopAt
             \/ k - n \in DOMAIN p /\ aggInput'[k] = p[k - n] /\ k < stopAt
             \/ k = stopAt
  <2>1. stopAt = n + (Len(p) + 1) /\ stopAt > n
    BY <1>1, <1>3
  <2>2. ASSUME NEW k \in DOMAIN aggInput'
        PROVE  \/ k \in DOMAIN aggInput /\ aggInput'[k] = aggInput[k] /\ k < stopAt
               \/ k - n \in DOMAIN p /\ aggInput'[k] = p[k - n] /\ k < stopAt
               \/ k = stopAt
    <3>1. k \in Int
      BY <1>3
    <3>2. CASE k \in DOMAIN aggInput /\ aggInput'[k] = aggInput[k]
      BY <1>1, <1>3, <3>1, <3>2
    <3>3. CASE k > n /\ k - n \in DOMAIN o /\ aggInput'[k] = o[k - n]
      <4>1. CASE k - n \in DOMAIN p /\ o[k - n] = p[k - n] /\ k - n < Len(p) + 1
        BY <1>1, <1>3, <3>1, <3>3, <4>1
      <4>2. CASE k - n = Len(p) + 1
        BY <1>1, <1>3, <3>1, <4>2
      <4>. QED
        BY <1>1, <3>3, <4>1, <4>2
    <3>. QED
      BY <1>3, <3>2, <3>3
  <2>. QED
    BY <1>1, <1>3, <2>1, <2>2
<1>5. \A k \in DOMAIN aggInput' : k \in Int
  BY <1>3
<1>6. stopAt \in Int
  BY <1>1, <1>3
<1>. HIDE DEF stopAt
<1>7. aggQueue' = aggQueue /\ userTurn' = userTurn
  BY DEF Queues
<1>8. /\ \A i \in DOMAIN p : p[i].kind \notin {"stopped", "interruption"}
      /\ \A i, j \in DOMAIN p : p[i].kind = "started" /\ p[j].kind = "started" => i = j
      /\ Has(p, {"started"}) => ~stt.turnOpen
  BY DEF InTurn
<1>9. ~stt.turnOpen => aggQueue = <<>> /\ ~Has(aggInput, Data \cup {"started"}) /\ ~userTurn
  BY DEF Closed, QueueInv
<1>10. Closed'
  BY DEF Closed
<1>11. OneStart'
  <2>1. CASE Has(p, {"started"})
    <3>1. \A i \in DOMAIN aggInput : aggInput[i].kind # "started"
      BY <1>8, <1>9, <2>1 DEF Has
    <3>2. ASSUME NEW i \in DOMAIN aggInput', NEW j \in DOMAIN aggInput',
                 aggInput'[i].kind = "started", aggInput'[j].kind = "started"
          PROVE  i = j
      <4>1. i - n \in DOMAIN p /\ p[i - n].kind = "started" /\ j - n \in DOMAIN p /\ p[j - n].kind = "started"
        BY <1>4, <3>1, <3>2
      <4>2. i - n = j - n /\ i \in Int /\ j \in Int
        BY <1>3, <1>8, <4>1
      <4>. QED
        BY <1>3, <4>2
    <3>. QED
      BY <3>2 DEF OneStart
  <2>2. CASE ~Has(p, {"started"})
    <3>1. \A k \in DOMAIN aggInput' : aggInput'[k].kind = "started" =>
                k \in DOMAIN aggInput /\ aggInput[k].kind = "started"
      BY <1>4, <2>2 DEF Has
    <3>. QED
      BY <3>1 DEF OneStart, QueueInv
  <2>. QED
    BY <2>1, <2>2
<1>12. StopKept'
  <2>1. ~Has(aggInput, {"stopped"}) /\ ~Has(aggQueue, {"stopped"})
    BY DEF StopKept, QueueInv
  <2>2. \A k \in DOMAIN aggInput' : k # stopAt => aggInput'[k].kind # "stopped" /\ k < stopAt
    BY <1>4, <1>8, <2>1 DEF Has
  <2>3. \A k \in DOMAIN aggInput' : ~(stopAt < k)
    BY <1>5, <1>6, <2>2
  <2>4. StopAt(aggInput', stopAt)
    BY <1>4, <2>2, <2>3 DEF StopAt
  <2>5. Stopping'
    BY <1>4, <1>7, <2>1, <2>4 DEF Stopping
  <2>. QED
    BY <2>5 DEF StopKept
<1>13. OnlyData'
  BY <1>7 DEF OnlyData, QueueInv
<1>14. NothingOvertaken'
  <2>1. \A i \in DOMAIN aggInput :
                /\ aggInput[i].kind \in {"started", "interruption"} => aggQueue = <<>>
                /\ aggInput[i].kind = "started" => ~userTurn
    BY OvertakenIs DEF TypeOK, QueueInv
  <2>2. \A i \in DOMAIN p :
                /\ p[i].kind \in {"started", "interruption"} => aggQueue = <<>>
                /\ p[i].kind = "started" => ~userTurn
    BY <1>8, <1>9 DEF Has
  <2>3. \A i \in DOMAIN aggInput' :
                /\ aggInput'[i].kind \in {"started", "interruption"} => aggQueue' = <<>>
                /\ aggInput'[i].kind = "started" => ~userTurn'
    BY <1>4, <1>7, <2>1, <2>2
  <2>4. DOMAIN aggInput' = 1 .. Len(aggInput')
    BY <1>3
  <2>. QED
    BY <2>3, <2>4 DEF NothingOvertaken
<1>. QED
  BY <1>10, <1>11, <1>12, <1>13, <1>14 DEF QueueInv

\* An interruption finds no turn.
LEMMA InterruptionStep ==
    ASSUME TypeOK, QueueInv, NEW p \in Seq(Frames), NEW f \in Frames, f.kind = "interruption",
           Queues(Append(p, f)), OnlyVad(p), stt.closing = "none", ~stt.turnOpen,
           stt'.closing = "none", ~stt'.turnOpen
    PROVE  QueueInv'
<1>. DEFINE o == Append(p, f)
            n == Len(aggInput)
<1>1. o \in Seq(Frames) /\ \A k \in DOMAIN o : o[k].kind \in VadKinds \cup {"interruption"}
  BY Appended DEF OnlyVad
<1>. HIDE DEF o
<1>2. Queues(o)
  BY DEF o
<1>3. /\ \A k \in DOMAIN aggInput' :
             \/ k \in DOMAIN aggInput /\ aggInput'[k] = aggInput[k]
             \/ k - n \in DOMAIN o /\ aggInput'[k] = o[k - n]
      /\ aggInput' \in Seq(Frames)
  BY <1>1, <1>2, InputIndex
<1>4. \A k \in DOMAIN aggInput' :
             \/ k \in DOMAIN aggInput /\ aggInput'[k] = aggInput[k]
             \/ aggInput'[k].kind \in VadKinds \cup {"interruption"}
  BY <1>1, <1>3
<1>5. aggQueue' = <<>> /\ aggQueue = <<>> /\ ~userTurn' /\ ~userTurn /\ ~Has(aggInput, Data \cup {"started"})
  BY DEF Queues, Closed, QueueInv
<1>6. ~Has(aggInput', Data \cup {"started"})
  BY <1>4, <1>5 DEF Has, Data, VadKinds
<1>7. Closed'
  BY <1>5, <1>6 DEF Closed
<1>8. OneStart'
  BY <1>6 DEF OneStart, Has
<1>9. ~Has(aggInput', {"stopped"}) /\ ~Has(aggQueue', {"stopped"})
  BY <1>5, <1>6 DEF Has, Data
<1>10. StopKept'
  BY <1>9 DEF StopKept
<1>11. OnlyData'
  BY <1>5 DEF OnlyData
<1>12. NothingOvertaken'
  BY <1>5 DEF NothingOvertaken
<1>. QED
  BY <1>7, <1>8, <1>10, <1>11, <1>12 DEF QueueInv

-----------------------------------------------------------------------------
(* The aggregator *)

LEMMA Overtakes ==
    ASSUME TypeOK, QueueInv, NEW i \in DOMAIN aggInput
    PROVE  /\ aggInput[i].kind \in {"started", "interruption"} => aggQueue = <<>>
           /\ aggInput[i].kind = "started" => ~userTurn
  BY OvertakenIs DEF TypeOK, QueueInv

LEMMA SystemKinds ==
    ASSUME NEW f \in Frames
    PROVE  /\ IsSystem(f) <=> f.kind \notin Data
           /\ IsSystem(f) => f.kind \in {"started", "vad_started", "vad_stopped", "interruption"}
  BY DEF Frames, IsSystem, Data

LEMMA AggregatorSystemIs ==
    ASSUME TypeOK, QueueInv, AggregatorSystem
    PROVE  QueueInv' /\ aggInput' \in Seq(Frames) /\ aggQueue' \in Seq(Frames) /\ userTurn' \in BOOLEAN
<1>. DEFINE n == NextSystem
            f == aggInput[n]
<1>1. /\ aggInput' = RemoveAt(aggInput, n) /\ aggQueue' = (IF Interrupts(f) THEN <<>> ELSE aggQueue)
      /\ userTurn' = (userTurn \/ f.kind = "started") /\ stt' = stt /\ Systems # {}
  BY DEF AggregatorSystem
<1>2. n \in DOMAIN aggInput /\ IsSystem(f) /\ aggInput \in Seq(Frames)
  BY <1>1, NextSystemIs DEF TypeOK
<1>3. f \in Frames /\ f.kind \notin Data
  BY <1>2, SystemKinds
<1>. HIDE DEF n
<1>4. /\ aggInput' \in Seq(Frames)
      /\ \A k \in DOMAIN aggInput' : /\ k \in Nat /\ From(n, k) \in DOMAIN aggInput
                                     /\ aggInput'[k] = aggInput[From(n, k)] /\ From(n, k) # n
      /\ \A j, k \in DOMAIN aggInput' : j < k <=> From(n, j) < From(n, k)
      /\ \A k \in DOMAIN aggInput : k # n => \E j \in DOMAIN aggInput' : From(n, j) = k
  BY <1>1, <1>2, Removed, SMTT(60)
<1>5. aggQueue' \in Seq(Frames) /\ userTurn' \in BOOLEAN /\ aggQueue' \in {<<>>, aggQueue}
  <2>1. <<>> \in Seq(Frames)
    OBVIOUS
  <2>. QED
    BY <1>1, <2>1 DEF TypeOK
<1>. HIDE DEF f
<1>6. \A kinds : Has(aggInput', kinds) => Has(aggInput, kinds)
  BY <1>4 DEF Has
<1>7. \A kinds : Has(aggQueue', kinds) => Has(aggQueue, kinds)
  BY <1>5 DEF Has
<1>8. Closed'
  <2>. SUFFICES ASSUME stt.closing = "none", ~stt.turnOpen
                PROVE  aggQueue' = <<>> /\ ~Has(aggInput', Data \cup {"started"}) /\ ~userTurn'
    BY <1>1 DEF Closed
  <2>1. aggQueue = <<>> /\ ~Has(aggInput, Data \cup {"started"}) /\ ~userTurn
    BY DEF Closed, QueueInv
  <2>2. f.kind # "started"
    BY <1>2, <2>1 DEF Has, f
  <2>. QED
    BY <1>1, <1>5, <1>6, <2>1, <2>2
<1>9. OneStart'
  <2>1. ASSUME NEW i \in DOMAIN aggInput', NEW j \in DOMAIN aggInput',
               aggInput'[i].kind = "started", aggInput'[j].kind = "started"
        PROVE  i = j
    <3>1. From(n, i) = From(n, j)
      BY <1>4, <2>1 DEF OneStart, QueueInv
    <3>2. From(n, i) \in Int /\ i \in Nat /\ j \in Nat
      BY <1>4 DEF From
    <3>3. ~(i < j) /\ ~(j < i)
      BY <1>4, <3>1, <3>2
    <3>. QED
      BY <3>2, <3>3
  <2>. QED
    BY <2>1 DEF OneStart
<1>10. StopKept'
  <2>1. CASE stt.closing = "none"
    BY <1>1, <1>6, <1>7, <2>1 DEF StopKept, QueueInv
  <2>2. CASE stt.closing # "none"
    <3>1. Stopping
      BY <2>2 DEF StopKept, QueueInv
    <3>2. ASSUME ~Has(aggQueue, {"stopped"}), NEW i \in DOMAIN aggInput, StopAt(aggInput, i)
          PROVE  Stopping'
      <4>1. i # n
        BY <1>3, <3>2 DEF StopAt, Data, f
      <4>2. PICK j \in DOMAIN aggInput' : From(n, j) = i
        BY <1>4, <4>1
      <4>3. aggInput'[j].kind = "stopped"
        BY <1>4, <3>2, <4>2 DEF StopAt
      <4>4. ASSUME NEW k \in DOMAIN aggInput', k # j
            PROVE  aggInput'[k].kind # "stopped" /\ (j < k => aggInput'[k].kind \notin Data)
        <5>1. From(n, k) # i
          <6>1. k \in Nat /\ j \in Nat
            BY <1>4
          <6>2. From(n, k) \in Int
            BY <1>4 DEF From
          <6>3. k < j \/ j < k
            BY <4>4, <6>1
          <6>4. From(n, k) < From(n, j) \/ From(n, j) < From(n, k)
            BY <1>4, <6>3
          <6>. QED
            BY <4>2, <6>2, <6>4
        <5>2. j < k => i < From(n, k)
          BY <1>4, <4>2
        <5>. QED
          BY <1>4, <3>2, <5>1, <5>2 DEF StopAt
      <4>5. StopAt(aggInput', j)
        BY <4>3, <4>4 DEF StopAt
      <4>. QED
        BY <1>7, <3>2, <4>5 DEF Stopping
    <3>3. ASSUME ~Has(aggInput, Data), aggQueue # <<>>, StopAt(aggQueue, Len(aggQueue))
          PROVE  Stopping'
      <4>1. f.kind \notin {"started", "interruption"}
        BY <1>2, <3>3, Overtakes DEF f
      <4>2. aggQueue' = aggQueue
        BY <1>1, <4>1 DEF Interrupts
      <4>3. ~Has(aggInput', Data)
        BY <1>6, <3>3
      <4>. QED
        BY <3>3, <4>2, <4>3 DEF Stopping
    <3>4. Stopping'
      BY <3>1, <3>2, <3>3 DEF Stopping
    <3>. QED
      BY <1>1, <2>2, <3>4 DEF StopKept
  <2>. QED
    BY <2>1, <2>2
<1>11. OnlyData'
  BY <1>5 DEF OnlyData, QueueInv
<1>12. NothingOvertaken'
  <2>1. ASSUME NEW i \in DOMAIN aggInput'
        PROVE  /\ aggInput'[i].kind \in {"started", "interruption"} => aggQueue' = <<>>
               /\ aggInput'[i].kind = "started" => ~userTurn'
    <3>1. /\ aggInput'[i].kind \in {"started", "interruption"} => aggQueue = <<>>
          /\ aggInput'[i].kind = "started" => ~userTurn
      BY <1>4, Overtakes
    <3>2. aggInput'[i].kind = "started" => f.kind # "started"
      BY <1>2, <1>4 DEF OneStart, QueueInv, f
    <3>. QED
      BY <1>1, <1>5, <3>1, <3>2
  <2>2. DOMAIN aggInput' = 1 .. Len(aggInput')
    BY <1>4
  <2>. QED
    BY <2>1, <2>2 DEF NothingOvertaken
<1>. QED
  BY <1>4, <1>5, <1>8, <1>9, <1>10, <1>11, <1>12 DEF QueueInv

LEMMA AggregatorAdmitsIs ==
    ASSUME TypeOK, QueueInv, AggregatorAdmits
    PROVE  QueueInv' /\ aggInput' \in Seq(Frames) /\ aggQueue' \in Seq(Frames) /\ userTurn' \in BOOLEAN
<1>. DEFINE f == Head(aggInput)
<1>1. /\ aggInput # <<>> /\ aggQueue' = Append(aggQueue, f) /\ aggInput' = Tail(aggInput)
      /\ stt' = stt /\ userTurn' = userTurn /\ Systems = {}
  BY DEF AggregatorAdmits
<1>2. aggInput \in Seq(Frames) /\ aggQueue \in Seq(Frames) /\ userTurn' \in BOOLEAN
  BY <1>1 DEF TypeOK
<1>3. \A i \in DOMAIN aggInput : aggInput[i].kind \in Data
  <2>1. DOMAIN aggInput = 1 .. Len(aggInput)
    BY <1>2
  <2>2. \A i \in DOMAIN aggInput : aggInput[i] \in Frames /\ ~IsSystem(aggInput[i])
    BY <1>1, <1>2, <2>1 DEF Systems
  <2>. QED
    BY <2>2, SystemKinds
<1>4. /\ aggInput' \in Seq(Frames) /\ f = aggInput[1] /\ 1 \in DOMAIN aggInput /\ f \in Frames
      /\ \A k \in DOMAIN aggInput' : k \in Nat /\ k + 1 \in DOMAIN aggInput /\ k + 1 > 1
                                     /\ aggInput'[k] = aggInput[k + 1]
      /\ \A k \in DOMAIN aggInput : k > 1 => k - 1 \in DOMAIN aggInput' /\ aggInput'[k - 1] = aggInput[k]
  BY <1>1, <1>2, Shortened
<1>. HIDE DEF f
<1>5. /\ aggQueue' \in Seq(Frames) /\ aggQueue' # <<>> /\ Len(aggQueue') = Len(aggQueue) + 1
      /\ aggQueue'[Len(aggQueue) + 1] = f /\ Len(aggQueue) \in Nat
      /\ \A k \in DOMAIN aggQueue' : \/ k \in DOMAIN aggQueue /\ aggQueue'[k] = aggQueue[k]
                                     \/ k = Len(aggQueue) + 1 /\ aggQueue'[k] = f
  <2>1. Len(aggQueue) \in Nat
    BY <1>2
  <2>. QED
    BY <1>1, <1>2, <1>4, <2>1, Appended, SMTT(30)
<1>6. \A i \in DOMAIN aggInput' : aggInput'[i].kind \in Data
  BY <1>3, <1>4
<1>7. Closed'
  BY <1>1, <1>3, <1>4 DEF Closed, QueueInv, Has
<1>8. OneStart'
  BY <1>6 DEF OneStart, Data
<1>9. StopKept'
  <2>1. CASE stt.closing = "none"
    <3>1. ~Has(aggInput, {"stopped"}) /\ ~Has(aggQueue, {"stopped"})
      BY <2>1 DEF StopKept, QueueInv
    <3>2. ~Has(aggInput', {"stopped"}) /\ ~Has(aggQueue', {"stopped"})
      BY <1>4, <1>5, <3>1 DEF Has
    <3>. QED
      BY <1>1, <2>1, <3>2 DEF StopKept
  <2>2. CASE stt.closing # "none"
    <3>1. PICK i \in DOMAIN aggInput : ~Has(aggQueue, {"stopped"}) /\ StopAt(aggInput, i)
      BY <1>3, <1>4, <2>2 DEF StopKept, QueueInv, Stopping, Has
    <3>2. i \in Nat /\ i >= 1
      BY <1>2
    <3>3. CASE i = 1
      <4>1. DOMAIN aggInput' = {}
        <5>1. ASSUME NEW k \in DOMAIN aggInput' PROVE FALSE
          <6>1. k + 1 \in DOMAIN aggInput /\ k + 1 # 1 /\ 1 < k + 1
            BY <1>4
          <6>2. aggInput[k + 1].kind \notin Data
            BY <3>1, <3>3, <6>1 DEF StopAt
          <6>. QED
            BY <1>3, <6>1, <6>2
        <5>. QED
          BY <5>1
      <4>2. ~Has(aggInput', Data)
        BY <4>1 DEF Has
      <4>3. f.kind = "stopped"
        BY <1>4, <3>1, <3>3 DEF StopAt
      <4>4. \A k \in DOMAIN aggQueue : aggQueue[k].kind # "stopped" /\ k < Len(aggQueue) + 1
        BY <1>2, <3>1 DEF Has
      <4>5. StopAt(aggQueue', Len(aggQueue'))
        BY <1>5, <4>3, <4>4 DEF StopAt
      <4>6. Stopping'
        BY <1>5, <4>2, <4>5 DEF Stopping
      <4>. QED
        BY <1>1, <2>2, <4>6 DEF StopKept
    <3>4. CASE i # 1
      <4>1. f.kind # "stopped"
        BY <1>4, <3>1, <3>4 DEF StopAt
      <4>2. ~Has(aggQueue', {"stopped"})
        BY <1>5, <3>1, <4>1 DEF Has
      <4>3. i > 1 /\ i - 1 \in DOMAIN aggInput' /\ aggInput'[i - 1].kind = "stopped"
        BY <1>4, <3>1, <3>2, <3>4 DEF StopAt
      <4>4. ASSUME NEW k \in DOMAIN aggInput', k # i - 1
            PROVE  aggInput'[k].kind # "stopped" /\ (i - 1 < k => aggInput'[k].kind \notin Data)
        <5>1. k \in Nat /\ k + 1 \in DOMAIN aggInput /\ aggInput'[k] = aggInput[k + 1]
          BY <1>4
        <5>2. k + 1 # i /\ (i - 1 < k => i < k + 1)
          BY <3>2, <4>4, <5>1
        <5>. QED
          BY <3>1, <5>1, <5>2 DEF StopAt
      <4>5. StopAt(aggInput', i - 1)
        BY <4>3, <4>4 DEF StopAt
      <4>6. Stopping'
        BY <4>2, <4>3, <4>5 DEF Stopping
      <4>. QED
        BY <1>1, <2>2, <4>6 DEF StopKept
    <3>. QED
      BY <3>3, <3>4
  <2>. QED
    BY <2>1, <2>2
<1>10. OnlyData'
  BY <1>3, <1>4, <1>5 DEF OnlyData, QueueInv
<1>11. NothingOvertaken'
  <2>1. DOMAIN aggInput' = 1 .. Len(aggInput')
    BY <1>4
  <2>. QED
    BY <1>6, <2>1 DEF NothingOvertaken, Data
<1>. QED
  BY <1>2, <1>4, <1>5, <1>7, <1>8, <1>9, <1>10, <1>11 DEF QueueInv

LEMMA AggregatorProcessesIs ==
    ASSUME TypeOK, QueueInv, InService, AggregatorProcesses
    PROVE  /\ QueueInv' /\ aggInput' \in Seq(Frames) /\ aggQueue' \in Seq(Frames) /\ userTurn' \in BOOLEAN
           /\ stt' \in Stt /\ stt'.out = <<>> /\ InService' /\ (stt' = stt \/ stt'.closing = "none")
<1>. DEFINE f == Head(aggQueue)
<1>1. /\ aggQueue # <<>> /\ aggQueue' = Tail(aggQueue) /\ aggInput' = aggInput /\ input' = input
      /\ IF f.kind = "stopped"
         THEN userTurn' = FALSE /\ stt' = [stt EXCEPT !.turnOpen = FALSE, !.closing = "none"]
         ELSE userTurn' = userTurn /\ stt' = stt
  BY DEF AggregatorProcesses
<1>2. aggInput \in Seq(Frames) /\ aggQueue \in Seq(Frames) /\ userTurn' \in BOOLEAN /\ stt \in Stt
      /\ stt.out = <<>>
  BY <1>1 DEF TypeOK
<1>3. /\ aggQueue' \in Seq(Frames) /\ f = aggQueue[1] /\ 1 \in DOMAIN aggQueue /\ f \in Frames
      /\ Len(aggQueue') = Len(aggQueue) - 1 /\ Len(aggQueue) \in Nat
      /\ \A k \in DOMAIN aggQueue' : k \in Nat /\ k + 1 \in DOMAIN aggQueue /\ k + 1 > 1
                                     /\ aggQueue'[k] = aggQueue[k + 1]
      /\ \A k \in DOMAIN aggQueue : k > 1 => k - 1 \in DOMAIN aggQueue' /\ aggQueue'[k - 1] = aggQueue[k]
  BY <1>1, <1>2, Shortened
<1>. HIDE DEF f
<1>4. \A i \in DOMAIN aggInput : aggInput[i].kind \notin {"started", "interruption"}
  BY <1>1, Overtakes
<1>5. OneStart'
  BY <1>1, <1>4 DEF OneStart
<1>6. OnlyData'
  BY <1>3 DEF OnlyData, QueueInv
<1>7. NothingOvertaken'
  <2>1. DOMAIN aggInput = 1 .. Len(aggInput)
    BY <1>2
  <2>. QED
    BY <1>1, <1>4, <2>1 DEF NothingOvertaken
<1>8. CASE f.kind = "stopped"
  <2>1. stt' \in Stt /\ ~stt'.turnOpen /\ stt'.closing = "none" /\ stt'.out = stt.out
        /\ stt'.endpoint = stt.endpoint /\ stt'.endpointId = stt.endpointId
        /\ stt'.endpoints = stt.endpoints /\ stt'.speechActive = stt.speechActive
    BY <1>1, <1>2, <1>8, ZenonT(60) DEF Stt, Closers
  <2>2. stt.closing # "none" /\ ~Has(aggInput, Data) /\ StopAt(aggQueue, Len(aggQueue))
    BY <1>3, <1>8 DEF StopKept, QueueInv, Stopping, Has
  <2>3. Len(aggQueue) = 1
    <3>1. 1 \in DOMAIN aggQueue /\ aggQueue[1].kind = "stopped"
      BY <1>3, <1>8
    <3>. QED
      BY <2>2, <3>1 DEF StopAt
  <2>4. aggQueue' = <<>>
    BY <1>3, <2>3
  <2>5. ~Has(aggInput', Data \cup {"started"}) /\ ~Has(aggInput', {"stopped"}) /\ ~Has(aggQueue', {"stopped"})
    BY <1>1, <1>4, <2>2, <2>4 DEF Has, Data
  <2>6. Closed' /\ StopKept'
    BY <1>1, <1>8, <2>1, <2>4, <2>5 DEF Closed, StopKept
  <2>7. InService'
    <3>1. input.pc \notin Cancelling /\ ServiceOK(stt, input)
      BY <2>2 DEF InService, ServiceOK
    <3>2. ServiceOK(stt', input)
      BY <2>1, <3>1 DEF ServiceOK, SpanOK, Cancelling
    <3>. QED
      BY <1>1, <3>2 DEF InService
  <2>. QED
    BY <1>1, <1>2, <1>3, <1>5, <1>6, <1>7, <2>1, <2>6, <2>7 DEF QueueInv
<1>9. CASE f.kind # "stopped"
  <2>1. stt' = stt /\ userTurn' = userTurn
    BY <1>1, <1>9
  <2>2. Closed'
    BY <1>1, <2>1 DEF Closed, QueueInv
  <2>3. \A kinds : Has(aggQueue', kinds) => Has(aggQueue, kinds)
    BY <1>3 DEF Has
  <2>4. CASE stt.closing = "none"
    <3>1. StopKept'
      BY <1>1, <2>1, <2>3, <2>4 DEF StopKept, QueueInv
    <3>. QED
      BY <1>1, <1>2, <1>3, <1>5, <1>6, <1>7, <2>1, <2>2, <3>1 DEF QueueInv, InService
  <2>5. CASE stt.closing # "none"
    <3>1. Stopping
      BY <2>5 DEF StopKept, QueueInv
    <3>2. ASSUME aggQueue # <<>>, StopAt(aggQueue, Len(aggQueue))
          PROVE  aggQueue' # <<>> /\ StopAt(aggQueue', Len(aggQueue'))
      <4>1. Len(aggQueue) # 1 /\ Len(aggQueue) > 1
        BY <1>3, <1>9, <3>2 DEF StopAt
      <4>2. Len(aggQueue) \in DOMAIN aggQueue
        BY <1>2, <4>1
      <4>3. Len(aggQueue') \in DOMAIN aggQueue' /\ aggQueue'[Len(aggQueue')].kind = "stopped"
        BY <1>3, <3>2, <4>1, <4>2 DEF StopAt
      <4>4. ASSUME NEW k \in DOMAIN aggQueue', k # Len(aggQueue')
            PROVE  aggQueue'[k].kind # "stopped" /\ ~(Len(aggQueue') < k)
        <5>1. k \in Nat /\ k + 1 \in DOMAIN aggQueue /\ aggQueue'[k] = aggQueue[k + 1]
          BY <1>3
        <5>2. k + 1 # Len(aggQueue) /\ k <= Len(aggQueue')
          BY <1>3, <4>4, <5>1
        <5>3. ~(Len(aggQueue') < k)
          BY <1>3, <5>1, <5>2
        <5>. QED
          BY <3>2, <5>1, <5>2, <5>3 DEF StopAt
      <4>. QED
        BY <4>3, <4>4 DEF StopAt
    <3>3. Stopping'
      BY <1>1, <2>3, <3>1, <3>2 DEF Stopping
    <3>4. StopKept'
      BY <2>1, <2>5, <3>3 DEF StopKept
    <3>. QED
      BY <1>1, <1>2, <1>3, <1>5, <1>6, <1>7, <2>1, <2>2, <3>4 DEF QueueInv, InService
  <2>. QED
    BY <2>4, <2>5
<1>. QED
  BY <1>8, <1>9

-----------------------------------------------------------------------------
(* The service's tasks *)

Done == /\ stt' \in Stt /\ stt'.out = <<>> /\ aggInput' \in Seq(Frames) /\ input' \in Input
        /\ QueueInv' /\ InService'
Served == Done /\ ~Closes
QueuesStay == aggQueue' = aggQueue /\ userTurn' = userTurn
Ready == TypeOK /\ QueueInv /\ InService

LEMMA SameService ==
    ASSUME NEW s, NEW g, NEW in, SameSpan(s, g), g.turnOpen = s.turnOpen, ServiceOK(s, in)
    PROVE  ServiceOK(g, in)
  BY DEF SameSpan, ServiceOK, SpanOK

LEMMA CommitIs ==
    ASSUME TypeOK, NEW s \in Stt, Commit(s), QueuesStay
    PROVE  /\ stt' \in Stt /\ stt'.out = <<>> /\ SameSpan(s, stt') /\ stt'.turnOpen = s.turnOpen
           /\ aggInput' \in Seq(Frames) /\ Queues(s.out) /\ s.out \in Seq(Frames)
<1>1. stt' = [s EXCEPT !.out = <<>>, !.failed = FALSE] /\ aggInput' = aggInput \o s.out
  BY DEF Commit
<1>2. s.out \in Seq(Frames)
  BY DEF Stt
<1>3. Queues(s.out)
  BY <1>1 DEF Queues, QueuesStay
<1>4. <<>> \in Seq(Frames)
  OBVIOUS
<1>5. stt' \in Stt /\ stt'.out = <<>> /\ SameSpan(s, stt') /\ stt'.turnOpen = s.turnOpen
  BY <1>1, <1>4, ZenonT(60) DEF Stt, SameSpan
<1>. QED
  BY <1>2, <1>3, <1>5, InputIndex

LEMMA TurnServed ==
    ASSUME Ready, NEW s \in Stt, stt.closing = "none", Begins(s, stt.turnOpen),
           input' \in Input, ServiceOK(s, input'), Commit(s), QueuesStay
    PROVE  Served
<1>1. /\ stt' \in Stt /\ stt'.out = <<>> /\ SameSpan(s, stt') /\ stt'.turnOpen = s.turnOpen
      /\ aggInput' \in Seq(Frames) /\ Queues(s.out) /\ s.out \in Seq(Frames)
  BY CommitIs DEF Ready
<1>2. stt'.closing = "none" /\ InTurn(s.out, stt.turnOpen, s.turnOpen) /\ s.turnOpen \in BOOLEAN
  BY <1>1 DEF Begins, SameSpan, Stt
<1>3. QueueInv'
  BY <1>1, <1>2, TurnStep DEF Ready
<1>4. ServiceOK(stt', input')
  BY <1>1, SameService
<1>. QED
  BY <1>1, <1>2, <1>3, <1>4 DEF Served, Done, InService, Closes

LEMMA MildServed ==
    ASSUME Ready, NEW s \in Stt, OnlyVad(s.out), s.closing = stt.closing, s.turnOpen = stt.turnOpen,
           input' \in Input, ServiceOK(s, input'), Commit(s), QueuesStay
    PROVE  Served
<1>1. /\ stt' \in Stt /\ stt'.out = <<>> /\ SameSpan(s, stt') /\ stt'.turnOpen = s.turnOpen
      /\ aggInput' \in Seq(Frames) /\ Queues(s.out) /\ s.out \in Seq(Frames)
  BY CommitIs DEF Ready
<1>2. stt'.closing = stt.closing /\ stt'.turnOpen = stt.turnOpen
  BY <1>1 DEF SameSpan
<1>3. QueueInv'
  BY <1>1, <1>2, MildStep DEF Ready
<1>4. ServiceOK(stt', input')
  BY <1>1, SameService
<1>. QED
  BY <1>1, <1>2, <1>3, <1>4 DEF Served, Done, InService, Closes

LEMMA StillServed ==
    ASSUME Ready, stt' = stt, aggInput' = aggInput, input' \in Input, ServiceOK(stt, input'), QueuesStay
    PROVE  Served
<1>1. stt' \in Stt /\ stt'.out = <<>> /\ aggInput' \in Seq(Frames)
  BY DEF Ready, TypeOK
<1>2. QueueInv'
  BY DEF Ready, QueueInv, Closed, OneStart, StopKept, Stopping, OnlyData, NothingOvertaken, QueuesStay
<1>. QED
  BY <1>1, <1>2 DEF Served, Done, InService, Closes

Kinds == {"none", "vad", "end_turn"} \cup LifecycleKinds

LEMMA InputTypes ==
    /\ Idle \in Input /\ Idle.pc = "idle"
    /\ \A pc \in {"begin_cancel", "reset_wait", "reset_closing"}, kind \in Kinds :
          /\ [Idle EXCEPT !.pc = pc, !.kind = kind] \in Input
          /\ [Idle EXCEPT !.pc = pc, !.kind = kind].pc = pc
  BY DEF Idle, Input, Kinds, None

LEMMA ResetCancelInput ==
    ASSUME NEW kind \in Kinds, NEW open \in BOOLEAN, NEW in,
           in = [Idle EXCEPT !.pc = "reset_cancel", !.kind = kind, !.wasOpen = open]
    PROVE  in \in Input /\ in.pc = "reset_cancel" /\ in.wasOpen = open
  BY DEF Idle, Input, Kinds, None

\* An untouched turn.
LEMMA BeginsWithNothing ==
    ASSUME NEW s \in Stt, s.out = <<>>, s.closing = "none"
    PROVE  Begins(s, s.turnOpen)
  BY DEF Begins, InTurn, Has

LEMMA BeginSpeechIs ==
    ASSUME Ready, NEW s \in Stt, SameSpan(stt, s), s.turnOpen = stt.turnOpen, s.out = <<>>,
           NEW kind \in Kinds, input.pc \in {"idle", "begin_wait"},
           BeginSpeech(s, kind), QueuesStay
    PROVE  Served
<1>0. epoch \in Nat /\ session \in Nat
  BY DEF Ready, TypeOK
<1>1. /\ stt.closing # "none" => ~stt.speechActive
      /\ stt.closing = "endpoint" => stt.turnOpen
      /\ stt.closing # "reset" /\ SpanOK(stt)
  BY DEF Ready, InService, ServiceOK
<1>2. OnlyVad(s.out) /\ s.closing = stt.closing /\ SpanOK(s)
  BY <1>1 DEF OnlyVad, SameSpan, SpanOK
<1>3. CASE s.closing # "none"
  <2>1. /\ Commit(s)
        /\ input' = [pc |-> "begin_wait", kind |-> kind, epoch |-> epoch, session |-> session, wasOpen |-> FALSE]
    BY <1>3 DEF BeginSpeech
  <2>2. input' \in Input /\ input'.pc = "begin_wait"
    BY <1>0, <1>1, <2>1 DEF Input, Kinds
  <2>3. ServiceOK(s, input')
    BY <1>1, <1>2, <2>2 DEF ServiceOK, Cancelling, SameSpan
  <2>. QED
    BY <1>2, <2>1, <2>2, <2>3, MildServed
<1>4. CASE s.closing = "none" /\ TaskRuns(s)
  <2>. DEFINE c == [s EXCEPT !.endpointId = None, !.endpoint.state = "cancelling"]
              e == [s.endpoint EXCEPT !.state = "cancelling"]
  <2>1. Commit(c) /\ input' = [Idle EXCEPT !.pc = "begin_cancel", !.kind = kind]
    BY <1>4 DEF BeginSpeech
  <2>2. input' \in Input /\ input'.pc = "begin_cancel"
    BY <1>1, <2>1, InputTypes
  <2>3. s.endpoint \in Endpoint /\ e \in Endpoint /\ e.state = "cancelling" /\ e.id = s.endpoint.id
    BY DEF Stt, Endpoint
  <2>4. c = [s EXCEPT !.endpointId = None, !.endpoint = e]
    OBVIOUS
  <2>. HIDE DEF c, e
  <2>5. None \in Nat
    BY DEF None
  <2>6. /\ c \in Stt /\ c.endpointId = None /\ c.endpoint = e /\ c.closing = s.closing
        /\ c.turnOpen = s.turnOpen /\ c.out = s.out
    BY <2>3, <2>4, <2>5, ZenonT(60) DEF Stt
  <2>7. ServiceOK(c, input')
    BY <1>2, <1>4, <2>2, <2>3, <2>6 DEF ServiceOK, Cancelling, SpanOK, TaskRuns
  <2>. QED
    BY <1>2, <2>1, <2>2, <2>6, <2>7, MildServed
<1>5. CASE s.closing = "none" /\ ~TaskRuns(s)
  <2>. DEFINE c == [s EXCEPT !.endpointId = None]
              g == SpeechBegun(c, kind)
  <2>1. Commit(g) /\ input' = Idle
    BY <1>5 DEF BeginSpeech
  <2>2. None \in Nat
    BY DEF None
  <2>3. /\ c \in Stt /\ c.endpointId = None /\ c.endpoint = s.endpoint /\ c.closing = s.closing
        /\ c.turnOpen = s.turnOpen /\ c.out = s.out
    BY <2>2, ZenonT(60) DEF Stt
  <2>. HIDE DEF c
  <2>4. Begins(c, stt.turnOpen) /\ SpanOK(c) /\ stt.turnOpen \in BOOLEAN
    BY <1>2, <1>5, <2>3, BeginsWithNothing DEF SpanOK, Stt
  <2>5. g \in Stt /\ Begins(g, stt.turnOpen) /\ SpanOK(g)
    BY <1>0, <2>3, <2>4, SpeechBegunIs
  <2>. HIDE DEF g
  <2>6. input' \in Input /\ input'.pc = "idle"
    BY <2>1, InputTypes
  <2>7. ServiceOK(g, input')
    BY <2>5, <2>6 DEF ServiceOK, Begins, Cancelling
  <2>. QED
    BY <1>2, <1>5, <2>1, <2>5, <2>6, <2>7, TurnServed
<1>. QED
  BY <1>3, <1>4, <1>5

LEMMA ResetTailIs ==
    ASSUME Ready, stt.closing = "none", NEW kind \in Kinds, NEW wasOpen, wasOpen = stt.turnOpen,
           ResetTail(kind, wasOpen), QueuesStay
    PROVE  Served
<1>. DEFINE g == InputReset(stt)
<1>1. stt \in Stt /\ stt.out = <<>>
  BY DEF Ready, TypeOK
<1>2. /\ g \in Stt /\ g.closing = stt.closing /\ ~g.turnOpen /\ ~g.speechActive
      /\ g.endpoint = NoEndpoint /\ g.endpointId = None /\ VadMore(stt, g)
  BY <1>1, InputResetIs
<1>. HIDE DEF g
<1>3. OnlyVad(g.out) /\ SpanOK(g) /\ g.out \in Seq(Frames)
  <2>1. OnlyVad(stt.out)
    BY <1>1 DEF OnlyVad
  <2>. QED
    BY <1>1, <1>2, <2>1, VadMoreIs, NoEndpointIs DEF SpanOK, Stt
<1>4. CASE wasOpen
  <2>. DEFINE c == CloseTurn(g, "reset")
  <2>1. Commit(c) /\ input' = [Idle EXCEPT !.pc = "reset_closing", !.kind = kind]
    BY <1>4 DEF ResetTail, g
  <2>2. input' \in Input /\ input'.pc = "reset_closing"
    BY <2>1, InputTypes
  <2>3. /\ c \in Stt /\ c.closing = "reset" /\ c.turnOpen = g.turnOpen
        /\ c.endpoint = g.endpoint /\ c.endpointId = g.endpointId /\ c.endpoints = g.endpoints
        /\ c.speechActive = g.speechActive
        /\ \E f \in Frames : f.kind = "stopped" /\ c.out = Append(g.out, f)
    BY <1>2, CloseTurnIs
  <2>. HIDE DEF c
  <2>4. PICK f \in Frames : f.kind = "stopped" /\ c.out = Append(g.out, f)
    BY <2>3
  <2>5. InTurn(g.out, stt.turnOpen, TRUE)
    <3>1. stt.turnOpen = TRUE
      BY <1>1, <1>4 DEF Stt
    <3>2. ~Has(g.out, {"started"}) /\ \A i \in DOMAIN g.out : g.out[i].kind \notin {"started", "stopped", "interruption"}
      BY <1>3 DEF OnlyVad, VadKinds, Has
    <3>. QED
      BY <3>1, <3>2 DEF InTurn
  <2>6. /\ stt' \in Stt /\ stt'.out = <<>> /\ SameSpan(c, stt') /\ stt'.turnOpen = c.turnOpen
        /\ aggInput' \in Seq(Frames) /\ Queues(c.out) /\ c.out \in Seq(Frames)
    BY <2>1, <2>3, CommitIs DEF Ready
  <2>7. Queues(Append(g.out, f)) /\ stt'.closing # "none"
    BY <2>3, <2>4, <2>6 DEF SameSpan
  <2>8. QueueInv'
    BY <1>3, <2>4, <2>5, <2>7, StopStep DEF Ready
  <2>9. ServiceOK(c, input')
    BY <1>2, <1>3, <2>2, <2>3, NoEndpointIs DEF ServiceOK, Cancelling, SpanOK
  <2>10. ServiceOK(stt', input')
    BY <2>6, <2>9, SameService
  <2>. QED
    BY <2>2, <2>3, <2>6, <2>8, <2>10 DEF SameSpan, Served, Done, InService, Closes
<1>5. CASE ~wasOpen
  <2>. DEFINE c == ControlDone(g, kind)
  <2>1. Commit(c) /\ input' = Idle
    BY <1>5 DEF ResetTail, g
  <2>2. input' \in Input /\ input'.pc = "idle"
    BY <2>1, InputTypes
  <2>3. /\ c \in Stt /\ SameSpan(g, c) /\ c.turnOpen = g.turnOpen
        /\ \/ c.out = g.out
           \/ \E f \in Frames : f.kind = "interruption" /\ c.out = Append(g.out, f)
    BY <1>2, ControlDoneIs
  <2>. HIDE DEF c
  <2>4. c.closing = "none" /\ c.turnOpen = stt.turnOpen /\ ServiceOK(c, input')
    <3>1. c.closing = "none" /\ ~c.turnOpen /\ SpanOK(c)
      BY <1>2, <1>3, <2>3 DEF SameSpan, SpanOK
    <3>2. c.turnOpen = stt.turnOpen
      BY <1>1, <1>5, <2>3, <3>1 DEF Stt
    <3>. QED
      BY <2>2, <3>1, <3>2 DEF ServiceOK, Cancelling
  <2>5. CASE c.out = g.out
    BY <1>3, <2>1, <2>2, <2>3, <2>4, <2>5, MildServed
  <2>6. ASSUME NEW f \in Frames, f.kind = "interruption", c.out = Append(g.out, f)
        PROVE  Served
    <3>1. /\ stt' \in Stt /\ stt'.out = <<>> /\ SameSpan(c, stt') /\ stt'.turnOpen = c.turnOpen
          /\ aggInput' \in Seq(Frames) /\ Queues(c.out) /\ c.out \in Seq(Frames)
      BY <2>1, <2>3, CommitIs DEF Ready
    <3>2. Queues(Append(g.out, f)) /\ stt'.closing = "none" /\ ~stt.turnOpen /\ ~stt'.turnOpen
      BY <1>5, <2>4, <2>6, <3>1 DEF SameSpan
    <3>3. QueueInv'
      BY <1>3, <2>6, <3>2, InterruptionStep DEF Ready
    <3>4. ServiceOK(stt', input')
      BY <2>4, <3>1, SameService
    <3>. QED
      BY <2>2, <3>1, <3>2, <3>3, <3>4 DEF Served, Done, InService, Closes
  <2>. QED
    BY <2>3, <2>5, <2>6
<1>. QED
  BY <1>4, <1>5

LEMMA ResetInputIs ==
    ASSUME Ready, NEW kind \in Kinds, input.pc \in {"idle", "reset_wait"}, ResetInput(kind), QueuesStay
    PROVE  Served
<1>1. /\ stt \in Stt /\ stt.out = <<>> /\ SpanOK(stt)
      /\ stt.closing # "none" => ~stt.speechActive
      /\ stt.closing = "endpoint" => stt.turnOpen
      /\ stt.closing # "reset"
  BY DEF Ready, TypeOK, InService, ServiceOK
<1>2. CASE stt.closing # "none"
  <2>1. /\ input' = [Idle EXCEPT !.pc = "reset_wait", !.kind = kind]
        /\ stt' = stt /\ aggInput' = aggInput
    BY <1>2 DEF ResetInput
  <2>2. input' \in Input /\ input'.pc = "reset_wait"
    BY <2>1, InputTypes
  <2>3. ServiceOK(stt, input')
    BY <1>1, <2>2 DEF ServiceOK, Cancelling
  <2>. QED
    BY <2>1, <2>2, <2>3, StillServed
<1>3. CASE stt.closing = "none" /\ TaskRuns(stt)
  <2>. DEFINE c == [stt EXCEPT !.endpointId = None, !.endpoint.state = "cancelling"]
              e == [stt.endpoint EXCEPT !.state = "cancelling"]
  <2>1. /\ Commit(c)
        /\ input' = [Idle EXCEPT !.pc = "reset_cancel", !.kind = kind, !.wasOpen = stt.turnOpen]
    BY <1>3 DEF ResetInput
  <2>2. input' \in Input /\ input'.pc = "reset_cancel" /\ input'.wasOpen = stt.turnOpen
    <3>1. stt.turnOpen \in BOOLEAN
      BY <1>1 DEF Stt
    <3>. QED
      BY <2>1, <3>1, ResetCancelInput
  <2>3. stt.endpoint \in Endpoint /\ e \in Endpoint /\ e.state = "cancelling" /\ e.id = stt.endpoint.id
    BY <1>1 DEF Stt, Endpoint
  <2>4. c = [stt EXCEPT !.endpointId = None, !.endpoint = e]
    OBVIOUS
  <2>. HIDE DEF c, e
  <2>5. None \in Nat
    BY DEF None
  <2>6. /\ c \in Stt /\ c.endpointId = None /\ c.endpoint = e /\ c.closing = stt.closing
        /\ c.turnOpen = stt.turnOpen /\ c.out = stt.out
    BY <1>1, <2>3, <2>4, <2>5, ZenonT(60) DEF Stt
  <2>7. ServiceOK(c, input') /\ OnlyVad(c.out)
    BY <1>1, <1>3, <2>2, <2>3, <2>6 DEF ServiceOK, Cancelling, SpanOK, TaskRuns, OnlyVad
  <2>. QED
    BY <2>1, <2>2, <2>6, <2>7, MildServed
<1>4. CASE stt.closing = "none" /\ ~TaskRuns(stt)
  BY <1>4, ResetTailIs DEF ResetInput
<1>. QED
  BY <1>2, <1>3, <1>4

LEMMA EventIs ==
    ASSUME NEW e \in Events
    PROVE  /\ IsControl(e) => e \in Scores \cup Signals
           /\ ~IsControl(e) => e \in DataEvents
           /\ e \in Scores => e.kind = "vad" /\ e.cutoff \in Nat
           /\ e \in Signals => e.kind \in LifecycleKinds \cup {"end_turn"}
           /\ e.kind = "transcription" => e \in Texts
           /\ e.kind = "endpoint" => e \in Acknowledgments /\ e.id # None
<1>1. /\ e \in Texts => e.kind = "transcription"
      /\ e \in Acknowledgments => e.kind = "endpoint" /\ e.id # None
      /\ e \in Scores => e.kind = "vad" /\ e.cutoff \in 0 .. MaxEnd
      /\ e \in Signals => e.kind \in LifecycleKinds \cup {"end_turn"}
  BY DEF Texts, Acknowledgments, Scores, Signals, None
<1>2. \A c \in 0 .. MaxEnd : c \in Nat
  OBVIOUS
<1>3. {"transcription", "endpoint"} \cap (LifecycleKinds \cup {"end_turn", "vad"}) = {}
  BY DEF LifecycleKinds, InterruptingKinds
<1>. QED
  BY <1>1, <1>2, <1>3 DEF Events, DataEvents, IsControl

LEMMA HandleScoreIs ==
    ASSUME Ready, NEW e, e.cutoff \in Nat, input.pc = "idle", HandleScore(e), QueuesStay
    PROVE  Served
<1>. DEFINE s == ExpireEarlyTranscripts(stt, e.cutoff)
<1>1. stt \in Stt /\ stt.out = <<>> /\ ServiceOK(stt, input) /\ input \in Input
      /\ epoch \in Nat /\ session \in Nat
  BY DEF Ready, TypeOK, InService
<1>2. s \in Stt /\ SameSpan(stt, s) /\ s.turnOpen = stt.turnOpen /\ s.out = stt.out
  BY <1>1, ExpireIs
<1>3. OnlyVad(s.out) /\ s.closing = stt.closing /\ s.out = <<>>
  BY <1>1, <1>2 DEF OnlyVad, SameSpan
<1>4. ServiceOK(s, input)
  BY <1>1, <1>2, SameService
<1>5. IF s.waitForQuiet
      THEN Commit([s EXCEPT !.waitForQuiet = e.state # "quiet"]) /\ input' = input
      ELSE IF e.state = "speaking" THEN BeginSpeech(s, "vad")
      ELSE /\ Commit(IF e.state = "quiet" /\ s.speechActive THEN EndSpeech(s) ELSE s)
           /\ input' = input
  BY DEF HandleScore
<1>. HIDE DEF s
<1>6. CASE s.waitForQuiet
  <2>. DEFINE c == [s EXCEPT !.waitForQuiet = e.state # "quiet"]
  <2>1. (e.state # "quiet") \in BOOLEAN
    OBVIOUS
  <2>2. c \in Stt /\ SameSpan(s, c) /\ c.turnOpen = s.turnOpen /\ c.out = s.out
    BY <1>2, <2>1, ZenonT(60) DEF Stt, SameSpan
  <2>3. Commit(c) /\ input' = input
    BY <1>5, <1>6
  <2>. HIDE DEF c
  <2>4. c.closing = stt.closing /\ c.turnOpen = stt.turnOpen /\ OnlyVad(c.out) /\ ServiceOK(c, input)
    BY <1>2, <1>3, <1>4, <2>2, SameService DEF SameSpan
  <2>. QED
    BY <1>1, <2>2, <2>3, <2>4, MildServed
<1>7. CASE ~s.waitForQuiet /\ e.state = "speaking"
  <2>1. BeginSpeech(s, "vad") /\ "vad" \in Kinds
    BY <1>5, <1>7 DEF Kinds
  <2>. QED
    BY <1>1, <1>2, <1>3, <2>1, BeginSpeechIs
<1>8. CASE ~s.waitForQuiet /\ e.state # "speaking" /\ ~(e.state = "quiet" /\ s.speechActive)
  <2>1. Commit(s) /\ input' = input
    BY <1>5, <1>8
  <2>. QED
    BY <1>1, <1>2, <1>3, <1>4, <2>1, MildServed
<1>9. CASE ~s.waitForQuiet /\ e.state # "speaking" /\ (e.state = "quiet" /\ s.speechActive)
  <2>. DEFINE c == EndSpeech(s)
  <2>1. Commit(c) /\ input' = input
    BY <1>5, <1>9
  <2>2. /\ c \in Stt /\ c.closing = s.closing /\ c.turnOpen = s.turnOpen /\ VadMore(s, c)
        /\ c.speechActive = FALSE /\ (SpanOK(s) => SpanOK(c))
    BY <1>1, <1>2, EndSpeechIs
  <2>. HIDE DEF c
  <2>3. OnlyVad(c.out)
    BY <1>2, <1>3, <2>2, VadMoreIs
  <2>4. ServiceOK(c, input)
    BY <1>1, <1>4, <2>2 DEF ServiceOK, Cancelling
  <2>5. c.closing = stt.closing /\ c.turnOpen = stt.turnOpen
    BY <1>2, <1>3, <2>2
  <2>. QED
    BY <1>1, <2>1, <2>2, <2>3, <2>4, <2>5, MildServed
<1>. QED
  BY <1>6, <1>7, <1>8, <1>9

LEMMA HandleEndTurnIs ==
    ASSUME Ready, input.pc = "idle", HandleEndTurn, QueuesStay
    PROVE  Served
<1>. DEFINE s == [stt EXCEPT !.waitForQuiet = stt.speechActive]
            c == EndSpeech(s)
<1>1. stt \in Stt /\ stt.out = <<>> /\ ServiceOK(stt, input) /\ input \in Input
      /\ epoch \in Nat /\ session \in Nat
  BY DEF Ready, TypeOK, InService
<1>2. CASE ~stt.turnOpen /\ stt.buffered # <<>>
  <2>1. BeginSpeech(stt, "end_turn") /\ SameSpan(stt, stt) /\ "end_turn" \in Kinds
    BY <1>2 DEF HandleEndTurn, SameSpan, Kinds
  <2>. QED
    BY <1>1, <2>1, BeginSpeechIs
<1>3. CASE ~(~stt.turnOpen /\ stt.buffered # <<>>)
  <2>1. Commit(c) /\ input' = input
    BY <1>3 DEF HandleEndTurn
  <2>2. stt.speechActive \in BOOLEAN
    BY <1>1 DEF Stt
  <2>3. s \in Stt /\ SameSpan(stt, s) /\ s.turnOpen = stt.turnOpen /\ s.out = stt.out
    BY <1>1, <2>2, ZenonT(60) DEF Stt, SameSpan
  <2>. HIDE DEF s
  <2>4. /\ c \in Stt /\ c.closing = s.closing /\ c.turnOpen = s.turnOpen /\ VadMore(s, c)
        /\ c.speechActive = FALSE /\ (SpanOK(s) => SpanOK(c))
    BY <1>1, <2>3, EndSpeechIs
  <2>. HIDE DEF c
  <2>5. OnlyVad(s.out) /\ ServiceOK(s, input)
    BY <1>1, <2>3, SameService DEF OnlyVad
  <2>6. OnlyVad(c.out)
    BY <2>3, <2>4, <2>5, VadMoreIs
  <2>7. ServiceOK(c, input)
    BY <1>1, <2>4, <2>5 DEF ServiceOK, Cancelling
  <2>8. c.closing = stt.closing /\ c.turnOpen = stt.turnOpen
    BY <2>3, <2>4 DEF SameSpan
  <2>. QED
    BY <1>1, <2>1, <2>4, <2>6, <2>7, <2>8, MildServed
<1>. QED
  BY <1>2, <1>3

LEMMA ReadyService == Ready => /\ ServiceOK(stt, input) /\ stt \in Stt /\ stt.out = <<>> /\ input \in Input
                               /\ epoch \in Nat /\ session \in Nat /\ inbox \in Seq(Events)
                               /\ queued \in Seq(DataEvents)
  BY DEF Ready, TypeOK, InService

LEMMA HandleControlIs == ASSUME Ready, HandleControl PROVE Served
<1>. DEFINE e == inbox[NextControl]
<1>1. /\ input.pc = "idle" /\ Controls # {} /\ QueuesStay
      /\ IF Stale(e) \/ (e.kind = "vad" /\ ~Listening)
         THEN stt' = stt /\ input' = input /\ aggInput' = aggInput
         ELSE CASE e.kind = "vad" -> HandleScore(e)
                [] e.kind = "end_turn" -> HandleEndTurn
                [] e.kind \in LifecycleKinds -> ResetInput(e.kind)
  BY DEF HandleControl, QueuesStay
<1>2. e \in Events /\ IsControl(e)
  BY <1>1, NextControlIs, ReadyService
<1>. HIDE DEF e
<1>3. e.kind \in {"vad", "end_turn"} \cup LifecycleKinds /\ (e.kind = "vad" => e.cutoff \in Nat)
  <2>1. e \in Scores \cup Signals
    BY <1>2, EventIs
  <2>2. e \in Signals => e.kind # "vad"
    BY <1>2, EventIs DEF LifecycleKinds, InterruptingKinds
  <2>. QED
    BY <1>2, <2>1, <2>2, EventIs
<1>4. CASE Stale(e) \/ (e.kind = "vad" /\ ~Listening)
  BY <1>1, <1>4, StillServed, ReadyService
<1>5. CASE ~(Stale(e) \/ (e.kind = "vad" /\ ~Listening)) /\ e.kind = "vad"
  <2>1. HandleScore(e)
    BY <1>1, <1>5 DEF LifecycleKinds, InterruptingKinds
  <2>. QED
    BY <1>1, <1>3, <1>5, <2>1, HandleScoreIs
<1>6. CASE ~(Stale(e) \/ (e.kind = "vad" /\ ~Listening)) /\ e.kind = "end_turn"
  <2>1. HandleEndTurn
    BY <1>1, <1>6 DEF LifecycleKinds, InterruptingKinds
  <2>. QED
    BY <1>1, <2>1, HandleEndTurnIs
<1>7. CASE ~(Stale(e) \/ (e.kind = "vad" /\ ~Listening)) /\ e.kind \in LifecycleKinds
  <2>1. ResetInput(e.kind) /\ e.kind \in Kinds
    BY <1>1, <1>7 DEF LifecycleKinds, InterruptingKinds, Kinds
  <2>. QED
    BY <1>1, <2>1, ResetInputIs
<1>. QED
  BY <1>3, <1>4, <1>5, <1>6, <1>7

LEMMA InputAfterClosingIs == ASSUME Ready, InputAfterClosing PROVE Served
<1>1. /\ stt.closing = "none" /\ QueuesStay
      /\ CASE input.pc = "begin_wait" ->
                 IF Listening /\ session = input.session /\ epoch = input.epoch
                 THEN BeginSpeech(stt, input.kind)
                 ELSE input' = Idle /\ stt' = stt /\ aggInput' = aggInput
           [] input.pc = "reset_wait" -> ResetInput(input.kind)
           [] input.pc = "reset_closing" -> Commit(ControlDone(stt, input.kind)) /\ input' = Idle
           [] OTHER -> FALSE
  BY DEF InputAfterClosing, QueuesStay
<1>2. input \in Input /\ input.kind \in Kinds
  BY ReadyService DEF Input, Kinds
<1>3. CASE input.pc = "begin_wait"
  <2>1. CASE Listening /\ session = input.session /\ epoch = input.epoch
    <3>1. BeginSpeech(stt, input.kind)
      BY <1>1, <1>3, <2>1
    <3>2. SameSpan(stt, stt) /\ stt \in Stt /\ stt.out = <<>>
      BY ReadyService DEF SameSpan
    <3>. QED
      BY <1>1, <1>2, <1>3, <3>1, <3>2, BeginSpeechIs
  <2>2. CASE ~(Listening /\ session = input.session /\ epoch = input.epoch)
    <3>1. input' = Idle /\ stt' = stt /\ aggInput' = aggInput
      BY <1>1, <1>3, <2>2
    <3>2. ServiceOK(stt, input')
      BY <1>1, <3>1, ReadyService, InputTypes DEF ServiceOK, Cancelling
    <3>. QED
      BY <1>1, <3>1, <3>2, InputTypes, StillServed
  <2>. QED
    BY <2>1, <2>2
<1>4. CASE input.pc = "reset_wait"
  <2>1. ResetInput(input.kind)
    BY <1>1, <1>4
  <2>. QED
    BY <1>1, <1>2, <1>4, <2>1, ResetInputIs
<1>5. CASE input.pc = "reset_closing"
  <2>. DEFINE c == ControlDone(stt, input.kind)
  <2>1. Commit(c) /\ input' = Idle
    BY <1>1, <1>5
  <2>2. input' \in Input /\ input'.pc = "idle"
    BY <2>1, InputTypes
  <2>3. /\ c \in Stt /\ SameSpan(stt, c) /\ c.turnOpen = stt.turnOpen
        /\ \/ c.out = stt.out
           \/ \E f \in Frames : f.kind = "interruption" /\ c.out = Append(stt.out, f)
    BY ReadyService, ControlDoneIs
  <2>. HIDE DEF c
  <2>4. ~stt.turnOpen /\ SpanOK(stt) /\ OnlyVad(stt.out) /\ stt.out \in Seq(Frames)
    BY <1>5, ReadyService DEF ServiceOK, OnlyVad, Stt
  <2>5. c.closing = "none" /\ ~c.turnOpen /\ ServiceOK(c, input')
    BY <1>1, <2>2, <2>3, <2>4 DEF ServiceOK, Cancelling, SpanOK, SameSpan
  <2>6. CASE c.out = stt.out
    BY <1>1, <2>1, <2>2, <2>3, <2>4, <2>5, <2>6, MildServed
  <2>7. ASSUME NEW f \in Frames, f.kind = "interruption", c.out = Append(stt.out, f)
        PROVE  Served
    <3>1. /\ stt' \in Stt /\ stt'.out = <<>> /\ SameSpan(c, stt') /\ stt'.turnOpen = c.turnOpen
          /\ aggInput' \in Seq(Frames) /\ Queues(c.out) /\ c.out \in Seq(Frames)
      BY <1>1, <2>1, <2>3, CommitIs DEF Ready
    <3>2. Queues(Append(stt.out, f)) /\ stt'.closing = "none" /\ ~stt'.turnOpen
      BY <2>5, <2>7, <3>1 DEF SameSpan
    <3>3. QueueInv'
      BY <1>1, <2>4, <2>7, <3>2, InterruptionStep DEF Ready
    <3>4. ServiceOK(stt', input')
      BY <2>5, <3>1, SameService
    <3>. QED
      BY <2>2, <3>1, <3>2, <3>3, <3>4 DEF Served, Done, InService, Closes
  <2>. QED
    BY <2>3, <2>6, <2>7
<1>. QED
  BY <1>1, <1>3, <1>4, <1>5

LEMMA InputAfterCancelIs == ASSUME Ready, InputAfterCancel PROVE Served
<1>1. /\ QueuesStay
      /\ CASE input.pc = "begin_cancel" -> Commit(SpeechBegun(stt, input.kind)) /\ input' = Idle
           [] input.pc = "reset_cancel" -> ResetTail(input.kind, input.wasOpen)
           [] OTHER -> FALSE
  BY DEF InputAfterCancel, QueuesStay
<1>2. input \in Input /\ input.kind \in Kinds
  BY ReadyService DEF Input, Kinds
<1>3. stt.closing = "none" /\ SpanOK(stt)
  BY <1>1, ReadyService DEF ServiceOK, Cancelling
<1>4. CASE input.pc = "begin_cancel"
  <2>. DEFINE g == SpeechBegun(stt, input.kind)
  <2>1. Commit(g) /\ input' = Idle
    BY <1>1, <1>4
  <2>2. Begins(stt, stt.turnOpen) /\ stt.turnOpen \in BOOLEAN
    BY <1>3, BeginsWithNothing, ReadyService DEF Stt
  <2>3. g \in Stt /\ Begins(g, stt.turnOpen) /\ SpanOK(g)
    BY <1>3, <2>2, SpeechBegunIs, ReadyService
  <2>. HIDE DEF g
  <2>4. input' \in Input /\ input'.pc = "idle"
    BY <2>1, InputTypes
  <2>5. ServiceOK(g, input')
    BY <2>3, <2>4 DEF ServiceOK, Begins, Cancelling
  <2>. QED
    BY <1>1, <1>3, <2>1, <2>3, <2>4, <2>5, TurnServed
<1>5. CASE input.pc = "reset_cancel"
  <2>1. ResetTail(input.kind, input.wasOpen) /\ input.wasOpen = stt.turnOpen
    BY <1>1, <1>5, ReadyService DEF ServiceOK
  <2>. QED
    BY <1>1, <1>2, <1>3, <2>1, ResetTailIs
<1>. QED
  BY <1>1, <1>4, <1>5

LEMMA HandleTranscriptionIs == ASSUME Ready, HandleTranscription PROVE Served
<1>. DEFINE e == Head(queued)
            g == Transcription(stt, e)
<1>1. /\ queued # <<>> /\ e.kind = "transcription" /\ stt.closing # "endpoint" /\ QueuesStay /\ input' = input
      /\ Commit(IF Stale(e) \/ ~Listening THEN stt ELSE g)
  BY DEF HandleTranscription, Handling, QueuesStay
<1>2. e \in DataEvents
  BY <1>1, ReadyService
<1>. HIDE DEF e
<1>3. e \in Texts
  BY <1>1, <1>2 DEF DataEvents, Acknowledgments
<1>4. /\ stt.closing = "none" => Begins(stt, stt.turnOpen)
      /\ stt.closing # "none" => ~stt.turnOpen /\ ~stt.speechActive
      /\ stt.turnOpen \in BOOLEAN
  <2>1. stt.closing = "none" \/ stt.closing = "reset"
    BY <1>1, ReadyService DEF Stt, Closers
  <2>. QED
    BY <2>1, ReadyService, BeginsWithNothing DEF ServiceOK, Stt
<1>5. CASE Stale(e) \/ ~Listening
  <2>1. Commit(stt) /\ OnlyVad(stt.out)
    BY <1>1, <1>5, ReadyService DEF OnlyVad
  <2>. QED
    BY <1>1, <2>1, MildServed, ReadyService
<1>6. CASE ~(Stale(e) \/ ~Listening)
  <2>1. Commit(g)
    BY <1>1, <1>6
  <2>2. /\ g \in Stt /\ SameSpan(stt, g)
        /\ stt.turnOpen \/ ~stt.speechActive \/ stt.endpoint.state # "none" => g.turnOpen = stt.turnOpen
        /\ stt.closing = "none" => Begins(g, stt.turnOpen)
        /\ stt.closing # "none" => g.out = stt.out
    BY <1>3, <1>4, TranscriptionIs, ReadyService
  <2>. HIDE DEF g
  <2>3. stt.closing # "none" \/ input.pc \in Cancelling \/ input.pc = "reset_closing"
            => g.turnOpen = stt.turnOpen
    BY <1>4, <2>2, ReadyService DEF ServiceOK
  <2>4. ServiceOK(g, input)
    BY <1>4, <2>2, <2>3, ReadyService DEF ServiceOK, SpanOK, SameSpan, Cancelling
  <2>5. CASE stt.closing = "none"
    BY <1>1, <2>1, <2>2, <2>4, <2>5, TurnServed, ReadyService
  <2>6. CASE stt.closing # "none"
    <3>1. OnlyVad(g.out) /\ g.turnOpen = stt.turnOpen /\ g.closing = stt.closing
      BY <2>2, <2>3, <2>6, ReadyService DEF OnlyVad, SameSpan
    <3>. QED
      BY <1>1, <2>1, <2>2, <2>4, <3>1, MildServed, ReadyService
  <2>. QED
    BY <2>5, <2>6
<1>. QED
  BY <1>5, <1>6

\* Only an acknowledgment of the latest span of speech gets past the guard.
LEMMA AcknowledgedIs ==
    ASSUME Ready, HandleEndpoint, ~Stale(Head(queued)), Acknowledges(Head(queued))
    PROVE  /\ Commit(EndpointAcknowledged) /\ QueuesStay /\ input' = input
           /\ stt.closing = "none" /\ ~stt.speechActive /\ input.pc \notin Cancelling
           /\ input.pc # "reset_closing" /\ Head(queued).id = stt.endpoints
<1>. DEFINE e == Head(queued)
<1>1. /\ queued # <<>> /\ e.kind = "endpoint" /\ stt.closing # "endpoint" /\ QueuesStay /\ input' = input
      /\ Commit(EndpointAcknowledged)
      /\ e.id = stt.endpointId /\ ~stt.speechActive /\ stt.endpoint.state # "none"
  BY DEF HandleEndpoint, Handling, QueuesStay, Acknowledges
<1>2. e \in DataEvents
  BY <1>1, ReadyService
<1>. HIDE DEF e
<1>3. e.id # None
  BY <1>1, <1>2, EventIs DEF Events
<1>4. input.pc \notin Cancelling /\ input.pc # "reset_closing" /\ e.id = stt.endpoints
  BY <1>1, <1>3, ReadyService DEF ServiceOK, SpanOK
<1>5. stt.closing = "none"
  BY <1>1, <1>4, ReadyService DEF ServiceOK, Stt, Closers
<1>. QED
  BY <1>1, <1>4, <1>5 DEF e

LEMMA HandleEndpointIs ==
    ASSUME Ready, HandleEndpoint
    PROVE  Done /\ (Closes => ~Stale(Head(queued)) /\ Acknowledges(Head(queued)))
<1>. DEFINE e == Head(queued)
            g == EndpointAcknowledged
<1>1. CASE Stale(e) \/ ~Acknowledges(e)
  <2>1. Commit(stt) /\ OnlyVad(stt.out) /\ QueuesStay /\ input' = input
    BY <1>1, ReadyService DEF HandleEndpoint, QueuesStay, OnlyVad
  <2>. QED
    BY <2>1, MildServed, ReadyService DEF Served
<1>2. CASE ~(Stale(e) \/ ~Acknowledges(e))
  <2>1. /\ Commit(g) /\ QueuesStay /\ input' = input /\ stt.closing = "none" /\ ~stt.speechActive
        /\ input.pc \notin Cancelling /\ input.pc # "reset_closing"
    BY <1>2, AcknowledgedIs
  <2>2. /\ g \in Stt /\ SpanOK(g)
        /\ \/ Begins(g, stt.turnOpen)
           \/ /\ g.closing = "endpoint" /\ g.turnOpen /\ ~g.speechActive
              /\ \E o \in Seq(Frames), f \in Frames :
                    f.kind = "stopped" /\ InTurn(o, stt.turnOpen, TRUE) /\ g.out = Append(o, f)
    BY <2>1, ReadyService, EndpointAcknowledgedIs
  <2>. HIDE DEF g
  <2>3. CASE Begins(g, stt.turnOpen)
    <3>1. ServiceOK(g, input')
      BY <2>1, <2>2, <2>3 DEF ServiceOK, Begins, Cancelling
    <3>. QED
      BY <1>2, <2>1, <2>2, <2>3, <3>1, TurnServed, ReadyService DEF Served
  <2>4. CASE ~Begins(g, stt.turnOpen)
    <3>1. PICK o \in Seq(Frames), f \in Frames :
                  f.kind = "stopped" /\ InTurn(o, stt.turnOpen, TRUE) /\ g.out = Append(o, f)
      BY <2>2, <2>4
    <3>2. g.closing = "endpoint" /\ g.turnOpen /\ ~g.speechActive
      BY <2>2, <2>4
    <3>3. /\ stt' \in Stt /\ stt'.out = <<>> /\ SameSpan(g, stt') /\ stt'.turnOpen = g.turnOpen
          /\ aggInput' \in Seq(Frames) /\ Queues(g.out) /\ g.out \in Seq(Frames)
      BY <2>1, <2>2, CommitIs DEF Ready
    <3>4. Queues(Append(o, f)) /\ stt'.closing # "none"
      BY <3>1, <3>2, <3>3 DEF SameSpan
    <3>5. QueueInv'
      BY <2>1, <3>1, <3>4, StopStep DEF Ready
    <3>6. ServiceOK(g, input')
      BY <2>1, <2>2, <3>2 DEF ServiceOK, Cancelling
    <3>7. ServiceOK(stt', input')
      BY <3>3, <3>6, SameService
    <3>. QED
      BY <1>2, <2>1, <3>3, <3>5, <3>7, ReadyService DEF Done, InService
  <2>. QED
    BY <2>3, <2>4
<1>. QED
  BY <1>1, <1>2

LEMMA FinalizeBeginsIs == ASSUME Ready, FinalizeBegins PROVE Served
<1>. DEFINE state == IF Unchanged(stt.endpoint) THEN "waiting" ELSE "over"
            e == [stt.endpoint EXCEPT !.state = state]
<1>1. /\ stt.endpoint.state = "created" /\ stt' = [stt EXCEPT !.endpoint.state = state]
      /\ aggInput' = aggInput /\ input' = input /\ QueuesStay
  BY DEF FinalizeBegins, QueuesStay, aggregator
<1>2. stt.endpoint \in Endpoint /\ state \in {"waiting", "over"}
  BY ReadyService DEF Stt
<1>. HIDE DEF state
<1>3. e \in Endpoint /\ e.state # "none" /\ e.id = stt.endpoint.id
  BY <1>2 DEF Endpoint
<1>4. stt' = [stt EXCEPT !.endpoint = e]
  BY <1>1
<1>. HIDE DEF e
<1>5. /\ stt' \in Stt /\ stt'.out = stt.out /\ stt'.endpoint = e /\ stt'.closing = stt.closing
      /\ stt'.turnOpen = stt.turnOpen /\ stt'.endpointId = stt.endpointId
      /\ stt'.endpoints = stt.endpoints /\ stt'.speechActive = stt.speechActive
  BY <1>3, <1>4, ReadyService, ZenonT(60) DEF Stt
<1>6. ServiceOK(stt', input)
  BY <1>1, <1>3, <1>5, ReadyService DEF ServiceOK, SpanOK, Cancelling
<1>7. QueueInv'
  BY <1>1, <1>5 DEF Ready, QueueInv, Closed, OneStart, StopKept, Stopping, OnlyData, NothingOvertaken, QueuesStay
<1>. QED
  BY <1>1, <1>5, <1>6, <1>7, ReadyService DEF Served, Done, InService, Ready, TypeOK, Closes

LEMMA FinalizeEndsIs == ASSUME Ready, FinalizeEnds PROVE Served
<1>. DEFINE e == [stt.endpoint EXCEPT !.state = "over"]
<1>1. /\ stt.endpoint.state = "waiting" /\ stt' = [stt EXCEPT !.endpoint.state = "over"]
      /\ aggInput' = aggInput /\ input' = input /\ QueuesStay
  BY DEF FinalizeEnds, QueuesStay, aggregator
<1>2. stt.endpoint \in Endpoint
  BY ReadyService DEF Stt
<1>3. e \in Endpoint /\ e.state # "none" /\ e.id = stt.endpoint.id
  BY <1>2 DEF Endpoint
<1>4. stt' = [stt EXCEPT !.endpoint = e]
  BY <1>1
<1>. HIDE DEF e
<1>5. /\ stt' \in Stt /\ stt'.out = stt.out /\ stt'.endpoint = e /\ stt'.closing = stt.closing
      /\ stt'.turnOpen = stt.turnOpen /\ stt'.endpointId = stt.endpointId
      /\ stt'.endpoints = stt.endpoints /\ stt'.speechActive = stt.speechActive
  BY <1>3, <1>4, ReadyService, ZenonT(60) DEF Stt
<1>6. ServiceOK(stt', input)
  BY <1>1, <1>3, <1>5, ReadyService DEF ServiceOK, SpanOK, Cancelling
<1>7. QueueInv'
  BY <1>1, <1>5 DEF Ready, QueueInv, Closed, OneStart, StopKept, Stopping, OnlyData, NothingOvertaken, QueuesStay
<1>. QED
  BY <1>1, <1>5, <1>6, <1>7, ReadyService DEF Served, Done, InService, Ready, TypeOK, Closes

LEMMA FinalizeFailsIs == ASSUME Ready, FinalizeFails PROVE Served
<1>1. /\ stt.endpoint.state = "waiting" /\ input' = input /\ QueuesStay
      /\ IF Unchanged(stt.endpoint) /\ stt.endpointId = stt.endpoint.id
         THEN Commit([stt EXCEPT !.endpoint = NoEndpoint, !.endpointId = None,
                        !.acousticPending = FALSE, !.buffered = <<>>, !.failed = TRUE])
         ELSE Commit([stt EXCEPT !.endpoint.state = "over"])
  BY DEF FinalizeFails, QueuesStay
<1>2. stt.endpoint \in Endpoint /\ stt.endpoint.state # "none" /\ stt.endpoint.state # "cancelling"
  BY <1>1, ReadyService DEF Stt
<1>3. input.pc \notin Cancelling /\ input.pc # "reset_closing"
  BY <1>2, ReadyService DEF ServiceOK
<1>4. OnlyVad(stt.out)
  BY ReadyService DEF OnlyVad
<1>5. CASE Unchanged(stt.endpoint) /\ stt.endpointId = stt.endpoint.id
  <2>. DEFINE c == [stt EXCEPT !.endpoint = NoEndpoint, !.endpointId = None,
                               !.acousticPending = FALSE, !.buffered = <<>>, !.failed = TRUE]
  <2>1. Commit(c)
    BY <1>1, <1>5
  <2>2. None \in Nat /\ <<>> \in Seq(Texts)
    BY DEF None
  <2>3. /\ c \in Stt /\ c.out = stt.out /\ c.endpoint = NoEndpoint /\ c.closing = stt.closing
        /\ c.turnOpen = stt.turnOpen /\ c.endpointId = None /\ c.speechActive = stt.speechActive
    BY <2>2, NoEndpointIs, ReadyService, ZenonT(60) DEF Stt
  <2>. HIDE DEF c
  <2>4. ServiceOK(c, input)
    BY <1>3, <2>3, NoEndpointIs, ReadyService DEF ServiceOK, SpanOK, Cancelling
  <2>. QED
    BY <1>1, <1>4, <2>1, <2>3, <2>4, MildServed, ReadyService
<1>6. CASE ~(Unchanged(stt.endpoint) /\ stt.endpointId = stt.endpoint.id)
  <2>. DEFINE c == [stt EXCEPT !.endpoint.state = "over"]
              e == [stt.endpoint EXCEPT !.state = "over"]
  <2>1. Commit(c)
    BY <1>1, <1>6
  <2>2. e \in Endpoint /\ e.state # "none" /\ e.id = stt.endpoint.id
    BY <1>2 DEF Endpoint
  <2>3. c = [stt EXCEPT !.endpoint = e]
    OBVIOUS
  <2>. HIDE DEF c, e
  <2>4. /\ c \in Stt /\ c.out = stt.out /\ c.endpoint = e /\ c.closing = stt.closing
        /\ c.turnOpen = stt.turnOpen /\ c.endpointId = stt.endpointId
        /\ c.endpoints = stt.endpoints /\ c.speechActive = stt.speechActive
    BY <2>2, <2>3, ReadyService, ZenonT(60) DEF Stt
  <2>5. ServiceOK(c, input)
    BY <1>2, <1>3, <2>2, <2>4, ReadyService DEF ServiceOK, SpanOK, Cancelling
  <2>. QED
    BY <1>1, <1>4, <2>1, <2>4, <2>5, MildServed, ReadyService
<1>. QED
  BY <1>5, <1>6

-----------------------------------------------------------------------------
(* The frames on their way to the service *)

Arrivals == inbox \in Seq(Events) /\ queued \in Seq(DataEvents) /\ words \in Nat /\ Ordered

LEMMA BehindWords ==
    ASSUME Arrivals
    PROVE  /\ \A i \in DOMAIN queued : queued[i].kind = "endpoint" => queued[i].nr \in Nat
           /\ \A i \in DOMAIN inbox : inbox[i].kind = "endpoint" => inbox[i].nr \in Nat
<1>1. \A e \in Events : e.kind = "endpoint" => e.nr \in Nat
  BY EventIs DEF Acknowledgments
<1>. QED
  BY <1>1 DEF Arrivals, Events

LEMMA Received ==
    ASSUME Arrivals, NEW e \in Events, inbox' = Append(inbox, e), queued' = queued,
           words' \in Nat, words <= words',
           e.kind = "transcription" => e.nr = words + 1,
           e.kind = "endpoint" => e.nr = words
    PROVE  Arrivals'
<1>1. /\ inbox' \in Seq(Events)
      /\ \A k \in DOMAIN inbox' : \/ k \in DOMAIN inbox /\ inbox'[k] = inbox[k] /\ k < Len(inbox) + 1
                                  \/ k = Len(inbox) + 1 /\ inbox'[k] = e
      /\ Len(inbox) \in Nat
  BY Appended DEF Arrivals
<1>2. words \in Nat
  BY DEF Arrivals
<1>3. /\ \A i \in DOMAIN queued : queued[i].kind = "endpoint" => queued[i].nr \in Nat /\ queued[i].nr <= words
      /\ \A i \in DOMAIN inbox : inbox[i].kind = "endpoint" => inbox[i].nr \in Nat /\ inbox[i].nr <= words
  BY BehindWords DEF Arrivals, Ordered
<1>4. \A i \in DOMAIN queued : Behind(queued[i], e)
  BY <1>2, <1>3 DEF Behind
<1>5. \A i \in DOMAIN inbox : Behind(inbox[i], e)
  BY <1>2, <1>3 DEF Behind
<1>6. ASSUME NEW i \in DOMAIN inbox', NEW j \in DOMAIN inbox', i < j
      PROVE  Behind(inbox'[i], inbox'[j])
  <2>1. i \in DOMAIN inbox /\ inbox'[i] = inbox[i]
    <3>1. DOMAIN inbox' = 1 .. Len(inbox')
      BY <1>1
    <3>. QED
      BY <1>1, <1>6, <3>1
  <2>2. CASE j \in DOMAIN inbox /\ inbox'[j] = inbox[j]
    BY <1>6, <2>1, <2>2 DEF Arrivals, Ordered
  <2>3. CASE inbox'[j] = e
    BY <1>5, <2>1, <2>3
  <2>. QED
    BY <1>1, <2>2, <2>3
<1>7. \A i \in DOMAIN queued, j \in DOMAIN inbox' : Behind(queued[i], inbox'[j])
  BY <1>1, <1>4 DEF Arrivals, Ordered
<1>8. \A i \in DOMAIN queued : queued[i].kind = "endpoint" => queued[i].nr <= words'
  BY <1>2, <1>3
<1>9. \A i \in DOMAIN inbox' : inbox'[i].kind = "endpoint" => inbox'[i].nr <= words'
  BY <1>1, <1>2, <1>3
<1>. QED
  BY <1>1, <1>6, <1>7, <1>8, <1>9 DEF Arrivals, Ordered

LEMMA ControlTaken ==
    ASSUME Arrivals, NEW n \in DOMAIN inbox, inbox' = RemoveAt(inbox, n), queued' = queued, words' = words
    PROVE  Arrivals'
<1>1. /\ inbox' \in Seq(Events)
      /\ \A k \in DOMAIN inbox' : From(n, k) \in DOMAIN inbox /\ inbox'[k] = inbox[From(n, k)]
      /\ \A j, k \in DOMAIN inbox' : j < k <=> From(n, j) < From(n, k)
  BY Removed, SMTT(60) DEF Arrivals
<1>2. \A i, j \in DOMAIN inbox' : i < j => Behind(inbox'[i], inbox'[j])
  BY <1>1 DEF Arrivals, Ordered
<1>3. \A i \in DOMAIN queued, j \in DOMAIN inbox' : Behind(queued[i], inbox'[j])
  BY <1>1 DEF Arrivals, Ordered
<1>4. \A i \in DOMAIN inbox' : inbox'[i].kind = "endpoint" => inbox'[i].nr <= words
  BY <1>1 DEF Arrivals, Ordered
<1>. QED
  BY <1>1, <1>2, <1>3, <1>4 DEF Arrivals, Ordered

LEMMA DataHandled ==
    ASSUME Arrivals, queued # <<>>, queued' = Tail(queued), inbox' = inbox, words' = words
    PROVE  Arrivals'
<1>1. /\ queued' \in Seq(DataEvents)
      /\ \A k \in DOMAIN queued' : k \in Nat /\ k + 1 \in DOMAIN queued /\ queued'[k] = queued[k + 1]
  BY Shortened DEF Arrivals
<1>2. ASSUME NEW i \in DOMAIN queued', NEW j \in DOMAIN queued', i < j
      PROVE  Behind(queued'[i], queued'[j])
  <2>1. i + 1 < j + 1
    BY <1>1, <1>2
  <2>. QED
    BY <1>1, <2>1 DEF Arrivals, Ordered
<1>3. \A i \in DOMAIN queued', j \in DOMAIN inbox : Behind(queued'[i], inbox[j])
  BY <1>1 DEF Arrivals, Ordered
<1>4. \A i \in DOMAIN queued' : queued'[i].kind = "endpoint" => queued'[i].nr <= words
  BY <1>1 DEF Arrivals, Ordered
<1>. QED
  BY <1>1, <1>2, <1>3, <1>4 DEF Arrivals, Ordered

LEMMA DataAdmitted ==
    ASSUME Arrivals, inbox # <<>>, ~IsControl(Head(inbox)), queued' = Append(queued, Head(inbox)),
           inbox' = Tail(inbox), words' = words
    PROVE  Arrivals'
<1>. DEFINE e == Head(inbox)
<1>1. /\ inbox' \in Seq(Events) /\ 1 \in DOMAIN inbox /\ e = inbox[1] /\ e \in Events
      /\ \A k \in DOMAIN inbox' : k \in Nat /\ k + 1 \in DOMAIN inbox /\ k + 1 > 1 /\ inbox'[k] = inbox[k + 1]
  BY Shortened DEF Arrivals
<1>2. e \in DataEvents
  BY <1>1, EventIs
<1>3. queued' = Append(queued, e)
  OBVIOUS
<1>. HIDE DEF e
<1>4. /\ queued' \in Seq(DataEvents) /\ Len(queued) \in Nat
      /\ \A k \in DOMAIN queued' : \/ k \in DOMAIN queued /\ queued'[k] = queued[k] /\ k < Len(queued) + 1
                                   \/ k = Len(queued) + 1 /\ queued'[k] = e
  BY <1>2, <1>3, Appended DEF Arrivals
<1>5. ASSUME NEW i \in DOMAIN inbox', NEW j \in DOMAIN inbox', i < j
      PROVE  Behind(inbox'[i], inbox'[j])
  <2>1. i + 1 < j + 1
    BY <1>1, <1>5
  <2>. QED
    BY <1>1, <2>1 DEF Arrivals, Ordered
<1>6. \A j \in DOMAIN inbox' : Behind(e, inbox'[j])
  <2>1. \A j \in DOMAIN inbox' : 1 < j + 1
    BY <1>1
  <2>. QED
    BY <1>1, <2>1 DEF Arrivals, Ordered
<1>7. \A i \in DOMAIN queued', j \in DOMAIN inbox' : Behind(queued'[i], inbox'[j])
  BY <1>1, <1>4, <1>6 DEF Arrivals, Ordered
<1>8. ASSUME NEW i \in DOMAIN queued', NEW j \in DOMAIN queued', i < j
      PROVE  Behind(queued'[i], queued'[j])
  <2>1. i \in DOMAIN queued /\ queued'[i] = queued[i]
    <3>1. DOMAIN queued' = 1 .. Len(queued')
      BY <1>4
    <3>. QED
      BY <1>4, <1>8, <3>1
  <2>2. Behind(queued[i], e)
    BY <1>1, <2>1 DEF Arrivals, Ordered
  <2>. QED
    BY <1>4, <1>8, <2>1, <2>2 DEF Arrivals, Ordered
<1>9. \A i \in DOMAIN inbox' : inbox'[i].kind = "endpoint" => inbox'[i].nr <= words
  BY <1>1 DEF Arrivals, Ordered
<1>10. \A i \in DOMAIN queued' : queued'[i].kind = "endpoint" => queued'[i].nr <= words
  BY <1>1, <1>4 DEF Arrivals, Ordered
<1>. QED
  BY <1>1, <1>4, <1>5, <1>7, <1>8, <1>9, <1>10 DEF Arrivals, Ordered

-----------------------------------------------------------------------------
(* Every step keeps the invariant, and only an acknowledgment closes a turn *)

Clock == epoch \in Nat /\ session \in Nat

LEMMA InvParts == TurnInv <=> Ready /\ Arrivals /\ TurnInv
  BY DEF TurnInv, Ready, Arrivals, TypeOK

LEMMA Assembled ==
    ASSUME Arrivals', Clock', Done, aggQueue' \in Seq(Frames), userTurn' \in BOOLEAN
    PROVE  TurnInv'
  BY DEF Arrivals, Clock, Done, TurnInv, TypeOK

LEMMA ServiceStep ==
    ASSUME TurnInv, Arrivals', Done, QueuesStay, UNCHANGED feed
    PROVE  TurnInv'
<1>1. Clock' /\ aggQueue' \in Seq(Frames) /\ userTurn' \in BOOLEAN
  BY DEF TurnInv, TypeOK, Clock, QueuesStay, feed
<1>. QED
  BY <1>1, Assembled

\* Nothing but the arrivals changes for the service and the aggregator.
LEMMA OutsideStep ==
    ASSUME TurnInv, Arrivals', Clock', input' = input, UNCHANGED aggregator,
           stt' = stt \/ stt' = [stt EXCEPT !.turn = None]
    PROVE  TurnInv' /\ ~Closes
<1>1. /\ stt' \in Stt /\ stt'.out = stt.out /\ SameSpan(stt, stt') /\ stt'.turnOpen = stt.turnOpen
  <2>1. None \in Nat
    BY DEF None
  <2>2. CASE stt' = stt
    BY <2>2 DEF TurnInv, TypeOK, SameSpan
  <2>3. CASE stt' = [stt EXCEPT !.turn = None]
    <3>1. stt \in Stt
      BY DEF TurnInv, TypeOK
    <3>. QED
      BY <2>1, <2>3, <3>1, ZenonT(60) DEF Stt, SameSpan
  <2>. QED
    BY <2>2, <2>3
<1>2. /\ aggInput' = aggInput /\ aggQueue' = aggQueue /\ userTurn' = userTurn
  BY DEF aggregator
<1>3. QueueInv'
  <2>1. stt'.closing = stt.closing
    BY <1>1 DEF SameSpan
  <2>. QED
    BY <1>1, <1>2, <2>1 DEF TurnInv, QueueInv, Closed, OneStart, StopKept, Stopping, OnlyData, NothingOvertaken
<1>4. InService'
  <2>1. ServiceOK(stt, input)
    BY DEF TurnInv, InService
  <2>. QED
    BY <1>1, <2>1, SameService DEF InService
<1>5. Done /\ ~Closes
  BY <1>1, <1>2, <1>3, <1>4 DEF Done, Closes, SameSpan, TurnInv, TypeOK
<1>. QED
  BY <1>2, <1>5, Assembled DEF TurnInv, TypeOK

LEMMA ReceiveLifecycleIs ==
    ASSUME TurnInv, NEW kind \in LifecycleKinds, ReceiveLifecycle(kind)
    PROVE  TurnInv' /\ ~Closes
<1>. DEFINE to == IF kind = "reset" THEN None ELSE session'
            e == [kind |-> kind, epoch |-> epoch + 1, session |-> to]
<1>1. /\ epoch' = epoch + 1 /\ session' = (IF kind = "start" THEN session + 1 ELSE session)
      /\ stt' = (IF kind = "start" THEN [stt EXCEPT !.turn = None] ELSE stt)
      /\ inbox' = Append(inbox, e) /\ queued' = queued /\ input' = input /\ UNCHANGED aggregator
      /\ words' = words
  BY DEF ReceiveLifecycle, Receive
<1>2. Clock' /\ to \in Nat /\ epoch + 1 \in Nat
  BY <1>1 DEF TurnInv, TypeOK, Clock, None
<1>. HIDE DEF to
<1>3. e \in Events /\ e.kind \notin {"transcription", "endpoint"}
  BY <1>2 DEF Events, Signals, LifecycleKinds, InterruptingKinds
<1>. HIDE DEF e
<1>4. Arrivals'
  <2>1. words' \in Nat /\ words <= words' /\ Arrivals
    BY <1>1, InvParts DEF TurnInv, TypeOK
  <2>. QED
    BY <1>1, <1>3, <2>1, Received
<1>. QED
  BY <1>1, <1>2, <1>4, OutsideStep

LEMMA EnvironmentStep ==
    ASSUME TurnInv, Environment PROVE TurnInv' /\ ~Closes
<1>0. Ready /\ Arrivals /\ words \in Nat /\ epoch \in Nat /\ session \in Nat
  BY InvParts DEF TurnInv, TypeOK
<1>1. CASE UserControls
  BY <1>1, ReceiveLifecycleIs DEF UserControls
<1>2. CASE ErrorStops
  <2>1. CASE active
    <3>1. ReceiveLifecycle("stop") /\ "stop" \in LifecycleKinds
      BY <1>2, <2>1 DEF ErrorStops, LifecycleKinds, InterruptingKinds
    <3>. QED
      BY <3>1, ReceiveLifecycleIs
  <2>2. CASE ~active
    <3>1. /\ epoch' = epoch /\ session' = session /\ words' = words /\ stt' = stt /\ inbox' = inbox
          /\ queued' = queued /\ input' = input /\ UNCHANGED aggregator
      BY <1>2, <2>2 DEF ErrorStops
    <3>2. Arrivals' /\ Clock'
      BY <1>0, <3>1 DEF Arrivals, Ordered, Clock
    <3>. QED
      BY <3>1, <3>2, OutsideStep
  <2>. QED
    BY <2>1, <2>2
<1>3. CASE ReceiveScore
  <2>1. /\ epoch' = epoch /\ session' = session /\ words' = words /\ stt' = stt
        /\ queued' = queued /\ input' = input /\ UNCHANGED aggregator
    BY <1>3 DEF ReceiveScore
  <2>2. PICK e : inbox' = Append(inbox, e) /\ e \in Scores \cup Signals
    <3>1. CASE \E state \in VADStates, cutoff \in 0 .. MaxEnd :
                  Receive([kind |-> "vad", epoch |-> epoch, session |-> session,
                           state |-> state, cutoff |-> cutoff])
      BY <1>0, <3>1 DEF Receive, Scores
    <3>2. CASE Receive(Tagged("end_turn"))
      BY <1>0, <3>2 DEF Receive, Tagged, Signals
    <3>. QED
      BY <1>3, <3>1, <3>2 DEF ReceiveScore
  <2>3. e \in Events /\ e.kind \notin {"transcription", "endpoint"}
    BY <2>2 DEF Events, Signals, Scores, LifecycleKinds, InterruptingKinds
  <2>4. Arrivals' /\ Clock'
    BY <1>0, <2>1, <2>2, <2>3, Received DEF Clock
  <2>. QED
    BY <2>1, <2>4, OutsideStep
<1>4. CASE ReceiveTranscription
  <2>1. /\ epoch' = epoch /\ session' = session /\ words' = words + 1 /\ stt' = stt
        /\ queued' = queued /\ input' = input /\ UNCHANGED aggregator
    BY <1>4 DEF ReceiveTranscription
  <2>2. PICK end \in Ends, final \in BOOLEAN :
             inbox' = Append(inbox, [kind |-> "transcription", epoch |-> epoch, session |-> session,
                                     end |-> end, final |-> final, nr |-> words + 1])
    BY <1>4 DEF ReceiveTranscription, Receive
  <2>. DEFINE e == [kind |-> "transcription", epoch |-> epoch, session |-> session,
                    end |-> end, final |-> final, nr |-> words + 1]
  <2>3. e \in Events /\ e.kind = "transcription" /\ e.nr = words + 1 /\ inbox' = Append(inbox, e)
    BY <1>0, <2>2 DEF Events, DataEvents, Texts
  <2>. HIDE DEF e
  <2>4. words' \in Nat /\ words <= words' /\ e.kind # "endpoint"
    BY <1>0, <2>1, <2>3
  <2>5. Arrivals' /\ Clock'
    BY <1>0, <2>1, <2>3, <2>4, Received DEF Clock
  <2>. QED
    BY <2>1, <2>5, OutsideStep
<1>5. CASE WatchdogStops
  <2>1. /\ UNCHANGED <<feed, inbox, queued, stt, input, aggInput, aggQueue>> /\ userTurn' = FALSE
    BY <1>5 DEF WatchdogStops
  <2>2. Arrivals' /\ Clock'
    BY <1>0, <2>1 DEF Arrivals, Ordered, Clock, feed
  <2>3. QueueInv'
    BY <1>0, <2>1 DEF Ready, QueueInv, Closed, OneStart, StopKept, Stopping, OnlyData, NothingOvertaken
  <2>4. Done /\ ~Closes
    BY <1>0, <2>1, <2>3 DEF Done, Closes, Ready, TypeOK, InService
  <2>5. aggQueue' \in Seq(Frames) /\ userTurn' \in BOOLEAN
    BY <1>0, <2>1 DEF Ready, TypeOK
  <2>. QED
    BY <2>2, <2>4, <2>5, Assembled
<1>. QED
  BY <1>1, <1>2, <1>3, <1>4, <1>5 DEF Environment

LEMMA AggregatorStep ==
    ASSUME TurnInv, Aggregator PROVE TurnInv' /\ ~Closes
<1>0. Ready /\ Arrivals /\ TypeOK /\ QueueInv /\ InService
  BY InvParts DEF TurnInv
<1>1. CASE AggregatorSystem
  <2>1. UNCHANGED <<feed, inbox, queued, stt, input>>
    BY <1>1 DEF AggregatorSystem
  <2>2. QueueInv' /\ aggInput' \in Seq(Frames) /\ aggQueue' \in Seq(Frames) /\ userTurn' \in BOOLEAN
    BY <1>0, <1>1, AggregatorSystemIs
  <2>3. Arrivals' /\ Clock'
    BY <1>0, <2>1 DEF Arrivals, Ordered, Clock, feed, TypeOK
  <2>4. Done /\ ~Closes
    BY <1>0, <2>1, <2>2 DEF Done, Closes, TypeOK, InService
  <2>. QED
    BY <2>2, <2>3, <2>4, Assembled
<1>2. CASE AggregatorAdmits
  <2>1. UNCHANGED <<feed, inbox, queued, stt, input>>
    BY <1>2 DEF AggregatorAdmits
  <2>2. QueueInv' /\ aggInput' \in Seq(Frames) /\ aggQueue' \in Seq(Frames) /\ userTurn' \in BOOLEAN
    BY <1>0, <1>2, AggregatorAdmitsIs
  <2>3. Arrivals' /\ Clock'
    BY <1>0, <2>1 DEF Arrivals, Ordered, Clock, feed, TypeOK
  <2>4. Done /\ ~Closes
    BY <1>0, <2>1, <2>2 DEF Done, Closes, TypeOK, InService
  <2>. QED
    BY <2>2, <2>3, <2>4, Assembled
<1>3. CASE AggregatorProcesses
  <2>1. UNCHANGED <<feed, inbox, queued, input>>
    BY <1>3 DEF AggregatorProcesses
  <2>2. /\ QueueInv' /\ aggInput' \in Seq(Frames) /\ aggQueue' \in Seq(Frames) /\ userTurn' \in BOOLEAN
        /\ stt' \in Stt /\ stt'.out = <<>> /\ InService' /\ (stt' = stt \/ stt'.closing = "none")
    BY <1>0, <1>3, AggregatorProcessesIs
  <2>3. Arrivals' /\ Clock'
    BY <1>0, <2>1 DEF Arrivals, Ordered, Clock, feed, TypeOK
  <2>4. Done /\ ~Closes
    BY <1>0, <2>1, <2>2 DEF Done, Closes, TypeOK
  <2>. QED
    BY <2>2, <2>3, <2>4, Assembled
<1>. QED
  BY <1>1, <1>2, <1>3 DEF Aggregator

\* A step of the service that is no acknowledgment.
LEMMA ServiceStepIs ==
    ASSUME TurnInv, Service PROVE TurnInv' /\ (Closes => HandleEndpoint)
<1>0. Ready /\ Arrivals /\ TypeOK
  BY InvParts DEF TurnInv
<1>1. CASE HandleControl
  <2>1. /\ UNCHANGED feed /\ queued' = queued /\ QueuesStay /\ Controls # {}
        /\ inbox' = RemoveAt(inbox, NextControl)
    BY <1>1 DEF HandleControl, QueuesStay
  <2>2. NextControl \in DOMAIN inbox /\ words' = words
    BY <1>0, <2>1, NextControlIs DEF TypeOK, feed
  <2>3. Arrivals'
    BY <1>0, <2>1, <2>2, ControlTaken
  <2>. QED
    BY <1>0, <1>1, <2>1, <2>3, HandleControlIs, ServiceStep DEF Served
<1>2. CASE InputAfterClosing
  <2>1. UNCHANGED feed /\ queued' = queued /\ inbox' = inbox /\ QueuesStay
    BY <1>2 DEF InputAfterClosing, QueuesStay
  <2>2. Arrivals'
    BY <1>0, <2>1 DEF Arrivals, Ordered, feed
  <2>. QED
    BY <1>0, <1>2, <2>1, <2>2, InputAfterClosingIs, ServiceStep DEF Served
<1>3. CASE InputAfterCancel
  <2>1. UNCHANGED feed /\ queued' = queued /\ inbox' = inbox /\ QueuesStay
    BY <1>3 DEF InputAfterCancel, QueuesStay
  <2>2. Arrivals'
    BY <1>0, <2>1 DEF Arrivals, Ordered, feed
  <2>. QED
    BY <1>0, <1>3, <2>1, <2>2, InputAfterCancelIs, ServiceStep DEF Served
<1>4. CASE AdmitData
  <2>1. /\ inbox # <<>> /\ ~IsControl(Head(inbox)) /\ queued' = Append(queued, Head(inbox))
        /\ inbox' = Tail(inbox) /\ UNCHANGED feed /\ stt' = stt /\ input' = input /\ UNCHANGED aggregator
    BY <1>4 DEF AdmitData
  <2>2. Arrivals' /\ Clock'
    BY <1>0, <2>1, DataAdmitted DEF feed, Clock, TypeOK
  <2>. QED
    BY <2>1, <2>2, OutsideStep
<1>5. CASE HandleTranscription
  <2>1. UNCHANGED feed /\ inbox' = inbox /\ QueuesStay /\ queued # <<>> /\ queued' = Tail(queued)
    BY <1>5 DEF HandleTranscription, Handling, QueuesStay
  <2>2. Arrivals'
    BY <1>0, <2>1, DataHandled DEF feed
  <2>. QED
    BY <1>0, <1>5, <2>1, <2>2, HandleTranscriptionIs, ServiceStep DEF Served
<1>6. CASE HandleEndpoint
  <2>1. UNCHANGED feed /\ inbox' = inbox /\ QueuesStay /\ queued # <<>> /\ queued' = Tail(queued)
    BY <1>6 DEF HandleEndpoint, Handling, QueuesStay
  <2>2. Arrivals'
    BY <1>0, <2>1, DataHandled DEF feed
  <2>. QED
    BY <1>0, <1>6, <2>1, <2>2, HandleEndpointIs, ServiceStep
<1>7. CASE FinalizeBegins
  <2>1. UNCHANGED feed /\ queued' = queued /\ inbox' = inbox /\ QueuesStay
    BY <1>7 DEF FinalizeBegins, QueuesStay, aggregator
  <2>2. Arrivals'
    BY <1>0, <2>1 DEF Arrivals, Ordered, feed
  <2>. QED
    BY <1>0, <1>7, <2>1, <2>2, FinalizeBeginsIs, ServiceStep DEF Served
<1>8. CASE FinalizeEnds
  <2>1. /\ UNCHANGED feed /\ queued' = queued /\ QueuesStay /\ stt.endpoint.state = "waiting"
        /\ inbox' = inbox \/ inbox' = Append(inbox, Acknowledgment)
    BY <1>8 DEF FinalizeEnds, QueuesStay, aggregator
  <2>2. CASE inbox' = inbox
    <3>1. Arrivals'
      BY <1>0, <2>1, <2>2 DEF Arrivals, Ordered, feed
    <3>. QED
      BY <1>0, <1>8, <2>1, <3>1, FinalizeEndsIs, ServiceStep DEF Served
  <2>3. CASE inbox' = Append(inbox, Acknowledgment)
    <3>1. stt.endpoint \in Endpoint /\ stt.endpoint.id # None
      BY <1>0, <2>1 DEF Ready, TypeOK, Stt, InService, ServiceOK, SpanOK
    <3>2. Acknowledgment \in Events /\ Acknowledgment.kind = "endpoint" /\ Acknowledgment.nr = words
      BY <1>0, <3>1 DEF Acknowledgment, Acknowledgments, Events, DataEvents, Endpoint, TypeOK, None
    <3>3. words' \in Nat /\ words <= words'
      BY <1>0, <2>1 DEF TypeOK, feed
    <3>4. Arrivals'
      BY <1>0, <2>1, <2>3, <3>2, <3>3, Received
    <3>. QED
      BY <1>0, <1>8, <2>1, <3>4, FinalizeEndsIs, ServiceStep DEF Served
  <2>. QED
    BY <2>1, <2>2, <2>3
<1>9. CASE FinalizeFails
  <2>1. UNCHANGED feed /\ queued' = queued /\ inbox' = inbox /\ QueuesStay
    BY <1>9 DEF FinalizeFails, QueuesStay
  <2>2. Arrivals'
    BY <1>0, <2>1 DEF Arrivals, Ordered, feed
  <2>. QED
    BY <1>0, <1>9, <2>1, <2>2, FinalizeFailsIs, ServiceStep DEF Served
<1>. QED
  BY <1>1, <1>2, <1>3, <1>4, <1>5, <1>6, <1>7, <1>8, <1>9 DEF Service

LEMMA StepKeeps == TurnInv /\ [Next]_vars => TurnInv' /\ (Closes => HandleEndpoint)
<1>. SUFFICES ASSUME TurnInv, [Next]_vars PROVE TurnInv' /\ (Closes => HandleEndpoint)
  OBVIOUS
<1>1. CASE Next
  BY <1>1, EnvironmentStep, AggregatorStep, ServiceStepIs DEF Next
<1>2. CASE UNCHANGED vars
  <2>1. /\ UNCHANGED feed /\ inbox' = inbox /\ queued' = queued /\ stt' = stt /\ input' = input
        /\ UNCHANGED aggregator
    BY <1>2 DEF vars
  <2>2. Arrivals' /\ Clock'
    BY <2>1, InvParts DEF Arrivals, Ordered, feed, Clock, TurnInv, TypeOK
  <2>. QED
    BY <2>1, <2>2, OutsideStep
<1>. QED
  BY <1>1, <1>2

LEMMA InitHolds == Init => TurnInv
<1>. SUFFICES ASSUME Init PROVE TurnInv
  OBVIOUS
<1>1. TypeOK
  <2>1. <<>> \in Seq(Texts) /\ <<>> \in Seq(Frames) /\ <<>> \in Seq(Events) /\ <<>> \in Seq(DataEvents)
    OBVIOUS
  <2>2. stt \in Stt /\ stt.out = <<>>
    BY <2>1, NoEndpointIs DEF Init, Stt, None, Closers
  <2>3. input \in Input
    BY InputTypes DEF Init
  <2>. QED
    BY <2>1, <2>2, <2>3 DEF Init, TypeOK
<1>2. /\ aggInput = <<>> /\ aggQueue = <<>> /\ userTurn = FALSE /\ inbox = <<>> /\ queued = <<>>
      /\ stt.closing = "none" /\ stt.endpoint = NoEndpoint /\ stt.endpointId = None /\ input = Idle
  BY DEF Init
<1>3. QueueInv
  BY <1>2 DEF QueueInv, Closed, OneStart, StopKept, OnlyData, NothingOvertaken, Has
<1>4. InService
  BY <1>2, InputTypes, NoEndpointIs DEF InService, ServiceOK, SpanOK, Cancelling
<1>5. Ordered
  BY <1>2 DEF Ordered
<1>. QED
  BY <1>1, <1>3, <1>4, <1>5 DEF TurnInv

-----------------------------------------------------------------------------
(* Theorems *)

\* The types, what the queues of the aggregator hold while a turn is open, closing
\* or closed, and what STT's tasks wait for, after any number of words, scores,
\* acknowledgments and lifecycle events.
THEOREM TurnInvariant == Spec => []TurnInv
<1>1. TurnInv /\ [Next]_vars => TurnInv'
  BY StepKeeps
<1>. QED
  BY InitHolds, <1>1, PTL DEF Spec

\* _close_turn awaits an event that only its stop frame sets: the frame is on its
\* way exactly while a turn closes, and no start or interruption drops it.
THEOREM StopOnItsWay == Spec => []StopAwaited
<1>1. TurnInv => StopAwaited
  <2>. SUFFICES ASSUME TurnInv PROVE StopAwaited
    OBVIOUS
  <2>. DEFINE In  == {i \in 1 .. Len(aggInput) : aggInput[i].kind = "stopped"}
              Que == {i \in 1 .. Len(aggQueue) : aggQueue[i].kind = "stopped"}
              Awaited == IF stt.closing = "none" THEN 0 ELSE 1
  <2>0. /\ TypeOK /\ StopKept
        /\ DOMAIN aggInput = 1 .. Len(aggInput) /\ DOMAIN aggQueue = 1 .. Len(aggQueue)
        /\ Len(aggQueue) \in Nat
    BY DEF TurnInv, QueueInv, TypeOK
  <2>1. Cardinality({}) = 0 /\ \A i : Cardinality({i}) = 1
    BY FS_EmptySet, FS_Singleton
  <2>2. SUFFICES Cardinality(In) + Cardinality(Que) = Awaited
    BY Zenon DEF StopAwaited
  <2>3. CASE stt.closing = "none"
    <3>1. In = {} /\ Que = {}
      BY <2>0, <2>3 DEF StopKept, Has
    <3>2. Cardinality(In) = 0 /\ Cardinality(Que) = 0
      BY ONLY <2>1, <3>1, Zenon
    <3>. QED
      BY <2>3, <3>2
  <2>4. CASE stt.closing # "none"
    <3>1. Stopping
      BY <2>0, <2>4 DEF StopKept
    <3>2. ASSUME ~Has(aggQueue, {"stopped"}), NEW i \in DOMAIN aggInput, StopAt(aggInput, i)
          PROVE  Cardinality(In) = 1 /\ Cardinality(Que) = 0
      <4>1. In = {i} /\ Que = {}
        BY <2>0, <3>2 DEF Has, StopAt
      <4>. QED
        BY ONLY <2>1, <4>1, Zenon
    <3>3. ASSUME ~Has(aggInput, Data), aggQueue # <<>>, StopAt(aggQueue, Len(aggQueue))
          PROVE  Cardinality(In) = 0 /\ Cardinality(Que) = 1
      <4>1. Len(aggQueue) \in 1 .. Len(aggQueue)
        BY <2>0, <3>3 DEF TypeOK
      <4>2. In = {} /\ Que = {Len(aggQueue)}
        BY <2>0, <3>3, <4>1 DEF Has, StopAt, Data
      <4>. QED
        BY ONLY <2>1, <4>2, Zenon
    <3>4. \/ Cardinality(In) = 1 /\ Cardinality(Que) = 0
          \/ Cardinality(In) = 0 /\ Cardinality(Que) = 1
      BY <3>1, <3>2, <3>3 DEF Stopping
    <3>. HIDE DEF In, Que
    <3>. QED
      BY <2>4, <3>4
  <2>. QED
    BY <2>3, <2>4
<1>. QED
  BY <1>1, TurnInvariant, PTL

\* A start or an interruption, which drops what the aggregator has not processed,
\* finds nothing there: the ordered turn was closed before it was admitted.
THEOREM NoWordsOvertaken == Spec => []NothingOvertaken
<1>1. TurnInv => NothingOvertaken
  BY DEF TurnInv, QueueInv
<1>. QED
  BY <1>1, TurnInvariant, PTL

\* What closes a turn at an endpoint is the acknowledgment at the head of the queue.
LEMMA ClosingHead ==
    ASSUME TurnInv, [Next]_vars, Closes
    PROVE  /\ queued # <<>> /\ Head(queued).kind = "endpoint" /\ Head(queued).id = stt.endpoints
<1>1. Ready /\ HandleEndpoint
  BY StepKeeps, InvParts
<1>2. ~Stale(Head(queued)) /\ Acknowledges(Head(queued))
  BY <1>1, HandleEndpointIs
<1>. QED
  BY <1>1, <1>2, AcknowledgedIs DEF HandleEndpoint, Handling

\* A turn is closed only by the finalization of its latest span of speech, never by
\* one that was still queued when the user spoke again.
THEOREM LatestSpanCloses == Spec => EndpointClosesItsSpan
<1>1. TurnInv /\ [Next]_vars => (Closes => Head(queued).id = stt.endpoints)
  BY ClosingHead
<1>. QED
  BY <1>1, TurnInvariant, PTL DEF Spec, EndpointClosesItsSpan

\* When the acknowledgment closes the turn, every word of the same input that was
\* received before it has been handled.
THEOREM EndpointBehindWords == Spec => EndpointIsBarrier
<1>. DEFINE Barrier == Closes => \A e \in ToSet(inbox \o Tail(queued)) :
                e.kind = "transcription" /\ e.epoch = epoch => e.nr > Head(queued).nr
<1>1. TurnInv /\ [Next]_vars => Barrier
  <2>. SUFFICES ASSUME TurnInv, [Next]_vars, Closes,
                       NEW e \in ToSet(inbox \o Tail(queued)), e.kind = "transcription"
                PROVE  e.nr > Head(queued).nr
    OBVIOUS
  <2>1. queued # <<>> /\ Head(queued).kind = "endpoint"
    BY ClosingHead
  <2>2. inbox \in Seq(Events) /\ queued \in Seq(DataEvents) /\ Ordered /\ Arrivals
    BY InvParts DEF TurnInv, TypeOK
  <2>3. /\ Tail(queued) \in Seq(DataEvents) /\ Head(queued) = queued[1] /\ 1 \in DOMAIN queued
        /\ \A k \in DOMAIN Tail(queued) : k \in Nat /\ k + 1 \in DOMAIN queued /\ k + 1 > 1
                                          /\ Tail(queued)[k] = queued[k + 1]
    BY <2>1, <2>2, Shortened
  <2>4. /\ \A i, j \in DOMAIN queued : i < j => Behind(queued[i], queued[j])
        /\ \A j \in DOMAIN inbox : Behind(queued[1], inbox[j])
    BY <2>2, <2>3 DEF Ordered
  <2>5. Behind(Head(queued), e) /\ e \in Events
    <3>1. Tail(queued) \in Seq(Events)
      BY <2>3 DEF Events
    <3>. DEFINE line == inbox \o Tail(queued)
    <3>2. PICK k \in DOMAIN line : e = line[k]
      BY DEF ToSet
    <3>3. \/ k \in DOMAIN inbox /\ line[k] = inbox[k]
          \/ k - Len(inbox) \in DOMAIN Tail(queued) /\ line[k] = Tail(queued)[k - Len(inbox)]
      BY <2>2, <3>1, Joined
    <3>. HIDE DEF line
    <3>4. CASE k \in DOMAIN inbox /\ line[k] = inbox[k]
      BY <2>2, <2>3, <2>4, <3>2, <3>4
    <3>5. ASSUME NEW m \in DOMAIN Tail(queued), e = Tail(queued)[m]
          PROVE  Behind(Head(queued), e) /\ e \in Events
      <4>1. m + 1 \in DOMAIN queued /\ 1 < m + 1 /\ e = queued[m + 1]
        BY <2>3, <3>5
      <4>. QED
        BY <2>2, <2>3, <2>4, <4>1 DEF Events
    <3>. QED
      BY <3>2, <3>3, <3>4, <3>5
  <2>6. e.nr \in Nat /\ Head(queued).nr \in Nat
    <3>1. e \in Texts
      BY <2>5, EventIs
    <3>2. Head(queued).nr \in Nat
      BY <2>1, <2>2, <2>3, BehindWords
    <3>. QED
      BY <3>1, <3>2 DEF Texts
  <2>. QED
    BY <2>1, <2>5, <2>6 DEF Behind
<1>. QED
  BY <1>1, TurnInvariant, PTL DEF Spec, EndpointIsBarrier

-----------------------------------------------------------------------------
(* Debouncing the scores *)

VadRecord == [state : States, starting : Nat, stopping : Nat]

\* The types the invariant needs, and the invariant itself: an inductive pair.
Typed ==
    /\ vad \in VadRecord
    /\ last \in Nat \union {-1} /\ highs \in Nat /\ lows \in Nat

Inv == Typed /\ Counted

\* What a score makes of the analyzer, state by state.
Started(count) ==
    IF count >= StartFrames THEN Vad("SPEAKING", 0, 0) ELSE Vad("STARTING", count, 0)

Stopped(count) ==
    IF count >= StopFrames THEN Vad("QUIET", 0, 0) ELSE Vad("STOPPING", 0, count)

Heard(speaking) ==
    CASE vad.state = "QUIET" -> IF speaking THEN Started(1) ELSE Vad("QUIET", 0, 0)
      [] vad.state = "STARTING" -> IF speaking THEN Started(highs + 1) ELSE Vad("QUIET", 0, 0)
      [] vad.state = "SPEAKING" -> IF speaking THEN Vad("SPEAKING", 0, 0) ELSE Stopped(1)
      [] vad.state = "STOPPING" -> IF speaking THEN Vad("SPEAKING", 0, 0) ELSE Stopped(lows + 1)

LEMMA ScoreIsHeard ==
    ASSUME Inv, NEW speaking \in BOOLEAN
    PROVE  Confirm(Observe(vad, speaking)) = Heard(speaking)
<1> USE VadAssumption DEF Inv, Typed, Counted, VadRecord, States, Observe, Heard, Started,
        Stopped, Vad
<1> DEFINE seen == Observe(vad, speaking)
<1>1. CASE vad.state = "QUIET"
  <2>1. CASE speaking
    <3>1. seen = Vad("STARTING", 1, 0) BY <1>1, <2>1
    <3>2. QED BY <1>1, <2>1, <3>1 DEF Confirm
  <2>2. CASE ~speaking
    <3>1. seen = vad BY <1>1, <2>2
    <3>2. QED BY <1>1, <2>2, <3>1 DEF Confirm
  <2>3. QED BY <2>1, <2>2
<1>2. CASE vad.state = "STARTING"
  <2>1. CASE speaking
    <3>1. seen = Vad("STARTING", highs + 1, 0) BY <1>2, <2>1
    <3>2. QED BY <1>2, <2>1, <3>1 DEF Confirm
  <2>2. CASE ~speaking
    <3>1. seen = Vad("QUIET", 0, 0) BY <1>2, <2>2
    <3>2. QED BY <1>2, <2>2, <3>1 DEF Confirm
  <2>3. QED BY <2>1, <2>2
<1>3. CASE vad.state = "SPEAKING"
  <2>1. CASE speaking
    <3>1. seen = vad BY <1>3, <2>1
    <3>2. QED BY <1>3, <2>1, <3>1 DEF Confirm
  <2>2. CASE ~speaking
    <3>1. seen = Vad("STOPPING", 0, 1) BY <1>3, <2>2
    <3>2. QED BY <1>3, <2>2, <3>1 DEF Confirm
  <2>3. QED BY <2>1, <2>2
<1>4. CASE vad.state = "STOPPING"
  <2>1. CASE speaking
    <3>1. seen = Vad("SPEAKING", 0, 0) BY <1>4, <2>1
    <3>2. QED BY <1>4, <2>1, <3>1 DEF Confirm
  <2>2. CASE ~speaking
    <3>1. seen = Vad("STOPPING", 0, lows + 1) BY <1>4, <2>2
    <3>2. QED BY <1>4, <2>2, <3>1 DEF Confirm
  <2>3. QED BY <2>1, <2>2
<1>5. QED BY <1>1, <1>2, <1>3, <1>4

\* What a score that is not ignored does.
LEMMA FreshScore ==
    ASSUME Inv, NEW time \in Times, NEW speaking \in BOOLEAN, Score(time, speaking),
           ~(time <= last)
    PROVE  /\ last' = time
           /\ vad' = Heard(speaking)
           /\ speaking => highs' = highs + 1 /\ lows' = 0
           /\ ~speaking => highs' = 0 /\ lows' = lows + 1
BY ScoreIsHeard DEF Score

\* One score keeps the invariant, whatever its kind.
LEMMA ScoreKeeps ==
    ASSUME Inv, NEW time \in Times, NEW speaking \in BOOLEAN, Score(time, speaking)
    PROVE  Inv'
<1> USE VadAssumption
<1>1. CASE time <= last
  BY <1>1 DEF Score, Inv, Typed, Counted, vadVars
<1>2. CASE ~(time <= last)
  <2>fresh. /\ last' \in Nat /\ vad' = Heard(speaking)
            /\ speaking => highs' = highs + 1 /\ lows' = 0
            /\ ~speaking => highs' = 0 /\ lows' = lows + 1
    BY <1>2, FreshScore
  <2> USE <2>fresh DEF Inv, Typed, Counted, VadRecord, States, Heard, Started, Stopped, Vad
  <2>1. CASE vad.state = "QUIET"
    <3>1. CASE speaking BY <2>1, <3>1
    <3>2. CASE ~speaking BY <2>1, <3>2
    <3>3. QED BY <3>1, <3>2, Zenon
  <2>2. CASE vad.state = "STARTING"
    <3>1. CASE speaking BY <2>2, <3>1
    <3>2. CASE ~speaking BY <2>2, <3>2
    <3>3. QED BY <3>1, <3>2, Zenon
  <2>3. CASE vad.state = "SPEAKING"
    <3>1. CASE speaking BY <2>3, <3>1
    <3>2. CASE ~speaking BY <2>3, <3>2
    <3>3. QED BY <3>1, <3>2, Zenon
  <2>4. CASE vad.state = "STOPPING"
    <3>1. CASE speaking BY <2>4, <3>1
    <3>2. CASE ~speaking BY <2>4, <3>2
    <3>3. QED BY <3>1, <3>2, Zenon
  <2>5. QED BY <2>1, <2>2, <2>3, <2>4
<1>3. QED BY <1>1, <1>2

LEMMA QuietAtFirst == VadInit => Inv
BY VadAssumption DEF VadInit, Inv, Typed, Counted, VadRecord, States, Quiet, Vad

LEMMA NextKeeps == Inv /\ [VadNext]_vadVars => Inv'
<1> SUFFICES ASSUME Inv, [VadNext]_vadVars PROVE Inv'
  OBVIOUS
<1>1. CASE Reset
  BY <1>1, VadAssumption DEF Reset, Inv, Typed, Counted, VadRecord, States, Quiet, Vad
<1>2. CASE \E time \in Times, speaking \in BOOLEAN : Score(time, speaking)
  BY <1>2, ScoreKeeps
<1>3. CASE UNCHANGED vadVars
  BY <1>3 DEF vadVars, Inv, Typed, Counted
<1>4. QED BY <1>1, <1>2, <1>3 DEF VadNext

\* The counters of AppleVADAnalyzer count exactly the scores in a row that ask for
\* the pending transition, and a pending transition is never due.
THEOREM CountsAreExact == VadSpec => []Counted
<1>1. VadSpec => []Inv BY QuietAtFirst, NextKeeps, PTL DEF VadSpec
<1>2. Inv => Counted BY DEF Inv
<1>3. QED BY <1>1, <1>2, PTL

\* A score that starts speech is the last of StartFrames in a row, one that ends
\* it of StopFrames in a row.
LEMMA RunsOfAScore ==
    ASSUME Inv, NEW time \in Times, NEW speaking \in BOOLEAN, Score(time, speaking)
    PROVE  /\ ~Speech /\ Speech' => highs' >= StartFrames
           /\ Speech /\ ~Speech' => lows' >= StopFrames
<1> USE VadAssumption
<1>1. CASE time <= last
  BY <1>1 DEF Score, Speech, vadVars
<1>2. CASE ~(time <= last)
  <2>fresh. /\ last' \in Nat /\ vad' = Heard(speaking)
            /\ speaking => highs' = highs + 1 /\ lows' = 0
            /\ ~speaking => highs' = 0 /\ lows' = lows + 1
    BY <1>2, FreshScore
  <2> USE <2>fresh DEF Inv, Typed, Counted, VadRecord, States, Heard, Started, Stopped,
          Vad, Speech
  <2>1. CASE vad.state = "QUIET"
    BY <2>1
  <2>2. CASE vad.state = "STARTING"
    BY <2>2
  <2>3. CASE vad.state = "SPEAKING"
    BY <2>3
  <2>4. CASE vad.state = "STOPPING"
    BY <2>4
  <2>5. QED BY <2>1, <2>2, <2>3, <2>4
<1>3. QED BY <1>1, <1>2

\* Speech starts after StartFrames scores of speech in a row and ends after
\* StopFrames scores of silence in a row, or with the timeline.
THEOREM RunsAreNeeded == VadSpec => TransitionsNeedRuns
<1> DEFINE Runs == /\ ~Speech /\ Speech' => highs' >= StartFrames
                   /\ Speech /\ ~Speech' => lows' >= StopFrames \/ last' = -1
<1>1. Inv /\ [VadNext]_vadVars => [Runs]_vadVars
  <2> SUFFICES ASSUME Inv, VadNext PROVE Runs
    OBVIOUS
  <2>1. CASE Reset
    BY <2>1 DEF Reset, Speech, Quiet, Vad
  <2>2. CASE \E time \in Times, speaking \in BOOLEAN : Score(time, speaking)
    BY <2>2, RunsOfAScore
  <2>3. QED BY <2>1, <2>2 DEF VadNext
<1>2. VadSpec => []Inv BY QuietAtFirst, NextKeeps, PTL DEF VadSpec
<1>3. QED BY <1>1, <1>2, PTL DEF VadSpec, TransitionsNeedRuns

-----------------------------------------------------------------------------
(* The analyzer implements SpeechSpan: a score that agrees with the current      *)
(* opinion is an Agree, one that contradicts it a Contradict, reset a Restart.   *)

LEMMA AtLeastOneType ==
    AtLeastOne(StartFrames) \in Nat \ {0} /\ AtLeastOne(StopFrames) \in Nat \ {0}
BY VadAssumption DEF AtLeastOne

LEMMA ScoreMaps ==
    ASSUME Inv, NEW time \in Times, NEW speaking \in BOOLEAN, Score(time, speaking)
    PROVE  Span!Next \/ UNCHANGED <<Speech, Run>>
<1> USE VadAssumption
<1>1. CASE time <= last
  BY <1>1 DEF Score, Speech, Run, vadVars
<1>2. CASE ~(time <= last)
  <2>fresh. /\ last' \in Nat /\ vad' = Heard(speaking)
            /\ speaking => highs' = highs + 1 /\ lows' = 0
            /\ ~speaking => highs' = 0 /\ lows' = lows + 1
    BY <1>2, FreshScore
  <2> USE <2>fresh DEF Inv, Typed, Counted, VadRecord, States, Heard, Started, Stopped,
          Vad, Speech, Run, AtLeastOne
  <2>1. CASE vad.state = "QUIET"
    <3>1. CASE speaking
      <4>1. Span!Contradict BY <2>1, <3>1 DEF Span!Contradict, Span!Needed
      <4>2. QED BY <4>1 DEF Span!Next
    <3>2. CASE ~speaking
      <4>1. Span!Agree BY <2>1, <3>2 DEF Span!Agree
      <4>2. QED BY <4>1 DEF Span!Next
    <3>3. QED BY <3>1, <3>2, Zenon
  <2>2. CASE vad.state = "STARTING"
    <3>1. CASE speaking
      <4>1. Span!Contradict BY <2>2, <3>1 DEF Span!Contradict, Span!Needed
      <4>2. QED BY <4>1 DEF Span!Next
    <3>2. CASE ~speaking
      <4>1. Span!Agree BY <2>2, <3>2 DEF Span!Agree
      <4>2. QED BY <4>1 DEF Span!Next
    <3>3. QED BY <3>1, <3>2, Zenon
  <2>3. CASE vad.state = "SPEAKING"
    <3>1. CASE speaking
      <4>1. Span!Agree BY <2>3, <3>1 DEF Span!Agree
      <4>2. QED BY <4>1 DEF Span!Next
    <3>2. CASE ~speaking
      <4>1. Span!Contradict BY <2>3, <3>2 DEF Span!Contradict, Span!Needed
      <4>2. QED BY <4>1 DEF Span!Next
    <3>3. QED BY <3>1, <3>2, Zenon
  <2>4. CASE vad.state = "STOPPING"
    <3>1. CASE speaking
      <4>1. Span!Agree BY <2>4, <3>1 DEF Span!Agree
      <4>2. QED BY <4>1 DEF Span!Next
    <3>2. CASE ~speaking
      <4>1. Span!Contradict BY <2>4, <3>2 DEF Span!Contradict, Span!Needed
      <4>2. QED BY <4>1 DEF Span!Next
    <3>3. QED BY <3>1, <3>2, Zenon
  <2>5. QED BY <2>1, <2>2, <2>3, <2>4
<1>3. QED BY <1>1, <1>2

\* AppleVADAnalyzer changes its mind only when a full run of scores in a row
\* contradicts it, for every pair of durations, zero included.
THEOREM Debounces == VadSpec => ImplementsSpan
<1>1. VadInit => Span!Init
  BY DEF VadInit, Span!Init, Speech, Run, Quiet, Vad
<1>2. Inv /\ [VadNext]_vadVars => [Span!Next]_<<Speech, Run>>
  <2> SUFFICES ASSUME Inv, [VadNext]_vadVars PROVE Span!Next \/ UNCHANGED <<Speech, Run>>
    OBVIOUS
  <2>1. CASE Reset
    BY <2>1 DEF Reset, Speech, Run, Quiet, Vad, Span!Next, Span!Restart
  <2>2. CASE \E time \in Times, speaking \in BOOLEAN : Score(time, speaking)
    BY <2>2, ScoreMaps
  <2>3. CASE UNCHANGED vadVars
    BY <2>3 DEF vadVars, Speech, Run
  <2>4. QED BY <2>1, <2>2, <2>3 DEF VadNext
<1>3. VadSpec => []Inv BY QuietAtFirst, NextKeeps, PTL DEF VadSpec
<1>4. QED BY <1>1, <1>2, <1>3, PTL DEF VadSpec, ImplementsSpan, Span!Spec
=============================================================================
