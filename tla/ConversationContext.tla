------------------------- MODULE ConversationContext -------------------------
(* The shared context of the conversation and how it is bounded.  The user
   aggregator appends what the user said, the assistant aggregator what was
   played, and after each response and each interruption the bridge replaces the
   context by bounded_history: whole user turns, the newest first, as long as
   they fit.  The language model is asked with the bounded history of everything
   before the last user message.  Lengths are counted in thousands of characters. *)
EXTENDS Naturals, Sequences, FiniteSets

CONSTANTS
    MaxHistoryTurns,        \* MAX_HISTORY_TURNS
    MaxHistoryCharacters,   \* MAX_HISTORY_CHARACTERS, in thousands
    MaxPrompt,              \* the longest user message the adapter accepts
    MaxLength,              \* the longest message that is said or played
    MaxMessages             \* messages of a conversation

ASSUME ContextAssumption ==
    /\ {MaxHistoryTurns, MaxHistoryCharacters, MaxPrompt, MaxLength, MaxMessages}
          \subseteq Nat \ {0}

VARIABLES context,   \* bridge.context.messages
          said,      \* every message since the last reset, none forgotten
          settled,   \* the context has been trimmed since its last message
          request    \* the history of the last invocation of the model

contextVars == <<context, said, settled, request>>

Message(role, length) == [role |-> role, length |-> length]

\* A turn starts at each user message; what precedes the first one is an orphan.
UserAt(messages) == {i \in DOMAIN messages : messages[i].role = "user"}
TurnStarts(messages) == UserAt(messages) \union {Len(messages) + 1}
From(messages, i) == SubSeq(messages, i, Len(messages))
Length(messages) ==
    LET upTo[i \in 0..Len(messages)] == IF i = 0 THEN 0 ELSE upTo[i - 1] + messages[i].length
    IN  upTo[Len(messages)]

\* The walk of bounded_history over the turns, newest first, comes to message i: it
\* keeps the turn that starts there, or stops because the turn does not fit.
Back(messages, w, i, turnLimit, characterLimit) ==
    LET size == Length(SubSeq(messages, i, w.start - 1))
    IN  IF i \notin UserAt(messages) \/ w.stopped THEN w
        ELSE IF w.turns + 1 > turnLimit \/ w.characters + size > characterLimit
             THEN [w EXCEPT !.stopped = TRUE]
             ELSE [w EXCEPT !.turns = @ + 1, !.characters = @ + size, !.start = i]

\* Where the oldest kept turn begins.
Walk(messages, turnLimit, characterLimit) ==
    LET walk[k \in 0..Len(messages)] ==
            IF k = 0 THEN [turns |-> 0, characters |-> 0, start |-> Len(messages) + 1, stopped |-> FALSE]
            ELSE Back(messages, walk[k - 1], Len(messages) + 1 - k, turnLimit, characterLimit)
    IN  walk[Len(messages)].start

\* Mutant: a history that just fits is cut.
OldestOffByOne(messages) == Walk(messages, MaxHistoryTurns, MaxHistoryCharacters - 1)

Oldest(messages) == Walk(messages, MaxHistoryTurns, MaxHistoryCharacters)

bounded_history(messages) == From(messages, Oldest(messages))

-----------------------------------------------------------------------------
ContextInit == context = <<>> /\ said = <<>> /\ settled = TRUE /\ request = <<>>

Commit(m) == context' = Append(context, m) /\ said' = Append(said, m)

\* The user aggregator commits a turn; the model is asked if the prompt is usable.
UserSays(length) ==
    /\ Len(said) < MaxMessages
    /\ Commit(Message("user", length))
    /\ request' = IF length \in 1..MaxPrompt THEN bounded_history(context) ELSE request
    /\ settled' = FALSE

\* The response ends: what was played is committed, then the context is trimmed.
ResponseEnds(length) ==
    /\ Len(said) < MaxMessages /\ ~settled
    /\ LET m == Message("assistant", length)
       IN  context' = bounded_history(Append(context, m)) /\ said' = Append(said, m)
    /\ settled' = TRUE /\ UNCHANGED request

\* An interruption commits what was played of the reply, if anything, and trims.
ResponseInterrupted(length) ==
    /\ Len(said) < MaxMessages
    /\ LET played == IF length = 0 THEN <<>> ELSE <<Message("assistant", length)>>
       IN  context' = bounded_history(context \o played) /\ said' = said \o played
    /\ settled' = TRUE /\ UNCHANGED request

ResetContext == context' = <<>> /\ said' = <<>> /\ settled' = TRUE /\ UNCHANGED request

ContextNext ==
    \/ \E length \in 1..MaxLength : UserSays(length) \/ ResponseEnds(length)
    \/ \E length \in 0..MaxLength : ResponseInterrupted(length)
    \/ ResetContext

ContextSpec == ContextInit /\ [][ContextNext]_contextVars

-----------------------------------------------------------------------------
(* Properties.                                                               *)

\* Reference: k turns of a history fit if their messages together do.
FitFrom(messages, i) ==
    /\ Cardinality(UserAt(From(messages, i))) <= MaxHistoryTurns
    /\ Length(From(messages, i)) <= MaxHistoryCharacters

Recent(messages) ==
    LET start == CHOOSE i \in TurnStarts(messages) :
                    /\ FitFrom(messages, i)
                    /\ \A j \in TurnStarts(messages) : FitFrom(messages, j) => i <= j
    IN  From(messages, start)

\* However often it was trimmed on the way, the context is the longest run of the
\* newest whole turns of the conversation that fits: trimming forgets nothing that
\* would still fit, and leaves no gap.  What the model is asked with fits too,
\* though the context has grown since it was trimmed.
ContextIsRecent ==
    /\ settled => context = Recent(said)
    /\ FitFrom(request, 1)
=============================================================================
