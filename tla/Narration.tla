------------------------------ MODULE Narration ------------------------------
(***************************************************************************)
(* The reasoning transcript of one round: reviewed sentences the pipeline  *)
(* states about its stages, and while a step runs the page counters and    *)
(* the elapsed wait its watch makes due.  Every sentence widens the gate's *)
(* allowlist and is cut into frames; the gate re-checks the whole          *)
(* transcript on every frame, and one rejection silences the round.        *)
(*                                                                         *)
(* A sentence is a sequence of characters; the digits of a number carry    *)
(* its value.  The reviewed sentences hold no internal names, so of the    *)
(* gate's rules only the one on numbers can apply.                         *)
(***************************************************************************)
EXTENDS Integers, Sequences, FiniteSets, Absent

LOCAL INSTANCE FiniteSetsExt
LOCAL INSTANCE SequencesExt

CONSTANTS
    Script,             \* the round's steps: [fact |-> words], or [over |-> what, lines |-> words of it]
    PageMarks,          \* row counts the pager reports, page by page
    DigitsOf(_),        \* how many digits a number is written with
    LongDigits,         \* _LONG_NUMBER_DIGITS
    MaxFrameChars, MaxTotalChars,
    ThinkingEnabled, WaitTicks,
    NarrationHorizon    \* bound: the clock stops here

VARIABLES
    nnow,
    step,               \* position in the script
    nfacts,             \* transcript.facts: sentences whose numbers are allowed
    coal,               \* the coalescer
    fragments,          \* transcript.seq
    nclosed,            \* the end marker: None, or its truncated flag and the saved copy
    nwatch,             \* the watch of the step under way, or None
    handed              \* sentences handed to the transcript, in order

nvars == <<nnow, step, nfacts, coal, fragments, nclosed, nwatch, handed>>

(***************************************************************************)
(* Sentences.  Words are a tuple of 0 (a plain character) and numbers.     *)
(***************************************************************************)
\* On a line of its own: the newline first.
Line(words) ==
    LET digits(w) == IF w = 0 THEN <<0>> ELSE [i \in 1..DigitsOf(w) |-> w] IN
    <<[of |-> words, pos |-> 0, num |-> 0]>>
        \o LET flat == FlattenSeq([i \in DOMAIN words |-> digits(words[i])]) IN
           [i \in DOMAIN flat |-> [of |-> words, pos |-> i, num |-> flat[i]]]

Stripped(text) == SelectSeq(text, LAMBDA c : c.pos # 0)

\* The numbers a text spells: a run of digits, whole or cut.
Numbers(text) ==
    LET starts == {i \in DOMAIN text : text[i].num # 0 /\ (i = 1 \/ text[i - 1].num # text[i].num)}
        length(i) == Max({n \in 1..(Len(text) - i + 1) :
                             \A j \in i..(i + n - 1) : text[j].num = text[i].num}) IN
    {[value |-> text[i].num, digits |-> length(i)] : i \in starts}

\* ThinkingFacts.numbers: the allowlist.
Allowed(facts) == UNION {Numbers(Line(words)) : words \in facts}

RejectionReason(text, facts) ==
    IF Stripped(text) = <<>> THEN "empty"
    ELSE IF \E n \in Numbers(text) : n.digits >= LongDigits /\ n \notin Allowed(facts)
    THEN "unsupported_number"
    ELSE None

\* Steps accumulate facts: what was true when it was written stays allowed.
MergedWith(facts, other) == facts \cup other

\* Mutant of Widened: the sentence in hand is all that is allowed.
WidenedForOneCall(facts, words) == {words}

\* The widening is permanent, not per call.
Widened(facts, words) == facts \cup {words}

(***************************************************************************)
(* The coalescer.                                                          *)
(***************************************************************************)
\* Longest prefix that ends in no number, unless it begins with one.
Boundary(text) ==
    LET window == SubSeq(text, 1, Min({MaxFrameChars, Len(text)}))
        tail == {i \in DOMAIN window : \A j \in i..Len(window) : window[j].num # 0} IN
    IF tail # {} /\ Min(tail) > 1 THEN SubSeq(window, 1, Min(tail) - 1) ELSE window

Accept(c, piece) ==
    LET frame == IF c.sent = <<>> THEN Stripped(piece) ELSE piece IN
    IF Stripped(frame) \in {<<>>, c.last} THEN c
    ELSE [c EXCEPT !.used = @ + Len(frame), !.last = Stripped(frame), !.sent = @ \o frame,
                   !.frames = @ + 1]

\* Frame by frame until the sentence, the budget or the gate's patience is spent.
RECURSIVE Send(_, _, _)
Send(c, facts, rest) ==
    LET room == MaxTotalChars - c.used
        piece == Boundary(SubSeq(rest, 1, Min({MaxFrameChars, room, Len(rest)})))
        left == SubSeq(rest, Len(piece) + 1, Len(rest))
        next == Accept(c, piece) IN
    IF rest = <<>> THEN c
    ELSE IF room <= 0 THEN [c EXCEPT !.truncated = TRUE]
    ELSE IF RejectionReason(c.sent \o piece, facts) # None THEN [c EXCEPT !.stopped = TRUE]
    ELSE IF next.used >= MaxTotalChars /\ left # <<>> THEN [next EXCEPT !.truncated = TRUE]
    ELSE Send(next, facts, left)

SendLine(c, facts, words) ==
    IF c.stopped \/ c.truncated THEN c ELSE Send(c, facts, Line(words))

\* Widen, then send.
CommitFact(words) ==
    /\ nfacts' = Widened(nfacts, words)
    /\ coal' = SendLine(coal, nfacts', words)
    /\ fragments' = fragments + coal'.frames - coal.frames
    /\ handed' = Append(handed, words)

Silent == UNCHANGED <<nfacts, coal, fragments, handed>>

(***************************************************************************)
(* The round.                                                              *)
(***************************************************************************)
NarrationInit ==
    /\ nnow = 0 /\ step = 1
    /\ nfacts = {Script[1].fact}
    /\ coal = [sent |-> <<>>, last |-> <<>>, used |-> 0, truncated |-> FALSE, stopped |-> FALSE,
               frames |-> 0]
    /\ fragments = 0 /\ nclosed = None /\ nwatch = None /\ handed = <<>>

Now(type) == nclosed = None /\ step <= Len(Script) /\ type \in DOMAIN Script[step]

Fact ==
    /\ Now("fact")
    /\ IF ThinkingEnabled THEN CommitFact(Script[step].fact) ELSE Silent
    /\ step' = step + 1
    /\ UNCHANGED <<nnow, nclosed, nwatch>>

\* Without narration the work is simply awaited.
StartOver ==
    /\ Now("over") /\ nwatch = None
    /\ nfacts' = IF ThinkingEnabled THEN MergedWith(nfacts, Script[step].lines) ELSE nfacts
    /\ nwatch' = [started |-> nnow, reportedAt |-> nnow, latest |-> 0, reported |-> 0, done |-> FALSE]
    /\ UNCHANGED <<nnow, step, coal, fragments, nclosed, handed>>

Observe ==
    /\ nwatch # None /\ ~nwatch.done /\ Script[step].over = "fetch"
    /\ nwatch.latest < Len(PageMarks)
    /\ nwatch' = [nwatch EXCEPT !.latest = @ + 1]
    /\ UNCHANGED <<nnow, step, nfacts, coal, fragments, nclosed, handed>>

NarrationTick ==
    /\ nnow < NarrationHorizon /\ nwatch # None /\ ~nwatch.done
    /\ nnow' = nnow + 1
    /\ UNCHANGED <<step, nfacts, coal, fragments, nclosed, nwatch, handed>>

WorkEnds ==
    /\ nwatch # None /\ ~nwatch.done
    /\ nwatch' = [nwatch EXCEPT !.done = TRUE]
    /\ UNCHANGED <<nnow, step, nfacts, coal, fragments, nclosed, handed>>

PageSentence(page) == <<0, PageMarks[page], 0>>

WaitSentence(elapsed) == <<0, 0, elapsed>>

\* A new mark first, it restarts the wait; else the wait, once it is long enough.
FreshSentence ==
    IF nwatch.latest # nwatch.reported THEN PageSentence(nwatch.latest)
    ELSE IF WaitTicks > 0 /\ nnow - nwatch.reportedAt >= WaitTicks
    THEN WaitSentence(nnow - nwatch.started)
    ELSE None

\* A tick of the loop, and the sweep after the step is over.  Then its outcome is read:
\* a failed step ends the round.
Flush(fails) ==
    /\ nwatch # None /\ (fails => nwatch.done)
    /\ FreshSentence # None \/ nwatch.done
    /\ IF ThinkingEnabled /\ FreshSentence # None THEN CommitFact(FreshSentence) ELSE Silent
    /\ nwatch' = IF nwatch.done THEN None
                 ELSE [nwatch EXCEPT !.reported = nwatch.latest, !.reportedAt = nnow]
    /\ step' = IF ~nwatch.done THEN step ELSE IF fails THEN Len(Script) + 1 ELSE step + 1
    /\ UNCHANGED <<nnow, nclosed>>

\* Every ending closes the transcript; one that produced nothing leaves nothing.
CloseTranscript ==
    /\ nclosed = None /\ step > Len(Script)
    /\ nclosed' = [marker |-> ThinkingEnabled /\ fragments > 0,
                   truncated |-> coal.truncated, saved |-> coal.sent]
    /\ fragments' = fragments + (IF nclosed'.marker THEN 1 ELSE 0)
    /\ UNCHANGED <<nnow, step, nfacts, coal, nwatch, handed>>

NarrationNext ==
    \/ Fact
    \/ StartOver
    \/ Observe
    \/ NarrationTick
    \/ WorkEnds
    \/ \E fails \in BOOLEAN : Flush(fails)
    \/ CloseTranscript

(***************************************************************************)
(* Properties.                                                             *)
(***************************************************************************)
WithoutRepeats(lines) ==
    LET kept == {i \in DOMAIN lines : i = 1 \/ lines[i] # lines[i - 1]} IN
    [n \in 1..Cardinality(kept) |-> lines[CHOOSE i \in kept : Cardinality({j \in kept : j < i}) = n - 1]]

\* The gate and the coalescer (application/session/thinking.py) never cost the round a
\* true sentence: while what was handed over fits the budget, the transcript is exactly
\* the handed sentences, whole, in order and each on its own line, immediate repeats
\* aside, and it is not marked stopped or truncated, whichever steps' facts were
\* merged and whichever counters and waits came between.
TrueLinesAreShown ==
    LET length == FoldLeft(LAMBDA n, words : n + Len(Line(words)), 0, handed)
        opened == SelectSeq(coal.sent, LAMBDA c : c.pos = 1)
        lines == [i \in DOMAIN opened |-> opened[i].of] IN
    (ThinkingEnabled /\ length <= MaxTotalChars) =>
        /\ ~coal.stopped /\ ~coal.truncated
        /\ WithoutRepeats(lines) = WithoutRepeats(handed)
        /\ Stripped(coal.sent) = FlattenSeq([i \in DOMAIN lines |-> Stripped(Line(lines[i]))])
=============================================================================
