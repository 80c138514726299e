---------------------------- MODULE Presentation ----------------------------
(***************************************************************************)
(* What the agent shows of a state: the settings the administrator may     *)
(* save, the choice of a description, and what becomes of its text.        *)
(*                                                                         *)
(* A text is a sequence of kinds of characters.  "code" is a character     *)
(* that makes a formatting code after an ampersand, "CODE" one in upper    *)
(* case.  A colour is one channel of it.                                   *)
(***************************************************************************)
EXTENDS Integers, Sequences, FiniteSets, FiniteSetsExt, MotdState

Characters == {"amp", "section", "code", "CODE", "letter", "space", "newline"}
Blank == {"space", "newline"}

Larger(a, b) == IF a >= b THEN a ELSE b
Smaller(a, b) == IF a <= b THEN a ELSE b

-----------------------------------------------------------------------------
(* Settings. *)

\* Mutant: the states that are there are looked at, not those that must be.
ValidateOnlyPresent(s) ==
    /\ s.interval \in 1..3600
    /\ \A name \in DOMAIN s.states :
        s.states[name].descriptions > 0 /\ s.states[name].players >= 0
    /\ s.colors = "hex" /\ s.icon \in {"default", "png_64"}

\* ExtensionSettingsData::validate; the forms of colours and icons are each a
\* name for what the check finds.
Validate(s) ==
    /\ s.interval \in 1..3600
    /\ \A name \in StateNames :
        /\ name \in DOMAIN s.states
        /\ s.states[name].descriptions > 0
        /\ s.states[name].players >= 0
    /\ s.colors = "hex" /\ s.icon \in {"default", "png_64"}

\* selected_state: the name of the presentation, or "missing".
SelectedState(s, st) ==
    IF st \in DOMAIN s.states THEN st
    ELSE IF "offline" \in DOMAIN s.states THEN "offline" ELSE "missing"

\* The index status_json takes, from zero.  Beyond the list the text is empty.
Rotation(s, descriptions, time) ==
    (time \div Larger(s.interval, 1)) % Larger(descriptions, 1)

-----------------------------------------------------------------------------
(* Texts. *)

\* Is there an ampersand at i that a code follows?
CodeAt(text, i) ==
    /\ i \in 1..(Len(text) - 1)
    /\ text[i] = "amp"
    /\ text[i + 1] \in {"code", "CODE"}

\* Mutant: the code keeps its case.
NormalizeKeepsCase(text) ==
    [i \in 1..Len(text) |-> IF CodeAt(text, i) THEN "section" ELSE text[i]]

\* normalize_legacy_codes.
Normalize(text) ==
    [i \in 1..Len(text) |->
        IF CodeAt(text, i) THEN "section"
        ELSE IF CodeAt(text, i - 1) THEN "code" ELSE text[i]]

\* The end of the line that starts at i: its newline, or the text's end.
LineEnd(text, i) ==
    Min({j \in i..Len(text) : text[j] = "newline"} \cup {Len(text) + 1})

\* swap_lines: the first two of up to three parts.
SwapLines(text) ==
    LET first  == LineEnd(text, 1)
        second == LineEnd(text, first + 1)
    IN  IF first > Len(text) THEN text
        ELSE SubSeq(text, first + 1, second - 1) \o <<"newline">>
                 \o SubSeq(text, 1, first - 1) \o SubSeq(text, second, Len(text))

-----------------------------------------------------------------------------
(* apply_gradient. *)

\* Does a formatting code start at i?  It takes the next character with it.
OpensCode(text) ==
    LET opens[i \in 0..Len(text)] ==
            i > 0 /\ i < Len(text) /\ text[i] = "section" /\ ~opens[i - 1]
    IN  opens

\* Mutant: blanks use up a step of the gradient as well.
ColoredWithBlanks(text) ==
    {i \in 1..Len(text) : ~OpensCode(text)[i] /\ ~OpensCode(text)[i - 1]}

\* The characters that get a colour of their own.
Colored(text) ==
    {i \in 1..Len(text) : /\ ~OpensCode(text)[i] /\ ~OpensCode(text)[i - 1]
                          /\ text[i] \notin Blank}

\* The steps of the whole gradient: all that is not blank is counted, the
\* characters of formatting codes as well.
GradientSteps(text) ==
    LET visible == Cardinality({i \in 1..Len(text) : text[i] \notin Blank})
    IN  Larger(visible - 1, 1)

\* The position of i is index / steps of the way through all the colours: its
\* segment (from one), and how far it is into it, in parts of steps.
GradientAt(text, colors, i) ==
    LET index   == Cardinality({j \in Colored(text) : j < i})
        scaled  == index * (Len(colors) - 1)
        steps   == GradientSteps(text)
        segment == Smaller(scaled \div steps, Len(colors) - 2)
    IN  [segment |-> segment + 1, amount |-> scaled - segment * steps]

\* The colour of character i, rounded to the nearest.
ColorAt(text, colors, i) ==
    LET at    == GradientAt(text, colors, i)
        steps == GradientSteps(text)
        from  == colors[at.segment]
        to    == colors[at.segment + 1]
    IN  (2 * (from * steps + (to - from) * at.amount) + steps) \div (2 * steps)
=============================================================================
