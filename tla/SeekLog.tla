------------------------------ MODULE SeekLog ------------------------------
(***************************************************************************)
(* What the seek history of libr/io promises: a line of places.  Going     *)
(* somewhere remembers the place that was left and gives up what could be  *)
(* redone, undo and redo walk along the line.                              *)
(***************************************************************************)
EXTENDS Naturals, Sequences, SequencesExt

CONSTANTS
    Offsets,   \* places one can be at
    Capacity   \* number of places that are remembered

VARIABLES
    here,      \* the current offset
    past,      \* offsets that undo goes back to, the latest one last
    present,   \* << >>, or the offset of the line where undo has led to
    future,    \* offsets that redo goes to, the next one first
    went       \* the last command was to go somewhere

vars == <<here, past, present, future, went>>

Init ==
    /\ here \in Offsets /\ past = << >> /\ present = << >> /\ future = << >>
    /\ went = FALSE

\* A place that is already the latest of the past need not be repeated.
Remembered(p) ==
    LET longer == Append(past, p)
        kept   == SubSeq(longer, 1 + Len(longer) - Capacity, Len(longer))
    IN  {IF Len(longer) > Capacity THEN kept ELSE longer}
           \cup {q \in {past} : q # << >> /\ Last(q) = p}

Go(to) ==
    /\ here' = to /\ past' \in Remembered(here)
    /\ present' = << >> /\ future' = << >> /\ went' = TRUE

\* A seek that leaves no trace in the history.
Move(to) == here' = to /\ went' = FALSE /\ UNCHANGED <<past, present, future>>

Undo ==
    /\ past # << >> /\ went' = FALSE
    /\ here' = Last(past) /\ past' = Front(past)
    /\ future' = (IF future = << >> THEN <<here>> ELSE present) \o future
    /\ present' = <<Last(past)>>

Redo ==
    /\ future # << >> /\ went' = FALSE
    /\ here' = Head(future) /\ past' = past \o present
    /\ future' = Tail(future)
    /\ present' = IF Tail(future) = << >> THEN << >> ELSE <<Head(future)>>

Forget ==
    /\ past' = << >> /\ present' = << >> /\ future' = << >> /\ went' = FALSE
    /\ UNCHANGED here

Next == (\E to \in Offsets : Go(to) \/ Move(to)) \/ Undo \/ Redo \/ Forget

Spec == Init /\ [][Next]_vars
=============================================================================
