---------------------------- MODULE UndoHistory ----------------------------
(***************************************************************************)
(* What an editor with a bounded undo history promises: a step can be      *)
(* taken back and taken again, and doing so restores the whole state that  *)
(* was there, not only its text.                                           *)
(***************************************************************************)
EXTENDS Naturals, Sequences

CONSTANTS State, Initial, Limit

VARIABLES now, past, future
vars == <<now, past, future>>

Front(s) == SubSeq(s, 1, Len(s) - 1)

Init == now = Initial /\ past = <<>> /\ future = <<>>

\* A new step; the oldest one is forgotten at the limit.
Do ==
  /\ now' \in State
  /\ past' = IF Len(past) < Limit THEN Append(past, now) ELSE Append(Tail(past), now)
  /\ future' = <<>>

\* More typing that becomes part of the last step.
Amend ==
  /\ past # <<>> /\ now' \in State
  /\ UNCHANGED past /\ future' = <<>>

Undo ==
  /\ past # <<>>
  /\ now' = past[Len(past)] /\ past' = Front(past)
  /\ future' = <<now>> \o future

Redo ==
  /\ future # <<>>
  /\ now' = Head(future) /\ future' = Tail(future)
  /\ past' = Append(past, now)

\* Another document, or the first one again: nothing can be undone.
Load == now' \in State /\ past' = <<>> /\ future' = <<>>

Next == Do \/ Amend \/ Undo \/ Redo \/ Load
Spec == Init /\ [][Next]_vars
=============================================================================
