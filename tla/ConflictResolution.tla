-------------------------- MODULE ConflictResolution --------------------------
(***************************************************************************)
(* The headless resolver of a file with conflict markers: a plan with one  *)
(* decision per block (planConflictResolution), the review of a decision   *)
(* (reviewConflictDecision), the text and the draft made from the plan     *)
(* (materializeResolution), and the report about them (resolutionReport).  *)
(*                                                                         *)
(* A file is a sequence of bytes with the ranges of its blocks; ranges     *)
(* count from 0, as in the code.  The comparison of BASE with a side is a  *)
(* longest common subsequence of lines, any one, fixed for the file        *)
(* (SequenceDiff).  Whether a target is a rewrite is measured in tokens;   *)
(* here either answer is possible.                                         *)
(***************************************************************************)
EXTENDS Integers, FiniteSets, Sequences
LOCAL INSTANCE SequencesExt

CONSTANTS
  InputFiles,    \* parsed files: bytes and blocks [envelope, left, base, right]
  Newline,       \* the byte that ends a line
  Reviewed,      \* texts a reviewer may write
  Adaptation,    \* the statement with another identifier that is suggested
  Budget,        \* how many analyses and reviews of a file are made, by its number of blocks
  None

VARIABLES
  input,         \* the parsed file
  matched,       \* per block and side, the pairs of lines BASE has in common with it
  options,       \* target and policy of the plan
  plan,          \* its status and decisions
  output, draft, \* what was materialised of this plan, or None
  report,        \* about both, or None
  left           \* how many plans and reviews are still to come (bound)

vars == <<input, matched, options, plan, output, draft, report, left>>

Range_(start, length) == [start |-> start, length |-> length]
End(r) == r.start + r.length
SliceOf(file, r) == SubSeq(file.bytes, r.start + 1, End(r))
Slice(r) == SliceOf(input, r)
Joined(ranges) == FlattenSeq([i \in DOMAIN ranges |-> Slice(ranges[i])])

LinesIn(file, r) ==
  LET text == SliceOf(file, r)
      ends == SelectSeq([i \in DOMAIN text |-> i],
                        LAMBDA i : text[i] = Newline \/ i = Len(text))
      from(k) == IF k = 1 THEN 0 ELSE ends[k - 1]
  IN [k \in DOMAIN ends |-> Range_(r.start + from(k), ends[k] - from(k))]
Lines(r) == LinesIn(input, r)
Text(r) == LET list == Lines(r) IN [k \in DOMAIN list |-> Slice(list[k])]

-----------------------------------------------------------------------------
(* Edits of one side, and the composition of both sides' edits.            *)

Edit(start, count, pieces) == [start |-> start, count |-> count, pieces |-> pieces]

\* The runs of unmatched lines between two matched ones.
Runs(stops, new) ==
  [k \in 1..Len(stops) - 1 |->
     Edit(stops[k][1], stops[k + 1][1] - stops[k][1] - 1,
          SubSeq(new, stops[k][2] + 1, stops[k + 1][2] - 1))]
EditsBetween(old, new, pairs) ==
  LET all == pairs \union {<<0, 0>>, <<Len(old) + 1, Len(new) + 1>>}
  IN SelectSeq(Runs(SetToSortSeq(all, LAMBDA p, q : p[1] < q[1]), new),
               LAMBDA e : e.count > 0 \/ e.pieces # <<>>)
Edits(base, changed, pairs) == EditsBetween(Lines(base), Lines(changed), pairs)

Repeated(text) == \E i, j \in DOMAIN text : i # j /\ text[i] = text[j]
Identical(e, f) ==
  e.start = f.start /\ e.count = f.count /\ Joined(e.pieces) = Joined(f.pieces)

\* Replacements may meet but not overlap; an insertion stays clear of both.
Clash(e, f) ==
  IF e.count > 0 /\ f.count > 0
    THEN e.start < f.start + f.count /\ f.start < e.start + e.count
    ELSE e.start <= f.start + f.count /\ f.start <= e.start + e.count

Weave(lines, edits) ==
  LET step(done, e) ==
        [at |-> e.start + e.count,
         pieces |-> done.pieces \o SubSeq(lines, done.at + 1, e.start) \o e.pieces]
      last == FoldLeft(step, [at |-> 0, pieces |-> <<>>], edits)
  IN last.pieces \o SubSeq(lines, last.at + 1, Len(lines))

\* The pieces of the composed text, or None.
Compose(base, a, b) ==
  LET mine == ToSet(a)
      others == {f \in ToSet(b) : \A e \in mine : ~Identical(e, f)}
  IN IF Repeated(Text(base)) \/ \E e \in mine, f \in others : Clash(e, f) THEN None
     ELSE Weave(Lines(base), SetToSortSeq(mine \union others, LAMBDA e, f : e.start < f.start))

-----------------------------------------------------------------------------
(* The decision about one block.                                           *)

HasPart(text, part) == \E i \in 0..Len(text) - Len(part) : SubSeq(text, i + 1, i + Len(part)) = part
Once(text, part) ==
  Cardinality({i \in 0..Len(text) - Len(part) : SubSeq(text, i + 1, i + Len(part)) = part}) = 1

\* One side only put something before or after BASE, which the other replaced.
Boundary(side, target, base) ==
  LET b == Slice(base)  s == Slice(side)  t == Slice(target)
      more == side.length - base.length
      prefix == Range_(side.start, more)
      suffix == Range_(side.start + base.length, more)
  IN IF b = <<>> \/ t = <<>> \/ HasPart(t, b) \/ more <= 0 \/ ~Once(s, b) THEN None
     ELSE IF SubSeq(s, more + 1, Len(s)) = b
       THEN IF HasPart(t, Slice(prefix)) THEN None ELSE <<prefix, target>>
     ELSE IF IsPrefix(b, s)
       THEN IF HasPart(t, Slice(suffix)) THEN None ELSE <<target, suffix>>
     ELSE None

OneBoundary(side, target, base) == Boundary(side, target, base)
EitherBoundary(side, target, base) ==
  IF Boundary(side, target, base) # None THEN Boundary(side, target, base)
  ELSE Boundary(target, side, base)

Decision(state, rule, replacement, pieces, candidates) ==
  [state |-> state, rule |-> rule, replacement |-> replacement, pieces |-> pieces,
   candidates |-> candidates]
Exact(rule, pieces) == Decision("AutomaticExact", rule, Joined(pieces), pieces, {})
Superseding(rule, target) == Decision("AutomaticPolicy", rule, Slice(target), <<target>>, {})
Undecided == Decision("NeedsReview", "none", None, <<>>, {})

SideOf(block, target) == IF target = "Right" THEN block.left ELSE block.right
TargetOf(block, target) == IF target = "Right" THEN block.right ELSE block.left
EditsOf(i, block, r) ==
  Edits(block.base, r, matched[i][IF r = block.left THEN "Left" ELSE "Right"])

\* The side added text of its own; a line it changed is still in the target.
IndependentAddition(edits) == \E e \in ToSet(edits) : e.count = 0 \/ Len(e.pieces) > e.count
Survives(edits, base, target) ==
  \E e \in ToSet(edits) : \E k \in e.start + 1..e.start + e.count :
    Text(base)[k] # <<Newline>> /\ HasPart(Text(target), <<Text(base)[k]>>)

\* rewritten: the tokens measure a localised edit of a text the target replaced.
ByPolicy(edits, block, target, rewritten) ==
  IF IndependentAddition(edits) \/ Slice(block.base) = <<>> THEN Undecided
  ELSE IF Slice(target) = <<>> THEN Superseding("target-deletion-supersedes-edits", target)
  ELSE IF rewritten /\ ~Survives(edits, block.base, target)
    THEN Superseding("target-rewrite-supersedes-edits", target)
  ELSE Undecided

Accepted(i, block, option, rewritten) ==
  LET target == TargetOf(block, option.target)  side == SideOf(block, option.target)
      base == block.base
  IN IF Slice(block.left) = Slice(block.right) THEN Exact("same-sides", <<block.left>>)
     ELSE IF base = None THEN Undecided
     ELSE IF Slice(block.left) = Slice(base) THEN Exact("left-unchanged", <<block.right>>)
     ELSE IF Slice(block.right) = Slice(base) THEN Exact("right-unchanged", <<block.left>>)
     ELSE IF EitherBoundary(side, target, base) # None
       THEN Exact("boundary", EitherBoundary(side, target, base))
     ELSE LET mine == EditsOf(i, block, side)  theirs == EditsOf(i, block, target)
              pieces == Compose(base, mine, theirs)
          IN IF pieces # None THEN Exact("independent-edits", pieces)
             ELSE IF option.policy = "Replay" THEN ByPolicy(mine, block, target, rewritten)
             ELSE Undecided

\* The lines of BASE that the side replaced, if it shrank them to one of its own:
\* between the lines equal at both ends, or the only edit.
Shrunk(base, side, r, edits) ==
  LET same(k, p, q) == SubSeq(base, p, p + k - 1) = SubSeq(side, q, q + k - 1)
      least == IF Len(base) < Len(side) THEN Len(base) ELSE Len(side)
      prefix == CHOOSE k \in 0..least : same(k, 1, 1) /\ (k = least \/ ~same(k + 1, 1, 1))
      tail(k) == same(k, Len(base) - k + 1, Len(side) - k + 1)
      suffix == CHOOSE k \in 0..least - prefix : tail(k) /\ (k = least - prefix \/ ~tail(k + 1))
      rest == Len(base) - prefix - suffix
  IN IF Len(side) - prefix - suffix = 1 /\ rest >= 2
       THEN {Edit(prefix, rest, <<Lines(r)[prefix + 1]>>)}
     ELSE {e \in ToSet(edits) : Len(edits) = 1 /\ e.count >= 2 /\ Len(e.pieces) = 1}

\* The suggestions there may be: if the target moved the group, all but the first
\* of its lines unchanged, the side's line at one such place, as it is or with the
\* target's identifier.  Whether the lines are assignments to one variable, and
\* of two places only one is, is left open.
Suggestions(i, block, option) ==
  LET target == TargetOf(block, option.target)  side == SideOf(block, option.target)
      base == Text(block.base)  lines == Text(target)
      at(e) == {k \in 0..Len(lines) - e.count : \A j \in 2..e.count :
                  lines[k + j] = base[e.start + j]}
      within(e, k, line) ==
        FlattenSeq(SubSeq(lines, 1, k)) \o line
          \o FlattenSeq(SubSeq(lines, k + e.count + 1, Len(lines)))
      texts(e, k) == {within(e, k, line) : line \in {Slice(e.pieces[1]), Adaptation}}
  IN IF block.base = None THEN {{}}
     ELSE {{}} \union UNION {{texts(e, k) : k \in at(e)} :
                            e \in Shrunk(base, Text(side), side, EditsOf(i, block, side))}

\* Both sides and both orders are always candidates.  Once the candidates exceed
\* their limit, the blocks that follow have none.
WithCandidates(d, l, r, suggested) ==
  [d EXCEPT !.candidates = {l, r, l \o r, r \o l} \union
     (IF d.replacement = None THEN suggested ELSE {})]
Decide(i, block, option, rewritten, suggested) ==
  WithCandidates(Accepted(i, block, option, rewritten),
                 Slice(block.left), Slice(block.right), suggested)
Limited(d, exhausted) == IF exhausted THEN [d EXCEPT !.candidates = {}] ELSE d

\* One element of each block's set.
OnePerBlock(Of(_)) ==
  {f \in [DOMAIN input.blocks -> UNION {Of(i) : i \in DOMAIN input.blocks}] :
     \A i \in DOMAIN f : f[i] \in Of(i)}

\* A bound of the model (left.plans), and an order: all the functions are pure, so that
\* a plan may as well be made before the previous one is materialized.
MayPlan == left.plans > 0 /\ output = None /\ draft = None /\ report = None

Plan(option) ==
  /\ MayPlan
  /\ \E rewritten \in SUBSET {i \in DOMAIN input.blocks : option.policy = "Replay"},
        suggested \in OnePerBlock(LAMBDA i : Suggestions(i, input.blocks[i], option)),
        limit \in 1..Len(input.blocks) + 1 :
       plan' = [status |-> "Complete", decisions |-> [i \in DOMAIN input.blocks |->
         Limited(Decide(i, input.blocks[i], option, i \in rewritten, suggested[i]), i >= limit)]]
  /\ options' = option /\ left' = [left EXCEPT !.plans = @ - 1]
  /\ UNCHANGED <<input, matched, output, draft, report>>

\* Cancelled, or out of its budget: no decision is kept.
PlanStops(option) ==
  /\ MayPlan
  /\ plan' = [status |-> "Stopped", decisions |-> <<>>]
  /\ options' = option /\ left' = [left EXCEPT !.plans = @ - 1]
  /\ UNCHANGED <<input, matched, output, draft, report>>

\* A candidate or a text of the reviewer's, accepted or kept for review.
Review(i, text, deferred) ==
  /\ left.reviews > 0 /\ plan.status = "Complete" /\ i \in DOMAIN plan.decisions
  /\ text \in plan.decisions[i].candidates \union Reviewed
  /\ plan' = [plan EXCEPT !.decisions[i] =
       [@ EXCEPT !.replacement = text, !.pieces = <<>>,
                 !.state = IF deferred THEN "Deferred" ELSE "Reviewed",
                 !.rule = IF deferred THEN "kept-for-review" ELSE "user-reviewed"]]
  /\ output' = None /\ draft' = None /\ report' = None /\ left' = [left EXCEPT !.reviews = @ - 1]
  /\ UNCHANGED <<input, matched, options>>

-----------------------------------------------------------------------------
(* The text of a plan, piece by piece.                                     *)

Pending(d) == d.state \in {"NeedsReview", "Deferred"}
Stopped(status) ==
  [status |-> status, bytes |-> <<>>, ranges |-> <<>>, pieces |-> <<>>, deferred |-> {},
   clean |-> FALSE]

\* A piece with its place in the output and, unless it was written, in the input.
Put(out, text, source) ==
  [out EXCEPT !.bytes = @ \o text,
              !.pieces = Append(@, [output |-> Range_(Len(out.bytes), Len(text)), input |-> source])]
PutSlices(out, ranges) == FoldLeft(LAMBDA done, r : Put(done, Slice(r), r), out, ranges)

Before(i) == LET from == IF i = 1 THEN 0 ELSE End(input.blocks[i - 1].envelope)
                 to == IF i > Len(input.blocks) THEN Len(input.bytes)
                       ELSE input.blocks[i].envelope.start
             IN Range_(from, to - from)

PutDecision(out, i, isDraft) ==
  LET d == plan.decisions[i]  block == input.blocks[i]
  IN IF isDraft /\ Pending(d)
       THEN IF d.replacement # None THEN Put(out, d.replacement, None)
            ELSE PutSlices(out, <<TargetOf(block, options.target)>>)
     ELSE IF d.replacement = None THEN PutSlices(out, <<block.envelope>>)
     ELSE IF d.pieces = <<>> THEN Put(out, d.replacement, None)
     ELSE PutSlices(out, d.pieces)

PutBlock(out, i, isDraft) ==
  LET common == PutSlices(out, <<Before(i)>>)  done == PutDecision(common, i, isDraft)
  IN [done EXCEPT
        !.ranges = Append(@, Range_(Len(common.bytes), Len(done.bytes) - Len(common.bytes))),
        !.deferred = IF isDraft /\ Pending(plan.decisions[i]) THEN @ \union {i} ELSE @,
        !.clean = @ /\ ~Pending(plan.decisions[i])]

Materialized(isDraft) ==
  LET blocks == FoldLeft(LAMBDA out, i : PutBlock(out, i, isDraft),
                         [Stopped("Complete") EXCEPT !.clean = TRUE],
                         [i \in DOMAIN input.blocks |-> i])
  IN PutSlices(blocks, <<Before(Len(input.blocks) + 1)>>)

\* Out of its budget, or without a plan, there is no text.
Materialize(isDraft) ==
  /\ plan # None /\ report = None /\ (IF isDraft THEN draft ELSE output) = None
  /\ \E made \in {Stopped("Stopped")} \union
          (IF plan.status = "Complete" THEN {Materialized(isDraft)} ELSE {}) :
       IF isDraft THEN draft' = made /\ UNCHANGED output
       ELSE output' = made /\ UNCHANGED draft
  /\ UNCHANGED <<input, matched, options, plan, report, left>>

\* What the report says of the text, and where the draft's pending texts are.
ReportStatus ==
  IF output.status # "Complete" THEN output.status
  ELSE IF plan.decisions = <<>> THEN "no-markers"
  ELSE IF output.clean THEN "clean" ELSE "needs-review"
Report ==
  /\ output # None /\ report = None
  /\ report' =
       [status |-> ReportStatus, partial |-> ~output.clean,
        requiresDecision |-> {i \in DOMAIN plan.decisions : Pending(plan.decisions[i])},
        superseded |-> {i \in DOMAIN plan.decisions :
                          plan.decisions[i].state = "AutomaticPolicy" /\ input.blocks[i].base # None},
        ranges |-> output.ranges,
        draft |-> IF draft = None THEN None
                  ELSE [clean |-> draft.clean,
                        items |-> {<<i, draft.ranges[i]>> : i \in draft.deferred}]]
  /\ UNCHANGED <<input, matched, options, plan, output, draft, left>>

-----------------------------------------------------------------------------

\* The longest sets of pairs of equal lines that do not cross.
Matchings(old, new) ==
  LET equal == {p \in (DOMAIN old) \X (DOMAIN new) : old[p[1]] = new[p[2]]}
      common == {S \in SUBSET equal : \A p, q \in S : p # q => (p[1] < q[1]) = (p[2] < q[2])
                                                       /\ p[1] # q[1] /\ p[2] # q[2]}
  IN {S \in common : \A T \in common : Cardinality(T) <= Cardinality(S)}
MatchingsOf(file, block) ==
  LET text(r) == [k \in DOMAIN LinesIn(file, r) |-> SliceOf(file, LinesIn(file, r)[k])]
      of(r) == IF block.base = None THEN {{}} ELSE Matchings(text(block.base), text(r))
  IN {m \in [Left : of(block.left), Right : of(block.right)] :
        SliceOf(file, block.left) = SliceOf(file, block.right) => m.Left = m.Right}

Init ==
  /\ input \in InputFiles
  /\ matched \in OnePerBlock(LAMBDA i : MatchingsOf(input, input.blocks[i]))
  /\ options = None /\ plan = None /\ output = None /\ draft = None /\ report = None
  /\ left = Budget[Len(input.blocks)]

Option == [target : {"Left", "Right"}, policy : {"Replay", "Conservative"}]
Next ==
  \/ \E option \in Option : Plan(option) \/ PlanStops(option)
  \/ \E i \in DOMAIN input.blocks : plan # None /\ plan.status = "Complete" /\
       \E text \in plan.decisions[i].candidates \union Reviewed, deferred \in BOOLEAN :
         Review(i, text, deferred)
  \/ \E isDraft \in BOOLEAN : Materialize(isDraft)
  \/ Report
Spec == Init /\ [][Next]_vars

-----------------------------------------------------------------------------
(* Correctness.                                                            *)

Occurs(text, x) == Cardinality({i \in DOMAIN text : text[i] = x})
SplitLines(text) ==
  LET ends == SelectSeq([i \in DOMAIN text |-> i],
                        LAMBDA i : text[i] = Newline \/ i = Len(text))
  IN [k \in DOMAIN ends |-> SubSeq(text, IF k = 1 THEN 1 ELSE ends[k - 1] + 1, ends[k])]

\* "Exact compatible changes" (README, Automatic conflict resolution) lose nothing:
\* the composed text has the lines both sides kept of BASE, none that a side
\* removed, and all either side added, in that side's order, once for both only if
\* both added it.  If one side only put text around BASE, it is added byte by byte.
KeepsBytes(new, b, l, r) ==
  \A c \in ToSet(new) \union ToSet(l \o r) : Occurs(new, c) + Occurs(b, c) = Occurs(l, c) + Occurs(r, c)
KeepsLines(new, b, l, r, pairs) ==
  LET keeps(side) == {p[1] : p \in pairs[side]}
      kept(x, positions) == Cardinality({k \in positions : b[k] = x})
      own(text, others) == SelectSeq(text, LAMBDA x : x \notin ToSet(b) \union ToSet(others))
  IN /\ \A x \in ToSet(new) \union ToSet(b) \union ToSet(l) \union ToSet(r) :
          LET addedL == Occurs(l, x) - kept(x, keeps("Left"))
              addedR == Occurs(r, x) - kept(x, keeps("Right"))
              both == kept(x, keeps("Left") \intersect keeps("Right"))
          IN Occurs(new, x) \in both + (IF addedL > addedR THEN addedL ELSE addedR)
                                  ..both + addedL + addedR
     /\ own(new, r) = own(l, r) /\ own(new, l) = own(r, l)
KeepsEveryEdit(d, block, pairs) ==
  IF d.rule = "boundary"
    THEN KeepsBytes(d.replacement, Slice(block.base), Slice(block.left), Slice(block.right))
    ELSE KeepsLines(SplitLines(d.replacement), Text(block.base), Text(block.left),
                    Text(block.right), pairs)
Decided(state) == {i \in DOMAIN plan.decisions : plan.decisions[i].state = state}
ExactKeepsEveryEdit ==
  plan # None => \A i \in Decided("AutomaticExact") :
    input.blocks[i].base # None => KeepsEveryEdit(plan.decisions[i], input.blocks[i], matched[i])

\* Under the replay policy alone, the target supersedes edits; the text they
\* changed is no longer in it, and they add no line of their own.
PolicySupersedesRemovedText ==
  plan # None => \A i \in Decided("AutomaticPolicy") :
    LET block == input.blocks[i]  base == Text(block.base)
        target == Text(TargetOf(block, options.target))  side == Text(SideOf(block, options.target))
    IN /\ options.policy = "Replay" /\ plan.decisions[i].replacement = FlattenSeq(target)
       /\ Len(side) <= Len(base) /\ side # base
       /\ \A x \in ToSet(base) \ ToSet(side) : x # <<Newline>> => x \notin ToSet(target)

\* A decision by an exact rule does not depend on the target: another analysis
\* with the other one accepts the same text.
ExactIsWithoutDirection ==
  [][plan # None /\ plan'# None /\ plan'.status = "Complete" /\ plan' # plan
       => \A i \in Decided("AutomaticExact") :
            plan'.decisions[i].state \in {"AutomaticExact", "Reviewed", "Deferred"} /\
            (plan'.decisions[i].state = "AutomaticExact"
               => plan'.decisions[i].replacement = plan.decisions[i].replacement)]_vars

\* Outside the blocks every byte is kept.  A block is its accepted text or, also in
\* the ordinary output, what was kept when its decision was deferred; one that needs
\* review keeps its markers, and in a draft has the target's text.  The pieces cover the output, each with the bytes of its source, and only
\* reviewed text has none.  Clean means that nothing is pending.
Cut(bytes, ranges) ==
  [k \in 1..Len(ranges) + 1 |->
     SubSeq(bytes, (IF k = 1 THEN 0 ELSE End(ranges[k - 1])) + 1,
                   IF k > Len(ranges) THEN Len(bytes) ELSE ranges[k].start)]
Faithful(out, isDraft) ==
  out # None /\ out.status = "Complete" =>
    /\ Cut(out.bytes, out.ranges)
         = Cut(input.bytes, [i \in DOMAIN input.blocks |-> input.blocks[i].envelope])
    /\ \A i \in DOMAIN plan.decisions :
         LET d == plan.decisions[i]  text == SliceOf(out, out.ranges[i])
         IN IF d.state # "NeedsReview" THEN text = d.replacement
            ELSE text = Slice(IF isDraft THEN TargetOf(input.blocks[i], options.target)
                              ELSE input.blocks[i].envelope)
    /\ \A k \in DOMAIN out.pieces :
         LET p == out.pieces[k]
         IN /\ p.output.start = (IF k = 1 THEN 0 ELSE End(out.pieces[k - 1].output))
            /\ IF p.input # None THEN SliceOf(out, p.output) = Slice(p.input)
               ELSE p.output.length = 0 \/ \E i \in Decided("Reviewed") \union Decided("Deferred") : out.ranges[i] = p.output
    /\ out.pieces # <<>> /\ End(out.pieces[Len(out.pieces)].output) = Len(out.bytes)
    /\ out.clean = (Decided("NeedsReview") \union Decided("Deferred") = {})
OutputIsFaithful == Faithful(output, FALSE) /\ Faithful(draft, TRUE)

\* The report calls nothing clean that is not, and lists the pending decisions
\* with the place of their text in the draft.
ReportIsTrue ==
  report # None =>
    /\ report.status \in {"clean", "no-markers"} =>
         /\ ~\E i \in DOMAIN plan.decisions : Pending(plan.decisions[i])
         /\ output.status = "Complete"
    /\ report.draft # None /\ draft.status = "Complete" =>
         {item[1] : item \in report.draft.items} = report.requiresDecision

\* What a plan decides by itself, and what becomes of it.
PlansAreSound ==
  ExactKeepsEveryEdit /\ PolicySupersedesRemovedText /\ OutputIsFaithful /\ ReportIsTrue
=============================================================================
