---------------------------- MODULE DirectoryWalk ----------------------------
(***************************************************************************)
(* The local state of validate_tree: a depth-first walk of the directory   *)
(* graph with an explicit stack.  `pending` is the code's Vec of Visit     *)
(* values, its top at the end; `visiting` and `seen` are its two HashSets; *)
(* `current` is the directory between its Enter and the pushes that end    *)
(* the loop body.                                                          *)
(***************************************************************************)
EXTENDS CacheData

EnterVisit(d) == [visit |-> "enter", dir |-> d]
ExitVisit(d) == [visit |-> "exit", dir |-> d]
Visits == [visit : {"enter", "exit"}, dir : Digests]

Walks == [pending : Seq(Visits), visiting : SUBSET Digests,
          seen : SUBSET Digests, current : Digests \cup {None}]

NoWalk == [pending |-> <<>>, visiting |-> {}, seen |-> {}, current |-> None]

StartWalk(root) == [NoWalk EXCEPT !.pending = <<EnterVisit(root)>>]

Top(stack) == stack[Len(stack)]
Below(stack) == SubSeq(stack, 1, Len(stack) - 1)

Pop(walk) == [walk EXCEPT !.pending = Below(@)]

(* Mutation: a directory seen before is walked again. *)
SkipsTop_forgets(walk) == Top(walk.pending).visit = "exit"

(* The visits that need no look-up: an Exit moves its directory from       *)
(* visiting to seen, an Enter of a directory already seen is skipped.      *)
SkipsTop(walk) ==
    Top(walk.pending).visit = "exit" \/ Top(walk.pending).dir \in walk.seen

(* Mutation: the stack is looked at and not popped. *)
SkipTop_peeks(walk) == walk

SkipTop(walk) ==
    LET top == Top(walk.pending)
    IN  IF top.visit = "exit"
        THEN [Pop(walk) EXCEPT !.visiting = @ \ {top.dir}, !.seen = @ \cup {top.dir}]
        ELSE Pop(walk)

(* Mutation: the limit is one directory too tight. *)
RefusesTop_tight(walk) ==
    LET d == Top(walk.pending).dir
    IN  \/ d \in walk.visiting
        \/ Cardinality(walk.seen) + Cardinality(walk.visiting \cup {d}) >= MaxDirectories
        \/ d \in Oversized

(* The three refusals that come before the directory is looked up: it is   *)
(* already being visited, it is one directory too many, it is too large.   *)
RefusesTop(walk) ==
    LET d == Top(walk.pending).dir
    IN  \/ d \in walk.visiting
        \/ Cardinality(walk.seen) + Cardinality(walk.visiting \cup {d}) > MaxDirectories
        \/ d \in Oversized

(* Mutation: a directory counts as seen as soon as it is entered. *)
EnterTop_early(walk) ==
    LET d == Top(walk.pending).dir
    IN  [Pop(walk) EXCEPT !.visiting = @ \cup {d}, !.seen = @ \cup {d}, !.current = d]

EnterTop(walk) ==
    LET d == Top(walk.pending).dir
    IN  [Pop(walk) EXCEPT !.visiting = @ \cup {d}, !.current = d]

(* The end of the loop body: push the Exit, then an Enter per subdirectory.*)
Enters(dirs) == [i \in 1 .. Len(dirs) |-> EnterVisit(dirs[i])]

(* Mutation: the subdirectories are not pushed. *)
LeaveCurrent_shallow(walk, dirs) ==
    [walk EXCEPT !.pending = Append(@, ExitVisit(walk.current)), !.current = None]

LeaveCurrent(walk, dirs) ==
    [walk EXCEPT !.pending = Append(@, ExitVisit(walk.current)) \o Enters(dirs),
                 !.current = None]

=============================================================================
