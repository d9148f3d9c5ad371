------------------------------ MODULE MCRepeat ------------------------------
(***************************************************************************)
(* Two validations in a row, with a panic or a registry change between     *)
(* them, over a handful of cyclic registries, one of them through the      *)
(* payload of an instance.                                                 *)
(***************************************************************************)
EXTENDS GtsValidation

CONSTANTS a, b, c, i

MCTypeIds == {a, b, c}
MCBase == [t \in MCTypeIds |-> NoType]
MCAncestors == [t \in MCTypeIds |-> {}]

Plain(fault, operands) ==
    [is_schema |-> TRUE, fault |-> fault, dialect |-> "draft-07",
     operands |-> operands, refs |-> {}, candidates |-> {}, required |-> {},
     forbidden |-> {}, conforms |-> TRUE, is_abstract |-> FALSE,
     is_final |-> FALSE, type |-> NoType]

(* a accepts b or c, which refer to each other; bad is unsound by itself.  *)
Cycle(bad) ==
    [t \in MCTypeIds |->
        Plain(IF t = bad THEN "late" ELSE "none",
              CASE t = a -> <<{b, c}>> [] t = b -> <<{c}>> [] t = c -> <<{b}, {a}>>)]

(* a accepts b or c; b, unsound by itself, needs c, which itself satisfies. *)
Escape ==
    [t \in MCTypeIds |->
        Plain(IF t = b THEN "late" ELSE "none",
              CASE t = a -> <<{b, c}>> [] t = b -> <<{c}>> [] t = c -> <<{b, c}>>)]

(* a needs b, which needs c. *)
Chain(S) == [t \in S |-> Plain("none", CASE t = a -> <<{b}>> [] t = b -> <<{c}>> [] t = c -> <<>>)]

(* a needs what refers to itself, and then b. *)
Loop == [t \in {a, b} |-> Plain("none", CASE t = a -> <<{a}, {b}>> [] t = b -> <<{b, a}>>)]

(* a and b share definitions by $ref, and b needs a. *)
Shared ==
    [t \in {a, b} |->
        [Plain("none", IF t = b THEN <<{a}>> ELSE <<>>)
            EXCEPT !.refs = {IF t = a THEN b ELSE a}]]

(* i, an instance of b, names a, which accepts i or c; c needs both.        *)
Payloads(bad) ==
    [id \in MCTypeIds \cup {i} |->
        CASE id = i -> [Plain("none", <<>>) EXCEPT !.is_schema = FALSE, !.type = b,
                        !.candidates = {a, b}, !.required = {a}]
          [] id = a -> Plain("none", <<{i, c}>>)
          [] id = b -> Plain(IF b = bad THEN "late" ELSE "none", <<>>)
          [] id = c -> Plain(IF c = bad THEN "late" ELSE "none", <<{i}, {a}>>)]

MCRegistries ==
    {Cycle(NoType), Cycle(b), Escape, Chain({a, b}), Chain({a, b, c}), Loop, Shared,
     Payloads(NoType), Payloads(b), Payloads(c)}

MCRequests ==
    [op : {"schema"}, id : {a, b}, mode : {"any-valid"}]
        \cup [op : {"instance"}, id : {i}, mode : {"any-present", "any-valid"}]
        \cup [op : {"payload"}, id : {b}, mode : {"any-valid"}, doc : {Payloads(NoType)[i]}]
=============================================================================
