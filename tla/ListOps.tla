------------------------------- MODULE ListOps ---------------------------------
(*****************************************************************************)
(* The list comprehensions of the panel, the cascade and the dashboard, as a *)
(* recursive function: the steps, or the candidates, that stay in a list.    *)
(*****************************************************************************)
EXTENDS Integers, Sequences

\* [x for x in list if x in T]
Keep(list, T) ==
    LET kept[i \in 0..Len(list)] ==
            IF i = 0 THEN <<>>
            ELSE IF list[i] \in T THEN Append(kept[i - 1], list[i]) ELSE kept[i - 1]
    IN  kept[Len(list)]

=============================================================================
