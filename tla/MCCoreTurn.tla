----------------------------- MODULE MCCoreTurn -----------------------------
(* Every chain of at most four turns, and long ones that take every retry. *)
EXTENDS CoreTurn

ShortChains == UNION {[1..n -> Turns] : n \in 0..4}

Spoken(n, odd, even) ==
    [i \in 1..n |-> [role |-> IF i % 2 = 1 THEN odd ELSE even, blank |-> FALSE]]

LongChains ==
    {Spoken(n, "user", "assistant") : n \in {6, 9, 11}}
    \cup {Spoken(n, "assistant", "user") : n \in {6, 9, 11}}

SomeChains == ShortChains \cup LongChains
=============================================================================
