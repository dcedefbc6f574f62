-------------------------- MODULE MCUsageObserver --------------------------
(***************************************************************************)
(* Small instances of UsageObserver for TLC: every body of up to six bytes *)
(* over two letters and the newline.                                       *)
(***************************************************************************)
EXTENDS UsageObserver

CONSTANTS a, b, nl, MaxLength

MCByte == {a, b, nl}

Bodies == UNION {[1 .. n -> MCByte] : n \in 0 .. MaxLength}

Count(in, out) == [input |-> in, output |-> out]

\* Three texts with usage: the input side only, a running output total, and a
\* later one that is higher on one counter and zero on the other.
Payloads == [text \in {<<a>>, <<a, b>>, <<b, b>>} |->
               CASE text = <<a>>    -> Count(2, 1)
                 [] text = <<a, b>> -> Count(0, 3)
                 [] OTHER           -> Count(1, 0)]
=============================================================================
