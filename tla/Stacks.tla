------------------------------- MODULE Stacks -------------------------------
(* Sequences as stacks, the top last: the two operators of SequencesExt that *)
(* the models of the run-time stacks need, apart from the rest of that       *)
(* module so that what is proved of them is proved in a small context.       *)
EXTENDS Integers, Sequences

Last(s) == s[Len(s)]
Front(s) == SubSeq(s, 1, Len(s) - 1)
=============================================================================
