---------------------------- MODULE MCSimulation ----------------------------
(* A small instance of Simulation for TLC.                                  *)
EXTENDS Simulation

\* Groups of eight bytes, of which two are compared.  One and Near are similar;
\* Two differs from them.  With bits for bytes, none compresses to less than a
\* byte of every value of two bytes by itself.
Block(weights, last) ==
    [j \in 1 .. LineBytes |->
       IF j % 8 = 0 THEN last
       ELSE IF (j % 8) \in weights THEN ((j - 1) \div 8) % 2
            ELSE ((j - 1) \div 16) % 2]

One  == Block({1, 3, 5, 7}, 0)
Near == Block({1, 3, 5, 7}, 1)
Two  == Block({1, 2, 4, 7}, 0)

TraceBlocks(option) ==
    CASE option.infiniteFreq = "y"     -> {One, Two}
      [] option.infiniteFreq = "n"     -> {One, Near, Two}
      [] option.infiniteFreq = "other" -> {One}

\* The finite table, the infinite one with updates on hits, and neither.
CommandLines ==
    {[precompMethod |-> "xor", updateMethod |-> "frequency",
      infiniteFreq |-> choice[1], hitUpdate |-> choice[2],
      ignoreIBytes |-> "n"] :
        choice \in {<<"n", "n">>, <<"y", "y">>, <<"other", "n">>}}
=============================================================================
