-------------------------- MODULE MCPrecompression --------------------------
(* Small instances of Precompression for TLC.                               *)
EXTENDS PrecompressionHistory

\* Lines of one group of four bytes, of which two are compared.  Near is similar
\* to One; One and Two share a compared byte, and so do Two and Three.
One   == <<0, 1, 0, 0>>
Near  == <<0, 1, 1, 0>>
Two   == <<1, 1, 0, 1>>
Three == <<1, 0, 1, 0>>

\* Fewer where counters or arbitrary clusterings make many states.
TraceBlocks(option) ==
    CASE option.updateMethod = "kmeans" -> {One, Three}
      [] option.infiniteFreq = "y"      -> {One, Two, Three}
      [] OTHER                          -> {One, Near, Two, Three}

Option(precompMethod, updateMethod, infiniteFreq, hitUpdate, ignoreIBytes) ==
    [precompMethod |-> precompMethod, updateMethod |-> updateMethod,
     infiniteFreq |-> infiniteFreq, hitUpdate |-> hitUpdate,
     ignoreIBytes |-> ignoreIBytes]

\* Every branch on an option; "add" and "other" leave things alone.
CommandLines ==
    {Option("xor", "frequency", "y", "n", "n"),
     Option("xor", "frequency", "n", "n", "y"),
     Option("xor", "frequency", "n", "y", "n"),
     Option("xor", "frequency", "other", "n", "n"),
     Option("xor", "kmeans", "n", "n", "n"),
     Option("xor", "kmeans", "n", "y", "n"),
     Option("add", "kmeans", "n", "y", "n")}

\* As the usage text recommends: "frequency" with updates on hits.
UpdateOnHit == {Option("xor", "frequency", "y", "y", "n")}
=============================================================================
