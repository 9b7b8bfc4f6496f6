---------------------------- MODULE MCIrcChannel ----------------------------
(* The MODE messages of the run: one letter of any kind; two, one of them  *)
(* a participant's mode, where the other may have a nickname for its       *)
(* parameter; and three, the first read with a parameter too many or too   *)
(* few.                                                                    *)
EXTENDS IrcChannel, TLC, SequencesExt

\* A letter with its parameter, if any.
With(sign, l, params) == [ch |-> [sign |-> sign, letter |-> l], params |-> params]
Rank(l) == {With(sign, l, <<n>>) : sign \in BOOLEAN, n \in Others}
Unset == With(FALSE, "f", <<>>)

Single == Rank("o") \union Rank("v")
          \union {With(TRUE, "k", <<Key>>), With(TRUE, "f", <<Key>>), Unset,
                  With(TRUE, "i", <<>>)}
Beside == {With(TRUE, l, <<n>>) : l \in {"k", "f"}, n \in Others} \union {Unset}
Before == {With(FALSE, "k", <<n>>) : n \in Others} \union {Unset}

Middle == {x \in Rank("o") : x.ch.sign}

Texts ==
    {<<x>> : x \in Single}
    \union {<<x, y>> : x \in Rank("o"), y \in Rank("o") \union {Unset}}
    \union {<<x, y>> : x \in Beside, y \in Rank("o")}
    \union {<<x, y, z>> : x \in Before, y \in Middle, z \in Rank("o")}

MCModeMessages ==
    {[changes |-> [i \in DOMAIN text |-> text[i].ch],
      params |-> FlattenSeq([i \in DOMAIN text |-> text[i].params])] : text \in Texts}

Symmetry == Permutations(Others)
=============================================================================
