----------------------------- MODULE MCPenguin -----------------------------
(***************************************************************************)
(* Instances of Penguin for TLC: words of two bytes, addresses of three.   *)
(***************************************************************************)
EXTENDS Penguin

\* Two addresses with a leading zero byte and the same first two bytes.
Bayc == 256 * 171 + 1
Weth == 256 * 171 + 2

\* What contracts return: no such function, nothing, a bytes32 with a zero in
\* front, one without a text, neither a word nor a string, the string "A", the
\* empty string with a byte behind it, and two that do not decode (the place of
\* the length is outside of the data, or the length is too large).
Reverts   == Answer(FALSE, <<>>)
Nothing   == Answer(TRUE, <<>>)
Word      == Answer(TRUE, <<0, 65>>)
ZeroWord  == Answer(TRUE, <<0, 0>>)
Odd       == Answer(TRUE, <<0, 65, 66>>)
Text      == Answer(TRUE, <<0, 2, 0, 1, 65, 0>>)
EmptyText == Answer(TRUE, <<0, 2, 0, 0, 0>>)
Outside   == Answer(TRUE, <<0, 9, 0, 1, 65>>)
TooLong   == Answer(TRUE, <<0, 2, 0, 9, 65>>)

Token(symbol, name) == [symbol |-> symbol, name |-> name]
Both(bayc, weth) == [c \in Contracts |-> IF c = Bayc THEN bayc ELSE weth]

MCAnswers == {Both(Token(Text, Text), Token(Word, Word)),
              Both(Token(Reverts, Nothing), Token(ZeroWord, Odd)),
              Both(Token(EmptyText, EmptyText), Token(Nothing, Reverts)),
              Both(Token(Text, ZeroWord), Token(Outside, Text)),
              Both(Token(Odd, TooLong), Token(Text, Nothing))}

MCContracts == {Bayc, Weth}
MCAddresses == {0, 7} \cup MCContracts
===========================================================================
