------------------------------ MODULE Strings ------------------------------
(***************************************************************************)
(* utility/string.cpp.  A string is a sequence of tokens, each a character *)
(* or a word without separators.  What a function that may throw an Error  *)
(* returns is a set: of its one result, or empty when it throws.           *)
(***************************************************************************)
EXTENDS Naturals, Sequences, FiniteSets, SequencesExt, TLC

Comma == ","
Equals == "="
Colon == ":"
Newline == "\n"
Slash == "/"

\* boost::split: n separators make n + 1 pieces, of the empty string too.
Split(s, separator) ==
  FoldLeft(LAMBDA pieces, c : IF c = separator THEN Append(pieces, <<>>)
                              ELSE [pieces EXCEPT ![Len(pieces)] = Append(@, c)],
           << <<>> >>, s)
Join(pieces, separator) ==
  FoldLeft(LAMBDA s, i : (IF i = 1 THEN s ELSE Append(s, separator)) \o pieces[i],
           <<>>, [i \in DOMAIN pieces |-> i])

StartsWith(s, prefix) == IsPrefix(prefix, s)
IsAbsolute(path) == StartsWith(path, <<Slash>>)

\* The key ends at the first separator.
ParseKeyValuePair(pair, separator) ==
  LET end == SelectInSeq(Append(pair, separator), LAMBDA c : c = separator)
  IN IF end = 1 THEN {}
     ELSE {<<SubSeq(pair, 1, end - 1), SubSeq(pair, end + 1, Len(pair))>>}

\* Mutant of AddPair: a repeated key is overwritten.
AddPairAgain(map, pair) ==
  {(kv[1] :> kv[2]) @@ map :
     kv \in {kv \in ParseKeyValuePair(pair, Equals) : Equals \notin ToSet(kv[2])}}

AddPair(map, pair) ==
  {(kv[1] :> kv[2]) @@ map :
     kv \in {kv \in ParseKeyValuePair(pair, Equals) :
               Equals \notin ToSet(kv[2]) /\ kv[1] \notin DOMAIN map}}

ParseMap(input) ==
  IF input = <<>> THEN {<<>>}
  ELSE FoldLeft(LAMBDA maps, pair : UNION {AddPair(map, pair) : map \in maps},
                {<<>>}, Split(input, Comma))
==============================================================================
