------------------------------ MODULE PasswdDB ------------------------------
(***************************************************************************)
(* PasswdDB.cpp: a passwd file read into entries, and written.             *)
(***************************************************************************)
EXTENDS Strings

CONSTANT UidRange   \* bound standing for 2^32: a uid is stored modulo it

Digits == [d \in {"0", "1", "2"} |-> CASE d = "0" -> 0 [] d = "1" -> 1 [] OTHER -> 2]
Base == 3

\* std::stoul takes the digits there are and throws when there are none; what
\* it returns is cut to the width of a uid.
Stoul(s) ==
  LET end    == SelectInSeq(Append(s, Colon), LAMBDA c : c \notin DOMAIN Digits)
      number == FoldLeft(LAMBDA n, c : Base * n + Digits[c], 0, SubSeq(s, 1, end - 1))
  IN IF end = 1 THEN {} ELSE {number % UidRange}

\* Mutant of Lines: the text is split at newlines.
LinesSplit(text) == Split(text, Newline)

\* getline: no line follows the last newline.
Lines(text) ==
  IF text = <<>> THEN <<>>
  ELSE LET lines == Split(text, Newline)
       IN IF Last(lines) = <<>> THEN Front(lines) ELSE lines

\* An interpreter that is missing is an empty one.
ParseLine(line) ==
  LET tokens == Split(line, Colon) IN
  IF Len(tokens) \notin 6..7 THEN {}
  ELSE {[loginName |-> tokens[1], encryptedPassword |-> tokens[2], uid |-> uid, gid |-> gid,
         comment |-> tokens[5], home |-> tokens[6],
         interpreter |-> IF Len(tokens) = 7 THEN tokens[7] ELSE <<>>] :
           uid \in Stoul(tokens[3]), gid \in Stoul(tokens[4])}

Read(text) ==
  FoldLeft(LAMBDA dbs, line : {Append(db, e) : db \in dbs, e \in ParseLine(line)},
           {<<>>}, Lines(text))

RECURSIVE Decimal(_)
Decimal(n) ==
  LET digit == CHOOSE d \in DOMAIN Digits : Digits[d] = n % Base
  IN IF n < Base THEN <<digit>> ELSE Append(Decimal(n \div Base), digit)

Write(db) ==
  FlattenSeq([i \in DOMAIN db |->
    Join(<<db[i].loginName, db[i].encryptedPassword, Decimal(db[i].uid), Decimal(db[i].gid),
           db[i].comment, db[i].home, db[i].interpreter>>, Colon) \o <<Newline>>])

------------------------------------------------------------------------------
\* A file that was written is read as the same entries.
EntriesReadBack(text) == \A db \in Read(text) : Read(Write(db)) = {db}
==============================================================================
