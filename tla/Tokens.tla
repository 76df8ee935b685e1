------------------------------- MODULE Tokens -------------------------------
(* The words of a line of a format file: how _GD_Tokenise (parse.c) takes a   *)
(* line apart and how _GD_StringEscapeise (flush.c) writes a word, byte by    *)
(* byte.  A text is a sequence of byte codes; char is signed, so a byte of    *)
(* 128 and more is never below the space.                                     *)
EXTENDS Integers, Sequences, SequencesExt

Quote == 34
Hash == 35
Slash == 47
Backslash == 92
Space == 32
Newline == 10
Spaces == {32, 10, 9, 13, 12, 11}

IsOctal(c) == c \in 48..55
IsHex(c) == c \in 48..57 \/ c \in 65..70 \/ c \in 97..102

(* The value of a hexadecimal digit.  Letters of both kinds count from zero.  *)
HexValue(c) == CASE c \in 48..57 -> c - 48 [] c \in 65..70 -> c - 65 [] OTHER -> c - 97

(* The bytes of a character, or <<>> where there is none of that number.      *)
UTF8Encode(v) ==
  LET Tail6(x) == 128 + (x % 64)
  IN IF v > 1114111 \/ v = 0 THEN <<>>
     ELSE IF v <= 127 THEN <<v>>
     ELSE IF v <= 2047 THEN <<192 + (v \div 64), Tail6(v)>>
     ELSE IF v <= 65535 THEN <<224 + (v \div 4096), Tail6(v \div 64), Tail6(v)>>
     ELSE <<240 + (v \div 262144), Tail6(v \div 4096), Tail6(v \div 64), Tail6(v)>>

(* What the reader remembers between two bytes: the words so far, whether     *)
(* the next byte begins a word, and the escape sequence or the quotation it   *)
(* is in.                                                                     *)
Reading == [cols |-> <<>>, ws |-> TRUE, quoted |-> FALSE, escaped |-> FALSE,
            mode |-> "none", acc |-> 0, n |-> 0, over |-> FALSE, error |-> FALSE]

Began(s) == IF s.ws THEN [s EXCEPT !.cols = Append(@, <<>>), !.ws = FALSE] ELSE s
Put(s, bytes) == [s EXCEPT !.cols[Len(s.cols)] = @ \o bytes]
Unescaped(s) == [s EXCEPT !.escaped = FALSE, !.mode = "none"]
Bad(s) == [s EXCEPT !.over = TRUE, !.error = TRUE]

(* A byte outside an escape sequence.  Where escapes are off, neither the     *)
(* backslash nor the quotation mark means anything.                           *)
Plainly(s, c, escapes) ==
  CASE c = Backslash /\ escapes -> [s EXCEPT !.escaped = TRUE, !.n = 0, !.acc = 0]
    [] c = Quote /\ escapes ->
         IF s.quoted THEN [s EXCEPT !.quoted = FALSE]
         ELSE [Began(s) EXCEPT !.quoted = TRUE]
    [] ~s.quoted /\ c \in Spaces -> [s EXCEPT !.ws = TRUE]
    [] ~s.quoted /\ c = Hash -> [s EXCEPT !.over = TRUE]
    [] OTHER -> Put(Began(s), <<c>>)

(* The byte after a backslash: a letter with a meaning, the first of some     *)
(* digits, or the byte itself.                                                *)
Letters == [c \in {97, 98, 101, 102, 110, 114, 116, 118} |->
  CASE c = 97 -> 7 [] c = 98 -> 8 [] c = 101 -> 27 [] c = 102 -> 12
    [] c = 110 -> 10 [] c = 114 -> 13 [] c = 116 -> 9 [] OTHER -> 11]

Escape(s, c) ==
  CASE c = Newline -> s
    [] c \in DOMAIN Letters -> Put(Unescaped(s), <<Letters[c]>>)
    [] IsOctal(c) -> [s EXCEPT !.mode = "octal", !.n = 1, !.acc = c - 48]
    [] c = 117 -> [s EXCEPT !.mode = "utf8"]
    [] c = 120 -> [s EXCEPT !.mode = "hex"]
    [] OTHER -> Put(Unescaped(s), <<c>>)

(* A byte that may be one more digit.  The sequence ends with its last digit, *)
(* or before a byte that is none, which is read again outside it.             *)
Digit(s, c, escapes) ==
  LET octal == s.mode = "octal"
      digit == IF octal THEN IsOctal(c) ELSE IsHex(c)
      acc == IF ~digit THEN s.acc ELSE IF octal THEN 8 * s.acc + (c - 48) ELSE 16 * s.acc + HexValue(c)
      n == IF digit THEN s.n + 1 ELSE s.n
      ended == \/ ~digit
               \/ octal /\ (n = 3 \/ acc > 31)
               \/ s.mode = "hex" /\ n = 2
               \/ s.mode = "utf8" /\ (n = 7 \/ acc > 4351)
      bytes == IF s.mode = "utf8" THEN UTF8Encode(acc) ELSE IF acc = 0 THEN <<>> ELSE <<acc % 256>>
      done == Put(Unescaped(s), bytes)
  IN IF ~ended THEN [s EXCEPT !.acc = acc, !.n = n]
     ELSE IF bytes = <<>> THEN Bad(s)
     ELSE IF digit THEN done ELSE Plainly(done, c, escapes)

Step(s, c, escapes) ==
  IF s.over THEN s
  ELSE IF ~s.escaped THEN Plainly(s, c, escapes)
  ELSE IF s.mode = "none" THEN Escape(Began(s), c)
  ELSE Digit(Began(s), c, escapes)

(* The words of a line, and whether it could be read: a line that ends inside *)
(* a quotation or an escape sequence cannot.                                  *)
Tokenise(line, escapes) ==
  LET s == FoldLeft(LAMBDA t, c : Step(t, c, escapes), Reading, line)
  IN [cols |-> s.cols, error |-> s.error \/ s.quoted \/ s.escaped]

(* How a word is written.  A quotation mark gets a backslash too many, and of *)
(* a control character only the low digit is written right, which is read as  *)
(* another one if it is a letter.                                             *)
Escaped(c) ==
  CASE c = Quote -> <<Backslash, Quote, Backslash>>
    [] c \in {Backslash, Hash, Space} -> <<Backslash, c>>
    [] c < 32 -> <<Backslash, 120, 48, IF c % 16 < 10 THEN 48 + (c % 16) ELSE 55 + (c % 16)>>
    [] OTHER -> <<c>>

StringEscapeise(text, escapes) ==
  IF text = <<>> THEN <<Quote, Quote>>
  ELSE IF ~escapes THEN text
  ELSE FlattenSeq([i \in DOMAIN text |-> Escaped(text[i])])

(* The texts the writer and the reader agree on: with escapes, and without.   *)
Survives(c) == c \notin {0, Quote} \cup 10..31
Plain(c) == c \notin {0, Quote, Hash, Backslash} \cup Spaces
=============================================================================
