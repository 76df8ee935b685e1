------------------------------- MODULE TextFile -------------------------------
(* The text encoding (ascii.c): a sample to a line, read with fscanf, written *)
(* with fprintf and sought line by line with fgets, all on one stdio stream.  *)
(* The stream stands behind "at" lines; "mid" says that the newline of the    *)
(* last of them is still to be read, "eof" is the end-of-file flag of the     *)
(* stream.  pos is moved by seeks and reads, not by writes.                   *)
(*                                                                            *)
(* All samples take the same space: the library overwrites lines in place,    *)
(* whatever their lengths, so that any other use damages the file.            *)
EXTENDS RawFile

TextStart == [at |-> 0, mid |-> FALSE, eof |-> FALSE]

(* _GD_AsciiOpen closes the stream in edata; _GD_AsciiClose leaves it there.  *)
AsciiOpen(st, mode) ==
  IF st.file.edata # "NULL"
  THEN {Stop(st, "undefined")}
  ELSE IF ~st.disk.exists /\ "WRITE" \notin mode
  THEN {Returns(st, -1)}
  ELSE {Returns([st EXCEPT
          !.disk.exists = TRUE,
          !.file = [idata |-> TRUE, mode |-> mode \cup {"READ"}, pos |-> 0,
                    edata |-> "valid", own |-> TextStart]], 0)}

Flushed(st) == [st EXCEPT !.disk.seen = Len(st.disk.cells)]

AsciiClose(st) ==
  {Returns([Flushed(st) EXCEPT !.file.idata = FALSE, !.file.mode = {},
                               !.file.edata = "freed", !.file.own = TextStart], 0)}

(* fgets, n times or as often as it finds something.                          *)
SkipLines(st, n) ==
  Let(st.file.own, LAMBDA f :
    LET left == Len(st.disk.cells) - f.at + (IF f.mid THEN 1 ELSE 0)
        lines == n - (IF f.mid /\ n > 0 THEN 1 ELSE 0)
    IN IF n <= left
       THEN [Flushed(st) EXCEPT !.file.pos = @ + n, !.file.own.at = @ + lines,
                                !.file.own.mid = f.mid /\ n = 0]
       ELSE [Flushed(st) EXCEPT !.file.pos = @ + left,
                                !.file.own = [at |-> Len(st.disk.cells), mid |-> FALSE,
                                              eof |-> TRUE]])

(* fputs of n lines where the stream stands.  Behind a number of which the    *)
(* newline was not read they are glued to that number.                        *)
PutLines(st, vals) ==
  Let(st.file.own, LAMBDA f :
    IF f.mid
    THEN Stop(st, "undefined")
    ELSE [st EXCEPT !.disk.cells = SubSeq(@, 1, f.at) \o vals
                                     \o SubSeq(@, f.at + Len(vals) + 1, Len(@)),
                    !.file.own.at = @ + Len(vals)])

(* Slip: going back does not rewind.                                          *)
AsciiBackNot(st, count) ==
  IF count < st.file.pos THEN [st EXCEPT !.file.pos = count] ELSE st

AsciiBack(st, count) ==
  IF count < st.file.pos
  THEN [Flushed(st) EXCEPT !.file.pos = 0, !.file.own = TextStart]
  ELSE st

(* _GD_AsciiSeek: lines are skipped from where the stream stands, and for     *)
(* writing the file is padded with lines of zeros.                            *)
AsciiSeek(st, count, mode) ==
  {Let(AsciiBack(st, count), LAMBDA s :
     Let(IF count > s.file.pos THEN SkipLines(s, count - s.file.pos) ELSE s, LAMBDA t :
       IF "WRITE" \in mode /\ count > t.file.pos
       THEN Returns([PutLines(t, Copies(count - t.file.pos, Zero)) EXCEPT !.file.pos = count],
                    count)
       ELSE Returns(t, t.file.pos)))}

(* _GD_AsciiRead: nothing is read once the stream has met its end.            *)
AsciiRead(st, n) ==
  {IF st.file.own.eof
   THEN [st EXCEPT !.count = 0, !.data = <<>>]
   ELSE Let(CellsFrom(st, st.file.own.at, n), LAMBDA got :
          [Flushed(st) EXCEPT
             !.count = Len(got), !.data = got, !.file.pos = @ + Len(got),
             !.file.own = [at |-> @.at + Len(got), mid |-> Len(got) = n,
                           eof |-> Len(got) < n]])}

(* _GD_AsciiWrite: into the buffer of the stream.                             *)
AsciiWrite(st, vals) == {Returns(PutLines(st, vals), Len(vals))}

AsciiSync(st) == {Returns(Flushed(st), 0)}

(* _GD_AsciiSize counts the lines that have left the buffer, which some or    *)
(* all of those written may have.                                             *)
AsciiSize(st) ==
  {Returns(st, IF st.disk.exists THEN n ELSE -1) : n \in st.disk.seen..Len(st.disk.cells)}
===============================================================================
