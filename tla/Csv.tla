-------------------------------- MODULE Csv ---------------------------------
(***************************************************************************)
(* The two loops of src/src/csv.c, turn by turn: what append() writes of a *)
(* field, and what a turn of the loop of csv_next() does.  Results repeats *)
(* the turns to read whole files; CsvProofs proves what they amount to for *)
(* a field of any length.                                                  *)
(*                                                                         *)
(* A file is a sequence of characters, of which csv.c tells these apart:   *)
(*   "q" the quote, "d" the delimiter, "n" a newline, "s" another space.   *)
(***************************************************************************)
EXTENDS Naturals, Sequences

(* append() puts a field in quotes if it holds one of these.               *)
NeedQuote(field) == \E i \in DOMAIN field : field[i] \in {"d", "q", "n", "s"}

(* What it writes for a character of a field in quotes.                    *)
PutOnce(c) == <<c>>  \* mutant: quotes are written as they are
Put(c) == IF c = "q" THEN <<"q", "q">> ELSE <<c>>

(* csv_next(), when it is called: the position of the file, the buffer,    *)
(* whether the field began with a quote, whether the loop goes on, feof(). *)
Start == [at |-> 1, buf |-> <<>>, quoted |-> FALSE, more |-> TRUE, eof |-> FALSE]

(* Where the field ends at a newline: an empty field takes it along, any   *)
(* other field gives it back for the next call.                            *)
NewlineTaken(buf, at) == at + 1  \* mutant: the newline is always consumed
AtNewline(buf, at) == IF buf = <<>> THEN at + 1 ELSE at

Skip(r, n)      == [r EXCEPT !.at = @ + n]
Keep(r, c, n)   == [r EXCEPT !.at = @ + n, !.buf = Append(@, c)]
Stop(r, at)     == [r EXCEPT !.at = at, !.more = FALSE]
StopAtEof(r, n) == [r EXCEPT !.at = @ + n, !.more = FALSE, !.eof = TRUE]

(* A quote in a field that began with one: the character after it counts,  *)
(* unless it ends the field.                                               *)
AfterQuote(s, r) ==
  IF r.at = Len(s) THEN StopAtEof(r, 1)
  ELSE IF s[r.at + 1] \in {"d", "n"} THEN Stop(r, r.at + 2)
  ELSE Keep(r, s[r.at + 1], 2)

(* One turn of the loop of csv_next().                                     *)
Turn(s, r) ==
  IF r.at > Len(s) THEN StopAtEof(r, 0)
  ELSE LET c == s[r.at]
       IN CASE c = "d" /\ ~r.quoted                  -> Stop(r, r.at + 1)
            [] c = "n"                               -> Stop(r, AtNewline(r.buf, r.at))
            [] c = "s" /\ ~r.quoted /\ r.buf = <<>>  -> Skip(r, 1)
            [] c = "q" /\ r.buf = <<>>               -> [Skip(r, 1) EXCEPT !.quoted = TRUE]
            [] c = "q" /\ r.quoted /\ r.buf # <<>>   -> AfterQuote(s, r)
            [] OTHER                                 -> Keep(r, c, 1)
=============================================================================
