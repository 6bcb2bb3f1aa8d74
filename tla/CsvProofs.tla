----------------------------- MODULE CsvProofs ------------------------------
(***************************************************************************)
(* What a field is after append() has written it and csv_next() has read   *)
(* it back, for texts of any length and whatever follows in the file.      *)
(*                                                                         *)
(* The run csv reads whole files, with texts of up to three characters.    *)
(* Here the same operators Put and Turn are the steps of a specification,  *)
(* and the induction over the text is an inductive invariant: append()     *)
(* writes a text character by character, the caller writes the delimiter   *)
(* or newline and whatever comes next, and csv_next() reads turn by turn.  *)
(***************************************************************************)
EXTENDS Csv, TLAPS

CONSTANT Char    \* any characters

VARIABLES
  text,   \* the text of the field
  lead,   \* how many quotes it begins with
  end,    \* what the caller writes after it, "d" or "n"
  rest,   \* the remainder of the file
  file,   \* what is written so far
  pos,    \* pos[k] is where in the file the k-th character of the text is,
          \* and the place after the text comes last
  phase,  \* "begin", "write", "read"
  r       \* the local variables of csv_next()

vars == <<text, lead, end, rest, file, pos, phase, r>>

(* Texts without a newline and not only of quotes; text[lead + 1] is the   *)
(* first character that is none.                                           *)
Texts ==
  /\ text \in Seq(Char) /\ end \in {"d", "n"} /\ rest \in Seq(Char)
  /\ \A i \in 1..Len(text) : text[i] # "n"
  /\ lead \in Nat /\ lead < Len(text)
  /\ \A i \in 1..lead : text[i] = "q"
  /\ text[lead + 1] # "q"

Init ==
  /\ Texts
  /\ file = <<>> /\ pos = <<>> /\ phase = "begin" /\ r = Start

(* append() up to its loop.                                                *)
Open ==
  /\ phase = "begin"
  /\ phase' = "write"
  /\ file' = IF NeedQuote(text) THEN <<"q">> ELSE <<>>
  /\ UNCHANGED <<text, lead, end, rest, pos, r>>

(* A turn of its loop, or the same character of fputs().                   *)
WriteChar ==
  /\ phase = "write" /\ Len(pos) < Len(text)
  /\ LET c == text[Len(pos) + 1]
     IN file' = file \o (IF NeedQuote(text) THEN Put(c) ELSE <<c>>)
  /\ pos' = Append(pos, Len(file) + 1)
  /\ UNCHANGED <<text, lead, end, rest, phase, r>>

(* The end of append(), and what the callers write afterwards.             *)
Close ==
  /\ phase = "write" /\ Len(pos) = Len(text)
  /\ phase' = "read"
  /\ file' = file \o (IF NeedQuote(text) THEN <<"q", end>> ELSE <<end>>) \o rest
  /\ pos' = Append(pos, Len(file) + 1)
  /\ UNCHANGED <<text, lead, end, rest, r>>

(* A turn of the loop of csv_next().                                       *)
Read ==
  /\ phase = "read" /\ r.more
  /\ r' = Turn(file, r)
  /\ UNCHANGED <<text, lead, end, rest, file, pos, phase>>

Next == Open \/ WriteChar \/ Close \/ Read

Spec == Init /\ [][Next]_vars

-----------------------------------------------------------------------------

(* csv_next() returns the text without the quotes it begins with, and has  *)
(* read exactly as far as it should: what it reads next is the rest of the *)
(* file, or the newline if the text was written without quotes.            *)
FieldReadBack ==
  phase = "read" /\ ~r.more =>
    /\ Len(r.buf) = Len(text) - lead
    /\ \A i \in 1..Len(r.buf) : r.buf[i] = text[lead + i]
    /\ ~r.eof
    /\ r.at = Len(file) - Len(rest) + (IF end = "d" \/ NeedQuote(text) THEN 1 ELSE 0)

-----------------------------------------------------------------------------
(* The inductive invariant.                                                *)

(* How many characters the k-th one of the text takes in the file.         *)
Width(k) == IF NeedQuote(text) /\ text[k] = "q" THEN 2 ELSE 1
First == IF NeedQuote(text) THEN 2 ELSE 1

(* The characters whose position is known are where they should be.        *)
Layout ==
  /\ file \in Seq(Char \cup {"q", "d", "n"}) /\ pos \in Seq(Nat) 
  /\ NeedQuote(text) /\ phase # "begin" => file # <<>> /\ file[1] = "q"
  /\ \A k \in 1..Len(pos) : k <= Len(text) =>
       /\ pos[k] >= First /\ pos[k] + Width(k) <= Len(file) + 1
       /\ file[pos[k]] = text[k]
       /\ Width(k) = 2 => file[pos[k] + 1] = "q"
  /\ \A k \in 1..Len(pos) : k = 1 => pos[k] = First
  /\ \A k \in 1..Len(pos) : k + 1 \in 1..Len(pos) => pos[k + 1] = pos[k] + Width(k)

(* While append() writes, the file ends where the next character goes.     *)
Writing ==
  /\ phase = "begin" => file = <<>> /\ pos = <<>>
  /\ phase = "write" =>
       /\ Len(pos) <= Len(text)
       /\ pos = <<>> => Len(file) + 1 = First
       /\ pos # <<>> => Len(file) + 1 = pos[Len(pos)] + Width(Len(pos))
  /\ phase # "read" => r = Start

(* After it, the last position is where the field ends.                    *)
Closed ==
  phase = "read" =>
    /\ Len(pos) = Len(text) + 1
    /\ LET e == pos[Len(pos)]
       IN IF NeedQuote(text)
          THEN file[e] = "q" /\ file[e + 1] = end /\ Len(file) = e + 1 + Len(rest)
          ELSE file[e] = end /\ Len(file) = e + Len(rest)

(* csv_next() before the first character it keeps: at the opening quote,   *)
(* or at or inside one of the quotes the text begins with, or at the       *)
(* character after them.                                                   *)
Leading ==
  /\ r.buf = <<>>
  /\ \/ r.at = 1 /\ ~r.quoted
     \/ /\ NeedQuote(text) /\ r.quoted
        /\ \E k \in 1..lead + 1 :
             r.at = pos[k] \/ (k <= lead /\ r.at = pos[k] + 1)

(* And after it: k - 1 characters of the text are behind it.               *)
Inside ==
  /\ r.buf # <<>> /\ r.quoted = NeedQuote(text)
  /\ Len(r.buf) + lead + 1 \in 1..Len(pos)
  /\ r.at = pos[Len(r.buf) + lead + 1]
  /\ \A i \in 1..Len(r.buf) : r.buf[i] = text[lead + i]

Reading ==
  /\ r \in [at : Nat, buf : Seq(Char \cup {"q", "d", "n"}), quoted : BOOLEAN,
            more : BOOLEAN, eof : BOOLEAN]
  /\ phase \in {"begin", "write", "read"}
  /\ phase = "read" /\ r.more => ~r.eof /\ (Leading \/ Inside)

IInv == Texts /\ Layout /\ Writing /\ Closed /\ Reading /\ FieldReadBack

-----------------------------------------------------------------------------

(* The characters of the file.                                             *)
C == Char \cup {"q", "d", "n"}

(* What the concatenation of two files holds.                              *)
LEMMA Concat ==
  ASSUME NEW S, NEW s \in Seq(S), NEW t \in Seq(S)
  PROVE  /\ s \o t \in Seq(S) /\ Len(s \o t) = Len(s) + Len(t)
         /\ \A i \in 1..Len(s) : (s \o t)[i] = s[i]
         /\ \A i \in 1..Len(t) : (s \o t)[Len(s) + i] = t[i]
BY SMT

(* What a sequence holds after one more element.                           *)
LEMMA Appended ==
  ASSUME NEW S, NEW s \in Seq(S), NEW x \in S
  PROVE  /\ Append(s, x) \in Seq(S) /\ Len(Append(s, x)) = Len(s) + 1
         /\ Append(s, x)[Len(s) + 1] = x
         /\ \A i \in 1..Len(s) : Append(s, x)[i] = s[i]
OBVIOUS

(* The invariant holds before append() is called.                          *)
LEMMA Initially == Init => IInv
BY DEF Init, IInv, Texts, Layout, Writing, Closed, Reading, FieldReadBack, Start, First, Width

(* The opening quote of append() keeps the invariant.                      *)
LEMMA OpenStep == IInv /\ Open => IInv'
<1> SUFFICES ASSUME IInv, Open PROVE IInv'
  OBVIOUS
<1>1. Texts'
  BY DEF IInv, Texts, Open
<1>2. pos' = <<>> /\ Len(pos') = 0 /\ phase' = "write" /\ text' = text /\ r' = Start
  BY DEF IInv, Writing, Open
<1>4. file' \in Seq(C) /\ Len(file') + 1 = First /\ (NeedQuote(text) => file' # <<>> /\ file'[1] = "q")
  <2>1. CASE NeedQuote(text)
    BY <2>1 DEF Open, First, C
  <2>2. CASE ~NeedQuote(text)
    BY <2>2 DEF Open, First, C
  <2> QED
    BY <2>1, <2>2
<1>5. First' = First
  BY <1>2 DEF First
<1>6. Layout'
  BY <1>2, <1>4, <1>5 DEF Layout, C
<1>7. Writing'
  BY <1>2, <1>4, <1>5 DEF Writing, IInv, Texts
<1>3. Closed' /\ Reading' /\ FieldReadBack'
  BY DEF IInv, Writing, Closed, Reading, FieldReadBack, Open
<1> QED
  BY <1>1, <1>3, <1>6, <1>7 DEF IInv

(* The pieces that append() writes at once.                                *)
LEMMA Short ==
  ASSUME NEW a \in C, NEW b \in C
  PROVE  /\ <<a>> \in Seq(C) /\ Len(<<a>>) = 1 /\ <<a>>[1] = a
         /\ <<a, b>> \in Seq(C) /\ Len(<<a, b>>) = 2
         /\ <<a, b>>[1] = a /\ <<a, b>>[2] = b
OBVIOUS

(* What the turn for a character leaves: the characters already written,   *)
(* the new one after them and, behind a quote, another one.                *)
LEMMA Written ==
  ASSUME Texts, Layout, WriteChar
  PROVE  LET n == Len(pos) + 1
         IN /\ n \in 1..Len(text)
            /\ file' \in Seq(C) /\ Len(file') = Len(file) + Width(n)
            /\ \A i \in 1..Len(file) : file'[i] = file[i]
            /\ file'[Len(file) + 1] = text[n]
            /\ Width(n) = 2 => file'[Len(file) + 2] = "q"
<1> DEFINE n == Len(pos) + 1
<1>1. n \in 1..Len(text) /\ text[n] \in C /\ file \in Seq(C) /\ "q" \in C
  BY DEF WriteChar, Texts, Layout, C
<1>2. PICK w \in Seq(C) : /\ Len(w) = Width(n) /\ w[1] = text[n]
                          /\ Width(n) = 2 => w[2] = "q"
                          /\ file' = file \o w
  <2>1. CASE NeedQuote(text) /\ text[n] = "q"
    <3>1. file' = file \o <<"q", "q">> /\ Width(n) = 2
      BY <2>1 DEF WriteChar, Put, Width
    <3> HIDE DEF n
    <3> QED
      BY <1>1, <2>1, <3>1, Short
  <2>2. CASE ~(NeedQuote(text) /\ text[n] = "q")
    <3>1. file' = file \o <<text[n]>> /\ Width(n) = 1
      BY <2>2 DEF WriteChar, Put, Width
    <3> HIDE DEF n
    <3> DEFINE v == <<text[n]>>
    <3>2. v \in Seq(C) /\ Len(v) = 1 /\ v[1] = text[n] /\ file' = file \o v
      BY <1>1, <3>1, Short
    <3> HIDE DEF v
    <3> QED
      BY <3>1, <3>2
  <2> QED
    BY <2>1, <2>2
<1> HIDE DEF n
<1>4. file \o w \in Seq(C) /\ Len(file \o w) = Len(file) + Len(w)
      /\ (\A i \in 1..Len(file) : (file \o w)[i] = file[i])
      /\ (\A i \in 1..Len(w) : (file \o w)[Len(file) + i] = w[i])
  BY <1>1, Concat
<1>5. Width(n) \in {1, 2}
  BY DEF Width
<1> QED
  BY <1>1, <1>2, <1>4, <1>5 DEF n

(* A character and its double lie inside a file that reaches past both.    *)
LEMMA WithinFile ==
  ASSUME NEW p \in Nat, NEW l \in Nat, NEW v \in {1, 2}, p >= 1, p + v <= l + 1
  PROVE  p \in 1..l /\ (v = 2 => p + 1 \in 1..l)
<1>1. CASE v = 1
  BY <1>1
<1>2. CASE v = 2
  BY <1>2
<1> QED
  BY <1>1, <1>2

(* Each turn of the loop of append() keeps the invariant.                  *)
LEMMA WriteStep == IInv /\ WriteChar => IInv'
<1> SUFFICES ASSUME IInv, WriteChar PROVE IInv'
  OBVIOUS
<1> DEFINE n == Len(pos) + 1
<1>0. Texts /\ Layout /\ Writing /\ Closed /\ Reading /\ FieldReadBack
  BY DEF IInv
<1>1. /\ n \in 1..Len(text)
      /\ file' \in Seq(C) /\ Len(file') = Len(file) + Width(n)
      /\ \A i \in 1..Len(file) : file'[i] = file[i]
      /\ file'[Len(file) + 1] = text[n]
      /\ Width(n) = 2 => file'[Len(file) + 2] = "q"
  BY <1>0, Written
<1>2. /\ text' = text /\ phase = "write" /\ phase' = "write" /\ r' = r
      /\ pos \in Seq(Nat) /\ file \in Seq(C) /\ Len(pos) \in Nat /\ Len(file) \in Nat
      /\ n = Len(pos) + 1 /\ Len(text) \in Nat
  BY <1>0 DEF WriteChar, Layout, C, Texts
<1>3. /\ pos' \in Seq(Nat) /\ Len(pos') = n /\ pos'[n] = Len(file) + 1
      /\ \A k \in 1..Len(pos) : pos'[k] = pos[k]
  BY <1>2 DEF WriteChar
<1> HIDE DEF n
<1>4. First' = First /\ First \in {1, 2} /\ (\A k : Width(k) \in {1, 2})
  BY <1>2 DEF First, Width
<1>n. Len(file) \in Nat /\ Len(pos) \in Nat /\ First \in Nat /\ First >= 1
  BY <1>2, <1>4
<1>a. ASSUME NEW k PROVE Width(k)' = Width(k)
  BY <1>2 DEF Width
<1>5. Texts'
  BY <1>0 DEF Texts, WriteChar
<1>6. Len(file) + 1 >= First /\ (n = 1 => Len(file) + 1 = First)
      /\ (n > 1 => Len(file) + 1 = pos[n - 1] + Width(n - 1))
  <2>1. CASE n = 1
    BY <1>0, <1>2, <1>4, <2>1 DEF Writing
  <2>2. CASE n # 1
    <3>1. pos # <<>> /\ n - 1 = Len(pos) /\ n - 1 \in 1..Len(pos) /\ pos[n - 1] \in Nat
      BY <1>2, <2>2
    <3>2. pos[n - 1] >= First
      <4>1. n - 1 \in 1..Len(pos) /\ n - 1 <= Len(text)
        BY <1>1, <1>2, <3>1
      <4> QED
        BY <1>0, <4>1 DEF Layout
    <3> QED
      <4>1. Len(file) + 1 = pos[n - 1] + Width(n - 1)
        BY <1>0, <1>2, <3>1 DEF Writing
      <4>2. Width(n - 1) \in {1, 2}
        BY <1>4
      <4>3. Len(file) + 1 >= First
        BY <1>n, <3>1, <3>2, <4>1, <4>2
      <4> QED
        BY <2>2, <4>1, <4>3
  <2> QED
    BY <2>1, <2>2
<1>7. Layout'
  <2>1. file' \in Seq(Char \cup {"q", "d", "n"}) /\ pos' \in Seq(Nat)
    BY <1>1, <1>3 DEF C
  <2>2. NeedQuote(text') /\ phase' # "begin" => file' # <<>> /\ file'[1] = "q"
    <3> SUFFICES ASSUME NeedQuote(text) PROVE file' # <<>> /\ file'[1] = "q"
      BY <1>2
    <3>1. Len(file) >= 1
      BY <1>2, <1>4, <1>6 DEF First
    <3> QED
      BY <1>0, <1>1, <1>2, <1>4, <3>1 DEF Layout
  <2>3. ASSUME NEW k \in 1..Len(pos'), k <= Len(text')
        PROVE  /\ pos'[k] >= First' /\ pos'[k] + Width(k)' <= Len(file') + 1
               /\ file'[pos'[k]] = text'[k]
               /\ Width(k)' = 2 => file'[pos'[k] + 1] = "q"
    <3>0. Width(k)' = Width(k) /\ Width(k) \in {1, 2}
      BY <1>4, <1>a
    <3> SUFFICES /\ pos'[k] >= First /\ pos'[k] + Width(k) <= Len(file') + 1
                 /\ file'[pos'[k]] = text[k]
                 /\ Width(k) = 2 => file'[pos'[k] + 1] = "q"
      BY <1>2, <1>4, <3>0
    <3>1. CASE k = n
      <4>1. pos'[k] = Len(file) + 1 /\ text[k] = text[n] /\ Width(k) = Width(n)
        BY <1>3, <3>1
      <4>2. pos'[k] >= First /\ pos'[k] + Width(k) <= Len(file') + 1
        BY <1>1, <1>2, <1>6, <3>0, <4>1
      <4>3. Width(k) = 2 => file'[pos'[k] + 1] = "q"
        BY <1>1, <1>2, <4>1
      <4> QED
        BY <1>1, <4>1, <4>2, <4>3
    <3>2. CASE k # n
      <4>1. k \in 1..Len(pos) /\ pos'[k] = pos[k] /\ pos[k] \in Nat
        BY <1>2, <1>3, <3>2
      <4>2. /\ pos[k] >= First /\ pos[k] + Width(k) <= Len(file) + 1
            /\ file[pos[k]] = text[k]
            /\ Width(k) = 2 => file[pos[k] + 1] = "q"
        BY <1>0, <1>2, <2>3, <4>1 DEF Layout
      <4>3. Len(file') >= Len(file) /\ Len(file') \in Nat
        BY <1>1, <1>2, <1>4
      <4>4. pos[k] \in 1..Len(file) /\ (Width(k) = 2 => pos[k] + 1 \in 1..Len(file))
        <5>1. pos[k] \in Nat /\ pos[k] >= First /\ pos[k] + Width(k) <= Len(file) + 1
          BY <4>1, <4>2
        <5>2. pos[k] >= 1
          BY <1>n, <5>1
        <5> QED
          BY <1>n, <3>0, <5>1, <5>2, WithinFile
      <4>5. pos[k] + Width(k) <= Len(file') + 1
        <5>1. pos[k] + Width(k) <= Len(file) + 1 /\ pos[k] \in Nat
          BY <4>1, <4>2
        <5> QED
          BY <1>n, <3>0, <4>3, <5>1
      <4> QED
        BY <1>1, <4>1, <4>2, <4>4, <4>5
    <3> QED
      BY <3>1, <3>2
  <2>4. \A k \in 1..Len(pos') : k = 1 => pos'[k] = First'
    BY <1>0, <1>2, <1>3, <1>4, <1>6 DEF Layout
  <2>5. ASSUME NEW k \in 1..Len(pos'), k + 1 \in 1..Len(pos')
        PROVE  pos'[k + 1] = pos'[k] + Width(k)'
    <3>1. k \in 1..Len(pos) /\ pos'[k] = pos[k] /\ Width(k)' = Width(k)
      BY <1>2, <1>3, <1>a, <2>5
    <3>2. CASE k + 1 = n
      <4>1. k = n - 1 /\ n > 1 /\ pos'[k + 1] = Len(file) + 1
        BY <1>3, <1>n, <3>1, <3>2
      <4> QED
        BY <1>6, <3>1, <4>1
    <3>3. CASE k + 1 # n
      <4>1. k + 1 \in 1..Len(pos)
        BY <1>2, <1>3, <2>5, <3>1, <3>3
      <4>2. pos[k + 1] = pos[k] + Width(k)
        BY <1>0, <3>1, <4>1 DEF Layout
      <4> QED
        BY <1>3, <3>1, <4>1, <4>2
    <3> QED
      BY <3>2, <3>3
  <2> QED
    BY <2>1, <2>2, <2>3, <2>4, <2>5 DEF Layout
<1>8. Writing'
  <2>1. pos' # <<>> /\ Len(pos') = n /\ n <= Len(text)
    BY <1>1, <1>2, <1>3
  <2>2. Len(file') + 1 = pos'[n] + Width(n)
    BY <1>1, <1>2, <1>3, <1>4
  <2>3. r' = Start
    BY <1>0, <1>2 DEF Writing
  <2> QED
    BY <1>2, <1>4, <1>a, <2>1, <2>2, <2>3 DEF Writing
<1>9. Closed' /\ Reading' /\ FieldReadBack'
  BY <1>0, <1>2 DEF Closed, Reading, FieldReadBack
<1> QED
  BY <1>5, <1>7, <1>8, <1>9 DEF IInv

(* So do the closing quote and what the caller writes behind the field.    *)
LEMMA CloseStep == IInv /\ Close => IInv'
<1> SUFFICES ASSUME IInv, Close PROVE IInv'
  OBVIOUS
<1> DEFINE n == Len(pos) + 1
<1>0. Texts /\ Layout /\ Writing /\ Closed /\ Reading /\ FieldReadBack
  BY DEF IInv
<1>2. /\ text' = text /\ end' = end /\ rest' = rest /\ lead' = lead /\ r' = r
      /\ phase = "write" /\ phase' = "read"
      /\ pos \in Seq(Nat) /\ file \in Seq(C) /\ Len(pos) \in Nat /\ Len(file) \in Nat
      /\ n = Len(text) + 1 /\ Len(pos) = Len(text) /\ Len(text) \in Nat /\ n > 1
      /\ rest \in Seq(C) /\ end \in C /\ "q" \in C /\ Len(rest) \in Nat
  BY <1>0 DEF Close, Layout, C, Texts
<1>3. /\ pos' \in Seq(Nat) /\ Len(pos') = n /\ pos'[n] = Len(file) + 1
      /\ \A k \in 1..Len(pos) : pos'[k] = pos[k]
  <2>1. pos' = Append(pos, Len(file) + 1) /\ Len(file) + 1 \in Nat /\ pos \in Seq(Nat)
    BY <1>2 DEF Close
  <2> QED
    BY <2>1, Appended
<1> HIDE DEF n
<1>4. First' = First /\ First \in {1, 2} /\ (\A k : Width(k) \in {1, 2})
  BY <1>2 DEF First, Width
<1>n. Len(file) \in Nat /\ Len(pos) \in Nat /\ First \in Nat /\ First >= 1
  BY <1>2, <1>4
<1>a. ASSUME NEW k PROVE Width(k)' = Width(k)
  BY <1>2 DEF Width
<1>1. PICK w \in Seq(C) :
        /\ file' = (file \o w) \o rest
        /\ NeedQuote(text) => Len(w) = 2 /\ w[1] = "q" /\ w[2] = end
        /\ ~NeedQuote(text) => Len(w) = 1 /\ w[1] = end
  <2>1. CASE NeedQuote(text)
    <3> DEFINE v == <<"q", end>>
    <3>1. v \in Seq(C) /\ Len(v) = 2 /\ v[1] = "q" /\ v[2] = end
      BY <1>2, Short
    <3>2. file' = (file \o v) \o rest
      BY <2>1 DEF Close
    <3> HIDE DEF v
    <3> QED
      BY <2>1, <3>1, <3>2
  <2>2. CASE ~NeedQuote(text)
    <3> DEFINE v == <<end>>
    <3>1. v \in Seq(C) /\ Len(v) = 1 /\ v[1] = end
      BY <1>2, Short
    <3>2. file' = (file \o v) \o rest
      BY <2>2 DEF Close
    <3> HIDE DEF v
    <3> QED
      BY <2>2, <3>1, <3>2
  <2> QED
    BY <2>1, <2>2
<1>5. /\ file' \in Seq(C) /\ Len(file') = Len(file) + Len(w) + Len(rest)
      /\ \A i \in 1..Len(file) : file'[i] = file[i]
      /\ \A i \in 1..Len(w) : file'[Len(file) + i] = w[i]
  <2> DEFINE f == file \o w
  <2>1. f \in Seq(C) /\ Len(f) = Len(file) + Len(w)
        /\ (\A i \in 1..Len(file) : f[i] = file[i])
        /\ (\A i \in 1..Len(w) : f[Len(file) + i] = w[i])
    BY <1>2, Concat
  <2> HIDE DEF f
  <2>2. f \o rest \in Seq(C) /\ Len(f \o rest) = Len(f) + Len(rest)
        /\ (\A i \in 1..Len(f) : (f \o rest)[i] = f[i])
    <3>1. f \in Seq(C) /\ rest \in Seq(C)
      BY <1>2, <2>1
    <3> QED
      BY <3>1, Concat
  <2>3. file' = f \o rest
    BY <1>1 DEF f
  <2>4. Len(w) \in Nat
    OBVIOUS
  <2>5. Len(rest) \in Nat /\ Len(f) \in Nat
    BY <1>2, <1>n, <2>1, <2>4
  <2>6. \A i \in 1..Len(file) : file'[i] = file[i]
    BY <1>n, <2>1, <2>2, <2>3, <2>4
  <2>7. \A i \in 1..Len(w) : file'[Len(file) + i] = w[i]
    BY <1>n, <2>1, <2>2, <2>3, <2>4
  <2>8. file' \in Seq(C) /\ Len(file') = Len(file) + Len(w) + Len(rest)
    BY <1>n, <2>1, <2>2, <2>3, <2>4, <2>5
  <2> QED
    BY <2>6, <2>7, <2>8
<1>6. Len(file) + 1 = pos[n - 1] + Width(n - 1) /\ n - 1 = Len(pos) /\ pos[n - 1] \in Nat
      /\ n - 1 \in 1..Len(pos) /\ pos[n - 1] >= First
  <2>1. pos # <<>> /\ n - 1 = Len(pos) /\ n - 1 \in 1..Len(pos) /\ pos[n - 1] \in Nat
    BY <1>2
  <2>2. pos[n - 1] >= First
    BY <1>0, <1>2, <2>1 DEF Layout
  <2>3. Len(file) + 1 = pos[Len(pos)] + Width(Len(pos))
    BY <1>0, <1>2, <2>1 DEF Writing
  <2> QED
    BY <2>1, <2>2, <2>3
<1>7. Texts'
  BY <1>0, <1>2 DEF Texts
<1>8. Layout'
  <2>1. file' \in Seq(Char \cup {"q", "d", "n"}) /\ pos' \in Seq(Nat)
    BY <1>5, <1>3 DEF C
  <2>2. NeedQuote(text') /\ phase' # "begin" => file' # <<>> /\ file'[1] = "q"
    <3> SUFFICES ASSUME NeedQuote(text) PROVE file' # <<>> /\ file'[1] = "q"
      BY <1>2
    <3>1. Len(file) >= 1 /\ file[1] = "q"
      BY <1>0, <1>2 DEF Layout
    <3>2. file'[1] = "q" /\ Len(file') >= 1
      BY <1>2, <1>5, <3>1
    <3> QED
      BY <1>5, <3>2
  <2>3. ASSUME NEW k \in 1..Len(pos'), k <= Len(text')
        PROVE  /\ pos'[k] >= First' /\ pos'[k] + Width(k)' <= Len(file') + 1
               /\ file'[pos'[k]] = text'[k]
               /\ Width(k)' = 2 => file'[pos'[k] + 1] = "q"
    <3>0. Width(k)' = Width(k) /\ Width(k) \in {1, 2}
      BY <1>4, <1>a
    <3> SUFFICES /\ pos'[k] >= First /\ pos'[k] + Width(k) <= Len(file') + 1
                 /\ file'[pos'[k]] = text[k]
                 /\ Width(k) = 2 => file'[pos'[k] + 1] = "q"
      BY <1>2, <1>4, <3>0
    <3>1. k \in 1..Len(pos) /\ pos'[k] = pos[k] /\ pos[k] \in Nat
      BY <1>2, <1>3, <2>3
    <3>2. /\ pos[k] >= First /\ pos[k] + Width(k) <= Len(file) + 1
          /\ file[pos[k]] = text[k]
          /\ Width(k) = 2 => file[pos[k] + 1] = "q"
      BY <1>0, <1>2, <2>3, <3>1 DEF Layout
    <3>3. Len(file') >= Len(file) /\ Len(file') \in Nat
      BY <1>2, <1>5
    <3>4. pos[k] \in 1..Len(file) /\ (Width(k) = 2 => pos[k] + 1 \in 1..Len(file))
      <4>1. pos[k] \in Nat /\ pos[k] >= First /\ pos[k] + Width(k) <= Len(file) + 1
        BY <3>1, <3>2
      <4>2. pos[k] >= 1
        BY <1>n, <4>1
      <4> QED
        BY <1>n, <3>0, <4>1, <4>2, WithinFile
    <3>5. pos[k] + Width(k) <= Len(file') + 1
      <4>1. pos[k] + Width(k) <= Len(file) + 1 /\ pos[k] \in Nat
        BY <3>1, <3>2
      <4> QED
        BY <1>n, <3>0, <3>3, <4>1
    <3> QED
      BY <1>5, <3>1, <3>2, <3>4, <3>5
  <2>4. \A k \in 1..Len(pos') : k = 1 => pos'[k] = First'
    BY <1>0, <1>2, <1>3, <1>4 DEF Layout
  <2>5. ASSUME NEW k \in 1..Len(pos'), k + 1 \in 1..Len(pos')
        PROVE  pos'[k + 1] = pos'[k] + Width(k)'
    <3>1. k \in 1..Len(pos) /\ pos'[k] = pos[k] /\ Width(k)' = Width(k)
      BY <1>2, <1>3, <1>a, <2>5
    <3>2. CASE k + 1 = n
      <4>1. k = n - 1 /\ n > 1 /\ pos'[k + 1] = Len(file) + 1
        BY <1>3, <1>n, <3>1, <3>2
      <4> QED
        BY <1>6, <3>1, <4>1
    <3>3. CASE k + 1 # n
      <4>1. k + 1 \in 1..Len(pos)
        BY <1>2, <1>3, <2>5, <3>1, <3>3
      <4>2. pos[k + 1] = pos[k] + Width(k)
        BY <1>0, <3>1, <4>1 DEF Layout
      <4> QED
        BY <1>3, <3>1, <4>1, <4>2
    <3> QED
      BY <3>2, <3>3
  <2> QED
    BY <2>1, <2>2, <2>3, <2>4, <2>5 DEF Layout
<1>9. Closed'
  <2>1. Len(pos') = Len(text') + 1 /\ pos'[Len(pos')] = Len(file) + 1
    BY <1>2, <1>3
  <2>0. /\ NeedQuote(text) => Len(w) = 2 /\ w[1] = "q" /\ w[2] = end
        /\ ~NeedQuote(text) => Len(w) = 1 /\ w[1] = end
    BY <1>1
  <2>4. Len(file) \in Nat /\ Len(rest) \in Nat
    BY <1>2
  <2>2. CASE NeedQuote(text)
    <3>a. Len(w) = 2
      BY <2>0, <2>2
    <3>0. Len(w) = 2 /\ 1 \in 1..Len(w) /\ 2 \in 1..Len(w)
      BY <3>a
    <3>1. /\ file'[Len(file) + 1] = "q" /\ file'[Len(file) + 2] = end
          /\ Len(file') = Len(file) + 2 + Len(rest)
      BY <1>5, <2>0, <2>2, <2>4, <3>0
    <3> QED
      BY <1>2, <2>1, <2>2, <3>1 DEF Closed
  <2>3. CASE ~NeedQuote(text)
    <3>a. Len(w) = 1
      BY <2>0, <2>3
    <3>0. Len(w) = 1 /\ 1 \in 1..Len(w)
      BY <3>a
    <3>1. file'[Len(file) + 1] = end /\ Len(file') = Len(file) + 1 + Len(rest)
      BY <1>5, <2>0, <2>3, <2>4, <3>0
    <3> QED
      BY <1>2, <2>1, <2>3, <3>1 DEF Closed
  <2> QED
    BY <2>2, <2>3
<1>10. r' = Start
  BY <1>0, <1>2 DEF Writing
<1>11. Writing' /\ Reading' /\ FieldReadBack'
  BY <1>0, <1>2, <1>10 DEF Writing, Reading, FieldReadBack, Start, Leading
<1> QED
  BY <1>7, <1>8, <1>9, <1>11 DEF IInv

(* The turns of csv_next(), one lemma for each way a turn can go.          *)
LEMMA TurnKeeps ==
  ASSUME NEW s, NEW q, ~(q.at > Len(s)), s[q.at] \notin {"n", "q"},
         q.quoted \/ s[q.at] \notin {"d", "s"}
  PROVE  Turn(s, q) = Keep(q, s[q.at], 1)
BY DEF Turn

(* A quote with nothing in the buffer is skipped: the field is quoted.     *)
LEMMA TurnSkipsQuote ==
  ASSUME NEW s, NEW q, ~(q.at > Len(s)), s[q.at] = "q", q.buf = <<>>
  PROVE  Turn(s, q) = [Skip(q, 1) EXCEPT !.quoted = TRUE]
BY DEF Turn

(* A later quote of a quoted field makes csv_next() read the next          *)
(* character.                                                              *)
LEMMA TurnLooksPastQuote ==
  ASSUME NEW s, NEW q, ~(q.at > Len(s)), s[q.at] = "q", q.buf # <<>>, q.quoted
  PROVE  Turn(s, q) = AfterQuote(s, q)
BY DEF Turn

(* A delimiter or newline ends a field without quotes.                     *)
LEMMA TurnEnds ==
  ASSUME NEW s, NEW q, ~(q.at > Len(s)), q.buf # <<>>, ~q.quoted, s[q.at] \in {"d", "n"}
  PROVE  Turn(s, q) = Stop(q, IF s[q.at] = "d" THEN q.at + 1 ELSE q.at)
BY DEF Turn, AtNewline

(* The local variables of csv_next().                                      *)
Reader == [at : Nat, buf : Seq(C), quoted : BOOLEAN, more : BOOLEAN, eof : BOOLEAN]

(* What csv_next() knows after it has kept a character.                    *)
LEMMA Keeps ==
  ASSUME NEW q \in Reader, NEW c \in C, NEW n \in Nat
  PROVE  LET k == Keep(q, c, n)
         IN /\ k \in Reader /\ k.at = q.at + n /\ k.buf = Append(q.buf, c)
            /\ k.quoted = q.quoted /\ k.more = q.more /\ k.eof = q.eof
<1>1. Append(q.buf, c) \in Seq(C) /\ q.at + n \in Nat
  BY DEF Reader
<1>2. DOMAIN q = {"at", "buf", "quoted", "more", "eof"}
  BY DEF Reader
<1> DEFINE b == Append(q.buf, c)
           m == q.at + n
<1>3. Keep(q, c, n) = [q EXCEPT !.at = m, !.buf = b]
  BY DEF Keep
<1> HIDE DEF b, m
<1>4. b \in Seq(C) /\ m \in Nat
  BY <1>1 DEF b, m
<1>5. LET k == [q EXCEPT !.at = m, !.buf = b]
      IN /\ k \in Reader /\ k.at = m /\ k.buf = b
         /\ k.quoted = q.quoted /\ k.more = q.more /\ k.eof = q.eof
  BY <1>4 DEF Reader
<1> QED
  BY <1>3, <1>5 DEF b, m

(* What csv_next() knows when it leaves its loop.                          *)
LEMMA Stops ==
  ASSUME NEW q \in Reader, NEW n \in Nat
  PROVE  LET k == Stop(q, n)
         IN /\ k \in Reader /\ k.at = n /\ k.buf = q.buf
            /\ k.quoted = q.quoted /\ k.more = FALSE /\ k.eof = q.eof
BY DEF Reader, Stop

(* What csv_next() knows after it has skipped a quote.                     *)
LEMMA SkipsQuote ==
  ASSUME NEW q \in Reader
  PROVE  LET k == [Skip(q, 1) EXCEPT !.quoted = TRUE]
         IN /\ k \in Reader /\ k.at = q.at + 1 /\ k.buf = q.buf
            /\ k.quoted = TRUE /\ k.more = q.more /\ k.eof = q.eof
<1> DEFINE m == q.at + 1
<1>1. m \in Nat
  BY DEF Reader
<1>2. Skip(q, 1) = [q EXCEPT !.at = m]
  BY DEF Skip
<1> HIDE DEF m
<1>3. /\ [q EXCEPT !.at = m] \in Reader /\ [q EXCEPT !.at = m].at = m
      /\ [q EXCEPT !.at = m].buf = q.buf
      /\ [q EXCEPT !.at = m].more = q.more /\ [q EXCEPT !.at = m].eof = q.eof
  BY <1>1 DEF Reader
<1> DEFINE p == [q EXCEPT !.at = m]
<1> HIDE DEF p
<1>4. ASSUME p \in Reader
      PROVE  LET k == [p EXCEPT !.quoted = TRUE]
             IN /\ k \in Reader /\ k.at = p.at /\ k.buf = p.buf
                /\ k.quoted = TRUE /\ k.more = p.more /\ k.eof = p.eof
  BY <1>4 DEF Reader
<1> QED
  BY <1>2, <1>3, <1>4 DEF p, m

(* What csv_next() finds in the file.                                      *)
LEMMA Found ==
  ASSUME IInv, phase = "read", r.more
  PROVE  /\ r \in Reader /\ ~r.eof /\ (Leading \/ Inside)
         /\ file \in Seq(C) /\ Len(file) \in Nat /\ Len(text) \in Nat /\ Len(rest) \in Nat
         /\ pos \in Seq(Nat) /\ Len(pos) = Len(text) + 1
         /\ lead \in Nat /\ lead < Len(text) /\ pos[1] = First
         /\ NeedQuote(text) => Len(file) > 0 /\ file[1] = "q"
         /\ \A k \in 1..Len(text) :
              /\ text[k] \in C /\ text[k] # "n" /\ (text[k] = "q" => NeedQuote(text))
              /\ ~NeedQuote(text) => text[k] \notin {"d", "s"}
              /\ pos[k] \in 1..Len(file) /\ file[pos[k]] = text[k]
              /\ pos[k + 1] = pos[k] + (IF text[k] = "q" THEN 2 ELSE 1)
              /\ text[k] = "q" => pos[k] + 1 \in 1..Len(file) /\ file[pos[k] + 1] = "q"
<1>0. Texts /\ Layout /\ Closed /\ Reading
  BY DEF IInv
<1>1. /\ r \in Reader /\ ~r.eof /\ (Leading \/ Inside)
      /\ file \in Seq(C) /\ Len(file) \in Nat /\ Len(text) \in Nat /\ Len(rest) \in Nat
      /\ pos \in Seq(Nat) /\ Len(pos) = Len(text) + 1
      /\ lead \in Nat /\ lead < Len(text)
      /\ (NeedQuote(text) => Len(file) > 0 /\ file[1] = "q")
  <2>1. r \in Reader
    BY <1>0 DEF Reading, Reader, C
  <2>2. ~r.eof /\ (Leading \/ Inside)
    BY <1>0 DEF Reading
  <2>3. /\ text \in Seq(Char) /\ rest \in Seq(Char) /\ file \in Seq(C) /\ pos \in Seq(Nat)
        /\ lead \in Nat /\ lead < Len(text)
    BY <1>0 DEF Texts, Layout, C
  <2>4. Len(pos) = Len(text) + 1
    BY <1>0 DEF Closed
  <2>5. NeedQuote(text) => file # <<>> /\ file[1] = "q"
    BY <1>0 DEF Layout
  <2>6. Len(file) \in Nat /\ Len(text) \in Nat /\ Len(rest) \in Nat /\ (file # <<>> => Len(file) > 0)
    BY <2>3
  <2> QED
    BY <2>1, <2>2, <2>3, <2>4, <2>5, <2>6
<1>2. pos[1] = First
  BY <1>0, <1>1 DEF Layout
<1>3. ASSUME NEW k \in 1..Len(text)
      PROVE  /\ text[k] \in C /\ text[k] # "n" /\ (text[k] = "q" => NeedQuote(text))
             /\ ~NeedQuote(text) => text[k] \notin {"d", "s"}
             /\ pos[k] \in 1..Len(file) /\ file[pos[k]] = text[k]
             /\ pos[k + 1] = pos[k] + (IF text[k] = "q" THEN 2 ELSE 1)
             /\ text[k] = "q" => pos[k] + 1 \in 1..Len(file) /\ file[pos[k] + 1] = "q"
  <2>1. k \in DOMAIN text /\ text[k] \in C /\ text[k] # "n"
    BY <1>0 DEF Texts, C
  <2>2. (text[k] = "q" => NeedQuote(text)) /\ (~NeedQuote(text) => text[k] \notin {"d", "s"})
    BY <2>1 DEF NeedQuote
  <2>3. Width(k) = IF text[k] = "q" THEN 2 ELSE 1
    BY <2>2 DEF Width
  <2>4. k \in 1..Len(pos) /\ k + 1 \in 1..Len(pos) /\ pos[k] \in Nat
    BY <1>1
  <2>5. /\ pos[k] >= First /\ pos[k] + Width(k) <= Len(file) + 1
        /\ file[pos[k]] = text[k]
        /\ Width(k) = 2 => file[pos[k] + 1] = "q"
        /\ pos[k + 1] = pos[k] + Width(k)
    BY <1>0, <1>1, <2>4 DEF Layout
  <2>6. pos[k] >= 1
    BY <2>4, <2>5 DEF First
  <2>7. pos[k] \in 1..Len(file) /\ (text[k] = "q" => pos[k] + 1 \in 1..Len(file))
    <3>1. CASE text[k] = "q"
      <4>1. pos[k] \in Nat /\ Len(file) \in Nat /\ pos[k] >= 1 /\ pos[k] + 2 <= Len(file) + 1
        BY <1>1, <2>3, <2>4, <2>5, <2>6, <3>1
      <4> QED
        BY <4>1
    <3>2. CASE text[k] # "q"
      <4>1. pos[k] \in Nat /\ Len(file) \in Nat /\ pos[k] >= 1 /\ pos[k] + 1 <= Len(file) + 1
        BY <1>1, <2>3, <2>4, <2>5, <2>6, <3>2
      <4> QED
        BY <3>2, <4>1
    <3> QED
      BY <3>1, <3>2
  <2> QED
    BY <2>1, <2>2, <2>3, <2>5, <2>7
<1> QED
  BY <1>1, <1>2, <1>3

(* A turn that keeps the k-th character of the text.                       *)
LEMMA KeepsNext ==
  ASSUME IInv, phase = "read", r.more, NEW k \in 1..Len(text), k = Len(r.buf) + lead + 1,
         \A i \in 1..Len(r.buf) : r.buf[i] = text[lead + i],
         r.quoted = NeedQuote(text), r.at = pos[k],
         Read, r' = Keep(r, text[k], IF text[k] = "q" THEN 2 ELSE 1)
  PROVE  Reading' /\ FieldReadBack'
<1> DEFINE n == IF text[k] = "q" THEN 2 ELSE 1
<1>1. /\ r \in Reader /\ ~r.eof /\ pos \in Seq(Nat) /\ lead \in Nat
      /\ Len(pos) = Len(text) + 1 /\ Len(text) \in Nat
      /\ text[k] \in C /\ pos[k + 1] = pos[k] + n
  BY Found
<1>2. n \in Nat /\ r' = Keep(r, text[k], n)
  OBVIOUS
<1> HIDE DEF n
<1>3. /\ r' \in Reader /\ r'.at = r.at + n /\ r'.buf = Append(r.buf, text[k])
      /\ r'.quoted = r.quoted /\ r'.more = r.more /\ r'.eof = r.eof
  <2> DEFINE q == Keep(r, text[k], n)
  <2>1. /\ q \in Reader /\ q.at = r.at + n /\ q.buf = Append(r.buf, text[k])
        /\ q.quoted = r.quoted /\ q.more = r.more /\ q.eof = r.eof
    BY <1>1, <1>2, Keeps, Zenon
  <2> HIDE DEF q
  <2>2. r' = q
    BY <1>2 DEF q
  <2> QED
    BY <2>1, <2>2
<1>4. /\ text' = text /\ lead' = lead /\ pos' = pos /\ phase' = phase
  BY DEF Read
<1>5. r.buf \in Seq(C) /\ Len(r.buf) \in Nat
  BY <1>1 DEF Reader
<1>6. /\ r'.buf # <<>> /\ Len(r'.buf) = Len(r.buf) + 1 /\ r'.buf[Len(r.buf) + 1] = text[k]
      /\ \A i \in 1..Len(r.buf) : r'.buf[i] = r.buf[i]
  <2>1. Len(Append(r.buf, text[k])) = Len(r.buf) + 1 /\ Append(r.buf, text[k])[Len(r.buf) + 1] = text[k]
        /\ (\A i \in 1..Len(r.buf) : Append(r.buf, text[k])[i] = r.buf[i])
    BY <1>1, <1>5, Appended
  <2>2. r'.buf # <<>>
    BY <1>3, <1>5, <2>1
  <2> QED
    BY <1>3, <2>1, <2>2
<1>7. Inside'
  <2>1. r'.quoted = NeedQuote(text')
    BY <1>3, <1>4
  <2>2. Len(r'.buf) + lead' + 1 = k + 1 /\ k + 1 \in 1..Len(pos')
    <3>1. Len(r'.buf) = Len(r.buf) + 1 /\ lead' = lead /\ Len(r.buf) \in Nat /\ lead \in Nat
      BY <1>1, <1>4, <1>5, <1>6
    <3>a. (Len(r.buf) + 1) + lead + 1 = k + 1
      BY <3>1
    <3>2. Len(r'.buf) + lead' + 1 = k + 1
      BY <3>1, <3>a, Zenon
    <3>3. k + 1 \in 1..Len(pos')
      BY <1>1, <1>4
    <3> QED
      BY <3>2, <3>3
  <2>3. r'.at = pos'[k + 1]
    BY <1>1, <1>3, <1>4
  <2>4. ASSUME NEW i \in 1..Len(r'.buf) PROVE r'.buf[i] = text'[lead' + i]
    <3>1. CASE i = Len(r.buf) + 1
      <4>1. lead + i = k
        BY <1>1, <1>5, <3>1
      <4> QED
        BY <1>4, <1>6, <3>1, <4>1
    <3>2. CASE i # Len(r.buf) + 1
      <4>1. i \in 1..Len(r.buf)
        BY <1>5, <1>6, <3>2
      <4> QED
        BY <1>4, <1>6, <4>1
    <3> QED
      BY <3>1, <3>2
  <2> QED
    BY <1>6, <2>1, <2>2, <2>3, <2>4 DEF Inside
<1>8. Reading'
  <2>1. phase' = "read" /\ ~r'.eof /\ r' \in Reader
    BY <1>1, <1>3, <1>4
  <2> QED
    BY <1>7, <2>1 DEF Reading, Reader, C
<1>9. FieldReadBack'
  BY <1>3 DEF FieldReadBack
<1> QED
  BY <1>8, <1>9

(* A turn over a quote that is not kept.                                   *)
LEMMA SkipsNext ==
  ASSUME IInv, phase = "read", r.more, Read, r.buf = <<>>, NeedQuote(text),
         r' = [Skip(r, 1) EXCEPT !.quoted = TRUE],
         NEW k \in 1..lead + 1,
         r.at + 1 = pos[k] \/ (k <= lead /\ r.at + 1 = pos[k] + 1)
  PROVE  Reading' /\ FieldReadBack'
<1>1. r \in Reader /\ ~r.eof
  BY Found
<1>2. /\ r' \in Reader /\ r'.at = r.at + 1 /\ r'.buf = r.buf
      /\ r'.quoted = TRUE /\ r'.more = r.more /\ r'.eof = r.eof
  <2> DEFINE q == [Skip(r, 1) EXCEPT !.quoted = TRUE]
  <2>1. /\ q \in Reader /\ q.at = r.at + 1 /\ q.buf = r.buf
        /\ q.quoted = TRUE /\ q.more = r.more /\ q.eof = r.eof
    BY <1>1, SkipsQuote, Zenon
  <2>2. r' = q
    OBVIOUS
  <2> HIDE DEF q
  <2> QED
    BY <2>1, <2>2
<1>3. text' = text /\ lead' = lead /\ pos' = pos /\ phase' = phase
  BY DEF Read
<1>4. Leading'
  BY <1>2, <1>3 DEF Leading
<1>5. Reading'
  <2>1. phase' = "read" /\ ~r'.eof
    BY <1>1, <1>2, <1>3
  <2> QED
    BY <1>2, <1>4, <2>1 DEF Reading, Reader, C
<1>6. FieldReadBack'
  BY <1>2 DEF FieldReadBack
<1> QED
  BY <1>5, <1>6

(* The turn that ends the field.                                           *)
LEMMA EndsField ==
  ASSUME IInv, phase = "read", r.more, Read, NEW e \in Nat, r' = Stop(r, e),
         Len(r.buf) + lead + 1 = Len(text) + 1,
         \A i \in 1..Len(r.buf) : r.buf[i] = text[lead + i],
         e = Len(file) - Len(rest) + (IF end = "d" \/ NeedQuote(text) THEN 1 ELSE 0)
  PROVE  Reading' /\ FieldReadBack'
<1>1. r \in Reader /\ ~r.eof /\ lead \in Nat /\ Len(text) \in Nat
  BY Found
<1>2. /\ r' \in Reader /\ r'.at = e /\ r'.buf = r.buf /\ ~r'.more /\ r'.eof = r.eof
  <2> DEFINE q == Stop(r, e)
  <2>1. q \in Reader /\ q.at = e /\ q.buf = r.buf /\ ~q.more /\ q.eof = r.eof
    BY <1>1, Stops, Zenon
  <2> HIDE DEF q
  <2>2. r' = q
    BY DEF q
  <2> QED
    BY <2>1, <2>2
<1>3. /\ text' = text /\ lead' = lead /\ phase' = phase /\ end' = end /\ rest' = rest
      /\ file' = file
  BY DEF Read
<1>4. Len(r.buf) \in Nat
  BY <1>1 DEF Reader
<1>5. Reading'
  BY <1>2, <1>3 DEF Reading, Reader, C
<1>6. FieldReadBack'
  <2>1. Len(r.buf) = Len(text) - lead
    BY <1>1, <1>4
  <2>2. ~r'.eof /\ r'.at = Len(file') - Len(rest') + (IF end' = "d" \/ NeedQuote(text') THEN 1 ELSE 0)
    BY <1>1, <1>2, <1>3
  <2> QED
    BY <1>2, <1>3, <2>1, <2>2 DEF FieldReadBack
<1> QED
  BY <1>5, <1>6

(* Each turn of the loop of csv_next() keeps the invariant.                *)
LEMMA ReadStep == IInv /\ Read => IInv'
<1> SUFFICES ASSUME IInv, Read PROVE IInv'
  OBVIOUS
<1>0. phase = "read" /\ r.more /\ r' = Turn(file, r)
  BY DEF Read
<1>1. Texts' /\ Layout' /\ Writing' /\ Closed'
  BY DEF IInv, Read, Texts, Layout, Writing, Closed, First, Width
<1>2. /\ r \in Reader /\ ~r.eof /\ (Leading \/ Inside)
      /\ file \in Seq(C) /\ Len(file) \in Nat /\ Len(text) \in Nat /\ Len(rest) \in Nat
      /\ pos \in Seq(Nat) /\ Len(pos) = Len(text) + 1
      /\ lead \in Nat /\ lead < Len(text) /\ pos[1] = First
      /\ (NeedQuote(text) => Len(file) > 0 /\ file[1] = "q")
  BY <1>0, Found
<1>3. ASSUME NEW k \in 1..Len(text)
      PROVE  /\ text[k] \in C /\ text[k] # "n" /\ (text[k] = "q" => NeedQuote(text))
             /\ ~NeedQuote(text) => text[k] \notin {"d", "s"}
             /\ pos[k] \in 1..Len(file) /\ file[pos[k]] = text[k]
             /\ pos[k + 1] = pos[k] + (IF text[k] = "q" THEN 2 ELSE 1)
             /\ text[k] = "q" => pos[k] + 1 \in 1..Len(file) /\ file[pos[k] + 1] = "q"
  BY <1>0, Found
<1>n. Len(file) \in Nat
  BY <1>2
<1>4. /\ \A k \in 1..lead : text[k] = "q"
      /\ text[lead + 1] # "q"
  BY DEF IInv, Texts
<1>5. 1 \in 1..lead + 1 /\ lead + 1 \in 1..Len(text)
      /\ (\A k \in 1..lead : k \in 1..Len(text) /\ k \in 1..lead + 1 /\ k + 1 \in 1..lead + 1)
  BY <1>2
<1>6. CASE Leading
  <2>0. r.buf = <<>> /\ Len(r.buf) = 0
    BY <1>6 DEF Leading
  <2>1. CASE r.at = 1 /\ ~r.quoted /\ NeedQuote(text)
    <3>1. r' = [Skip(r, 1) EXCEPT !.quoted = TRUE]
      BY <1>0, <1>2, <2>0, <2>1, TurnSkipsQuote
    <3>2. r.at + 1 = pos[1]
      BY <1>2, <2>1 DEF First
    <3> QED
      BY <1>0, <1>1, <1>5, <2>0, <2>1, <3>1, <3>2, SkipsNext DEF IInv
  <2>2. CASE r.at = 1 /\ ~r.quoted /\ ~NeedQuote(text)
    <3>1. lead = 0
      BY <1>2, <1>3, <1>4, <1>5, <2>2
    <3>2. r.at = pos[1] /\ 1 \in 1..Len(text) /\ 1 = Len(r.buf) + lead + 1
      BY <1>2, <2>0, <2>2, <3>1 DEF First
    <3>3. file[r.at] = text[1] /\ text[1] \notin {"n", "q", "d", "s"} /\ ~(r.at > Len(file))
      BY <1>2, <1>3, <2>2, <3>2
    <3>4. r' = Keep(r, text[1], 1)
      BY <1>0, <3>3, TurnKeeps
    <3>5. \A i \in 1..Len(r.buf) : r.buf[i] = text[lead + i]
      BY <2>0
    <3>6. Reading' /\ FieldReadBack'
      <4> DEFINE k == 1
      <4>1. k \in 1..Len(text) /\ k = Len(r.buf) + lead + 1 /\ r.at = pos[k]
            /\ r' = Keep(r, text[k], IF text[k] = "q" THEN 2 ELSE 1)
        BY <3>2, <3>3, <3>4
      <4> HIDE DEF k
      <4>2. r.quoted \in BOOLEAN
        BY <1>2 DEF Reader
      <4>3. NeedQuote(text) \in BOOLEAN
        BY DEF NeedQuote
      <4>4. r.quoted = NeedQuote(text)
        BY <2>2, <4>2, <4>3
      <4> QED
        BY <1>0, <3>5, <4>1, <4>4, KeepsNext
    <3> QED
      BY <1>1, <3>6 DEF IInv
  <2>3. ASSUME NeedQuote(text), r.quoted, NEW k \in 1..lead, r.at = pos[k]
        PROVE  IInv'
    <3>1. file[r.at] = "q" /\ ~(r.at > Len(file)) /\ r.at + 1 = pos[k] + 1 /\ k <= lead
      <4>1. text[k] = "q" /\ k \in 1..Len(text) /\ k <= lead
        BY <1>2, <1>4, <1>5
      <4>2. pos[k] \in 1..Len(file) /\ file[pos[k]] = "q"
        BY <1>3, <4>1
      <4>3. ~(pos[k] > Len(file))
        BY <1>n, <4>2
      <4> QED
        BY <2>3, <4>1, <4>2, <4>3
    <3>2. r' = [Skip(r, 1) EXCEPT !.quoted = TRUE]
      BY <1>0, <2>0, <3>1, TurnSkipsQuote
    <3> QED
      BY <1>0, <1>1, <1>5, <2>0, <2>3, <3>1, <3>2, SkipsNext DEF IInv
  <2>4. ASSUME NeedQuote(text), r.quoted, NEW k \in 1..lead, r.at = pos[k] + 1
        PROVE  IInv'
    <3>0. text[k] = "q" /\ k \in 1..Len(text)
      BY <1>4, <1>5
    <3>1. /\ file[r.at] = "q" /\ ~(r.at > Len(file))
          /\ pos[k + 1] = pos[k] + 2 /\ pos[k] \in Nat
      <4>1. /\ pos[k] \in 1..Len(file) /\ pos[k + 1] = pos[k] + 2
            /\ pos[k] + 1 \in 1..Len(file) /\ file[pos[k] + 1] = "q"
        BY <1>3, <3>0
      <4>2. pos[k] \in Nat
        BY <1>n, <4>1
      <4>3. ~(pos[k] + 1 > Len(file))
        BY <1>n, <4>1, <4>2
      <4> QED
        BY <2>4, <4>1, <4>2, <4>3
    <3>2. r.at + 1 = pos[k + 1]
      BY <2>4, <3>1
    <3>3. r' = [Skip(r, 1) EXCEPT !.quoted = TRUE]
      BY <1>0, <2>0, <3>1, TurnSkipsQuote
    <3> QED
      BY <1>0, <1>1, <1>5, <2>0, <2>4, <3>2, <3>3, SkipsNext DEF IInv
  <2>5. CASE NeedQuote(text) /\ r.quoted /\ r.at = pos[lead + 1]
    <3> DEFINE k == lead + 1
    <3>1. k \in 1..Len(text) /\ k = Len(r.buf) + lead + 1 /\ text[k] # "q" /\ r.at = pos[k]
      BY <1>2, <1>4, <1>5, <2>0, <2>5
    <3> HIDE DEF k
    <3>2. file[r.at] = text[k] /\ text[k] \notin {"n", "q"} /\ ~(r.at > Len(file))
      <4>1. pos[k] \in 1..Len(file) /\ file[pos[k]] = text[k] /\ text[k] # "n"
        BY <1>3, <3>1
      <4>2. ~(pos[k] > Len(file))
        BY <1>2, <4>1
      <4> QED
        BY <3>1, <4>1, <4>2
    <3>3. r' = Keep(r, text[k], 1)
      BY <1>0, <2>5, <3>2, TurnKeeps
    <3>4. \A i \in 1..Len(r.buf) : r.buf[i] = text[lead + i]
      BY <2>0
    <3>5. Reading' /\ FieldReadBack'
      BY <1>0, <2>5, <3>1, <3>2, <3>3, <3>4, KeepsNext
    <3> QED
      BY <1>1, <3>5 DEF IInv
  <2>6. ASSUME NEW k \in 1..lead + 1 PROVE k \in 1..lead \/ k = lead + 1
    BY <1>2
  <2> QED
    BY <1>6, <2>1, <2>2, <2>3, <2>4, <2>5, <2>6 DEF Leading
<1>7. CASE Inside
  <2> DEFINE k == Len(r.buf) + lead + 1
  <2>0. /\ r.buf # <<>> /\ r.quoted = NeedQuote(text) /\ k \in 1..Len(text) + 1
        /\ r.at = pos[k] /\ k = Len(r.buf) + lead + 1
        /\ \A i \in 1..Len(r.buf) : r.buf[i] = text[lead + i]
    BY <1>2, <1>7 DEF Inside
  <2> HIDE DEF k
  <2>1. CASE k \in 1..Len(text) /\ text[k] = "q"
    <3>1. /\ NeedQuote(text) /\ r.at \in Nat /\ file[r.at] = "q" /\ file[r.at + 1] = "q"
          /\ r.at + 1 <= Len(file)
      <4>1. /\ NeedQuote(text) /\ pos[k] \in 1..Len(file) /\ file[pos[k]] = "q"
            /\ pos[k] + 1 \in 1..Len(file) /\ file[pos[k] + 1] = "q"
        BY <1>3, <2>1
      <4>2. pos[k] \in Nat /\ pos[k] + 1 <= Len(file)
        BY <1>2, <4>1
      <4> QED
        BY <2>0, <4>1, <4>2
    <3>2. ~(r.at > Len(file)) /\ r.at # Len(file)
      BY <1>2, <3>1
    <3>3. r' = AfterQuote(file, r)
      BY <1>0, <2>0, <3>1, <3>2, TurnLooksPastQuote
    <3>4. r' = Keep(r, text[k], 2)
      BY <2>1, <3>1, <3>2, <3>3 DEF AfterQuote
    <3>5. Reading' /\ FieldReadBack'
      BY <1>0, <2>0, <2>1, <3>4, KeepsNext
    <3> QED
      BY <1>1, <3>5 DEF IInv
  <2>2. CASE k \in 1..Len(text) /\ text[k] # "q"
    <3>1. /\ r.at \in 1..Len(file) /\ file[r.at] = text[k] /\ text[k] # "n"
          /\ ~NeedQuote(text) => text[k] \notin {"d", "s"}
      BY <1>3, <2>0, <2>2
    <3>2. ~(r.at > Len(file))
      BY <1>2, <3>1
    <3>3. r' = Keep(r, text[k], 1)
      BY <1>0, <2>0, <2>2, <3>1, <3>2, TurnKeeps
    <3>5. Reading' /\ FieldReadBack'
      BY <1>0, <2>0, <2>2, <3>3, KeepsNext
    <3> QED
      BY <1>1, <3>5 DEF IInv
  <2>3. CASE k = Len(text) + 1
    <3>0. r.at = pos[Len(pos)] /\ r.at \in Nat /\ end \in {"d", "n"}
          /\ Len(r.buf) + lead + 1 = Len(text) + 1
      BY <1>2, <2>0, <2>3 DEF IInv, Texts, Reader
    <3>1. CASE NeedQuote(text)
      <4>1. file[r.at] = "q" /\ file[r.at + 1] = end /\ Len(file) = r.at + 1 + Len(rest)
        BY <1>0, <3>0, <3>1 DEF IInv, Closed
      <4>2. ~(r.at > Len(file)) /\ r.at # Len(file) /\ r.at + 2 \in Nat
            /\ r.at + 2 = Len(file) - Len(rest) + 1
        <5>1. Len(file) \in Nat /\ Len(rest) \in Nat /\ r.at \in Nat
              /\ Len(file) = r.at + 1 + Len(rest)
          BY <1>2, <3>0, <4>1
        <5> DEFINE a == r.at  l == Len(file)  m == Len(rest)
        <5> HIDE DEF a, l, m
        <5>2. l \in Nat /\ m \in Nat /\ a \in Nat /\ l = a + 1 + m
          BY <5>1 DEF a, l, m
        <5>3. ~(a > l) /\ a # l /\ a + 2 \in Nat /\ a + 2 = l - m + 1
          BY <5>2
        <5> QED
          BY <5>3 DEF a, l, m
      <4>3. r' = AfterQuote(file, r)
        BY <1>0, <2>0, <3>1, <4>1, <4>2, TurnLooksPastQuote
      <4>4. r' = Stop(r, r.at + 2)
        BY <3>0, <4>1, <4>2, <4>3 DEF AfterQuote
      <4>5. Reading' /\ FieldReadBack'
        BY <1>0, <2>0, <3>0, <3>1, <4>2, <4>4, EndsField
      <4> QED
        BY <1>1, <4>5 DEF IInv
    <3>2. CASE ~NeedQuote(text)
      <4> DEFINE e == IF end = "d" THEN r.at + 1 ELSE r.at
      <4>1. file[r.at] = end /\ Len(file) = r.at + Len(rest)
        BY <1>0, <3>0, <3>2 DEF IInv, Closed
      <4>2. /\ ~(r.at > Len(file)) /\ e \in Nat
            /\ e = Len(file) - Len(rest) + (IF end = "d" \/ NeedQuote(text) THEN 1 ELSE 0)
        <5>1. Len(file) \in Nat /\ Len(rest) \in Nat /\ r.at \in Nat
              /\ Len(file) = r.at + Len(rest)
          BY <1>2, <3>0, <4>1
        <5>2. ~(r.at > Len(file)) /\ r.at = Len(file) - Len(rest) + 0
              /\ r.at + 1 \in Nat /\ r.at + 1 = Len(file) - Len(rest) + 1
          BY <5>1
        <5> QED
          BY <3>2, <5>1, <5>2
      <4>3. r' = Stop(r, e)
        BY <1>0, <2>0, <3>0, <3>2, <4>1, <4>2, TurnEnds
      <4> HIDE DEF e
      <4>4. Reading' /\ FieldReadBack'
        BY <1>0, <2>0, <3>0, <4>2, <4>3, EndsField
      <4> QED
        BY <1>1, <4>4 DEF IInv
    <3> QED
      BY <3>1, <3>2
  <2>4. k \in 1..Len(text) \/ k = Len(text) + 1
    BY <1>2, <2>0
  <2> QED
    BY <2>1, <2>2, <2>3, <2>4
<1> QED
  BY <1>2, <1>6, <1>7

(* The invariant depends on the variables alone.                           *)
LEMMA Stutter == IInv /\ UNCHANGED vars => IInv'
<1> SUFFICES ASSUME IInv, UNCHANGED vars PROVE IInv'
  OBVIOUS
<1>1. /\ text' = text /\ lead' = lead /\ end' = end /\ rest' = rest
      /\ file' = file /\ pos' = pos /\ phase' = phase /\ r' = r
  BY DEF vars
<1> QED
  BY <1>1 DEF IInv, Texts, Layout, Writing, Closed, Reading, FieldReadBack, First, Width,
              Leading, Inside

(* A field of any length is read back by csv_next() as append() wrote it,  *)
(* but for the quotes it begins with, whatever delimiters, spaces and      *)
(* quotes it holds and whatever follows it in the file.  The reader is     *)
(* left behind the delimiter; at a newline it is left in front of it, but  *)
(* behind it if the field is in quotes, which is how such a field joins    *)
(* the next row of a table to its own.                                     *)
THEOREM FieldsReadBack == Spec => []FieldReadBack
<1>1. Init => IInv
  BY Initially
<1>2. IInv /\ [Next]_vars => IInv'
  BY OpenStep, WriteStep, CloseStep, ReadStep, Stutter DEF Next
<1>3. IInv => FieldReadBack
  BY DEF IInv
<1> QED
  BY <1>1, <1>2, <1>3, PTL DEF Spec
=============================================================================
