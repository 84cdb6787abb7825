------------------------------- MODULE IdText -------------------------------
(***************************************************************************)
(* The identifiers of serde's module id and their text: Address, Specific  *)
(* and Version, with the parsers of parse.rs.  A program holds a value or  *)
(* a text; it prints the one, reads the other, and somebody may have       *)
(* edited the text in between.                                             *)
(*                                                                         *)
(* A text is a sequence of characters, of which only those matter that     *)
(* some parser tells apart.  A parser takes a text and a place and returns *)
(* the place after what it took, or 0 if it fails; 0 as a place fails.     *)
(***************************************************************************)
EXTENDS Integers, Sequences, SequencesExt, FiniteSetsExt

CONSTANTS
  Made,       \* the values programs make: Version::new, the fields of Specific
  Typed,      \* the characters an edit may put into a text
  MaxNumber,  \* usize::MAX
  MaxEdits    \* bound: edits of a text between a print and the reads

Digits == <<"0", "1", "2", "3", "4", "5", "6", "7", "8", "9">>
Digit == ToSet(Digits)
Skewer == Digit \cup {"a", "b", "-"}            \* loweralphanumerichyphen1
Domain == Skewer \cup {"."}                     \* domain
Segment == Domain \cup {"A", "B", "/", "_"}     \* any_resource_path_segment
Char == Segment \cup {":", " "}

NoRelease == [some |-> FALSE, text |-> <<>>]
Release == {NoRelease} \cup [some : {TRUE}, text : Seq(Char)]
Usize == 0..MaxNumber
Version == [major : Usize, minor : Usize, patch : Usize, release : Release]
Specific == [vendor : Seq(Char), product : Seq(Char), variant : Seq(Char), version : Version]
\* A value is tagged with its type.
Value ==
  [type : {"Version"}, it : Version] \cup [type : {"Specific"}, it : Specific]
    \cup [type : {"Address"}, it : Seq(Seq(Char))]
Type == {"Version", "Specific", "Address"}

ASSUME ConstantsAssumption ==
  /\ Made \subseteq Value
  /\ Typed \subseteq Char
  /\ {MaxNumber, MaxEdits} \subseteq Nat

-----------------------------------------------------------------------------
(* The parsers. *)

\* split_at_position1_complete: the longest run of characters of the class, not
\* empty.
Take1(s, i, class) ==
  LET j == Min({k \in i..(Len(s) + 1) : k = Len(s) + 1 \/ s[k] \notin class})
  IN IF i # 0 /\ j > i THEN j ELSE 0

Tag(s, i, c) == IF i \in 1..Len(s) /\ s[i] = c THEN i + 1 ELSE 0

DigitValue(c) == CHOOSE d \in 0..9 : Digits[d + 1] = c

Number(digits) ==
  LET value[n \in 0..Len(digits)] ==
        IF n = 0 THEN 0 ELSE 10 * value[n - 1] + DigitValue(digits[n])
  IN value[Len(digits)]

Fail == [next |-> 0, panics |-> FALSE]

\* Fault: the hyphen is taken for a part of the release.
ReleaseAtHyphen(s, c, r) ==
  IF r = 0 THEN NoRelease ELSE [some |-> TRUE, text |-> SubSeq(s, c, r - 1)]

\* The release between the hyphen at c and the place r.
ReleaseAt(s, c, r) ==
  IF r = 0 THEN NoRelease ELSE [some |-> TRUE, text |-> SubSeq(s, c + 1, r - 1)]

\* parse_version: three numbers, whose digits are parsed with unwrap(), and a
\* release if a hyphen and a skewer follow; a hyphen alone is left over.
ParseVersion(s, i) ==
  LET a == Take1(s, i, Digit)
      b == Take1(s, Tag(s, a, "."), Digit)
      c == Take1(s, Tag(s, b, "."), Digit)
      r == Take1(s, Tag(s, c, "-"), Skewer)
      major == Number(SubSeq(s, i, a - 1))
      minor == Number(SubSeq(s, a + 1, b - 1))
      patch == Number(SubSeq(s, b + 1, c - 1))
  IN IF c = 0 THEN Fail
     ELSE [next |-> IF r = 0 THEN c ELSE r,
           panics |-> \E n \in {major, minor, patch} : n > MaxNumber,
           it |-> [major |-> major, minor |-> minor, patch |-> patch,
                   release |-> ReleaseAt(s, c, r)]]

\* parse_specific: vendor, product and variant, each with its colon.
ParseSpecific(s) ==
  LET v == Take1(s, 1, Domain)
      p == Take1(s, Tag(s, v, ":"), Skewer)
      q == Take1(s, Tag(s, p, ":"), Skewer)
      version == IF Tag(s, q, ":") = 0 THEN Fail ELSE ParseVersion(s, q + 1)
  IN IF version.next = 0 THEN Fail
     ELSE [version EXCEPT !.it =
             [vendor |-> SubSeq(s, 1, v - 1), product |-> SubSeq(s, v + 1, p - 1),
              variant |-> SubSeq(s, p + 1, q - 1), version |-> @]]

\* parse_address: segments with colons between them; a colon that no segment
\* follows is left over.
ParseAddress(s) ==
  LET from[i \in 1..(Len(s) + 1)] ==
        LET j == Take1(s, i, Segment)
            rest == IF Tag(s, j, ":") = 0 THEN Fail ELSE from[j + 1]
        IN IF j = 0 THEN Fail
           ELSE IF rest.next = 0
             THEN [next |-> j, panics |-> FALSE, it |-> <<SubSeq(s, i, j - 1)>>]
             ELSE [rest EXCEPT !.it = <<SubSeq(s, i, j - 1)>> \o @]
  IN from[1]

Parse(type, s) ==
  CASE type = "Version" -> ParseVersion(s, 1)
    [] type = "Specific" -> ParseSpecific(s)
    [] type = "Address" -> ParseAddress(s)

\* Fault: what is left over is not looked at.
FromStrPrefix(type, s) ==
  LET p == Parse(type, s)
  IN IF p.panics THEN [how |-> "panic"]
     ELSE IF p.next = 0 THEN [how |-> "err"]
     ELSE [how |-> "ok", value |-> [type |-> type, it |-> p.it]]

\* from_str: an error, too, if anything is left over.
FromStr(type, s) ==
  LET p == Parse(type, s)
  IN IF p.panics THEN [how |-> "panic"]
     ELSE IF p.next # Len(s) + 1 THEN [how |-> "err"]
     ELSE [how |-> "ok", value |-> [type |-> type, it |-> p.it]]

-----------------------------------------------------------------------------
(* The printers. *)

Numeral(n) ==
  LET text[k \in 0..n] ==
        (IF k < 10 THEN <<>> ELSE text[k \div 10]) \o <<Digits[(k % 10) + 1]>>
  IN text[n]

\* Fault: an empty release is printed as none.
PrintVersionShort(v) ==
  Numeral(v.major) \o <<".">> \o Numeral(v.minor) \o <<".">> \o Numeral(v.patch)
    \o (IF v.release.some /\ v.release.text # <<>> THEN <<"-">> \o v.release.text ELSE <<>>)

PrintVersion(v) ==
  Numeral(v.major) \o <<".">> \o Numeral(v.minor) \o <<".">> \o Numeral(v.patch)
    \o (IF v.release.some THEN <<"-">> \o v.release.text ELSE <<>>)

\* Every segment of an address gets its colon, the last one too: i never
\* equals len().
TextOf(value) ==
  LET it == value.it
  IN CASE value.type = "Version" -> PrintVersion(it)
       [] value.type = "Specific" ->
            it.vendor \o <<":">> \o it.product \o <<":">> \o it.variant \o <<":">>
              \o PrintVersion(it.version)
       [] value.type = "Address" ->
            FlattenSeq([i \in DOMAIN it |-> it[i] \o <<":">>])

\* Address::parent: remove(len()) panics, whatever segments there are.
Parent(segments) == IF segments = <<>> THEN "none" ELSE "panic"
-----------------------------------------------------------------------------
(* What a program does with them. *)

VARIABLE held  \* what it has: a value, a text, an error, or nothing after a panic

vars == <<held>>

\* A text goes with the value it was printed from; "edits" counts the changes.
Init == \E value \in Made : held = [is |-> "value", value |-> value, edits |-> 0]

PrintOut ==
  /\ held.is = "value"
  /\ held' = [is |-> "text", text |-> TextOf(held.value), of |-> held.value, edits |-> held.edits]

Edited(text) ==
  {InsertAt(text, i, c) : i \in 1..(Len(text) + 1), c \in Typed}
    \cup {RemoveAt(text, i) : i \in DOMAIN text}
    \cup {[text EXCEPT ![i] = c] : i \in DOMAIN text, c \in Typed}

Edit ==
  /\ held.is = "text" /\ held.edits < MaxEdits
  /\ \E text \in Edited(held.text) :
       held' = [held EXCEPT !.text = text, !.edits = @ + 1]

Read ==
  /\ held.is = "text"
  /\ LET outcome == FromStr(held.of.type, held.text) IN
       held' = CASE outcome.how = "ok" ->
                      [is |-> "value", value |-> outcome.value, edits |-> held.edits]
                 [] outcome.how = "err" -> [is |-> "error"]
                 [] outcome.how = "panic" -> [is |-> "panic"]

TakeParent ==
  /\ held.is = "value" /\ held.value.type = "Address"
  /\ held' = [is |-> IF Parent(held.value.it) = "panic" THEN "panic" ELSE "error"]

Next == PrintOut \/ Edit \/ Read \/ TakeParent

Spec == Init /\ [][Next]_vars

-----------------------------------------------------------------------------
(* The language of each type, by cutting a text in every way there is. *)

Run(s, i, j, class) == i <= j /\ \A k \in i..j : s[k] \in class

Places(s, c) == {i \in DOMAIN s : s[i] = c}

\* What the text from place h on stands for.
VersionReadings(s, h) ==
  LET end == Len(s)
      dots == Places(s, ".")
      Cut(i, j, k) ==
        /\ Run(s, h, i - 1, Digit) /\ Run(s, i + 1, j - 1, Digit) /\ Run(s, j + 1, k - 1, Digit)
        /\ k <= end => Run(s, k + 1, end, Skewer)
      cuts == {c \in dots \X dots \X (Places(s, "-") \cup {end + 1}) : Cut(c[1], c[2], c[3])}
  IN {[major |-> Number(SubSeq(s, h, c[1] - 1)), minor |-> Number(SubSeq(s, c[1] + 1, c[2] - 1)),
       patch |-> Number(SubSeq(s, c[2] + 1, c[3] - 1)),
       release |-> IF c[3] > end THEN NoRelease
                   ELSE [some |-> TRUE, text |-> SubSeq(s, c[3] + 1, end)]] : c \in cuts}

SpecificReadings(s) ==
  LET colons == Places(s, ":")
      Cut(i, j, k) ==
        Run(s, 1, i - 1, Domain) /\ Run(s, i + 1, j - 1, Skewer) /\ Run(s, j + 1, k - 1, Skewer)
      cuts == {c \in colons \X colons \X colons : Cut(c[1], c[2], c[3])}
  IN UNION {{[vendor |-> SubSeq(s, 1, c[1] - 1), product |-> SubSeq(s, c[1] + 1, c[2] - 1),
              variant |-> SubSeq(s, c[2] + 1, c[3] - 1), version |-> v] :
               v \in VersionReadings(s, c[3] + 1)} : c \in cuts}

Numbers(type, it) ==
  LET v == IF type = "Version" THEN it ELSE it.version IN {v.major, v.minor, v.patch}

\* Texts that start like a version, or a specific, with a number too large.
Overflows(type, s) ==
  \E n \in DOMAIN s :
    LET begin == SubSeq(s, 1, n)
    IN \E it \in IF type = "Version" THEN VersionReadings(begin, 1) ELSE SpecificReadings(begin) :
         \E number \in Numbers(type, it) : number > MaxNumber

IsAddress(s) ==
  /\ s # <<>> /\ \A i \in DOMAIN s : s[i] \in Segment \cup {":"}
  /\ s[1] # ":" /\ s[Len(s)] # ":"
  /\ \A i \in 1..(Len(s) - 1) : s[i] # ":" \/ s[i + 1] # ":"

-----------------------------------------------------------------------------
(* Properties. *)

\* What a program holds is a value of the Rust types, numbers up to usize::MAX
\* and all, whatever text it was read from.
TypeOK ==
  held \in [is : {"value"}, value : Value, edits : 0..MaxEdits]
            \cup [is : {"text"}, text : Seq(Char), of : Value, edits : 0..MaxEdits]
            \cup [is : {"error", "panic"}]

\* The parsers take the texts of the grammar and no others, and give what the
\* text stands for: no text has two readings, a prefix that would do is not
\* taken for the whole, and a number above usize::MAX panics (unwrap() in
\* parse_version_major_minor_patch), even in a text that would be refused.
ReadsAsGrammar ==
  held.is = "text" =>
    LET type == held.of.type  s == held.text  outcome == FromStr(type, s)
    IN IF type = "Address"
         THEN IF IsAddress(s)
                THEN outcome.how = "ok" /\ TextOf(outcome.value) = Append(s, ":")
                ELSE outcome.how = "err"
         ELSE LET readings == IF type = "Version" THEN VersionReadings(s, 1) ELSE SpecificReadings(s)
              IN IF Overflows(type, s) THEN outcome.how = "panic"
                 ELSE IF readings = {} THEN outcome.how = "err"
                 ELSE outcome.how = "ok" /\ readings = {outcome.value.it}

\* What a program holds is typed, and a text is read as the grammar says.
TextInv == TypeOK /\ ReadsAsGrammar

HasColon(specific) ==
  \E field \in {specific.vendor, specific.product, specific.variant} : ":" \in ToSet(field)

\* A value that was printed and read again is the same or is refused, whatever
\* its fields hold (those of a Specific, and a release, are any strings): no
\* value is taken for another.  An address is always refused, and reading
\* panics only on a Specific with a colon in a field, where a number may follow
\* that no usize is.
SameOrRefused ==
  [][held.is = "text" /\ held.text = TextOf(held.of) =>
       \/ held'.is \in {"text", "error"}
       \/ held'.is = "value" /\ held'.value = held.of /\ held.of.type # "Address"
       \/ held'.is = "panic" /\ held.of.type = "Specific" /\ HasColon(held.of.it)]_vars

\* What a parser made of any text is safe to keep as text: a version or a
\* specific that was read is printed as a text that reads as the same.
ReadSurvives ==
  [][held.is = "text" /\ held'.is = "value" /\ held'.value.type # "Address" =>
       FromStr(held'.value.type, TextOf(held'.value)) = [how |-> "ok", value |-> held'.value]]_vars
=============================================================================
