-------------------------------- MODULE Screen --------------------------------
(***************************************************************************)
(* What happens to the output of a process on its way to the terminal, one *)
(* DATA message at a time: a daemon escapes the control characters of a    *)
(* PTY (daemon.rs), and osh unescapes every message and drops the terminal *)
(* sequences it knows (osh-cli/src/protocol.rs).  Bytes are numbers.       *)
(***************************************************************************)
EXTENDS Integers, Sequences, FiniteSetsExt, SequencesExt

BEL == 7
ESC == 27
Backslash == 92
LetterX == 120

Digits == 48 .. 57

-----------------------------------------------------------------------------
(* The daemon.                                                             *)

HexDigit(n) == IF n < 10 THEN 48 + n ELSE 87 + n

EscapeByte(b) ==
    IF b < 32 /\ b \notin {9, 10, 13}
      THEN <<Backslash, LetterX, HexDigit(b \div 16), HexDigit(b % 16)>>
      ELSE <<b>>

\* escape_control_chars
Escape(data) == FlattenSeq([i \in DOMAIN data |-> EscapeByte(data[i])])

-----------------------------------------------------------------------------
(* osh: unescape_control_chars.                                            *)

DigitValues(c) ==
    {n \in 0 .. 15 : c = HexDigit(n) \/ (n > 9 /\ c = 55 + n)}

\* u8::from_str_radix of two bytes, which takes a plus sign too.
HexValues(a, b) ==
    IF a = 43 THEN DigitValues(b)
    ELSE {16 * m + n : m \in DigitValues(a), n \in DigitValues(b)}

\* mutant: a code at the very end is not seen.
IsCodeInside(data, i) ==
    /\ i + 3 < Len(data)
    /\ data[i] = Backslash /\ data[i + 1] = LetterX
    /\ HexValues(data[i + 2], data[i + 3]) # {}

\* The bytes of the data from i on that are the code of a byte.
IsCode(data, i) ==
    /\ i + 3 <= Len(data)
    /\ data[i] = Backslash /\ data[i + 1] = LetterX
    /\ HexValues(data[i + 2], data[i + 3]) # {}

Unescape(data) ==
    LET from[i \in 1 .. Len(data) + 1] ==
          IF i > Len(data) THEN <<>>
          ELSE IF IsCode(data, i)
            THEN <<CHOOSE v \in HexValues(data[i + 2], data[i + 3]) : TRUE>> \o from[i + 4]
            ELSE <<data[i]>> \o from[i + 1]
    IN from[1]

-----------------------------------------------------------------------------
(* osh: filter_terminal_sequences.  A length is that of the sequence at    *)
(* the beginning of s, or 0 when s is to be printed.                       *)

\* Cursor, erasing, scrolling, attributes: @ A-H J K L M P S T X d e f g m p r s u
Dropped == (64 .. 72) \cup {74, 75, 76, 77, 80, 83, 84, 88}
             \cup {100, 101, 102, 103, 109, 112, 114, 115, 117}

DecModes == {1, 3, 4, 5, 6, 7, 8, 9, 12, 25, 9001, 1000, 1001, 1002, 1003, 1004,
             1005, 1006, 1015, 1016, 1047, 1048, 1049, 2004}

Decimal[n \in Nat] ==
    IF n < 10 THEN <<48 + n>> ELSE Append(Decimal[n \div 10], 48 + (n % 10))

\* The fields of p between semicolons.
Fields(p) ==
    LET ends == {k \in DOMAIN p : p[k] = 59} \cup {Len(p) + 1}
    IN  {SubSeq(p, Max({k \in ends : k < e} \cup {0}) + 1, e - 1) : e \in ends}

\* Whether ESC [ mark params h, or l, is dropped.
ModeDropped(mark, params) ==
    CASE mark = 63          -> \E f \in Fields(params) : \E n \in DecModes : f = Decimal[n]
      [] mark \in {61, 62}  -> TRUE
      [] OTHER              -> params \in {<<>>, <<48>>, <<48, 48>>}

CsiLength(s) ==
    LET start == IF s[3] \in {35, 61, 62, 63} THEN 4 ELSE 3
        stop  == Min({i \in start .. Len(s) + 1 :
                        i > Len(s) \/ s[i] \notin Digits \cup {58, 59}})
    IN  IF /\ stop <= Len(s)
           /\ \/ s[stop] \in Dropped
              \/ s[stop] \in {104, 108} /\ ModeDropped(s[3], SubSeq(s, start, stop - 1))
          THEN stop ELSE 0

\* Up to BEL or ESC backslash.
OscLength(s) ==
    LET ends == {i \in 3 .. Len(s) : s[i] = BEL}
                  \cup {i \in 4 .. Len(s) : s[i - 1] = ESC /\ s[i] = Backslash}
    IN  IF ends = {} THEN 0 ELSE Min(ends)

SequenceLength(s) ==
    IF Len(s) < 3 \/ s[1] # ESC THEN 0
    ELSE CASE s[2] = 91            -> CsiLength(s)
           [] s[2] \in {61, 62, 93} -> OscLength(s)
           [] s[2] = 35            -> IF s[3] \in Digits THEN 3 ELSE 0
           [] OTHER                -> 0

Filter(data) ==
    LET from[i \in 1 .. Len(data) + 1] ==
          IF i > Len(data) THEN <<>>
          ELSE LET n == SequenceLength(SubSeq(data, i, Len(data)))
               IN  IF n > 0 THEN from[i + n] ELSE <<data[i]>> \o from[i + 1]
    IN from[1]

\* decode_and_filter_payload
Displayed(data) == Filter(Unescape(data))
==============================================================================
