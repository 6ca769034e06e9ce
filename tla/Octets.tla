------------------------------- MODULE Octets --------------------------------
(***************************************************************************)
(* What the box readers and writers are made of: big-endian numbers, flag  *)
(* bits, four-character codes and boxes in a sequence of octets, at 0-based*)
(* positions as in the code.                                               *)
(*                                                                         *)
(* The numbers of the model end at Wide, which stands for 2^32, the first  *)
(* number that takes more than four octets: a field of eight octets keeps  *)
(* it, a narrower one loses it; a field of four holds less than Wide,      *)
(* which is what its greatest numbers are read as.  A number read from a   *)
(* field that goes past the end of the octets is Missing, where the        *)
(* program would panic.                                                    *)
(* What can fail returns a set of at most one result, {} being the error   *)
(* or the None; optional fields are such sets as well.                     *)
(***************************************************************************)
EXTENDS Integers, Sequences, FiniteSets

Wide == 1000000000
Missing == -2000000000

(* When(c, r): the result r under a guard.                                 *)
When(condition, result) == IF condition THEN {result} ELSE {}

(***************************************************************************)
(* Numbers.  Num truncates to the width of the field, as a cast does.      *)
(***************************************************************************)
Num(width, v) ==
    [i \in 1..width |->
        LET above == width - i
        IN  IF v = Wide THEN IF above = 4 THEN 1 ELSE 0
            ELSE IF above > 3 THEN IF v < 0 THEN 255 ELSE 0
            ELSE (v \div 256^above) % 256]
Fits(width, v) ==
    IF width < 4 THEN v < 256^width ELSE width > 4 \/ v < Wide

(* A number with one octet more behind it; and what so many octets can say *)
(* of one.                                                                 *)
WithOctet(high, octet) == IF high >= Wide \div 256 THEN Wide ELSE 256 * high + octet
Held(width, v) == IF width <= 4 /\ v = Wide THEN Wide - 1 ELSE v
Low(octets) ==
    LET value[i \in 0..Len(octets)] == IF i = 0 THEN 0 ELSE WithOctet(value[i - 1], octets[i])
    IN  Held(Len(octets), value[Len(octets)])
U(body, at, width) ==
    IF at + width > Len(body) THEN Missing
    ELSE Low(SubSeq(body, at + 1, at + width))
Below(v) == IF v = Wide THEN -Wide ELSE -1 - v
I(body, at, width) ==
    IF at + width > Len(body) THEN Missing
    ELSE IF body[at + 1] < 128 THEN U(body, at, width)
    ELSE Below(Low([i \in 1..width |-> 255 - body[at + i]]))

(* The low 31 bits of a field of four octets.                              *)
Low31(body, at) ==
    Low(<<U(body, at, 1) % 128>> \o SubSeq(body, at + 2, at + 4))

(* Bits and bit fields.                                                    *)
Bit(v, k) == (v \div 2^k) % 2 = 1
BitsOf(v, low, count) == (v \div 2^low) % 2^count
BitsWhen(condition, bits) == IF condition THEN bits ELSE 0

(* n bits from bit p on, as a row of a list.                              *)
BitAt(body, p) == (body[p \div 8 + 1] \div 2^(7 - (p % 8))) % 2
ReadBits(body, p, n) ==
    LET octets == [i \in 1..((n + 7) \div 8) |->
                     LET bits == IF n < 8 THEN n ELSE 8
                         value[k \in 0..bits] ==
                           IF k = 0 THEN 0
                           ELSE 2 * value[k - 1] + BitAt(body, p + 8 * (i - 1) + k - 1)
                     IN  value[bits]]
    IN  When(p + n <= 8 * Len(body), [row |-> Low(octets), next |-> p + n])

Concat(parts) ==
    LET joined[i \in 0..Len(parts)] ==
          IF i = 0 THEN <<>> ELSE joined[i - 1] \o parts[i]
    IN  joined[Len(parts)]

(* A list of rows of varying length, read from a position on: Read(at) is  *)
(* an option of a row with the position next after it.  The first row that *)
(* cannot be read fails the list, and with more rows than octets one does. *)
ReadList(Read(_), at, count, room) ==
    LET list[n \in 0..count] ==
          IF n = 0 THEN {[rows |-> <<>>, next |-> at]}
          ELSE UNION {{[rows |-> Append(l.rows, r.row), next |-> r.next] : r \in Read(l.next)} :
                        l \in list[n - 1]}
    IN  IF count > room THEN {} ELSE list[count]

(***************************************************************************)
(* Fields of fixed width in a row: a layout is a sequence of pairs of a    *)
(* name and a type; "reserved" octets are skipped and written as zero.     *)
(***************************************************************************)
TypeOctets ==
    [u8 |-> 1, u16 |-> 2, u24 |-> 3, u32 |-> 4, u64 |-> 8,
     i16 |-> 2, i32 |-> 4, i64 |-> 8]
Signed == {"i16", "i32", "i64"}

OffsetOf(layout, n) ==
    LET offset[i \in 1..n] ==
          IF i = 1 THEN 0 ELSE offset[i - 1] + TypeOctets[layout[i - 1][2]]
    IN  offset[n]
SizeOf(layout) == OffsetOf(Append(layout, <<"", "u8">>), Len(layout) + 1)
FieldNames(layout) == {layout[i][1] : i \in DOMAIN layout} \ {"reserved"}

ReadFields(body, at, layout) ==
    [name \in FieldNames(layout) |->
        LET i == CHOOSE i \in DOMAIN layout : layout[i][1] = name
            place == at + OffsetOf(layout, i)
        IN  IF layout[i][2] \in Signed THEN I(body, place, TypeOctets[layout[i][2]])
            ELSE U(body, place, TypeOctets[layout[i][2]])]
WriteFields(record, layout) ==
    Concat([i \in DOMAIN layout |->
              LET width == TypeOctets[layout[i][2]]
              IN  IF layout[i][1] = "reserved" THEN [o \in 1..width |-> 0]
                  ELSE Num(width, record[layout[i][1]])])
RecordOf(layout) == [FieldNames(layout) -> (-Wide)..Wide]
FitFields(body, at, layout) == at + SizeOf(layout) <= Len(body)
(* Rows of one layout, back to back.                                       *)
ReadRows(body, at, count, layout) ==
    [i \in 1..count |-> ReadFields(body, at + SizeOf(layout) * (i - 1), layout)]
WriteRows(rows, layout) ==
    Concat([i \in DOMAIN rows |-> WriteFields(rows[i], layout)])
FitRows(body, at, count, layout) ==
    at <= Len(body) /\ count <= (Len(body) - at) \div SizeOf(layout)

(* Numbers of one type, back to back.                                      *)
Words(body, at, count, type) ==
    LET word(i) == at + TypeOctets[type] * (i - 1)
    IN  [i \in 1..count |->
            IF type \in Signed THEN I(body, word(i), TypeOctets[type])
            ELSE U(body, word(i), TypeOctets[type])]
WriteWords(words, type) == Concat([i \in DOMAIN words |-> Num(TypeOctets[type], words[i])])

(***************************************************************************)
(* Parts of a box.                                                         *)
(***************************************************************************)
Zeros(n) == [i \in 1..n |-> 0]
FullBox(version, flags) == <<version>> \o Num(3, flags)
Version(body) == U(body, 0, 1)
Flags(body) == U(body, 1, 3)
Rest(body, at) == SubSeq(body, at + 1, Len(body))
Slice(body, at, len) == SubSeq(body, at + 1, at + len)

(* The text up to its NUL, and what follows it; or no NUL.                 *)
CString(body, at) ==
    LET ends == {i \in at..(Len(body) - 1) : body[i + 1] = 0}
        end == CHOOSE i \in ends : \A j \in ends : i <= j
    IN  IF ends = {} THEN {}
        ELSE {[row |-> Slice(body, at, end - at), next |-> end + 1]}
(* The texts the model has that are not UTF-8 are those with an octet 255, *)
(* which a lossy reading replaces by the replacement character.            *)
Utf8(text) == \A i \in DOMAIN text : text[i] # 255
Lossy(text) ==
    Concat([i \in DOMAIN text |->
              IF text[i] = 255 THEN <<239, 191, 189>> ELSE <<text[i]>>])
(* What is left of a text without the blanks around it.                    *)
Trimmed(text, blanks) ==
    LET solid == {i \in DOMAIN text : text[i] \notin blanks}
    IN  [i \in 1..Cardinality({i \in DOMAIN text : \E a, b \in solid : a <= i /\ i <= b}) |->
            text[(CHOOSE a \in solid : \A b \in solid : a <= b) + i - 1]]
HasNul(text) == \E i \in DOMAIN text : text[i] = 0

(* Octets of big-endian samples in little-endian order; a group that is    *)
(* not whole stays as it is.                                               *)
SwapSampleBytes(data, width) ==
    [i \in DOMAIN data |->
        LET group == (i - 1) \div width
            place == (i - 1) % width
        IN  IF width < 2 \/ (group + 1) * width > Len(data) THEN data[i]
            ELSE data[group * width + width - place]]
=============================================================================
