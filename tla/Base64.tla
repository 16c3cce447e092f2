-------------------------------- MODULE Base64 --------------------------------
(***************************************************************************)
(* The Base64 functions of utils/base64.cpp, with which ProxySocket sends  *)
(* the user's name and password (Basic: base64_encode) and the messages of *)
(* NTLM (base64_ntop, base64_pton).  A character is its place in           *)
(* base64_chars, or Pad64, Space or Other, a character outside of the      *)
(* alphabet.  Failed is the result -1.                                     *)
(***************************************************************************)
EXTENDS Integers, Sequences, SequencesExt

Byte == 0..255
Digit == 0..63
Pad64 == 64
Space == 65
Other == 66
Failed == <<-1>>

(* the three bytes of a group as four digits, and back *)
Digits(b) == <<b[1] \div 4, (b[1] % 4) * 16 + b[2] \div 16, (b[2] % 16) * 4 + b[3] \div 64, b[3] % 64>>
Bytes(d) == <<(d[1] * 4 + (d[2] % 64) \div 16) % 256, ((d[2] % 16) * 16 + (d[3] % 64) \div 4) % 256,
              ((d[3] % 4) * 64 + d[4]) % 256>>

(* group g of a sequence cut into pieces of n, filled up with x *)
Group(s, g, n, x) == [i \in 1..n |-> IF n * (g - 1) + i <= Len(s) THEN s[n * (g - 1) + i] ELSE x]
Groups(s, n) == (Len(s) + n - 1) \div n

(* a group of which only the first i bytes are of the input: i + 1 digits and padding *)
base64_encode_rest(s, g, i) ==
  [j \in 1..4 |-> IF j <= i + 1 THEN Digits(Group(s, g, 3, 0))[j] ELSE Pad64]

base64_encode(s) ==
  FlattenSeq([g \in 1..Groups(s, 3) |->
    IF 3 * g <= Len(s) THEN Digits(Group(s, g, 3, 0)) ELSE base64_encode_rest(s, g, Len(s) % 3)])

(* the digits before the first other character.  The rest of the last group is what
   base64_chars.find returns for a character it has not: npos, 255 in a byte           *)
base64_decode(s) ==
  LET valid == {i \in 0..Len(s) : \A j \in 1..i : s[j] \in Digit}
      digits == SubSeq(s, 1, CHOOSE i \in valid : \A j \in valid : j <= i)
      rest == Len(digits) % 4
      all == FlattenSeq([g \in 1..Groups(digits, 4) |-> Bytes(Group(digits, g, 4, 255))])
  IN  SubSeq(all, 1, IF rest = 0 THEN Len(all) ELSE Len(all) - 4 + rest)

(* the last bytes, fewer than three *)
base64_ntop_padding(s, g) ==
  LET d == Digits(Group(s, g, 3, 0))
  IN  <<d[1], d[2], IF Len(s) % 3 = 1 THEN Pad64 ELSE d[3], Pad64>>

(* fails unless the target holds the text and its terminating zero *)
base64_ntop(s, targsize) ==
  LET full == Len(s) \div 3
      text == FlattenSeq([g \in 1..full |-> Digits(Group(s, g, 3, 0))])
                \o (IF Len(s) % 3 = 0 THEN <<>> ELSE base64_ntop_padding(s, full + 1))
  IN  IF Len(text) >= targsize THEN Failed ELSE text

(* one digit: r.out holds the bytes begun so far, the last one of them incomplete unless
   r.state is 0; r.index is tarindex                                                    *)
base64_pton_digit(r, d, targsize) ==
  LET Or(x) == [r.out EXCEPT ![r.index + 1] = @ + x]
      room == r.index + (IF r.state \in {1, 2} THEN 1 ELSE 0) < targsize
  IN  IF ~room THEN [r EXCEPT !.failed = TRUE]
      ELSE CASE r.state = 0 -> [r EXCEPT !.state = 1, !.out = Append(@, d * 4)]
             [] r.state = 1 -> [r EXCEPT !.state = 2, !.index = @ + 1,
                                         !.out = Append(Or(d \div 16), (d % 16) * 16)]
             [] r.state = 2 -> [r EXCEPT !.state = 3, !.index = @ + 1,
                                         !.out = Append(Or(d \div 4), (d % 4) * 64)]
             [] r.state = 3 -> [r EXCEPT !.state = 0, !.index = @ + 1, !.out = Or(d)]

(* after the first pad: in state 2 one more, then nothing but spaces, and the bits of the
   incomplete byte are zeros                                                            *)
base64_pton_pad(r, tail) ==
  LET marks == SelectSeq(tail, LAMBDA c : c # Space)
  IN  /\ r.state \in {2, 3}
      /\ marks = (IF r.state = 2 THEN <<Pad64>> ELSE <<>>)
      /\ r.out[r.index + 1] = 0

base64_pton(s, targsize) ==
  LET pads == {i \in 1..Len(s) : s[i] = Pad64}
      end == IF pads = {} THEN Len(s) + 1 ELSE CHOOSE i \in pads : \A j \in pads : i <= j
      body == SelectSeq(SubSeq(s, 1, end - 1), LAMBDA c : c # Space)
      r == FoldLeft(LAMBDA a, c : IF a.failed \/ c \notin Digit THEN [a EXCEPT !.failed = TRUE]
                                  ELSE base64_pton_digit(a, c, targsize),
                    [state |-> 0, index |-> 0, out |-> <<>>, failed |-> FALSE], body)
      ok == ~r.failed /\ IF pads = {} THEN r.state = 0
                         ELSE base64_pton_pad(r, SubSeq(s, end + 1, Len(s)))
  IN  IF ok THEN SubSeq(r.out, 1, r.index) ELSE Failed

-----------------------------------------------------------------------------
(* What is encoded is decoded again, by either pair of functions, which agree on the text;
   a target of exactly the text's size is refused.                                        *)
RoundTrip(bytes, n) ==
  \A s \in SeqOf(bytes, n) :
    LET text == base64_encode(s)
    IN  /\ base64_decode(text) = s
        /\ base64_ntop(s, Len(text) + 1) = text /\ base64_ntop(s, Len(text)) = Failed
        /\ base64_pton(text, Len(s) + 1) = s

(* base64_pton takes a text only if it is the encoding of its result, spaces apart: the
   bits past the last byte are zeros and the padding is complete.                      *)
Canonical(chars, n) ==
  \A text \in SeqOf(chars, n) :
    LET s == base64_pton(text, n + 1)
    IN  s # Failed => SelectSeq(text, LAMBDA c : c # Space) = base64_encode(s)
=============================================================================
