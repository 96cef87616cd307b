------------------------------ MODULE Polyline ------------------------------
(***************************************************************************)
(* Lines as Google and Valhalla write them (core/polyline.py): every point *)
(* as its difference from the one before, each number zigzagged and cut in *)
(* groups of five bits, lowest first, 32 added to all but the last.  A     *)
(* point is a pair of whole numbers, the degrees times 10^precision; a     *)
(* character is its code.                                                  *)
(***************************************************************************)
EXTENDS Integers, Sequences, SequencesExt

Base == 63   \* the code of the first character used

Groups[v \in Nat] == IF v < 32 THEN <<Base + v>> ELSE <<Base + 32 + (v % 32)>> \o Groups[v \div 32]

\* ~(value << 1) if value < 0 else value << 1.
Zigzag(v) == IF v < 0 THEN -2 * v - 1 ELSE 2 * v

Origin == <<0, 0>>

\* One point of a line.
Code(points, n) ==
  LET prev == IF n = 1 THEN Origin ELSE points[n - 1]
  IN Groups[Zigzag(points[n][1] - prev[1])] \o Groups[Zigzag(points[n][2] - prev[2])]

Encode(points) == FlattenSeq([n \in 1 .. Len(points) |-> Code(points, n)])

\* Slip: result >> 1 for negative numbers as well.
UnzigzagPlain(v) == v \div 2
Unzigzag(v) == IF v % 2 = 1 THEN -(v \div 2) - 1 ELSE v \div 2

\* The inner loop of decode: a character adds five bits, the last of a number ends it.
Bits(number, char) ==
  LET v == char - Base
      sum == number.sum + (v % 32) * number.weight
  IN IF v >= 32 THEN [sum |-> sum, weight |-> number.weight * 32, done |-> number.done]
     ELSE [sum |-> 0, weight |-> 1, done |-> Append(number.done, Unzigzag(sum))]

Numbers(chars) == FoldLeft(Bits, [sum |-> 0, weight |-> 1, done |-> <<>>], chars).done

\* A coordinate is the sum of the differences up to it, at every other place from k on.
Total(numbers, n, k) == FoldLeft(LAMBDA sum, i : sum + numbers[2 * i - 2 + k], 0, [i \in 1 .. n |-> i])

Decode(chars) ==
  LET numbers == Numbers(chars)
  IN [n \in 1 .. Len(numbers) \div 2 |-> <<Total(numbers, n, 1), Total(numbers, n, 2)>>]

\* Legs joined into one line: a leg begins where the one before it ends.
Joined(lines) ==
  FoldLeft(LAMBDA all, line : all \o (IF all = <<>> THEN line ELSE Tail(line)), <<>>, lines)

----------------------------------------------------------------------------
\* The numbers whose groups are one, two and three characters long, and their neighbours.
Near   == {0, 1, -1, 15, 16, -16, -17, 511, 512, -512, -513}
Points == Near \X {-17, 0, 512}
Lines  == {<<p>> : p \in Points} \union {<<p, q>> : p \in Points, q \in {<<0, 1>>, <<-513, 16>>}}

\* decode and encode: decoding gives the points back, a leg at a time or joined.
RoundTrip(line) ==
  /\ Decode(Encode(line)) = line
  /\ LET next == <<Last(line), Origin, <<16, 0>>>>
     IN Decode(Encode(Joined(<<line, Decode(Encode(next))>>))) = line \o Tail(next)
=============================================================================
