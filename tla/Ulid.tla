-------------------------------- MODULE Ulid --------------------------------
(***************************************************************************)
(* libs/envelope-go/envelope/ulid.go and libs/envelope-ts/src/ulid.ts: the *)
(* event ids one process draws.                                            *)
(*                                                                         *)
(* The two generators are the same state machine (a lock makes Go's one    *)
(* step, TypeScript's runs without interruption) and encode the random     *)
(* bytes in two ways, here over sequences of bits.  The wall clock is the  *)
(* machine's and may be set back.                                          *)
(***************************************************************************)
EXTENDS Naturals, Sequences, SequencesExt

CONSTANTS
  Clocks,   \* milliseconds the clock shows
  Draws,    \* what rand.Read and randomBytes return: ten bytes
  MaxIds    \* bound

ASSUME UlidAssumption ==
  /\ Clocks \subseteq Nat \ {0} /\ Draws \subseteq [1..10 -> 0..255] /\ MaxIds \in Nat

VARIABLES
  lastMs, lastRnd,  \* of the generator
  lastId, idCount,  \* the last id, as digits in base 32, and how many were drawn
  ulidLog           \* history: the ids drawn, whether the clock went back, whether bytes wrapped

ulidVars == <<lastMs, lastRnd, lastId, idCount, ulidLog>>

Zeros == [i \in 1..10 |-> 0]

UlidInit ==
  /\ lastMs = 0 /\ lastRnd = Zeros
  /\ lastId = <<>> /\ idCount = 0
  /\ ulidLog = [ids |-> {}, back |-> FALSE, wrapped |-> FALSE]

\* A carry that stops at the byte that overflows.
IncrementMutant(rnd) == [rnd EXCEPT ![10] = (@ + 1) % 256]

\* Mutant of Increment: a byte that overflows is not cut to eight bits.
IncrementUncut(rnd) ==
  [i \in 1..10 |-> IF \A j \in i + 1..10 : rnd[j] = 255 THEN rnd[i] + 1 ELSE rnd[i]]

\* incrementRandom: add one with carry, all ten bytes 255 wrapping to zero.
Increment(rnd) ==
  [i \in 1..10 |-> IF \A j \in i + 1..10 : rnd[j] = 255 THEN (rnd[i] + 1) % 256 ELSE rnd[i]]

Bits(byte) ==
  LET weight == <<128, 64, 32, 16, 8, 4, 2, 1>>
  IN  [i \in 1..8 |-> (byte \div weight[i]) % 2]
Digit(bits) == 16 * bits[1] + 8 * bits[2] + 4 * bits[3] + 2 * bits[4] + bits[5]
Five(bits, k) == Digit(SubSeq(bits, 5 * k - 4, 5 * k))
Lowest(n, bits) == SubSeq(bits, Len(bits) - n + 1, Len(bits))
AllBits(rnd) == [i \in 1..80 |-> Bits(rnd[(i + 7) \div 8])[((i - 1) % 8) + 1]]

\* encodeTime: the lowest five bits are a digit and the rest of the clock moves down, ten
\* times; the clock has no more than fifty bits until the year 37648.
Shifted(ms) == LET left[i \in 0..9] == IF i = 0 THEN ms ELSE left[i - 1] \div 32 IN left
EncodeTime(ms) == [k \in 1..10 |-> Shifted(ms)[10 - k] % 32]

ASSUME ClockAssumption == \A ms \in Clocks : Shifted(ms)[9] < 32

\* Go's encodeRandom: twelve digits of the first 64 bits; the four bits they leave and the
\* last two bytes make the other four.
EncodeGo(rnd) ==
  LET v == SubSeq(AllBits(rnd), 1, 64)
      combined == Lowest(4, v) \o SubSeq(AllBits(rnd), 65, 80)
  IN [k \in 1..16 |-> IF k <= 12 THEN Five(v, k) ELSE Five(combined, k - 12)]

\* TypeScript's encodeRandom: a 32-bit buffer shifted left by each byte, of which the
\* digits above the bits left are taken.
TakeDigit(s) ==
  IF s.left < 5 THEN s
  ELSE [buffer |-> s.buffer, left |-> s.left - 5,
        out |-> Append(s.out, Digit(SubSeq(s.buffer, 33 - s.left, 37 - s.left)))]
Filled(s, byte) == [s EXCEPT !.buffer = Lowest(32, @ \o Bits(byte)), !.left = @ + 8]
PutByte(s, byte) == TakeDigit(TakeDigit(Filled(s, byte)))
NoBits == [buffer |-> [i \in 1..32 |-> 0], left |-> 0, out |-> <<>>]
EncodeTs(rnd) == FoldLeft(PutByte, NoBits, rnd).out

\* NewULID and newULID.
NewULID(ms, drawn) ==
  /\ idCount < MaxIds
  /\ idCount' = idCount + 1
  /\ lastMs' = ms
  /\ lastRnd' = IF ms = lastMs THEN Increment(lastRnd) ELSE drawn
  /\ lastId' = EncodeTime(ms) \o EncodeGo(lastRnd')
  /\ ulidLog' = [ids |-> ulidLog.ids \cup {lastId'},
                 back |-> ulidLog.back \/ ms < lastMs,
                 wrapped |-> ulidLog.wrapped \/ (ms = lastMs /\ lastRnd' = Zeros)]

UlidNext == \E ms \in Clocks, drawn \in Draws : NewULID(ms, drawn)

UlidSpec == UlidInit /\ [][UlidNext]_ulidVars

-----------------------------------------------------------------------------
\* Every variable has its type.
UlidTypeOK ==
  /\ lastMs \in Nat /\ lastRnd \in [1..10 -> 0..255] /\ idCount \in 0..MaxIds
  /\ idCount > 0 => lastId \in [1..26 -> 0..31]

\* The order of strings of one length.
Precedes(a, b) ==
  \E k \in 1..26 : a[k] < b[k] /\ \A j \in 1..k - 1 : a[j] = b[j]

\* What "monotonic within the same millisecond" of both files gives a process: the text of an
\* id never falls behind the one before, and no id is drawn twice, unless the clock was set
\* back or the random part overflowed; and both encodings write the same text.
IdsIncrease ==
  [][idCount' # idCount =>
      /\ EncodeGo(lastRnd') = EncodeTs(lastRnd')
      /\ ~(ulidLog'.back \/ ulidLog'.wrapped) =>
           /\ lastId' \notin ulidLog.ids
           /\ idCount > 0 => Precedes(lastId, lastId')]_ulidVars
=============================================================================
