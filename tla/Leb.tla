-------------------------------- MODULE Leb --------------------------------
(* libs/wasm/src/leb.rs: the bounds-checked cursor over module bytes and   *)
(* the variable-length integers read through it.                            *)
(*                                                                          *)
(* A read answers the value and the position after it, or an error.         *)
(* Positions count from 0 as in the code.  The widths are constants: the    *)
(* code's 32 and 64 are Word and Long, chosen so that they leave the same   *)
(* remainder by Group (7) and the boundary of the last byte is met.         *)
EXTENDS Integers, Sequences

CONSTANTS
  Group,    \* payload bits of a byte; 7
  Word,     \* width of u32, usize and i32.const; 32
  Long      \* width of i64; 64

\* A word's groups, 35 bits of them, fit the i64 they are gathered in.
ASSUME WidthsAssumption ==
  /\ Group \in Nat \ {0} /\ Word \in Nat \ {0} /\ Long \in Nat /\ Word < Long
  /\ Group * ((Word + Group - 1) \div Group) <= Long

Byte == 0 .. 255

\* 1 << n
bit[n \in Nat] == IF n = 0 THEN 1 ELSE 2 * bit[n - 1]

Ok(value, at) == [error |-> "None", value |-> value, at |-> at]

Err(error) == [error |-> error, value |-> 0, at |-> 0]

\* Rust's `?`: go on with what was read, or return the error.
Then(read, next(_, _)) ==
  IF read.error /= "None" THEN read ELSE next(read.value, read.at)

payload(octet) == octet % bit[Group]

more(octet) == octet >= bit[Group]

Reader_seek(bytes, to) == IF to > Len(bytes) THEN Err("Truncated") ELSE Ok(0, to)

Reader_byte(bytes, at) ==
  IF at < Len(bytes) THEN Ok(bytes[at + 1], at + 1) ELSE Err("Truncated")

Reader_slice(bytes, at, length) ==
  IF at + length <= Len(bytes)
  THEN Ok(SubSeq(bytes, at + 1, at + length), at + length)
  ELSE Err("Truncated")

\* Mutant: the last byte's payload is not held against the width.
overlong_Never(bits, shift, p) == shift >= bits /\ p /= 0

\* A payload that does not fit the bits that are left.
overlong(bits, shift, p) ==
  IF shift >= bits THEN p /= 0 ELSE shift + Group > bits /\ p >= bit[bits - shift]

Groups(bits) == (bits + Group - 1) \div Group

\* How often either loop can turn; the last turn finds no room left.
Turns(bits) == Groups(bits) + 1

\* What a loop has read: the number so far, whether another byte follows.
Begun(at) == Ok([number |-> 0, more |-> TRUE], at)

\* One turn of the loop in `unsigned`.
unsigned_turn(bytes, bits, shift, sum, at) ==
  Then(Reader_byte(bytes, at), LAMBDA octet, next :
    LET p == payload(octet)
        result == IF shift >= bits THEN sum ELSE sum + p * bit[shift]
    IN
    IF overlong(bits, shift, p) THEN Err("Overlong")
    ELSE IF more(octet) /\ shift + Group >= bits + Group THEN Err("Overlong")
    ELSE Ok([number |-> result, more |-> more(octet)], next))

Reader_unsigned(bytes, at, bits) ==
  LET after[n \in 0 .. Turns(bits)] ==
        IF n = 0 THEN Begun(at)
        ELSE Then(after[n - 1], LAMBDA sofar, next :
               IF sofar.more
               THEN unsigned_turn(bytes, bits, Group * (n - 1), sofar.number, next)
               ELSE Ok(sofar, next))
  IN  Then(after[Turns(bits)], LAMBDA read, next : Ok(read.number, next))

\* An i64 of the code: Long bits, the top one the sign.
as_long(n) == ((n + bit[Long - 1]) % bit[Long]) - bit[Long - 1]

\* The sign in the last byte's payload carried up to the top.
extended(sum, shift, p) ==
  as_long(IF shift < Long /\ p >= bit[Group - 1] THEN sum - bit[shift] ELSE sum)

\* One turn of the loop in `signed`.
signed_turn(bytes, bits, shift, sum, at) ==
  Then(Reader_byte(bytes, at), LAMBDA octet, next :
    LET p == payload(octet)
        result == sum + p * bit[shift]
        value == extended(result, shift + Group, p)
        limit == bit[bits - 1]
    IN
    IF shift >= bits THEN Err("Overlong")
    ELSE IF more(octet) THEN Ok([number |-> result, more |-> TRUE], next)
    ELSE IF bits < Long /\ (value >= limit \/ value < -limit) THEN Err("Overlong")
    ELSE Ok([number |-> value, more |-> FALSE], next))

Reader_signed(bytes, at, bits) ==
  LET after[n \in 0 .. Turns(bits)] ==
        IF n = 0 THEN Begun(at)
        ELSE Then(after[n - 1], LAMBDA sofar, next :
               IF sofar.more
               THEN signed_turn(bytes, bits, Group * (n - 1), sofar.number, next)
               ELSE Ok(sofar, next))
  IN  Then(after[Turns(bits)], LAMBDA read, next : Ok(read.number, next))

Reader_u32(bytes, at) == Reader_unsigned(bytes, at, Word)

Reader_usize(bytes, at) == Reader_unsigned(bytes, at, Word)

\* core::str::from_utf8, for names in the letters the tools use.
is_utf8(bytes) == \A i \in DOMAIN bytes : bytes[i] < 128

Reader_name(bytes, at) ==
  Then(Reader_usize(bytes, at), LAMBDA length, from :
  Then(Reader_slice(bytes, from, length), LAMBDA text, next :
    IF is_utf8(text) THEN Ok(text, next) ELSE Err("Malformed")))

-----------------------------------------------------------------------------
(* What an encoding means, said without the loop.                           *)

\* The encoding at the front of bytes ends at the first byte without the
\* continuation bit.
EncodedIn(bytes) ==
  CHOOSE n \in 1 .. Len(bytes) :
    ~more(bytes[n]) /\ \A i \in 1 .. n - 1 : more(bytes[i])

Ends(bytes) == \E n \in 1 .. Len(bytes) : ~more(bytes[n])

PayloadSum(bytes, n) ==
  LET sum[k \in 0 .. n] ==
        IF k = 0 THEN 0 ELSE sum[k - 1] + payload(bytes[k]) * bit[Group * (k - 1)]
  IN  sum[n]

SignedSum(bytes, n) ==
  PayloadSum(bytes, n) - IF payload(bytes[n]) >= bit[Group - 1] THEN bit[Group * n] ELSE 0

UnsignedAgrees(bytes, bits) ==
  LET read == Reader_unsigned(bytes, 0, bits)
      n == EncodedIn(bytes)
      means == Ends(bytes) /\ n <= Groups(bits) + 1 /\ PayloadSum(bytes, n) < bit[bits]
  IN  IF means THEN read = Ok(PayloadSum(bytes, n), n) ELSE read.error /= "None"

\* At the full width the code holds nothing against the width: bits of the
\* last byte that lie beyond it are dropped, not refused.
SignedAgrees(bytes, bits) ==
  LET read == Reader_signed(bytes, 0, bits)
      n == EncodedIn(bytes)
      v == SignedSum(bytes, n)
      means == Ends(bytes) /\ n <= Groups(bits)
      fits == v >= -bit[bits - 1] /\ v < bit[bits - 1]
  IN  CASE means /\ fits                 -> read = Ok(v, n)
        [] means /\ ~fits /\ bits = Long -> read = Ok(as_long(v), n)
        [] OTHER                         -> read.error /= "None"
=============================================================================
