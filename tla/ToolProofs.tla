----------------------------- MODULE ToolProofs -----------------------------
(***************************************************************************)
(* Proofs about the tools, from their bytes to their crossings into the    *)
(* gate: for any module a tool may be, any ceilings, any fuel, any grants. *)
(***************************************************************************)
EXTENDS Tool, Numbers, SequenceTheorems

-----------------------------------------------------------------------------
(* Powers of two.                                                          *)
LEMMA Bits ==
  /\ bit \in [Nat -> Nat \ {0}]
  /\ bit[0] = 1 /\ \A n \in Nat : bit[n + 1] = 2 * bit[n]
<1> DEFINE V == Nat \ {0}
           G == [n \in Nat |-> [x \in V |-> 2 * x]]
           Is(f) == f = [n \in Nat |-> IF n = 0 THEN 1 ELSE 2 * f[n - 1]]
<1>1. \A x \in V : 2 * x \in V
  OBVIOUS
<1>2. G \in [Nat -> [V -> V]] /\ 1 \in V
  BY <1>1
<1>3. \A n \in Nat, x \in V : G[n][x] = 2 * x
  OBVIOUS
<1> HIDE DEF V, G
<1>4. PICK f \in [Nat -> V] : f[0] = 1 /\ \A n \in Nat : f[n + 1] = G[n][f[n]]
  <2>1. Iterated(V, 1, G)
    BY <1>2, NatRecursion
  <2> QED
    BY <2>1 DEF Iterated
<1>5. ASSUME NEW n \in Nat  PROVE f[n] = IF n = 0 THEN 1 ELSE 2 * f[n - 1]
  <2>1. CASE n = 0
    BY <1>4, <2>1
  <2>2. CASE n # 0
    <3>1. n - 1 \in Nat /\ (n - 1) + 1 = n
      BY <2>2
    <3> QED
      BY <1>3, <1>4, <2>2, <3>1
  <2> QED
    BY <2>1, <2>2
<1>6. Is(f)
  BY <1>4, <1>5
<1>7. Is(bit)
  BY <1>6 DEF bit
<1>8. \A n \in Nat : bit[n] = IF n = 0 THEN 1 ELSE 2 * bit[n - 1]
  BY <1>7
<1> HIDE DEF Is
<1>9. bit[0] = 1 /\ \A n \in Nat : bit[n + 1] = 2 * bit[n]
  <2> SUFFICES ASSUME NEW n \in Nat  PROVE bit[n + 1] = 2 * bit[n]
    BY <1>8
  <2>1. n + 1 \in Nat /\ n + 1 # 0 /\ (n + 1) - 1 = n
    OBVIOUS
  <2> QED
    BY <1>8, <2>1
<1>10. DOMAIN bit = Nat
  BY <1>7 DEF Is
<1>11. \A n \in Nat : bit[n] \in V
  <2> DEFINE Bad == {n \in Nat : bit[n] \notin V}
  <2>1. SUFFICES ASSUME Bad # {}  PROVE FALSE
    OBVIOUS
  <2>2. PICK n \in Bad : \A m \in Bad : n <= m
    <3>1. Bad \in SUBSET Nat
      OBVIOUS
    <3> HIDE DEF Bad
    <3> QED
      BY <2>1, <3>1, LeastNatural
  <2>3. n # 0
    BY <1>2, <1>9, <2>2
  <2>4. n - 1 \in Nat /\ (n - 1) + 1 = n /\ ~(n <= n - 1)
    BY <2>2, <2>3
  <2>5. bit[n - 1] \in V
    BY <2>2, <2>4
  <2>6. bit[n] = 2 * bit[n - 1]
    BY <1>9, <2>4
  <2> QED
    BY <1>1, <2>2, <2>5, <2>6
<1>12. bit = [n \in Nat |-> bit[n]]
  BY <1>7 DEF Is
<1> QED
  BY <1>9, <1>11, <1>12 DEF V

-----------------------------------------------------------------------------
(* What a read may answer: a value and a place in the N bytes, or an error. *)
Errors ==
  {"Truncated", "Overlong", "Malformed", "Unsupported", "TooLarge", "NotWasm",
   "UnsupportedVersion", "StackOverflow", "Faulted"}

Reads(V, N) == [error : {"None"}, value : V, at : 0..N] \cup {Err(e) : e \in Errors}

LEMMA ReadFacts ==
  ASSUME NEW V, NEW N \in Nat
  PROVE  /\ \A v \in V, a \in 0..N : Ok(v, a) \in Reads(V, N)
         /\ \A e \in Errors : Err(e) \in Reads(V, N)
         /\ \A r \in Reads(V, N) :
              /\ r.error \in Errors \cup {"None"}
              /\ r.error = "None" => r.value \in V /\ r.at \in 0..N /\ r = Ok(r.value, r.at)
              /\ r.error # "None" => \A W : r \in Reads(W, N)
              /\ r.at \in 0..N /\ (0 \in V => r.value \in V)
         /\ \A v, a : Ok(v, a).error = "None" /\ Ok(v, a).value = v /\ Ok(v, a).at = a
         /\ \A e \in Errors : Err(e).error = e /\ e # "None"
BY DEF Reads, Ok, Err, Errors

LEMMA ByteRead ==
  ASSUME NEW bytes \in Seq(Byte), NEW at \in Nat
  PROVE  /\ Reader_byte(bytes, at) \in Reads(Byte, Len(bytes))
         /\ Reader_byte(bytes, at) =
              IF at < Len(bytes) THEN Ok(bytes[at + 1], at + 1) ELSE Err("Truncated")
         /\ at < Len(bytes) => bytes[at + 1] \in Byte
<1>1. Len(bytes) \in Nat /\ "Truncated" \in Errors
  BY DEF Errors
<1>2. ASSUME at < Len(bytes)  PROVE bytes[at + 1] \in Byte /\ at + 1 \in 0..Len(bytes)
  BY <1>1, <1>2
<1> QED
  BY <1>1, <1>2, ReadFacts DEF Reader_byte

LEMMA Payloads ==
  ASSUME NEW octet \in Byte
  PROVE  payload(octet) \in 0..(bit[Group] - 1) /\ more(octet) \in BOOLEAN
<1>1. bit[Group] \in Nat \ {0} /\ octet \in Nat
  BY Bits, WidthsAssumption DEF Byte
<1>2. octet % bit[Group] \in 0..(bit[Group] - 1)
  BY <1>1, Division
<1> QED
  BY <1>2 DEF payload, more

(* The number of turns and the shift in each.                              *)
LEMMA Shifts ==
  ASSUME NEW bits \in Nat
  PROVE  /\ Groups(bits) \in Nat /\ Turns(bits) = Groups(bits) + 1
         /\ Group * Groups(bits) >= bits
         /\ \A n \in Nat : Group * n \in Nat /\ Group * (n + 1) = Group * n + Group
         /\ \A n \in Nat : n < Groups(bits) <=> Group * n < bits
<1>1. Group \in Nat \ {0} /\ bits + Group - 1 \in Nat
  BY WidthsAssumption
<1> DEFINE q == (bits + Group - 1) \div Group
           r == (bits + Group - 1) % Group
<1>2. r \in 0..(Group - 1) /\ q \in Nat /\ bits + Group - 1 = Group * q + r
  BY <1>1, Division
<1>3. Groups(bits) = q /\ Turns(bits) = Groups(bits) + 1
  BY DEF Groups, Turns
<1> HIDE DEF q, r
<1>4. \A n \in Nat : Group * n \in Nat /\ Group * (n + 1) = Group * n + Group
  BY <1>1
<1>5. ASSUME NEW n \in Nat, n < q  PROVE Group * n < bits
  <2>1. PICK d \in Nat : q = n + 1 + d
    <3>1. q - (n + 1) \in Nat /\ q = n + 1 + (q - (n + 1))
      BY <1>2, <1>5
    <3> QED
      BY <3>1
  <2>2. Group * q = Group * n + Group + Group * d /\ Group * d \in Nat /\ Group * n \in Nat
    BY <1>1, <2>1
  <2> QED
    BY <1>1, <1>2, <2>2
<1>6. ASSUME NEW n \in Nat, ~(n < q)  PROVE ~(Group * n < bits)
  <2>1. PICK d \in Nat : n = q + d
    <3>1. n - q \in Nat /\ n = q + (n - q)
      BY <1>2, <1>6
    <3> QED
      BY <3>1
  <2>2. Group * n = Group * q + Group * d /\ Group * d \in Nat /\ Group * q \in Nat
    BY <1>1, <1>2, <2>1
  <2> QED
    BY <1>1, <1>2, <2>2
<1>7. Group * q >= bits
  BY <1>1, <1>2, <1>6
<1> QED
  BY <1>2, <1>3, <1>4, <1>5, <1>6, <1>7

-----------------------------------------------------------------------------
(* The loop of `unsigned`, turn by turn.                                   *)
Sofar(T) == [number : T, more : BOOLEAN]

UnsignedAfter(after, bytes, at, bits) ==
  /\ after \in [0..Turns(bits) -> Reads(Sofar(Nat), Len(bytes))]
  /\ after[0] = Begun(at)
  /\ \A n \in 0..Groups(bits) :
       after[n + 1] =
         IF after[n].error # "None" THEN after[n]
         ELSE IF after[n].value.more
         THEN unsigned_turn(bytes, bits, Group * n, after[n].value.number, after[n].at)
         ELSE after[n]
  /\ Reader_unsigned(bytes, at, bits) =
       IF after[Turns(bits)].error # "None" THEN after[Turns(bits)]
       ELSE Ok(after[Turns(bits)].value.number, after[Turns(bits)].at)

LEMMA UnsignedTurn ==
  ASSUME NEW bytes \in Seq(Byte), NEW bits \in Nat, NEW shift \in Nat, NEW sum \in Nat,
         NEW at \in 0..Len(bytes)
  PROVE  unsigned_turn(bytes, bits, shift, sum, at) \in Reads(Sofar(Nat), Len(bytes))
<1> DEFINE read == Reader_byte(bytes, at)
           p == payload(read.value)
           result == IF shift >= bits THEN sum ELSE sum + p * bit[shift]
<1>1. Len(bytes) \in Nat /\ at \in Nat /\ read \in Reads(Byte, Len(bytes))
  BY ByteRead
<1> HIDE DEF read
<1>2. read.error = "None" => read.value \in Byte /\ read.at \in 0..Len(bytes)
  BY <1>1, ReadFacts
<1>3. read.error = "None" => p \in Nat /\ more(read.value) \in BOOLEAN
  <2>1. bit[Group] \in Nat
    BY Bits, WidthsAssumption
  <2> QED
    BY <1>2, <2>1, Payloads
<1> HIDE DEF p
<1>4. read.error = "None" => result \in Nat
  <2>1. bit[shift] \in Nat
    BY Bits
  <2> QED
    BY <1>3, <2>1
<1>5. unsigned_turn(bytes, bits, shift, sum, at) =
        IF read.error # "None" THEN read
        ELSE IF overlong(bits, shift, p) THEN Err("Overlong")
        ELSE IF more(read.value) /\ shift + Group >= bits + Group THEN Err("Overlong")
        ELSE Ok([number |-> result, more |-> more(read.value)], read.at)
  BY DEF unsigned_turn, Then, read, p
<1> HIDE DEF result
<1>6. "Overlong" \in Errors
  BY DEF Errors
<1>7. read.error = "None" => [number |-> result, more |-> more(read.value)] \in Sofar(Nat)
  BY <1>3, <1>4 DEF Sofar
<1> QED
  BY <1>1, <1>2, <1>5, <1>6, <1>7, ReadFacts

LEMMA UnsignedLoops ==
  ASSUME NEW bytes \in Seq(Byte), NEW at \in 0..Len(bytes), NEW bits \in Nat
  PROVE  \E after : UnsignedAfter(after, bytes, at, bits)
<1> DEFINE N == Turns(bits)
           V == Reads(Sofar(Nat), Len(bytes))
           step(n, x) == IF x.error # "None" THEN x
                         ELSE IF x.value.more
                         THEN unsigned_turn(bytes, bits, Group * n, x.value.number, x.at)
                         ELSE x
           G == [n \in 0..(N - 1) |-> [x \in V |-> step(n, x)]]
           Is(f) == f = [n \in 0..N |->
             IF n = 0 THEN Begun(at)
             ELSE IF f[n - 1].error # "None" THEN f[n - 1]
             ELSE IF f[n - 1].value.more
             THEN unsigned_turn(bytes, bits, Group * (n - 1), f[n - 1].value.number, f[n - 1].at)
             ELSE Ok(f[n - 1].value, f[n - 1].at)]
           after == CHOOSE f : Is(f)
<1>1. N \in Nat /\ N = Groups(bits) + 1 /\ Groups(bits) \in Nat /\ Len(bytes) \in Nat
  <2>1. Len(bytes) \in Nat
    OBVIOUS
  <2>2. Groups(bits) \in Nat /\ Turns(bits) = Groups(bits) + 1
    BY Shifts
  <2> QED
    BY <2>1, <2>2
<1>2. Begun(at) \in V
  <2>1. [number |-> 0, more |-> TRUE] \in Sofar(Nat)
    BY DEF Sofar
  <2> QED
    BY <1>1, <2>1, ReadFacts DEF Begun
<1>3. ASSUME NEW n \in 0..(N - 1), NEW x \in V  PROVE step(n, x) \in V
  <2>1. Group * n \in Nat
    BY <1>1, Shifts
  <2>2. x.error = "None" => x.value \in Sofar(Nat) /\ x.at \in 0..Len(bytes)
    BY <1>1, ReadFacts
  <2>3. x.error = "None" => unsigned_turn(bytes, bits, Group * n, x.value.number, x.at) \in V
    BY <2>1, <2>2, UnsignedTurn DEF Sofar
  <2> QED
    BY <2>3
<1>4. \A x \in V : x.error = "None" => x = Ok(x.value, x.at)
  BY <1>1, ReadFacts
<1> HIDE DEF V
<1>5. G \in [0..(N - 1) -> [V -> V]]
  BY <1>3
<1>6. \A n \in 0..(N - 1), x \in V : G[n][x] = step(n, x)
  OBVIOUS
<1> HIDE DEF G
<1>7. PICK f \in [0..N -> V] : f = [n \in 0..N |-> IF n = 0 THEN Begun(at) ELSE G[n - 1][f[n - 1]]]
  <2>1. Chain(V, Begun(at), N, G)
    BY <1>1, <1>2, <1>5, ChainExists
  <2> QED
    BY <2>1 DEF Chain
<1>8. ASSUME NEW n \in 0..N, n # 0
      PROVE  /\ f[n] = step(n - 1, f[n - 1]) /\ f[n - 1] \in V
             /\ f[n - 1].error = "None" => f[n - 1] = Ok(f[n - 1].value, f[n - 1].at)
  <2>1. n - 1 \in 0..(N - 1) /\ n - 1 \in 0..N
    BY <1>1, <1>8
  <2>2. f[n] = G[n - 1][f[n - 1]] /\ f[n - 1] \in V
    BY <1>7, <1>8, <2>1
  <2> QED
    BY <1>4, <1>6, <2>1, <2>2
<1>9. Is(f)
  BY <1>7, <1>8
<1>10. Is(after)
  BY <1>9
<1>11. Reader_unsigned(bytes, at, bits) =
         IF after[N].error # "None" THEN after[N] ELSE Ok(after[N].value.number, after[N].at)
  BY DEF Reader_unsigned, Then
<1> HIDE DEF after
<1>12. after = [n \in 0..N |-> after[n]] /\ after[0] = Begun(at)
  BY <1>1, <1>10
<1>13. \A n \in 0..N : n # 0 =>
         after[n] = IF after[n - 1].error # "None" THEN after[n - 1]
                    ELSE IF after[n - 1].value.more
                    THEN unsigned_turn(bytes, bits, Group * (n - 1), after[n - 1].value.number,
                                       after[n - 1].at)
                    ELSE Ok(after[n - 1].value, after[n - 1].at)
  BY <1>1, <1>10
<1> HIDE DEF Is
<1>14. ASSUME NEW n \in 0..(N - 1), after[n] \in V
       PROVE  after[n + 1] = step(n, after[n]) /\ after[n + 1] \in V
  <2>1. n + 1 \in 0..N /\ n + 1 # 0 /\ (n + 1) - 1 = n
    BY <1>1
  <2>2. after[n].error = "None" => after[n] = Ok(after[n].value, after[n].at)
    BY <1>4, <1>14
  <2>3. after[n + 1] = step(n, after[n])
    BY <1>13, <2>1, <2>2
  <2> QED
    BY <1>3, <1>14, <2>3
<1>15. after \in [0..N -> V]
  BY <1>1, <1>2, <1>12, <1>14, StaysIn
<1>16. \A n \in 0..Groups(bits) : after[n + 1] = step(n, after[n])
  <2> SUFFICES ASSUME NEW n \in 0..Groups(bits)  PROVE after[n + 1] = step(n, after[n])
    OBVIOUS
  <2>1. n \in 0..(N - 1) /\ n \in 0..N
    BY <1>1
  <2>2. after[n] \in V
    BY <1>15, <2>1
  <2> QED
    BY <1>14, <2>1, <2>2
<1> QED
  BY <1>11, <1>12, <1>15, <1>16 DEF UnsignedAfter, V

(* The loop of `signed`, turn by turn.                                     *)
SignedAfter(after, bytes, at, bits) ==
  /\ after \in [0..Turns(bits) -> Reads(Sofar(Int), Len(bytes))]
  /\ after[0] = Begun(at)
  /\ \A n \in 0..Groups(bits) :
       after[n + 1] =
         IF after[n].error # "None" THEN after[n]
         ELSE IF after[n].value.more
         THEN signed_turn(bytes, bits, Group * n, after[n].value.number, after[n].at)
         ELSE after[n]
  /\ Reader_signed(bytes, at, bits) =
       IF after[Turns(bits)].error # "None" THEN after[Turns(bits)]
       ELSE Ok(after[Turns(bits)].value.number, after[Turns(bits)].at)

LEMMA SignedValue ==
  ASSUME NEW n \in Int
  PROVE  as_long(n) \in Int /\ as_long(n) >= -bit[Long - 1] /\ as_long(n) < bit[Long - 1]
<1>1. Long - 1 \in Nat /\ (Long - 1) + 1 = Long
  BY WidthsAssumption
<1> DEFINE h == bit[Long - 1]
           m == bit[Long]
<1>2. h \in Nat \ {0} /\ m = 2 * h
  BY <1>1, Bits
<1> HIDE DEF h, m
<1>3. (n + h) % m \in 0..(m - 1)
  BY <1>2
<1>4. as_long(n) = ((n + h) % m) - h
  BY DEF as_long, h, m
<1>5. as_long(n) \in Int /\ as_long(n) >= -h /\ as_long(n) < h
  BY <1>2, <1>3, <1>4
<1> QED
  BY <1>5 DEF h

LEMMA SignedTurn ==
  ASSUME NEW bytes \in Seq(Byte), NEW bits \in Nat \ {0}, NEW shift \in Nat, NEW sum \in Int,
         NEW at \in 0..Len(bytes)
  PROVE  signed_turn(bytes, bits, shift, sum, at) \in Reads(Sofar(Int), Len(bytes))
<1> DEFINE read == Reader_byte(bytes, at)
           p == payload(read.value)
           result == sum + p * bit[shift]
           value == extended(result, shift + Group, p)
           limit == bit[bits - 1]
<1>1. Len(bytes) \in Nat /\ at \in Nat /\ read \in Reads(Byte, Len(bytes))
  BY ByteRead
<1> HIDE DEF read
<1>2. read.error = "None" => read.value \in Byte /\ read.at \in 0..Len(bytes)
  BY <1>1, ReadFacts
<1>3. read.error = "None" => p \in Nat /\ more(read.value) \in BOOLEAN
  <2>1. bit[Group] \in Nat
    BY Bits, WidthsAssumption
  <2> QED
    BY <1>2, <2>1, Payloads
<1> HIDE DEF p
<1>4. read.error = "None" => result \in Int
  <2>1. bit[shift] \in Nat
    BY Bits
  <2> QED
    BY <1>3, <2>1
<1> HIDE DEF result
<1>5. read.error = "None" => value \in Int
  <2>0. shift + Group \in Nat
    BY WidthsAssumption
  <2>1. bit[shift + Group] \in Nat
    BY <2>0, Bits
  <2> DEFINE v == IF shift + Group < Long /\ p >= bit[Group - 1]
                  THEN result - bit[shift + Group] ELSE result
  <2>2. read.error = "None" => v \in Int
    BY <1>4, <2>1
  <2>3. value = as_long(v)
    BY DEF extended
  <2> HIDE DEF v, value
  <2> QED
    BY <2>2, <2>3, SignedValue
<1>6. signed_turn(bytes, bits, shift, sum, at) =
        IF read.error # "None" THEN read
        ELSE IF shift >= bits THEN Err("Overlong")
        ELSE IF more(read.value) THEN Ok([number |-> result, more |-> TRUE], read.at)
        ELSE IF bits < Long /\ (value >= limit \/ value < -limit) THEN Err("Overlong")
        ELSE Ok([number |-> value, more |-> FALSE], read.at)
  BY DEF signed_turn, Then, read, p, result
<1> HIDE DEF value, limit
<1>7. "Overlong" \in Errors
  BY DEF Errors
<1>8. read.error = "None" => /\ [number |-> result, more |-> TRUE] \in Sofar(Int)
                             /\ [number |-> value, more |-> FALSE] \in Sofar(Int)
  BY <1>4, <1>5 DEF Sofar
<1> QED
  BY <1>1, <1>2, <1>6, <1>7, <1>8, ReadFacts

LEMMA SignedLoops ==
  ASSUME NEW bytes \in Seq(Byte), NEW at \in 0..Len(bytes), NEW bits \in Nat \ {0}
  PROVE  \E after : SignedAfter(after, bytes, at, bits)
<1> DEFINE N == Turns(bits)
           V == Reads(Sofar(Int), Len(bytes))
           step(n, x) == IF x.error # "None" THEN x
                         ELSE IF x.value.more
                         THEN signed_turn(bytes, bits, Group * n, x.value.number, x.at)
                         ELSE x
           G == [n \in 0..(N - 1) |-> [x \in V |-> step(n, x)]]
           Is(f) == f = [n \in 0..N |->
             IF n = 0 THEN Begun(at)
             ELSE IF f[n - 1].error # "None" THEN f[n - 1]
             ELSE IF f[n - 1].value.more
             THEN signed_turn(bytes, bits, Group * (n - 1), f[n - 1].value.number, f[n - 1].at)
             ELSE Ok(f[n - 1].value, f[n - 1].at)]
           after == CHOOSE f : Is(f)
<1>1. N \in Nat /\ N = Groups(bits) + 1 /\ Groups(bits) \in Nat /\ Len(bytes) \in Nat
  <2>1. Len(bytes) \in Nat
    OBVIOUS
  <2>2. Groups(bits) \in Nat /\ Turns(bits) = Groups(bits) + 1
    BY Shifts
  <2> QED
    BY <2>1, <2>2
<1>2. Begun(at) \in V
  <2>1. [number |-> 0, more |-> TRUE] \in Sofar(Int)
    BY DEF Sofar
  <2> QED
    BY <1>1, <2>1, ReadFacts DEF Begun
<1>3. ASSUME NEW n \in 0..(N - 1), NEW x \in V  PROVE step(n, x) \in V
  <2>1. Group * n \in Nat
    BY <1>1, Shifts
  <2>2. x.error = "None" => x.value \in Sofar(Int) /\ x.at \in 0..Len(bytes)
    BY <1>1, ReadFacts
  <2>3. x.error = "None" => signed_turn(bytes, bits, Group * n, x.value.number, x.at) \in V
    BY <2>1, <2>2, SignedTurn DEF Sofar
  <2> QED
    BY <2>3
<1>4. \A x \in V : x.error = "None" => x = Ok(x.value, x.at)
  BY <1>1, ReadFacts
<1> HIDE DEF V
<1>5. G \in [0..(N - 1) -> [V -> V]]
  BY <1>3
<1>6. \A n \in 0..(N - 1), x \in V : G[n][x] = step(n, x)
  OBVIOUS
<1> HIDE DEF G
<1>7. PICK f \in [0..N -> V] : f = [n \in 0..N |-> IF n = 0 THEN Begun(at) ELSE G[n - 1][f[n - 1]]]
  <2>1. Chain(V, Begun(at), N, G)
    BY <1>1, <1>2, <1>5, ChainExists
  <2> QED
    BY <2>1 DEF Chain
<1>8. ASSUME NEW n \in 0..N, n # 0
      PROVE  /\ f[n] = step(n - 1, f[n - 1]) /\ f[n - 1] \in V
             /\ f[n - 1].error = "None" => f[n - 1] = Ok(f[n - 1].value, f[n - 1].at)
  <2>1. n - 1 \in 0..(N - 1) /\ n - 1 \in 0..N
    BY <1>1, <1>8
  <2>2. f[n] = G[n - 1][f[n - 1]] /\ f[n - 1] \in V
    BY <1>7, <1>8, <2>1
  <2> QED
    BY <1>4, <1>6, <2>1, <2>2
<1>9. Is(f)
  BY <1>7, <1>8
<1>10. Is(after)
  BY <1>9
<1>11. Reader_signed(bytes, at, bits) =
         IF after[N].error # "None" THEN after[N] ELSE Ok(after[N].value.number, after[N].at)
  BY DEF Reader_signed, Then
<1> HIDE DEF after
<1>12. after = [n \in 0..N |-> after[n]] /\ after[0] = Begun(at)
  BY <1>1, <1>10
<1>13. \A n \in 0..N : n # 0 =>
         after[n] = IF after[n - 1].error # "None" THEN after[n - 1]
                    ELSE IF after[n - 1].value.more
                    THEN signed_turn(bytes, bits, Group * (n - 1), after[n - 1].value.number,
                                       after[n - 1].at)
                    ELSE Ok(after[n - 1].value, after[n - 1].at)
  BY <1>1, <1>10
<1> HIDE DEF Is
<1>14. ASSUME NEW n \in 0..(N - 1), after[n] \in V
       PROVE  after[n + 1] = step(n, after[n]) /\ after[n + 1] \in V
  <2>1. n + 1 \in 0..N /\ n + 1 # 0 /\ (n + 1) - 1 = n
    BY <1>1
  <2>2. after[n].error = "None" => after[n] = Ok(after[n].value, after[n].at)
    BY <1>4, <1>14
  <2>3. after[n + 1] = step(n, after[n])
    BY <1>13, <2>1, <2>2
  <2> QED
    BY <1>3, <1>14, <2>3
<1>15. after \in [0..N -> V]
  BY <1>1, <1>2, <1>12, <1>14, StaysIn
<1>16. \A n \in 0..Groups(bits) : after[n + 1] = step(n, after[n])
  <2> SUFFICES ASSUME NEW n \in 0..Groups(bits)  PROVE after[n + 1] = step(n, after[n])
    OBVIOUS
  <2>1. n \in 0..(N - 1) /\ n \in 0..N
    BY <1>1
  <2>2. after[n] \in V
    BY <1>15, <2>1
  <2> QED
    BY <1>14, <2>1, <2>2
<1> QED
  BY <1>11, <1>12, <1>15, <1>16 DEF SignedAfter, V

-----------------------------------------------------------------------------
(* What an encoding means, and that the cursor reads just that.            *)
LEMMA BitSum ==
  ASSUME NEW a \in Nat, NEW b \in Nat
  PROVE  bit[a + b] = bit[a] * bit[b] /\ bit[a] <= bit[a + b]
<1> DEFINE S == {k \in Nat : bit[a + k] = bit[a] * bit[k]}
<1>1. 0 \in S
  BY Bits
<1>2. ASSUME NEW k \in 0..(b - 1), k \in S
      PROVE  k + 1 \in S
  <2>1. k \in Nat /\ a + k \in Nat /\ a + (k + 1) = (a + k) + 1
    OBVIOUS
  <2>2. /\ bit[(a + k) + 1] = 2 * bit[a + k] /\ bit[k + 1] = 2 * bit[k]
        /\ bit[a + k] = bit[a] * bit[k]
        /\ bit[a] \in Nat /\ bit[k] \in Nat
    BY <1>2, <2>1, Bits
  <2>3. 2 * (bit[a] * bit[k]) = bit[a] * (2 * bit[k])
    BY <2>2
  <2> QED
    BY <2>1, <2>2, <2>3
<1> HIDE DEF S
<1>3. b \in S
  <2>1. b \in 0..b
    OBVIOUS
  <2> QED
    BY <1>1, <1>2, <2>1, UpTo
<1>4. bit[a + b] = bit[a] * bit[b]
  BY <1>3 DEF S
<1>5. bit[a] \in Nat \ {0} /\ bit[b] \in Nat \ {0}
  BY Bits
<1> QED
  BY <1>4, <1>5

LEMMA BitOrder ==
  ASSUME NEW a \in Nat, NEW b \in Nat, a <= b
  PROVE  bit[a] <= bit[b] /\ b - a \in Nat /\ bit[b] = bit[a] * bit[b - a]
<1>1. b - a \in Nat /\ a + (b - a) = b
  OBVIOUS
<1> QED
  BY <1>1, BitSum

(* The running sum of the payloads, one byte after the other.              *)
Sums(s, bytes) ==
  /\ s \in [0..Len(bytes) -> Nat] /\ s[0] = 0
  /\ \A k \in 0..(Len(bytes) - 1) :
       s[k + 1] = s[k] + payload(bytes[k + 1]) * bit[Group * k]
  /\ \A n \in 0..Len(bytes) : PayloadSum(bytes, n) = s[n]

LEMMA Weights ==
  ASSUME NEW bytes \in Seq(Byte), NEW k \in 0..(Len(bytes) - 1)
  PROVE  /\ bytes[k + 1] \in Byte /\ k + 1 \in 1..Len(bytes)
         /\ payload(bytes[k + 1]) \in 0..(bit[Group] - 1)
         /\ payload(bytes[k + 1]) \in Nat
         /\ Group * k \in Nat /\ bit[Group * k] \in Nat \ {0}
         /\ payload(bytes[k + 1]) * bit[Group * k] \in Nat
<1>1. k \in Nat /\ k + 1 \in 1..Len(bytes)
  OBVIOUS
<1>2. bytes[k + 1] \in Byte
  BY <1>1
<1>3. payload(bytes[k + 1]) \in 0..(bit[Group] - 1)
  BY <1>2, Payloads
<1>4. payload(bytes[k + 1]) \in Nat
  <2>1. bit[Group] \in Nat \ {0}
    BY Bits, WidthsAssumption
  <2> QED
    BY <1>3, <2>1
<1>5. Group * k \in Nat
  BY <1>1, WidthsAssumption
<1>6. bit[Group * k] \in Nat \ {0}
  BY <1>5, Bits
<1> QED
  BY <1>1, <1>2, <1>3, <1>4, <1>5, <1>6

LEMMA PayloadsSum ==
  ASSUME NEW bytes \in Seq(Byte)
  PROVE  \E s : Sums(s, bytes)
<1> DEFINE N == Len(bytes)
           w(k) == payload(bytes[k + 1]) * bit[Group * k]
           G == [k \in 0..(N - 1) |-> [x \in Nat |-> x + w(k)]]
<1>1. N \in Nat /\ \A k \in 0..(N - 1) : w(k) \in Nat
  BY Weights
<1> HIDE DEF w
<1>2. G \in [0..(N - 1) -> [Nat -> Nat]] /\ \A k \in 0..(N - 1), x \in Nat : G[k][x] = x + w(k)
  BY <1>1
<1> HIDE DEF N, G
<1>3. PICK s \in [0..N -> Nat] : s = [k \in 0..N |-> IF k = 0 THEN 0 ELSE G[k - 1][s[k - 1]]]
  <2>1. Chain(Nat, 0, N, G)
    BY <1>1, <1>2, ChainExists
  <2> QED
    BY <2>1 DEF Chain
<1>4. s[0] = 0 /\ \A k \in 0..(N - 1) : s[k + 1] = s[k] + w(k)
  <2>1. s[0] = 0
    BY <1>1, <1>3
  <2>2. ASSUME NEW k \in 0..(N - 1)  PROVE s[k + 1] = s[k] + w(k)
    <3>1. k + 1 \in 0..N /\ k + 1 # 0 /\ (k + 1) - 1 = k /\ k \in 0..N
      BY <1>1
    <3>2. s[k + 1] = G[k][s[k]] /\ s[k] \in Nat
      BY <1>3, <3>1
    <3> QED
      BY <1>2, <3>2
  <2> QED
    BY <2>1, <2>2
<1>5. ASSUME NEW n \in 0..N
      PROVE  PayloadSum(bytes, n) = s[n]
  <2> DEFINE Is(f) == f = [k \in 0..n |->
               IF k = 0 THEN 0 ELSE f[k - 1] + payload(bytes[k]) * bit[Group * (k - 1)]]
             sum == CHOOSE f : Is(f)
             t == [k \in 0..n |-> s[k]]
             S == {k \in 0..n : sum[k] = s[k]}
  <2>1. PayloadSum(bytes, n) = sum[n]
    BY DEF PayloadSum
  <2>2. n \in Nat /\ \A k \in 0..n : k \in 0..N /\
          (k # 0 => k - 1 \in 0..n /\ k - 1 \in 0..(N - 1) /\ (k - 1) + 1 = k)
    BY <1>1
  <2>3. \A k \in 0..n : k # 0 => w(k - 1) = payload(bytes[k]) * bit[Group * (k - 1)]
    BY <2>2 DEF w
  <2>4. \A k \in 0..n : k # 0 => s[k] = s[k - 1] + w(k - 1)
    BY <1>4, <2>2
  <2>5. \A k \in 0..n : t[k] = s[k]
    OBVIOUS
  <2>6. ASSUME NEW k \in 0..n
        PROVE  s[k] = IF k = 0 THEN 0 ELSE t[k - 1] + payload(bytes[k]) * bit[Group * (k - 1)]
    BY <1>4, <2>2, <2>3, <2>4, <2>5
  <2>7. Is(t)
    BY <2>6
  <2>8. Is(sum)
    BY <2>7
  <2> HIDE DEF sum, t
  <2>9. 0 \in 0..n
    BY <2>2
  <2>10. 0 \in S
    BY <1>4, <2>8, <2>9
  <2>11. ASSUME NEW k \in 0..(n - 1), k \in S
         PROVE  k + 1 \in S
    <3>1. k + 1 \in 0..n /\ k + 1 # 0 /\ (k + 1) - 1 = k
      BY <2>2
    <3>2. sum[k + 1] = sum[k] + payload(bytes[k + 1]) * bit[Group * k]
      BY <2>8, <3>1
    <3>3. s[k + 1] = s[k] + payload(bytes[k + 1]) * bit[Group * k]
      BY <2>3, <2>4, <3>1
    <3> QED
      BY <2>11, <3>1, <3>2, <3>3
  <2> HIDE DEF S
  <2>12. n \in S
    <3>1. n \in 0..n
      BY <2>2
    <3> QED
      BY <2>2, <2>10, <2>11, <3>1, UpTo
  <2> QED
    BY <2>1, <2>12 DEF S
<1> QED
  BY <1>3, <1>4, <1>5 DEF Sums, N, w

(* The sum grows, and after k bytes it still fits k groups.                *)
LEMMA SumGrows ==
  ASSUME NEW bytes \in Seq(Byte), NEW s, Sums(s, bytes)
  PROVE  /\ \A j, k \in 0..Len(bytes) : j <= k => s[j] <= s[k]
         /\ \A k \in 0..Len(bytes) : s[k] \in Nat /\ s[k] < bit[Group * k]
<1> DEFINE N == Len(bytes)
           w(k) == payload(bytes[k + 1]) * bit[Group * k]
<1>1. N \in Nat /\ s \in [0..N -> Nat] /\ s[0] = 0
      /\ \A k \in 0..(N - 1) : w(k) \in Nat /\ s[k + 1] = s[k] + w(k)
  BY Weights DEF Sums
<1>2. ASSUME NEW k \in 0..(N - 1), s[k] < bit[Group * k]
      PROVE  s[k + 1] < bit[Group * (k + 1)]
  <2> DEFINE p == payload(bytes[k + 1])
             b == bit[Group * k]
             g == bit[Group]
  <2>1. p \in 0..(g - 1) /\ p \in Nat /\ Group * k \in Nat /\ b \in Nat \ {0} /\ Group \in Nat
        /\ g \in Nat \ {0}
    BY Weights, WidthsAssumption, Bits
  <2>2. bit[Group * (k + 1)] = b * g
    <3>1. Group * (k + 1) = Group * k + Group
      BY <2>1
    <3> QED
      BY <2>1, <3>1, BitSum
  <2>3. s[k + 1] = s[k] + p * b /\ s[k] \in Nat
    <3>1. k \in 0..N
      BY <1>1
    <3> QED
      BY <1>1, <3>1
  <2>4. s[k] <= b - 1
    BY <1>2, <2>1, <2>3
  <2> HIDE DEF p, b, g
  <2>5. p * b <= (g - 1) * b
    BY <2>1
  <2>6. (g - 1) * b = b * g - b
    BY <2>1
  <2>7. p * b \in Nat /\ b * g \in Nat
    BY <2>1
  <2>8. s[k + 1] <= b * g - 1
    BY <2>1, <2>3, <2>4, <2>5, <2>6, <2>7
  <2> QED
    BY <2>2, <2>3, <2>7, <2>8
<1> HIDE DEF w
<1>3. ASSUME NEW k \in 0..N
      PROVE  s[k] \in Nat /\ s[k] < bit[Group * k]
  <2> DEFINE S == {i \in 0..N : s[i] < bit[Group * i]}
  <2>1. 0 \in S
    <3>1. Group * 0 = 0 /\ bit[0] = 1 /\ 0 \in 0..N
      BY <1>1, WidthsAssumption, Bits
    <3> QED
      BY <1>1, <3>1
  <2>2. ASSUME NEW i \in 0..(N - 1), i \in S
        PROVE  i + 1 \in S
    <3>1. i + 1 \in 0..N
      BY <1>1
    <3> QED
      BY <1>2, <2>2, <3>1
  <2> HIDE DEF S
  <2>3. k \in S
    BY <1>1, <2>1, <2>2, UpTo
  <2> QED
    BY <1>1, <2>3 DEF S
<1>4. ASSUME NEW j \in 0..N, NEW k \in 0..N, j <= k
      PROVE  s[j] <= s[k]
  <2> DEFINE S == {d \in Nat : j + d <= N => s[j] <= s[j + d]}
  <2>1. 0 \in S
    BY <1>1
  <2>2. ASSUME NEW d \in 0..(N - 1), d \in S
        PROVE  d + 1 \in S
    <3> SUFFICES ASSUME j + (d + 1) <= N  PROVE s[j] <= s[j + (d + 1)]
      OBVIOUS
    <3>1. j + d \in 0..(N - 1) /\ j + (d + 1) = (j + d) + 1 /\ j + d <= N /\ j + d \in 0..N
      BY <1>1
    <3>2. s[(j + d) + 1] = s[j + d] + w(j + d) /\ w(j + d) \in Nat
      BY <1>1, <3>1
    <3>3. s[j] <= s[j + d] /\ s[j] \in Nat /\ s[j + d] \in Nat
      BY <1>1, <2>2, <3>1
    <3> QED
      BY <3>1, <3>2, <3>3
  <2> HIDE DEF S
  <2>3. k - j \in 0..N
    BY <1>1, <1>4
  <2>4. k - j \in S
    BY <1>1, <2>1, <2>2, <2>3, UpTo
  <2>5. j + (k - j) = k /\ k <= N
    OBVIOUS
  <2> QED
    BY <2>4, <2>5 DEF S
<1> QED
  BY <1>3, <1>4 DEF N

(* All bytes up to the k-th are followed by another.                       *)
Continues(bytes, k) == \A i \in 1..k : more(bytes[i])

LEMMA FirstEnd ==
  ASSUME NEW bytes \in Seq(Byte), Ends(bytes)
  PROVE  /\ EncodedIn(bytes) \in 1..Len(bytes) /\ ~more(bytes[EncodedIn(bytes)])
         /\ Continues(bytes, EncodedIn(bytes) - 1)
         /\ \A k \in 0..Len(bytes) : Continues(bytes, k) => k < EncodedIn(bytes)
<1> DEFINE N == Len(bytes)
           T == {n \in 1..N : ~more(bytes[n])}
           First(n) == ~more(bytes[n]) /\ \A i \in 1 .. n - 1 : more(bytes[i])
           e == EncodedIn(bytes)
<1>1. N \in Nat /\ T # {} /\ T \subseteq Nat
  BY DEF Ends
<1>2. PICK n \in T : \A m \in T : n <= m
  BY <1>1, LeastNatural
<1>3. \A i \in 1..(n - 1) : i \in 1..N /\ ~(n <= i)
  BY <1>1, <1>2
<1>4. n \in 1..N /\ First(n)
  BY <1>2, <1>3
<1>5. e \in 1..N /\ First(e)
  BY <1>4 DEF EncodedIn
<1> HIDE DEF e
<1>6. ASSUME NEW k \in 0..N, Continues(bytes, k)
      PROVE  k < e
  <2> SUFFICES ASSUME ~(k < e)  PROVE FALSE
    OBVIOUS
  <2>1. e \in 1..k
    BY <1>5
  <2> QED
    BY <1>5, <1>6, <2>1 DEF Continues
<1> QED
  BY <1>5, <1>6 DEF e, Continues

(* A byte that ends what continued so far ends the encoding.               *)
LEMMA EndsThere ==
  ASSUME NEW bytes \in Seq(Byte), NEW k \in 0..(Len(bytes) - 1), Continues(bytes, k),
         ~more(bytes[k + 1])
  PROVE  Ends(bytes) /\ EncodedIn(bytes) = k + 1
<1>1. k + 1 \in 1..Len(bytes) /\ k \in 0..Len(bytes)
  OBVIOUS
<1>2. Ends(bytes)
  BY <1>1 DEF Ends
<1> DEFINE e == EncodedIn(bytes)
<1>3. e \in 1..Len(bytes) /\ Continues(bytes, e - 1) /\ k < e
  BY <1>1, <1>2, FirstEnd
<1> HIDE DEF e
<1>4. ~(k + 1 \in 1..(e - 1))
  BY <1>3 DEF Continues
<1>5. e = k + 1
  BY <1>1, <1>3, <1>4
<1> QED
  BY <1>2, <1>5 DEF e

LEMMA ContinuesOn ==
  ASSUME NEW bytes, NEW k \in Nat, Continues(bytes, k), more(bytes[k + 1])
  PROVE  Continues(bytes, k + 1)
<1>1. \A i \in 1..(k + 1) : i \in 1..k \/ i = k + 1
  OBVIOUS
<1> QED
  BY <1>1 DEF Continues

(* The check of the last payload refuses what does not fit, no more.       *)
LEMMA OverlongIs ==
  ASSUME NEW bits \in Nat, NEW shift \in Nat, NEW p \in 0..(bit[Group] - 1), NEW sum \in Nat,
         sum < bit[shift], sum < bit[bits]
  PROVE  /\ overlong(bits, shift, p) => p * bit[shift] >= bit[bits]
         /\ ~overlong(bits, shift, p) =>
              sum + p * bit[shift] < bit[bits] /\ (shift >= bits => p = 0)
<1> DEFINE g == bit[Group]
           h == bit[shift]
           b == bit[bits]
           r == bit[bits - shift]
<1>1. Group \in Nat /\ g \in Nat \ {0} /\ h \in Nat \ {0} /\ b \in Nat \ {0}
  BY WidthsAssumption, Bits
<1>2. p \in Nat /\ p <= g - 1 /\ p * h \in Nat /\ sum <= h - 1
  BY <1>1
<1>3. CASE shift >= bits
  <2>1. b <= h
    BY <1>3, BitOrder
  <2>2. overlong(bits, shift, p) <=> p # 0
    BY <1>3 DEF overlong
  <2> HIDE DEF g, h, b
  <2>3. p # 0 => p * h >= h
    BY <1>1, <1>2
  <2>4. p = 0 => p * h = 0
    BY <1>1
  <2> QED
    BY <1>1, <1>2, <2>1, <2>2, <2>3, <2>4 DEF h, b
<1>4. CASE ~(shift >= bits)
  <2>1. shift <= bits /\ bits - shift \in Nat /\ b = h * r /\ r \in Nat \ {0}
    <3>1. shift <= bits
      BY <1>4
    <3> QED
      BY <3>1, BitOrder, Bits
  <2>2. overlong(bits, shift, p) <=> shift + Group > bits /\ p >= r
    BY <1>4 DEF overlong
  <2>3. shift + Group <= bits => g <= r
    <3> SUFFICES ASSUME shift + Group <= bits  PROVE g <= r
      OBVIOUS
    <3>1. Group <= bits - shift
      BY <1>1, <2>1
    <3> QED
      BY <1>1, <2>1, <3>1, BitOrder
  <2>4. ~overlong(bits, shift, p) => p <= r - 1
    <3> HIDE DEF g, r
    <3> QED
      BY <1>1, <1>2, <2>1, <2>2, <2>3
  <2> HIDE DEF g, h, b, r
  <2>5. p >= r => p * h >= h * r
    <3> SUFFICES ASSUME p >= r  PROVE p * h >= h * r
      OBVIOUS
    <3> QED
      BY <1>1, <1>2, <2>1
  <2>6. p <= r - 1 => sum + p * h < h * r
    <3> SUFFICES ASSUME p <= r - 1  PROVE sum + p * h < h * r
      OBVIOUS
    <3>1. p * h <= (r - 1) * h
      BY <1>1, <1>2, <2>1
    <3>2. (r - 1) * h = h * r - h /\ h * r \in Nat
      BY <1>1, <2>1
    <3> QED
      BY <1>1, <1>2, <3>1, <3>2
  <2> QED
    BY <1>4, <2>1, <2>2, <2>4, <2>5, <2>6 DEF h, b
<1> QED
  BY <1>3, <1>4

UnsignedMeant(bytes, bits) ==
  /\ Ends(bytes) /\ EncodedIn(bytes) <= Groups(bits) + 1
  /\ PayloadSum(bytes, EncodedIn(bytes)) < bit[bits]

(* What the loop knows after k turns: more is to come, or it has read what  *)
(* the encoding means, or there is no such thing.                          *)
UnsignedKnows(r, k, s, bytes, bits) ==
  \/ /\ r.error = "None" /\ r.value.more
     /\ k \in 0..Len(bytes) /\ k <= Groups(bits) /\ r.at = k /\ r.value.number = s[k]
     /\ Continues(bytes, k) /\ s[k] < bit[bits]
  \/ /\ r.error = "None" /\ ~r.value.more /\ UnsignedMeant(bytes, bits)
     /\ r.at = EncodedIn(bytes) /\ r.value.number = s[EncodedIn(bytes)]
  \/ r.error # "None" /\ ~UnsignedMeant(bytes, bits)

LEMMA UnsignedLearns ==
  ASSUME NEW bytes \in Seq(Byte), NEW s, Sums(s, bytes), NEW bits \in Nat,
         NEW k \in 0..Len(bytes), k <= Groups(bits), Continues(bytes, k), s[k] < bit[bits]
  PROVE  UnsignedKnows(unsigned_turn(bytes, bits, Group * k, s[k], k), k + 1, s, bytes, bits)
<1> DEFINE N == Len(bytes)
           octet == bytes[k + 1]
           p == payload(octet)
           shift == Group * k
           e == EncodedIn(bytes)
           result == IF shift >= bits THEN s[k] ELSE s[k] + p * bit[shift]
           r == unsigned_turn(bytes, bits, shift, s[k], k)
<1>1. N \in Nat /\ k \in Nat /\ k + 1 \in Nat /\ Groups(bits) \in Nat
  BY Shifts
<1>2. CASE k >= N
  <2>1. Continues(bytes, N)
    BY <1>1, <1>2 DEF Continues
  <2>2. ~Ends(bytes)
    <3> SUFFICES ASSUME Ends(bytes)  PROVE FALSE
      OBVIOUS
    <3>1. e \in 1..N /\ N < e
      BY <1>1, <2>1, FirstEnd
    <3> QED
      BY <1>1, <3>1
  <2>3. r.error # "None"
    BY <1>1, <1>2 DEF unsigned_turn, Then, Reader_byte, Err
  <2> QED
    BY <2>2, <2>3 DEF UnsignedKnows, UnsignedMeant
<1>3. CASE ~(k >= N)
  <2>1. k \in 0..(N - 1) /\ k < N /\ k + 1 \in 0..N
    BY <1>1, <1>3
  <2>2. /\ octet \in Byte /\ p \in 0..(bit[Group] - 1) /\ p \in Nat
        /\ shift \in Nat /\ bit[shift] \in Nat \ {0} /\ p * bit[shift] \in Nat
    BY <2>1, Weights
  <2>3. s[k] \in Nat /\ s[k] < bit[shift] /\ s[k + 1] \in Nat
    BY <2>1, SumGrows
  <2>4. s[k + 1] = s[k] + p * bit[shift]
    BY <2>1 DEF Sums
  <2>5. /\ overlong(bits, shift, p) => p * bit[shift] >= bit[bits]
        /\ ~overlong(bits, shift, p) => s[k + 1] < bit[bits] /\ (shift >= bits => p = 0)
    <3> HIDE DEF p, shift
    <3>1. /\ overlong(bits, shift, p) => p * bit[shift] >= bit[bits]
          /\ ~overlong(bits, shift, p) =>
               s[k] + p * bit[shift] < bit[bits] /\ (shift >= bits => p = 0)
      BY <2>2, <2>3, OverlongIs
    <3> QED
      BY <2>4, <3>1
  <2>6. bit[bits] \in Nat
    BY Bits
  <2>7. r = IF overlong(bits, shift, p) THEN Err("Overlong")
            ELSE IF more(octet) /\ shift + Group >= bits + Group THEN Err("Overlong")
            ELSE Ok([number |-> result, more |-> more(octet)], k + 1)
    <3>1. Reader_byte(bytes, k) = Ok(octet, k + 1)
      BY <2>1 DEF Reader_byte
    <3> QED
      BY <3>1 DEF unsigned_turn, Then, Ok
  <2>8. UnsignedMeant(bytes, bits) =>
          /\ e \in 1..N /\ k < e /\ e <= Groups(bits) + 1 /\ s[e] < bit[bits]
          /\ s[k + 1] <= s[e] /\ s[e] \in Nat
    <3> SUFFICES ASSUME UnsignedMeant(bytes, bits)
                 PROVE  /\ e \in 1..N /\ k < e /\ e <= Groups(bits) + 1 /\ s[e] < bit[bits]
                        /\ s[k + 1] <= s[e] /\ s[e] \in Nat
      OBVIOUS
    <3>1. e \in 1..N /\ k < e
      BY FirstEnd DEF UnsignedMeant
    <3>2. e \in 0..N /\ k + 1 <= e
      BY <1>1, <3>1
    <3>3. PayloadSum(bytes, e) = s[e]
      BY <3>2 DEF Sums
    <3>4. s[k + 1] <= s[e] /\ s[e] \in Nat
      BY <2>1, <3>2, SumGrows
    <3> QED
      BY <3>1, <3>3, <3>4 DEF UnsignedMeant
  <2> HIDE DEF e, r
  <2>9. CASE overlong(bits, shift, p)
    <3>1. s[k + 1] >= bit[bits]
      BY <2>2, <2>3, <2>4, <2>5, <2>6, <2>9
    <3>2. ~UnsignedMeant(bytes, bits)
      BY <2>3, <2>6, <2>8, <3>1
    <3>3. r.error # "None"
      BY <2>7, <2>9 DEF Err
    <3> QED
      BY <3>2, <3>3 DEF UnsignedKnows, r
  <2>10. CASE ~overlong(bits, shift, p) /\ more(octet) /\ shift + Group >= bits + Group
    <3>1. Continues(bytes, k + 1)
      BY <1>1, <2>10, ContinuesOn
    <3>2. ~(k < Groups(bits))
      <4>1. ~(shift < bits)
        BY <2>2, <2>10, WidthsAssumption
      <4> QED
        BY <1>1, <4>1, Shifts
    <3>3. UnsignedMeant(bytes, bits) => k + 1 < e
      BY <2>1, <3>1, FirstEnd DEF UnsignedMeant, e
    <3>4. ~UnsignedMeant(bytes, bits)
      BY <1>1, <2>8, <3>2, <3>3
    <3>5. r.error # "None"
      BY <2>7, <2>10 DEF Err
    <3> QED
      BY <3>4, <3>5 DEF UnsignedKnows, r
  <2>11. CASE ~overlong(bits, shift, p) /\ ~(more(octet) /\ shift + Group >= bits + Group)
    <3>1. result = s[k + 1]
      BY <2>2, <2>3, <2>4, <2>5, <2>11
    <3>2. r = Ok([number |-> s[k + 1], more |-> more(octet)], k + 1)
      BY <2>7, <2>11, <3>1
    <3>3. /\ r.error = "None" /\ r.at = k + 1 /\ r.value.number = s[k + 1]
          /\ r.value.more = more(octet)
      BY <3>2 DEF Ok
    <3>4. CASE more(octet)
      <4>1. Continues(bytes, k + 1)
        BY <1>1, <3>4, ContinuesOn
      <4>2. k < Groups(bits)
        <5>1. shift < bits
          BY <2>2, <2>11, <3>4, WidthsAssumption
        <5> QED
          BY <1>1, <5>1, Shifts
      <4>3. k + 1 <= Groups(bits)
        BY <1>1, <4>2
      <4> QED
        BY <2>1, <2>5, <2>11, <3>3, <3>4, <4>1, <4>3 DEF UnsignedKnows, r
    <3>5. CASE ~more(octet)
      <4>1. Ends(bytes) /\ EncodedIn(bytes) = k + 1
        BY <2>1, <3>5, EndsThere
      <4>2. PayloadSum(bytes, k + 1) = s[k + 1]
        BY <2>1 DEF Sums
      <4>3. k + 1 <= Groups(bits) + 1
        BY <1>1
      <4>4. UnsignedMeant(bytes, bits)
        BY <2>5, <2>11, <4>1, <4>2, <4>3 DEF UnsignedMeant
      <4> QED
        BY <3>3, <3>5, <4>1, <4>4 DEF UnsignedKnows, r
    <3> QED
      BY <3>4, <3>5
  <2> QED
    BY <2>9, <2>10, <2>11
<1> QED
  BY <1>2, <1>3

LEMMA UnsignedMeans ==
  ASSUME NEW bytes \in Seq(Byte), NEW bits \in Nat
  PROVE  UnsignedAgrees(bytes, bits)
<1>1. PICK s : Sums(s, bytes)
  BY PayloadsSum
<1>2. Len(bytes) \in Nat /\ 0 \in 0..Len(bytes)
  OBVIOUS
<1>3. PICK after : UnsignedAfter(after, bytes, 0, bits)
  BY <1>2, UnsignedLoops
<1> DEFINE T == Turns(bits)
           S == {k \in Nat : UnsignedKnows(after[k], k, s, bytes, bits)}
           r == after[T]
           e == EncodedIn(bytes)
<1>4. T \in Nat /\ T = Groups(bits) + 1 /\ Groups(bits) \in Nat
  <2>1. Groups(bits) \in Nat /\ Turns(bits) = Groups(bits) + 1
    BY Shifts
  <2> QED
    BY <2>1
<1>5. 0 \in S
  <2>1. after[0] = Begun(0)
    BY <1>3 DEF UnsignedAfter
  <2>2. /\ after[0].error = "None" /\ after[0].value.more /\ after[0].at = 0
        /\ after[0].value.number = 0
    BY <2>1 DEF Begun, Ok
  <2>3. s[0] = 0 /\ bit[bits] \in Nat \ {0} /\ Continues(bytes, 0) /\ 0 <= Groups(bits)
    BY <1>1, <1>4, Bits DEF Sums, Continues
  <2> QED
    BY <1>2, <2>2, <2>3 DEF UnsignedKnows
<1>6. ASSUME NEW k \in 0..(T - 1), k \in S
      PROVE  k + 1 \in S
  <2>1. k \in 0..Groups(bits) /\ k \in Nat /\ k + 1 \in Nat
    BY <1>4
  <2>2. after[k + 1] =
          IF after[k].error # "None" THEN after[k]
          ELSE IF after[k].value.more
          THEN unsigned_turn(bytes, bits, Group * k, after[k].value.number, after[k].at)
          ELSE after[k]
    BY <1>3, <2>1 DEF UnsignedAfter
  <2>3. UnsignedKnows(after[k], k, s, bytes, bits)
    BY <1>6
  <2>4. UnsignedKnows(after[k + 1], k + 1, s, bytes, bits)
    <3>1. CASE /\ after[k].error = "None" /\ after[k].value.more
               /\ k \in 0..Len(bytes) /\ k <= Groups(bits) /\ after[k].at = k
               /\ after[k].value.number = s[k]
               /\ Continues(bytes, k) /\ s[k] < bit[bits]
      <4>1. UnsignedKnows(unsigned_turn(bytes, bits, Group * k, s[k], k), k + 1, s, bytes, bits)
        BY <1>1, <3>1, UnsignedLearns
      <4> QED
        BY <2>2, <3>1, <4>1
    <3>2. CASE /\ after[k].error = "None" /\ ~after[k].value.more
               /\ UnsignedMeant(bytes, bits)
               /\ after[k].at = EncodedIn(bytes)
               /\ after[k].value.number = s[EncodedIn(bytes)]
      <4>1. after[k + 1] = after[k]
        BY <2>2, <3>2
      <4> QED
        BY <3>2, <4>1 DEF UnsignedKnows
    <3>3. CASE after[k].error # "None" /\ ~UnsignedMeant(bytes, bits)
      <4>1. after[k + 1] = after[k]
        BY <2>2, <3>3
      <4> QED
        BY <3>3, <4>1 DEF UnsignedKnows
    <3> QED
      BY <2>3, <3>1, <3>2, <3>3 DEF UnsignedKnows
  <2> QED
    BY <2>1, <2>4
<1>7. UnsignedKnows(r, T, s, bytes, bits)
  <2> HIDE DEF S, T
  <2>1. T \in 0..T
    BY <1>4
  <2>2. T \in S
    BY <1>4, <1>5, <1>6, <2>1, UpTo
  <2> QED
    BY <2>2 DEF S
<1>8. Reader_unsigned(bytes, 0, bits) =
        IF r.error # "None" THEN r ELSE Ok(r.value.number, r.at)
  BY <1>3 DEF UnsignedAfter
<1> HIDE DEF r
<1>9. ~(T <= Groups(bits))
  BY <1>4
<1> HIDE DEF T
<1>10. \/ /\ r.error = "None" /\ UnsignedMeant(bytes, bits) /\ r.at = e /\ r.value.number = s[e]
       \/ r.error # "None" /\ ~UnsignedMeant(bytes, bits)
  BY <1>7, <1>9 DEF UnsignedKnows
<1>11. UnsignedMeant(bytes, bits) => s[e] = PayloadSum(bytes, e)
  <2> SUFFICES ASSUME UnsignedMeant(bytes, bits)  PROVE s[e] = PayloadSum(bytes, e)
    OBVIOUS
  <2>1. e \in 1..Len(bytes)
    BY FirstEnd DEF UnsignedMeant
  <2>2. e \in 0..Len(bytes)
    BY <1>2, <2>1
  <2> QED
    BY <1>1, <2>2 DEF Sums
<1> QED
  BY <1>8, <1>10, <1>11 DEF UnsignedAgrees, UnsignedMeant

-----------------------------------------------------------------------------
(* The sign, carried to the top of an i64.                                 *)
LEMMA Wrapped ==
  ASSUME NEW x \in Int, NEW m \in Nat \ {0}, NEW c \in Int
  PROVE  (x - m * c) % m = x % m
<1> DEFINE q == x \div m
           r == x % m
           z == m * c
           y == m * (q - c)
<1>1. q \in Int /\ r \in 0..(m - 1) /\ x = m * q + r
  OBVIOUS
<1> HIDE DEF q, r
<1>2. m * (q - c) = m * q - m * c
  BY <1>1
<1>3. x - m * c = m * (q - c) + r /\ q - c \in Int
  BY <1>1, <1>2
<1> DEFINE d == q - c
<1>4. d \in Int /\ x - m * c = m * d + r
  BY <1>3
<1> HIDE DEF d
<1>5. (m * d + r) % m = r
  BY <1>1, <1>4
<1> QED
  BY <1>4, <1>5 DEF r

LEMMA AsLong ==
  ASSUME NEW n \in Int
  PROVE  /\ n >= -bit[Long - 1] /\ n < bit[Long - 1] => as_long(n) = n
         /\ \A c \in Int : as_long(n - bit[Long] * c) = as_long(n)
<1> DEFINE h == bit[Long - 1]
           m == bit[Long]
<1>1. Long - 1 \in Nat /\ (Long - 1) + 1 = Long
  BY WidthsAssumption
<1>2. h \in Nat \ {0} /\ m = 2 * h /\ m \in Nat \ {0}
  BY <1>1, Bits
<1>3. \A x \in Int : as_long(x) = ((x + h) % m) - h
  BY DEF as_long
<1> HIDE DEF h, m
<1>4. ASSUME n >= -h, n < h
      PROVE  as_long(n) = n
  <2>1. n + h \in Nat /\ n + h < m
    BY <1>2, <1>4
  <2>2. (n + h) % m = n + h
    BY <1>2, <2>1, SmallRemainder
  <2> QED
    BY <1>2, <1>3, <2>2
<1>5. ASSUME NEW c \in Int
      PROVE  as_long(n - m * c) = as_long(n)
  <2>1. n + h \in Int /\ n - m * c \in Int /\ (n - m * c) + h = (n + h) - m * c
    BY <1>2
  <2>2. ((n + h) - m * c) % m = (n + h) % m
    BY <1>2, <2>1, Wrapped
  <2> QED
    BY <1>3, <2>1, <2>2
<1> QED
  BY <1>4, <1>5 DEF h, m

LEMMA SignExtends ==
  ASSUME NEW bytes \in Seq(Byte), NEW s, Sums(s, bytes), NEW k \in 0..(Len(bytes) - 1)
  PROVE  /\ SignedSum(bytes, k + 1) \in Int
         /\ extended(s[k + 1], Group * k + Group, payload(bytes[k + 1]))
              = as_long(SignedSum(bytes, k + 1))
         /\ Group * (k + 1) <= Long =>
              as_long(SignedSum(bytes, k + 1)) = SignedSum(bytes, k + 1)
<1> DEFINE p == payload(bytes[k + 1])
           w == bit[Group * k]
           half == bit[Group - 1]
           at == Group * k + Group
           full == bit[at]
           low == bit[at - 1]
           total == s[k + 1]
           v == IF p >= half THEN total - full ELSE total
<1>1. /\ k \in Nat /\ Group \in Nat \ {0} /\ Group - 1 \in Nat /\ Group * k \in Nat
      /\ at \in Nat /\ at - 1 \in Nat /\ (at - 1) + 1 = at /\ at - 1 = Group * k + (Group - 1)
      /\ Group * (k + 1) = at /\ Long \in Nat
  BY WidthsAssumption, Weights
<1>2. p \in Nat /\ w \in Nat \ {0} /\ p * w \in Nat
  BY Weights
<1>3. /\ half \in Nat \ {0} /\ full \in Nat \ {0} /\ low \in Nat \ {0}
      /\ full = 2 * low /\ low = w * half
  <2>1. half \in Nat \ {0} /\ full \in Nat \ {0} /\ low \in Nat \ {0}
    BY <1>1, Bits
  <2>2. full = 2 * low
    BY <1>1, Bits
  <2>3. bit[Group * k + (Group - 1)] = w * half
    BY <1>1, BitSum
  <2> QED
    BY <1>1, <2>1, <2>2, <2>3
<1>4. s[k] \in Nat /\ s[k] < w /\ total \in Nat /\ total < full /\ total = s[k] + p * w
  <2>1. k \in 0..Len(bytes) /\ k + 1 \in 0..Len(bytes)
    OBVIOUS
  <2>2. s[k] \in Nat /\ s[k] < w /\ total \in Nat /\ total < bit[Group * (k + 1)]
    BY <2>1, SumGrows
  <2>3. total = s[k] + p * w
    BY DEF Sums
  <2> QED
    BY <1>1, <2>2, <2>3
<1>5. SignedSum(bytes, k + 1) = v
  <2>1. PayloadSum(bytes, k + 1) = total
    <3>1. k + 1 \in 0..Len(bytes)
      OBVIOUS
    <3> QED
      BY <3>1 DEF Sums
  <2>2. SignedSum(bytes, k + 1) = total - (IF p >= half THEN full ELSE 0)
    BY <1>1, <2>1 DEF SignedSum
  <2> HIDE DEF p, half, full, total
  <2> QED
    BY <1>4, <2>2
<1>6. extended(total, at, p) = as_long(IF at < Long /\ p >= half THEN total - full ELSE total)
  BY DEF extended
<1> HIDE DEF p, w, half, full, low, total
<1>7. v \in Int
  BY <1>3, <1>4
<1>8. as_long(v) = as_long(IF at < Long /\ p >= half THEN total - full ELSE total)
  <2>1. CASE at < Long \/ ~(p >= half)
    BY <2>1
  <2>2. CASE ~(at < Long) /\ p >= half
    <3>1. Long <= at
      BY <1>1, <2>2
    <3>2. at - Long \in Nat /\ full = bit[Long] * bit[at - Long]
      BY <1>1, <3>1, BitOrder DEF full
    <3>3. bit[at - Long] \in Int /\ total \in Int
      BY <1>4, <3>2, Bits
    <3>4. as_long(total - bit[Long] * bit[at - Long]) = as_long(total)
      BY <3>3, AsLong
    <3>5. v = total - full
      BY <2>2
    <3> QED
      BY <2>2, <3>2, <3>4, <3>5
  <2> QED
    BY <2>1, <2>2
<1>9. ASSUME at <= Long
      PROVE  as_long(v) = v
  <2>1. low <= bit[Long - 1] /\ bit[Long - 1] \in Nat
    <3>1. at - 1 <= Long - 1 /\ Long - 1 \in Nat
      BY <1>1, <1>9
    <3> QED
      BY <1>1, <3>1, BitOrder, Bits DEF low
  <2>2. CASE p >= half
    <3>1. p * w >= half * w
      BY <1>2, <1>3, <2>2
    <3>2. half * w = w * half
      BY <1>2, <1>3
    <3>3. v = total - full
      BY <2>2
    <3>4. v >= -low /\ v < 0
      <4>1. total >= low
        <5>1. p * w >= low
          BY <1>3, <3>1, <3>2
        <5> DEFINE q == p * w
        <5>2. q \in Nat /\ q >= low /\ total = s[k] + q
          BY <1>2, <1>4, <5>1
        <5> HIDE DEF q
        <5> QED
          BY <1>3, <1>4, <5>2
      <4>2. v = total - (low + low) /\ total < low + low
        <5>1. full = 2 * low /\ low \in Nat
          BY <1>3
        <5>2. total \in Nat /\ total < full
          BY <1>4
        <5> HIDE DEF v, at
        <5>3. full = low + low
          BY <5>1
        <5> QED
          BY <3>3, <5>1, <5>2, <5>3
      <4>3. low \in Nat /\ total \in Nat
        BY <1>3, <1>4
      <4> QED
        BY <4>1, <4>2, <4>3
    <3>5. v >= -bit[Long - 1] /\ v < bit[Long - 1]
      BY <1>3, <1>7, <2>1, <3>4
    <3> QED
      BY <1>7, <3>5, AsLong
  <2>3. CASE ~(p >= half)
    <3>1. p <= half - 1
      BY <1>2, <1>3, <2>3
    <3>2. p * w <= (half - 1) * w
      BY <1>2, <1>3, <3>1
    <3>3. (half - 1) * w = w * half - w
      BY <1>2, <1>3
    <3>4. v = total
      BY <2>3
    <3>5. v < low /\ v >= 0
      BY <1>2, <1>3, <1>4, <3>2, <3>3, <3>4
    <3>6. v >= -bit[Long - 1] /\ v < bit[Long - 1]
      BY <1>3, <1>7, <2>1, <3>5
    <3> QED
      BY <1>7, <3>6, AsLong
  <2> QED
    BY <2>2, <2>3
<1> QED
  BY <1>1, <1>5, <1>6, <1>7, <1>8, <1>9 DEF total, p

Inside(v, bits) == bits = Long \/ (v >= -bit[bits - 1] /\ v < bit[bits - 1])

SignedMeant(bytes, bits) ==
  /\ Ends(bytes) /\ EncodedIn(bytes) <= Groups(bits)
  /\ Inside(SignedSum(bytes, EncodedIn(bytes)), bits)

SignedKnows(r, k, s, bytes, bits) ==
  \/ /\ r.error = "None" /\ r.value.more
     /\ k \in 0..Len(bytes) /\ k <= Groups(bits) /\ r.at = k /\ r.value.number = s[k]
     /\ Continues(bytes, k)
  \/ /\ r.error = "None" /\ ~r.value.more /\ SignedMeant(bytes, bits)
     /\ r.at = EncodedIn(bytes)
     /\ r.value.number = as_long(SignedSum(bytes, EncodedIn(bytes)))
  \/ r.error # "None" /\ ~SignedMeant(bytes, bits)

(* A word's groups fit the i64 they are gathered in, or it is an i64.      *)
Gathered(bits) == bits = Long \/ (bits < Long /\ Group * Groups(bits) <= Long)

LEMMA SignedLearns ==
  ASSUME NEW bytes \in Seq(Byte), NEW s, Sums(s, bytes), NEW bits \in Nat \ {0}, Gathered(bits),
         NEW k \in 0..Len(bytes), k <= Groups(bits), Continues(bytes, k)
  PROVE  SignedKnows(signed_turn(bytes, bits, Group * k, s[k], k), k + 1, s, bytes, bits)
<1> DEFINE N == Len(bytes)
           octet == bytes[k + 1]
           p == payload(octet)
           shift == Group * k
           e == EncodedIn(bytes)
           value == extended(s[k + 1], shift + Group, p)
           limit == bit[bits - 1]
           v == SignedSum(bytes, k + 1)
           r == signed_turn(bytes, bits, shift, s[k], k)
<1>1. N \in Nat /\ k \in Nat /\ k + 1 \in Nat /\ Groups(bits) \in Nat
  BY Shifts
<1>2. CASE k >= N
  <2>1. Continues(bytes, N)
    BY <1>1, <1>2 DEF Continues
  <2>2. ~Ends(bytes)
    <3> SUFFICES ASSUME Ends(bytes)  PROVE FALSE
      OBVIOUS
    <3>1. e \in 1..N /\ N < e
      BY <1>1, <2>1, FirstEnd
    <3> QED
      BY <1>1, <3>1
  <2>3. r.error # "None"
    BY <1>1, <1>2 DEF signed_turn, Then, Reader_byte, Err
  <2> QED
    BY <2>2, <2>3 DEF SignedKnows, SignedMeant
<1>3. CASE ~(k >= N)
  <2>1. k \in 0..(N - 1) /\ k < N /\ k + 1 \in 0..N
    BY <1>1, <1>3
  <2>2. shift \in Nat
    BY <2>1, Weights
  <2>3. s[k + 1] = s[k] + p * bit[shift]
    BY <2>1 DEF Sums
  <2>4. r = IF shift >= bits THEN Err("Overlong")
            ELSE IF more(octet) THEN Ok([number |-> s[k + 1], more |-> TRUE], k + 1)
            ELSE IF bits < Long /\ (value >= limit \/ value < -limit) THEN Err("Overlong")
            ELSE Ok([number |-> value, more |-> FALSE], k + 1)
    <3>1. Reader_byte(bytes, k) = Ok(octet, k + 1)
      BY <2>1 DEF Reader_byte
    <3> HIDE DEF shift
    <3> QED
      BY <2>3, <3>1 DEF signed_turn, Then, Ok
  <2>5. v \in Int /\ value = as_long(v) /\ (Group * (k + 1) <= Long => as_long(v) = v)
    BY <2>1, SignExtends
  <2>6. shift < bits <=> k < Groups(bits)
    BY <1>1, Shifts
  <2> HIDE DEF e, r, value, v, limit
  <2>7. CASE shift >= bits
    <3>1. ~(k < Groups(bits))
      BY <2>2, <2>6, <2>7
    <3>2. SignedMeant(bytes, bits) => e \in 1..N /\ k < e /\ e <= Groups(bits)
      BY FirstEnd DEF SignedMeant, e
    <3>3. ~SignedMeant(bytes, bits)
      BY <1>1, <3>1, <3>2
    <3>4. r.error # "None"
      BY <2>4, <2>7 DEF Err
    <3> QED
      BY <3>3, <3>4 DEF SignedKnows, r
  <2>8. CASE ~(shift >= bits) /\ more(octet)
    <3>1. Continues(bytes, k + 1)
      BY <1>1, <2>8, ContinuesOn
    <3>2. k + 1 <= Groups(bits)
      BY <1>1, <2>2, <2>6, <2>8
    <3>3. r = Ok([number |-> s[k + 1], more |-> TRUE], k + 1)
      BY <2>4, <2>8
    <3>4. r.error = "None" /\ r.at = k + 1 /\ r.value.number = s[k + 1] /\ r.value.more
      BY <3>3 DEF Ok
    <3> QED
      BY <2>1, <3>1, <3>2, <3>4 DEF SignedKnows, r
  <2>9. CASE ~(shift >= bits) /\ ~more(octet)
    <3>1. Ends(bytes) /\ EncodedIn(bytes) = k + 1
      BY <2>1, <2>9, EndsThere
    <3>2. k + 1 <= Groups(bits)
      BY <1>1, <2>2, <2>6, <2>9
    <3>3. SignedMeant(bytes, bits) <=> Inside(v, bits)
      BY <3>1, <3>2 DEF SignedMeant, v
    <3>4. bits < Long => value = v
      <4> SUFFICES ASSUME bits < Long  PROVE Group * (k + 1) <= Long
        BY <2>5
      <4>1. bits # Long /\ Group * Groups(bits) <= Long
        BY WidthsAssumption DEF Gathered
      <4>2. Group * (k + 1) <= Group * Groups(bits)
        BY <1>1, <3>2, WidthsAssumption
      <4>3. Group * (k + 1) \in Nat /\ Group * Groups(bits) \in Nat
        BY <1>1, WidthsAssumption
      <4> QED
        BY <4>1, <4>2, <4>3, WidthsAssumption
    <3>5. bits < Long \/ bits = Long
      BY DEF Gathered
    <3>6. limit \in Nat
      <4>1. bits - 1 \in Nat
        OBVIOUS
      <4> QED
        BY <4>1, Bits DEF limit
    <3>7. Inside(v, bits) <=> ~(bits < Long /\ (value >= limit \/ value < -limit))
      <4>1. CASE bits = Long
        <5>1. ~(bits < Long)
          BY <4>1, WidthsAssumption
        <5> QED
          BY <4>1, <5>1 DEF Inside
      <4>2. CASE bits < Long
        <5>1. bits # Long /\ value = v
          BY <3>4, <4>2, WidthsAssumption
        <5>2. Inside(v, bits) <=> v >= -limit /\ v < limit
          BY <5>1 DEF Inside, limit
        <5> QED
          BY <2>5, <3>6, <4>2, <5>1, <5>2
      <4> QED
        BY <3>5, <4>1, <4>2
    <3>8. CASE Inside(v, bits)
      <4>1. r = Ok([number |-> value, more |-> FALSE], k + 1)
        BY <2>4, <2>9, <3>7, <3>8
      <4>2. r.error = "None" /\ r.at = k + 1 /\ r.value.number = as_long(v) /\ ~r.value.more
        BY <2>5, <4>1 DEF Ok
      <4> QED
        BY <3>1, <3>3, <3>8, <4>2 DEF SignedKnows, r, v
    <3>9. CASE ~Inside(v, bits)
      <4>1. r.error # "None"
        BY <2>4, <2>9, <3>7, <3>9 DEF Err
      <4> QED
        BY <3>3, <3>9, <4>1 DEF SignedKnows, r
    <3> QED
      BY <3>8, <3>9
  <2> QED
    BY <2>7, <2>8, <2>9
<1> QED
  BY <1>2, <1>3

LEMMA SignedIs ==
  ASSUME NEW bytes \in Seq(Byte), Ends(bytes)
  PROVE  SignedSum(bytes, EncodedIn(bytes)) \in Int
<1> DEFINE e == EncodedIn(bytes)
<1>1. PICK s : Sums(s, bytes)
  BY PayloadsSum
<1>2. e \in 1..Len(bytes)
  BY FirstEnd
<1> HIDE DEF e
<1>3. e - 1 \in 0..(Len(bytes) - 1) /\ (e - 1) + 1 = e
  BY <1>2
<1>4. SignedSum(bytes, (e - 1) + 1) \in Int
  BY <1>1, <1>3, SignExtends
<1> QED
  BY <1>3, <1>4 DEF e

LEMMA SignedMeans ==
  ASSUME NEW bytes \in Seq(Byte), NEW bits \in Nat \ {0}, Gathered(bits)
  PROVE  SignedAgrees(bytes, bits)
<1>1. PICK s : Sums(s, bytes)
  BY PayloadsSum
<1>2. Len(bytes) \in Nat /\ 0 \in 0..Len(bytes) /\ bits \in Nat
  OBVIOUS
<1>3. PICK after : SignedAfter(after, bytes, 0, bits)
  BY <1>2, SignedLoops
<1> DEFINE T == Turns(bits)
           S == {k \in Nat : SignedKnows(after[k], k, s, bytes, bits)}
           r == after[T]
           e == EncodedIn(bytes)
           v == SignedSum(bytes, e)
<1>4. T \in Nat /\ T = Groups(bits) + 1 /\ Groups(bits) \in Nat
  <2>1. Groups(bits) \in Nat /\ Turns(bits) = Groups(bits) + 1
    BY <1>2, Shifts
  <2> QED
    BY <2>1
<1>5. 0 \in S
  <2>1. after[0] = Begun(0)
    BY <1>3 DEF SignedAfter
  <2>2. /\ after[0].error = "None" /\ after[0].value.more /\ after[0].at = 0
        /\ after[0].value.number = 0
    BY <2>1 DEF Begun, Ok
  <2>3. s[0] = 0 /\ Continues(bytes, 0) /\ 0 <= Groups(bits)
    BY <1>1, <1>4 DEF Sums, Continues
  <2> QED
    BY <1>2, <2>2, <2>3 DEF SignedKnows
<1>6. ASSUME NEW k \in 0..(T - 1), k \in S
      PROVE  k + 1 \in S
  <2>1. k \in 0..Groups(bits) /\ k \in Nat /\ k + 1 \in Nat
    BY <1>4
  <2>2. after[k + 1] =
          IF after[k].error # "None" THEN after[k]
          ELSE IF after[k].value.more
          THEN signed_turn(bytes, bits, Group * k, after[k].value.number, after[k].at)
          ELSE after[k]
    BY <1>3, <2>1 DEF SignedAfter
  <2>3. SignedKnows(after[k], k, s, bytes, bits)
    BY <1>6
  <2>4. SignedKnows(after[k + 1], k + 1, s, bytes, bits)
    <3>1. CASE /\ after[k].error = "None" /\ after[k].value.more
               /\ k \in 0..Len(bytes) /\ k <= Groups(bits) /\ after[k].at = k
               /\ after[k].value.number = s[k]
               /\ Continues(bytes, k)
      <4>1. SignedKnows(signed_turn(bytes, bits, Group * k, s[k], k), k + 1, s, bytes, bits)
        BY <1>1, <3>1, SignedLearns
      <4> QED
        BY <2>2, <3>1, <4>1
    <3>2. CASE /\ after[k].error = "None" /\ ~after[k].value.more
               /\ SignedMeant(bytes, bits)
               /\ after[k].at = EncodedIn(bytes)
               /\ after[k].value.number = as_long(SignedSum(bytes, EncodedIn(bytes)))
      <4>1. after[k + 1] = after[k]
        BY <2>2, <3>2
      <4> QED
        BY <3>2, <4>1 DEF SignedKnows
    <3>3. CASE after[k].error # "None" /\ ~SignedMeant(bytes, bits)
      <4>1. after[k + 1] = after[k]
        BY <2>2, <3>3
      <4> QED
        BY <3>3, <4>1 DEF SignedKnows
    <3> QED
      BY <2>3, <3>1, <3>2, <3>3 DEF SignedKnows
  <2> QED
    BY <2>1, <2>4
<1>7. SignedKnows(r, T, s, bytes, bits)
  <2> HIDE DEF S, T
  <2>1. T \in 0..T
    BY <1>4
  <2>2. T \in S
    BY <1>4, <1>5, <1>6, <2>1, UpTo
  <2> QED
    BY <2>2 DEF S
<1>8. Reader_signed(bytes, 0, bits) =
        IF r.error # "None" THEN r ELSE Ok(r.value.number, r.at)
  BY <1>3 DEF SignedAfter
<1> HIDE DEF r
<1>9. ~(T <= Groups(bits))
  BY <1>4
<1> HIDE DEF T
<1>10. \/ /\ r.error = "None" /\ SignedMeant(bytes, bits) /\ r.at = e
          /\ r.value.number = as_long(v)
       \/ r.error # "None" /\ ~SignedMeant(bytes, bits)
  BY <1>7, <1>9 DEF SignedKnows
<1> DEFINE fits == v >= -bit[bits - 1] /\ v < bit[bits - 1]
           means == Ends(bytes) /\ e <= Groups(bits)
<1>11. means /\ fits => as_long(v) = v
  <2>1. SUFFICES ASSUME means, fits
                 PROVE  v >= -bit[Long - 1] /\ v < bit[Long - 1] /\ v \in Int
    BY AsLong
  <2>2. v \in Int
    BY <2>1, SignedIs
  <2>3. bits - 1 \in Nat /\ Long - 1 \in Nat /\ bits - 1 <= Long - 1
    BY <1>2, WidthsAssumption DEF Gathered
  <2>4. bit[bits - 1] <= bit[Long - 1] /\ bit[bits - 1] \in Nat /\ bit[Long - 1] \in Nat
    BY <2>3, BitOrder, Bits
  <2> HIDE DEF v
  <2> QED
    BY <2>1, <2>2, <2>4
<1>12. SignedMeant(bytes, bits) <=> means /\ (bits = Long \/ fits)
  BY DEF SignedMeant, Inside
<1>13. SignedAgrees(bytes, bits) <=>
         CASE means /\ fits                 -> Reader_signed(bytes, 0, bits) = Ok(v, e)
           [] means /\ ~fits /\ bits = Long -> Reader_signed(bytes, 0, bits) = Ok(as_long(v), e)
           [] OTHER                         -> Reader_signed(bytes, 0, bits).error # "None"
  BY DEF SignedAgrees
<1>14. means /\ (bits = Long \/ fits) => Reader_signed(bytes, 0, bits) = Ok(as_long(v), e)
  BY <1>8, <1>10, <1>12
<1>15. ~(means /\ (bits = Long \/ fits)) => Reader_signed(bytes, 0, bits).error # "None"
  BY <1>8, <1>10, <1>12
<1> HIDE DEF means, fits, e, v
<1>16. CASE means /\ fits
  BY <1>11, <1>13, <1>14, <1>16
<1>17. CASE means /\ ~fits /\ bits = Long
  BY <1>13, <1>14, <1>17
<1>18. CASE ~(means /\ (bits = Long \/ fits))
  BY <1>13, <1>15, <1>18
<1> QED
  BY <1>16, <1>17, <1>18

-----------------------------------------------------------------------------
(* What integers and names read as.                                        *)
LEMMA UnsignedRead ==
  ASSUME NEW bytes \in Seq(Byte), NEW at \in 0..Len(bytes), NEW bits \in Nat
  PROVE  Reader_unsigned(bytes, at, bits) \in Reads(Nat, Len(bytes))
<1>1. PICK after : UnsignedAfter(after, bytes, at, bits)
  BY UnsignedLoops
<1> DEFINE r == after[Turns(bits)]
<1>2. r \in Reads(Sofar(Nat), Len(bytes)) /\ Len(bytes) \in Nat
  <2>0. Groups(bits) \in Nat /\ Turns(bits) = Groups(bits) + 1
    BY Shifts
  <2>1. Turns(bits) \in Nat
    BY <2>0
  <2>2. Turns(bits) \in 0..Turns(bits)
    BY <2>1
  <2>3. r \in Reads(Sofar(Nat), Len(bytes))
    BY <1>1, <2>2 DEF UnsignedAfter
  <2> QED
    BY <2>3
<1>3. Reader_unsigned(bytes, at, bits) =
        IF r.error # "None" THEN r ELSE Ok(r.value.number, r.at)
  BY <1>1 DEF UnsignedAfter
<1> HIDE DEF r
<1>4. r.error = "None" => r.value \in Sofar(Nat) /\ r.at \in 0..Len(bytes)
  BY <1>2, ReadFacts
<1>5. r.error = "None" => r.value.number \in Nat
  BY <1>4 DEF Sofar
<1>6. r.error # "None" => r \in Reads(Nat, Len(bytes))
  BY <1>2, ReadFacts
<1>7. r.error = "None" => Ok(r.value.number, r.at) \in Reads(Nat, Len(bytes))
  BY <1>2, <1>4, <1>5, ReadFacts
<1> QED
  BY <1>3, <1>6, <1>7

LEMMA SignedRead ==
  ASSUME NEW bytes \in Seq(Byte), NEW at \in 0..Len(bytes), NEW bits \in Nat \ {0}
  PROVE  Reader_signed(bytes, at, bits) \in Reads(Int, Len(bytes))
<1>1. PICK after : SignedAfter(after, bytes, at, bits)
  BY SignedLoops
<1> DEFINE r == after[Turns(bits)]
<1>2. r \in Reads(Sofar(Int), Len(bytes)) /\ Len(bytes) \in Nat
  <2>0. Groups(bits) \in Nat /\ Turns(bits) = Groups(bits) + 1
    BY Shifts
  <2>1. Turns(bits) \in Nat
    BY <2>0
  <2>2. Turns(bits) \in 0..Turns(bits)
    BY <2>1
  <2>3. r \in Reads(Sofar(Int), Len(bytes))
    BY <1>1, <2>2 DEF SignedAfter
  <2> QED
    BY <2>3
<1>3. Reader_signed(bytes, at, bits) =
        IF r.error # "None" THEN r ELSE Ok(r.value.number, r.at)
  BY <1>1 DEF SignedAfter
<1> HIDE DEF r
<1>4. r.error = "None" => r.value \in Sofar(Int) /\ r.at \in 0..Len(bytes)
  BY <1>2, ReadFacts
<1>5. r.error = "None" => r.value.number \in Int
  BY <1>4 DEF Sofar
<1>6. r.error # "None" => r \in Reads(Int, Len(bytes))
  BY <1>2, ReadFacts
<1>7. r.error = "None" => Ok(r.value.number, r.at) \in Reads(Int, Len(bytes))
  BY <1>2, <1>4, <1>5, ReadFacts
<1> QED
  BY <1>3, <1>6, <1>7

(* Reading goes on, never back.                                            *)
LEMMA WordOnward ==
  ASSUME NEW bytes \in Seq(Byte), NEW at \in 0..Len(bytes),
         Reader_usize(bytes, at).error = "None"
  PROVE  at <= Reader_usize(bytes, at).at
<1>1. PICK after : UnsignedAfter(after, bytes, at, Word)
  BY UnsignedLoops, WidthsAssumption
<1> DEFINE T == Turns(Word)
           S == {k \in 0..T : after[k].error = "None" => at <= after[k].at}
<1>2. Groups(Word) \in Nat /\ T = Groups(Word) + 1
  BY Shifts, WidthsAssumption
<1>3. T \in Nat /\ T \in 0..T /\ 0 \in 0..T
  BY <1>2
<1>4. 0 \in S
  BY <1>1, <1>3 DEF UnsignedAfter, Begun, Ok
<1>5. ASSUME NEW k \in 0..(T - 1), k \in S
      PROVE  k + 1 \in S
  <2>1. k \in 0..Groups(Word) /\ k \in 0..T /\ k + 1 \in 0..T
    BY <1>2, <1>5
  <2>2. after[k] \in Reads(Sofar(Nat), Len(bytes))
    BY <1>1, <2>1 DEF UnsignedAfter
  <2>3. after[k].error = "None" => after[k].at \in 0..Len(bytes)
    BY <2>2, ReadFacts
  <2> DEFINE x == after[k].at
             turn == unsigned_turn(bytes, Word, Group * k, after[k].value.number, x)
  <2>4. after[k + 1] = IF after[k].error # "None" THEN after[k]
                       ELSE IF after[k].value.more THEN turn ELSE after[k]
    BY <1>1, <2>1 DEF UnsignedAfter
  <2>5. turn.error = "None" => turn.at = x + 1
    BY DEF unsigned_turn, Then, Reader_byte, Ok, Err
  <2> HIDE DEF turn
  <2>6. after[k + 1].error = "None" => at <= after[k + 1].at
    BY <1>5, <2>3, <2>4, <2>5
  <2> QED
    BY <2>1, <2>6
<1>6. T \in S
  <2> HIDE DEF S, T
  <2> QED
    BY <1>3, <1>4, <1>5, UpTo
<1>7. Reader_usize(bytes, at) =
        IF after[T].error # "None" THEN after[T] ELSE Ok(after[T].value.number, after[T].at)
  BY <1>1 DEF UnsignedAfter, Reader_usize
<1> HIDE DEF T
<1> QED
  BY <1>6, <1>7 DEF Ok

LEMMA WordRead ==
  ASSUME NEW bytes \in Seq(Byte), NEW at \in 0..Len(bytes)
  PROVE  /\ Reader_u32(bytes, at) \in Reads(Nat, Len(bytes))
         /\ Reader_usize(bytes, at) \in Reads(Nat, Len(bytes))
<1>1. Word \in Nat
  BY WidthsAssumption
<1> QED
  BY <1>1, UnsignedRead DEF Reader_u32, Reader_usize

LEMMA SliceRead ==
  ASSUME NEW bytes \in Seq(Byte), NEW at \in 0..Len(bytes), NEW length \in Nat
  PROVE  /\ Reader_slice(bytes, at, length) \in Reads(Seq(Byte), Len(bytes))
         /\ Reader_slice(bytes, at, length).error = "None" => at + length <= Len(bytes)
<1>1. Len(bytes) \in Nat /\ "Truncated" \in Errors
  BY DEF Errors
<1>2. ASSUME at + length <= Len(bytes)
      PROVE  SubSeq(bytes, at + 1, at + length) \in Seq(Byte) /\ at + length \in 0..Len(bytes)
  <2>1. \A i \in (at + 1)..(at + length) : i \in 1..Len(bytes) /\ bytes[i] \in Byte
    BY <1>1, <1>2
  <2>2. SubSeq(bytes, at + 1, at + length) \in Seq(Byte)
    BY <1>1, <2>1
  <2> QED
    BY <1>1, <1>2, <2>2
<1> DEFINE r == Reader_slice(bytes, at, length)
           N == Len(bytes)
<1>3. CASE at + length <= N
  <2> DEFINE slice == SubSeq(bytes, at + 1, at + length)
             to == at + length
             S == Seq(Byte)
  <2>1. r = Ok(slice, to) /\ slice \in S /\ to \in 0..N
    BY <1>2, <1>3 DEF Reader_slice
  <2>2. N \in Nat
    BY <1>1
  <2> HIDE DEF r, slice, to, S, N
  <2>3. r \in Reads(S, N)
    BY <2>1, <2>2, ReadFacts
  <2> QED
    BY <1>3, <2>3 DEF r, S, N
<1>4. CASE ~(at + length <= N)
  <2>1. r = Err("Truncated")
    BY <1>4 DEF Reader_slice
  <2> HIDE DEF r, N
  <2>2. r \in Reads(Seq(Byte), N) /\ r.error # "None"
    BY <1>1, <2>1, ReadFacts DEF N
  <2> QED
    BY <2>2 DEF r, N
<1> QED
  BY <1>3, <1>4

LEMMA NameRead ==
  ASSUME NEW bytes \in Seq(Byte), NEW at \in 0..Len(bytes)
  PROVE  Reader_name(bytes, at) \in Reads(Seq(Byte), Len(bytes))
<1> DEFINE N == Len(bytes)
           A == Reader_usize(bytes, at)
           B == Reader_slice(bytes, A.at, A.value)
<1>1. N \in Nat /\ A \in Reads(Nat, N) /\ "Malformed" \in Errors
  BY WordRead DEF Errors
<1>2. A.at \in 0..N /\ A.value \in Nat
  BY <1>1, ReadFacts
<1>3. B \in Reads(Seq(Byte), N)
  BY <1>2, SliceRead
<1>4. Reader_name(bytes, at) =
        IF A.error # "None" THEN A ELSE IF B.error # "None" THEN B
        ELSE IF is_utf8(B.value) THEN Ok(B.value, B.at) ELSE Err("Malformed")
  BY DEF Reader_name, Then
<1> HIDE DEF A, B, N
<1> QED
  BY <1>1, <1>3, <1>4, ReadFacts DEF N

-----------------------------------------------------------------------------
(* An item read count times over.                                          *)
Sized(V, count) == {s \in Seq(V) : Len(s) = count}

(* One turn of the loop, and the loop.                                     *)
Turned(item, x) ==
  IF x.error # "None" THEN x
  ELSE IF item[x.at].error # "None" THEN item[x.at]
  ELSE Ok(Append(x.value, item[x.at].value), item[x.at].at)

ManyAfter(upto, V, N, count, item, at) ==
  /\ upto \in [0..count -> Reads(Seq(V), N)]
  /\ upto[0] = Ok(<<>>, at)
  /\ \A n \in 0..(count - 1) : upto[n + 1] = Turned(item, upto[n])
  /\ many(count, item, at) = upto[count]

LEMMA TurnedRead ==
  ASSUME NEW V, NEW N \in Nat, NEW item \in [0..N -> Reads(V, N)], NEW x \in Reads(Seq(V), N)
  PROVE  /\ Turned(item, x) \in Reads(Seq(V), N)
         /\ Turned(item, x).error = "None" =>
              /\ x.error = "None" /\ x.value \in Seq(V) /\ x.at \in 0..N
              /\ item[x.at].error = "None" /\ item[x.at].value \in V
              /\ item[x.at].at \in 0..N
              /\ Turned(item, x) = Ok(Append(x.value, item[x.at].value), item[x.at].at)
<1> DEFINE W == Reads(Seq(V), N)
           a == Append(x.value, item[x.at].value)
<1>1. x.at \in 0..N /\ (x.error = "None" => x.value \in Seq(V))
  BY ReadFacts
<1>2. item[x.at] \in Reads(V, N)
  BY <1>1
<1>3. item[x.at].error # "None" => item[x.at] \in W
  BY <1>2, ReadFacts
<1>4. item[x.at].error = "None" => item[x.at].value \in V /\ item[x.at].at \in 0..N
  BY <1>2, ReadFacts
<1>5. x.error = "None" /\ item[x.at].error = "None" => a \in Seq(V)
  BY <1>1, <1>4
<1> HIDE DEF a
<1>6. x.error = "None" /\ item[x.at].error = "None" => Ok(a, item[x.at].at) \in W
  BY <1>4, <1>5, ReadFacts
<1> HIDE DEF W
<1>7. Turned(item, x) = IF x.error # "None" THEN x
                        ELSE IF item[x.at].error # "None" THEN item[x.at]
                        ELSE Ok(a, item[x.at].at)
  BY DEF Turned, a
<1> QED
  BY <1>1, <1>3, <1>4, <1>6, <1>7 DEF W, a

LEMMA ManyLoops ==
  ASSUME NEW V, NEW N \in Nat, NEW count \in Nat, NEW at \in 0..N,
         NEW item \in [0..N -> Reads(V, N)]
  PROVE  \E upto : ManyAfter(upto, V, N, count, item, at)
<1> DEFINE W == Reads(Seq(V), N)
           step(x) == IF x.error # "None" THEN x
                      ELSE IF item[x.at].error # "None" THEN item[x.at]
                      ELSE Ok(Append(x.value, item[x.at].value), item[x.at].at)
           G == [n \in 0..(count - 1) |-> [x \in W |-> step(x)]]
           Is(f) == f = [n \in 0..count |->
             IF n = 0 THEN Ok(<<>>, at)
             ELSE IF f[n - 1].error # "None" THEN f[n - 1]
             ELSE IF item[f[n - 1].at].error # "None" THEN item[f[n - 1].at]
             ELSE Ok(Append(f[n - 1].value, item[f[n - 1].at].value), item[f[n - 1].at].at)]
           upto == CHOOSE f : Is(f)
<1>1. Ok(<<>>, at) \in W /\ Ok(<<>>, at).error = "None" /\ Ok(<<>>, at).value = <<>>
  <2>1. <<>> \in Seq(V)
    OBVIOUS
  <2> QED
    BY <2>1, ReadFacts
<1>2. ASSUME NEW x \in W
      PROVE  step(x) \in W
  BY TurnedRead DEF Turned
<1> HIDE DEF W
<1>3. G \in [0..(count - 1) -> [W -> W]]
  BY <1>2
<1>4. \A n \in 0..(count - 1), x \in W : G[n][x] = step(x)
  OBVIOUS
<1> HIDE DEF G
<1>5. PICK f \in [0..count -> W] :
        f = [n \in 0..count |-> IF n = 0 THEN Ok(<<>>, at) ELSE G[n - 1][f[n - 1]]]
  <2>1. Chain(W, Ok(<<>>, at), count, G)
    BY <1>1, <1>3, ChainExists
  <2> QED
    BY <2>1 DEF Chain
<1>6. ASSUME NEW n \in 0..count, n # 0  PROVE f[n] = step(f[n - 1])
  <2>1. n - 1 \in 0..(count - 1) /\ n - 1 \in 0..count
    BY <1>6
  <2>2. f[n] = G[n - 1][f[n - 1]] /\ f[n - 1] \in W
    BY <1>5, <1>6, <2>1
  <2> QED
    BY <1>4, <2>1, <2>2
<1>7. Is(f)
  BY <1>5, <1>6
<1>8. Is(upto)
  BY <1>7
<1>9. many(count, item, at) = upto[count]
  BY DEF many, Then
<1> HIDE DEF upto
<1>10. upto = [n \in 0..count |-> upto[n]] /\ upto[0] = Ok(<<>>, at)
  BY <1>8
<1>11. \A n \in 0..count : n # 0 => upto[n] = step(upto[n - 1])
  BY <1>8
<1> HIDE DEF Is
<1>12. \A n \in 0..(count - 1) : upto[n + 1] = step(upto[n])
  <2> SUFFICES ASSUME NEW n \in 0..(count - 1)  PROVE upto[n + 1] = step(upto[n])
    OBVIOUS
  <2>1. n + 1 \in 0..count /\ n + 1 # 0 /\ (n + 1) - 1 = n
    OBVIOUS
  <2> QED
    BY <1>11, <2>1
<1> HIDE DEF step
<1>13. upto \in [0..count -> W]
  <2>1. \A n \in 0..(count - 1) : upto[n] \in W => upto[n + 1] \in W
    BY <1>2, <1>12
  <2> QED
    BY <1>1, <1>10, <2>1, StaysIn
<1>14. \A n \in 0..(count - 1) : upto[n + 1] = Turned(item, upto[n])
  BY <1>12 DEF Turned, step
<1> QED
  BY <1>9, <1>10, <1>13, <1>14 DEF ManyAfter, W

LEMMA ManyRead ==
  ASSUME NEW V, NEW N \in Nat, NEW count \in Nat, NEW at \in 0..N,
         NEW item \in [0..N -> Reads(V, N)]
  PROVE  many(count, item, at) \in Reads(Sized(V, count), N)
<1>1. PICK upto : ManyAfter(upto, V, N, count, item, at)
  BY ManyLoops
<1> DEFINE W == Reads(Seq(V), N)
           S == {n \in 0..count : upto[n].error = "None" => Len(upto[n].value) = n}
           r == upto[count]
<1>2. 0 \in S
  BY <1>1 DEF ManyAfter, Ok
<1>3. ASSUME NEW n \in 0..(count - 1), n \in S  PROVE n + 1 \in S
  <2>1. n + 1 \in 0..count /\ n \in 0..count
    OBVIOUS
  <2> DEFINE x == upto[n]
             y == upto[n + 1]
  <2>2. x \in W /\ y = Turned(item, x)
    BY <1>1, <2>1 DEF ManyAfter
  <2>3. x.error = "None" => Len(x.value) = n
    BY <1>3
  <2> HIDE DEF x, y
  <2>4. y.error = "None" =>
          /\ x.error = "None" /\ x.value \in Seq(V) /\ item[x.at].value \in V
          /\ y.value = Append(x.value, item[x.at].value)
    BY <2>2, TurnedRead DEF Ok
  <2>5. y.error = "None" => Len(y.value) = n + 1
    BY <2>3, <2>4
  <2> QED
    BY <2>1, <2>5 DEF y
<1>4. count \in S
  <2>1. count \in 0..count
    OBVIOUS
  <2> HIDE DEF S
  <2> QED
    BY <1>2, <1>3, <2>1, UpTo
<1>5. r \in W /\ (r.error = "None" => Len(r.value) = count) /\ many(count, item, at) = r
  BY <1>1, <1>4 DEF ManyAfter
<1> HIDE DEF r
<1>6. r.error = "None" => r.value \in Seq(V) /\ r.at \in 0..N /\ r = Ok(r.value, r.at)
  BY <1>5, ReadFacts DEF W
<1>7. r.error = "None" => r.value \in Sized(V, count)
  BY <1>5, <1>6 DEF Sized
<1>8. r.error # "None" => r \in Reads(Sized(V, count), N)
  BY <1>5, ReadFacts DEF W
<1>9. r.error = "None" => Ok(r.value, r.at) \in Reads(Sized(V, count), N)
  BY <1>6, <1>7, ReadFacts
<1> QED
  BY <1>5, <1>6, <1>8, <1>9

(* What is read weighs no more than the bytes it was read from, if each    *)
(* item adds no more than the bytes it was read from.                      *)
LEMMA ManyWeighs ==
  ASSUME NEW V, NEW N \in Nat, NEW count \in Nat, NEW at \in 0..N,
         NEW item \in [0..N -> Reads(V, N)],
         NEW weight \in [Seq(V) -> Nat], weight[<<>>] = 0,
         \A s \in Seq(V), p \in 0..N : item[p].error = "None" =>
           p + weight[Append(s, item[p].value)] <= item[p].at + weight[s],
         many(count, item, at).error = "None"
  PROVE  at + weight[many(count, item, at).value] <= many(count, item, at).at
<1>1. PICK upto : ManyAfter(upto, V, N, count, item, at)
  BY ManyLoops
<1> DEFINE W == Reads(Seq(V), N)
           S == {n \in 0..count :
                   upto[n].error = "None" => at + weight[upto[n].value] <= upto[n].at}
<1>2. 0 \in S
  <2>1. upto[0].value = <<>> /\ upto[0].at = at
    BY <1>1 DEF ManyAfter, Ok
  <2>2. at + weight[upto[0].value] <= upto[0].at
    BY <2>1
  <2>3. 0 \in 0..count
    OBVIOUS
  <2> QED
    BY <2>2, <2>3
<1>3. ASSUME NEW n \in 0..(count - 1), n \in S  PROVE n + 1 \in S
  <2>1. n + 1 \in 0..count /\ n \in 0..count
    OBVIOUS
  <2> DEFINE x == upto[n]
             y == upto[n + 1]
             v == item[x.at].value
  <2>2. x \in W /\ y = Turned(item, x)
    BY <1>1, <2>1 DEF ManyAfter
  <2>3. x.error = "None" => at + weight[x.value] <= x.at
    BY <1>3
  <2> HIDE DEF x, y
  <2>4. y.error = "None" =>
          /\ x.error = "None" /\ x.value \in Seq(V) /\ x.at \in 0..N
          /\ item[x.at].error = "None" /\ v \in V /\ item[x.at].at \in 0..N
          /\ y.value = Append(x.value, v) /\ y.at = item[x.at].at
    BY <2>2, TurnedRead DEF Ok
  <2>5. y.error = "None" =>
          /\ x.at + weight[Append(x.value, v)] <= item[x.at].at + weight[x.value]
          /\ weight[x.value] \in Nat
    BY <2>4
  <2>6. y.error = "None" => weight[Append(x.value, v)] \in Nat
    BY <2>4, AppendProperties
  <2> DEFINE before == weight[x.value]
             after == weight[Append(x.value, v)]
             to == item[x.at].at
             from == x.at
  <2>7. y.error = "None" =>
          /\ at + before <= from /\ from + after <= to + before
          /\ from \in Nat /\ to \in Nat /\ before \in Nat /\ after \in Nat
          /\ weight[y.value] = after /\ y.at = to
    <3>1. \A k \in 0..N : k \in Nat
      OBVIOUS
    <3> QED
      BY <2>3, <2>4, <2>5, <2>6, <3>1, Zenon
  <2> HIDE DEF before, after, to, from
  <2>8. y.error = "None" => at + after <= to
    BY <2>7
  <2>9. y.error = "None" => at + weight[y.value] <= y.at
    BY <2>7, <2>8
  <2> QED
    BY <2>1, <2>9 DEF y
<1>4. count \in S
  <2>1. count \in 0..count
    OBVIOUS
  <2> HIDE DEF S
  <2> QED
    BY <1>2, <1>3, <2>1, UpTo
<1> QED
  BY <1>1, <1>4 DEF ManyAfter

-----------------------------------------------------------------------------
(* What the items of the sections are.                                     *)
AtMost(V, ceiling) == {s \in Seq(V) : Len(s) <= ceiling}
AType == [params : Seq(Byte), results : AtMost(Byte, 1)]
AnImport == [module : Seq(Byte), name : Seq(Byte), type_index : Nat]
Limits == (0..MAX_MEMORY_PAGES) \X (0..MAX_MEMORY_PAGES)
AnExport == [name : Seq(Byte), kind : Byte, function_index : Nat]
ABody(N) == [locals : AtMost(Byte, MAX_LOCALS), start : 0..N, end : 0..N]
ASegment == [offset : Nat, length : Nat]

LEMMA ErrorNames ==
  /\ "Truncated" \in Errors /\ "Malformed" \in Errors /\ "Unsupported" \in Errors
  /\ "TooLarge" \in Errors /\ "NotWasm" \in Errors /\ "UnsupportedVersion" \in Errors
BY DEF Errors

LEMMA ValueTypeRead ==
  ASSUME NEW bytes \in Seq(Byte), NEW at \in 0..Len(bytes)
  PROVE  ValueType_decode(bytes, at) \in Reads(Byte, Len(bytes))
<1> DEFINE N == Len(bytes)
           A == Reader_byte(bytes, at)
<1>1. N \in Nat /\ at \in Nat /\ A \in Reads(Byte, N)
  BY ByteRead
<1>2. ValueType_decode(bytes, at) =
        IF A.error # "None" THEN A
        ELSE CASE A.value \in {127, 126} -> Ok(A.value, A.at)
               [] A.value \in {125, 124} -> Err("Unsupported")
               [] OTHER -> Err("Malformed")
  BY DEF ValueType_decode, Then
<1> HIDE DEF A, N
<1>3. A.error = "None" => Ok(A.value, A.at) \in Reads(Byte, N)
  BY <1>1, ReadFacts
<1>4. Err("Unsupported") \in Reads(Byte, N) /\ Err("Malformed") \in Reads(Byte, N)
  BY <1>1, ErrorNames, ReadFacts
<1> QED
  BY <1>1, <1>2, <1>3, <1>4 DEF N

(* A type in the file takes a byte for each of its value types.            *)
LEMMA ValueTypesRead ==
  ASSUME NEW bytes \in Seq(Byte), NEW at \in 0..Len(bytes), NEW count \in Nat
  PROVE  LET read == many(count, Reading(ValueType_decode, bytes), at) IN
         /\ read \in Reads(Sized(Byte, count), Len(bytes))
         /\ read.error = "None" => at + count <= read.at
<1> DEFINE N == Len(bytes)
           types == Reading(ValueType_decode, bytes)
           read == many(count, types, at)
           weight == [s \in Seq(Byte) |-> Len(s)]
<1>1. N \in Nat /\ types \in [0..N -> Reads(Byte, N)]
  BY ValueTypeRead DEF Reading
<1>2. read \in Reads(Sized(Byte, count), N)
  BY <1>1, ManyRead
<1>3. weight \in [Seq(Byte) -> Nat] /\ weight[<<>>] = 0
      /\ \A s \in Seq(Byte), v \in Byte : weight[Append(s, v)] = weight[s] + 1
  BY AppendProperties, EmptySeq
<1>4. ASSUME NEW p \in 0..N, types[p].error = "None"
      PROVE  types[p].value \in Byte /\ types[p].at = p + 1
  <2>1. types[p] = ValueType_decode(bytes, p)
    BY DEF Reading
  <2> HIDE DEF types
  <2> DEFINE A == Reader_byte(bytes, p)
  <2>2. A.error = "None" => A.at = p + 1
    BY DEF Reader_byte, Ok, Err
  <2>3. types[p] = IF A.error # "None" THEN A
                   ELSE CASE A.value \in {127, 126} -> Ok(A.value, A.at)
                          [] A.value \in {125, 124} -> Err("Unsupported")
                          [] OTHER -> Err("Malformed")
    BY <2>1 DEF ValueType_decode, Then
  <2> HIDE DEF A
  <2>4. types[p].at = p + 1
    BY <1>4, <2>2, <2>3 DEF Ok, Err
  <2>5. types[p].value \in Byte
    BY <1>1, <1>4, ReadFacts
  <2> QED
    BY <2>4, <2>5
<1> HIDE DEF types, weight
<1>5. \A s \in Seq(Byte), p \in 0..N : types[p].error = "None" =>
        p + weight[Append(s, types[p].value)] <= types[p].at + weight[s]
  <2> SUFFICES ASSUME NEW s \in Seq(Byte), NEW p \in 0..N, types[p].error = "None"
               PROVE  p + weight[Append(s, types[p].value)] <= types[p].at + weight[s]
    OBVIOUS
  <2> DEFINE before == weight[s]
             after == weight[Append(s, types[p].value)]
  <2>1. after = before + 1 /\ before \in Nat /\ types[p].at = p + 1
    BY <1>3, <1>4
  <2> HIDE DEF before, after
  <2>2. p + after <= (p + 1) + before
    BY <2>1
  <2> QED
    BY <2>1, <2>2 DEF before, after
<1>6. read.error = "None" => at + weight[read.value] <= read.at
  BY <1>1, <1>3, <1>5, ManyWeighs
<1> HIDE DEF read
<1>7. read.error = "None" => read.value \in Seq(Byte) /\ Len(read.value) = count
  <2> DEFINE T == Sized(Byte, count)
  <2>1. read.error = "None" => read.value \in T
    <3> HIDE DEF T
    <3> QED
      BY <1>1, <1>2, ReadFacts DEF T
  <2> QED
    BY <2>1 DEF Sized
<1>8. read.error = "None" => weight[read.value] = count
  BY <1>7 DEF weight
<1> QED
  BY <1>2, <1>6, <1>8 DEF read, types

LEMMA FuncTypeRead ==
  ASSUME NEW bytes \in Seq(Byte), NEW at \in 0..Len(bytes)
  PROVE  /\ FuncType(bytes, at) \in Reads(AType, Len(bytes))
         /\ FuncType(bytes, at).error = "None" =>
              at + Len(FuncType(bytes, at).value.params) <= FuncType(bytes, at).at
<1> DEFINE N == Len(bytes)
           types == Reading(ValueType_decode, bytes)
           A == Reader_byte(bytes, at)
           B == Reader_usize(bytes, A.at)
           C == many(B.value, types, B.at)
           D == Reader_usize(bytes, C.at)
           E == many(D.value, types, D.at)
           type == [params |-> C.value, results |-> E.value]
<1>1. N \in Nat /\ at \in Nat /\ A \in Reads(Byte, N)
  BY ByteRead
<1>2. A.error = "None" => A.at = at + 1
  BY DEF Reader_byte, Ok, Err
<1>3. FuncType(bytes, at) =
        IF A.error # "None" THEN A ELSE IF A.value # 96 THEN Err("Malformed")
        ELSE IF B.error # "None" THEN B ELSE IF C.error # "None" THEN C
        ELSE IF D.error # "None" THEN D ELSE IF D.value > 1 THEN Err("Unsupported")
        ELSE IF E.error # "None" THEN E ELSE Ok(type, E.at)
  BY DEF FuncType, Then
<1>4. A.at \in 0..N
  BY <1>1, ReadFacts
<1>5. B \in Reads(Nat, N) /\ (B.error = "None" => A.at <= B.at)
  BY <1>4, WordRead, WordOnward
<1>6. B.at \in 0..N /\ B.value \in Nat
  BY <1>1, <1>5, ReadFacts
<1>7. C \in Reads(Sized(Byte, B.value), N) /\ (C.error = "None" => B.at + B.value <= C.at)
  BY <1>6, ValueTypesRead
<1>8. C.at \in 0..N
      /\ (C.error = "None" => C.value \in Seq(Byte) /\ Len(C.value) = B.value)
  <2> DEFINE T == Sized(Byte, B.value)
  <2>1. \A s \in T : s \in Seq(Byte) /\ Len(s) = B.value
    BY DEF Sized
  <2>2. C \in Reads(T, N)
    BY <1>7
  <2> HIDE DEF T
  <2>3. C.at \in 0..N /\ (C.error = "None" => C.value \in T)
    BY <1>1, <2>2, ReadFacts
  <2> QED
    BY <2>1, <2>3
<1>9. D \in Reads(Nat, N) /\ (D.error = "None" => C.at <= D.at)
  BY <1>8, WordRead, WordOnward
<1>10. D.at \in 0..N /\ D.value \in Nat
  BY <1>1, <1>9, ReadFacts
<1>11. E \in Reads(Sized(Byte, D.value), N) /\ (E.error = "None" => D.at + D.value <= E.at)
  BY <1>10, ValueTypesRead
<1>12. E.at \in 0..N
       /\ (E.error = "None" => E.value \in Seq(Byte) /\ Len(E.value) = D.value)
  <2> DEFINE T == Sized(Byte, D.value)
  <2>1. \A s \in T : s \in Seq(Byte) /\ Len(s) = D.value
    BY DEF Sized
  <2>2. E \in Reads(T, N)
    BY <1>11
  <2> HIDE DEF T
  <2>3. E.at \in 0..N /\ (E.error = "None" => E.value \in T)
    BY <1>1, <2>2, ReadFacts
  <2> QED
    BY <2>1, <2>3
<1> HIDE DEF A, B, C, D, E
<1>13. C.error = "None" /\ ~(D.value > 1) /\ E.error = "None" => Ok(type, E.at) \in Reads(AType, N)
  <2>1. ~(D.value > 1) /\ E.error = "None" => E.value \in AtMost(Byte, 1)
    BY <1>10, <1>12 DEF AtMost
  <2>2. C.error = "None" /\ ~(D.value > 1) /\ E.error = "None" => type \in AType
    BY <1>8, <2>1 DEF AType
  <2> HIDE DEF type
  <2> QED
    BY <1>1, <1>12, <2>2, ReadFacts
<1>14. Err("Unsupported") \in Reads(AType, N) /\ Err("Malformed") \in Reads(AType, N)
  BY <1>1, ErrorNames, ReadFacts
<1>15. /\ A.error # "None" => A \in Reads(AType, N)
       /\ B.error # "None" => B \in Reads(AType, N)
       /\ C.error # "None" => C \in Reads(AType, N)
       /\ D.error # "None" => D \in Reads(AType, N)
       /\ E.error # "None" => E \in Reads(AType, N)
  BY <1>1, <1>5, <1>7, <1>9, <1>11, ReadFacts
<1>16. /\ A.error = "None" /\ B.error = "None" /\ C.error = "None"
       /\ D.error = "None" /\ E.error = "None"
       => at + Len(C.value) <= E.at
  <2>1. at \in Nat /\ A.at \in Nat /\ B.at \in Nat /\ C.at \in Nat /\ D.at \in Nat
        /\ E.at \in Nat
    BY <1>1, <1>4, <1>6, <1>8, <1>10, <1>12
  <2> SUFFICES ASSUME A.error = "None", B.error = "None", C.error = "None",
                      D.error = "None", E.error = "None"
               PROVE  at + B.value <= E.at
    BY <1>8
  <2>2. at <= A.at /\ A.at <= B.at /\ C.at <= D.at
    BY <1>2, <1>5, <1>9, <2>1
  <2>3. B.at + B.value <= C.at /\ D.at + D.value <= E.at /\ B.value \in Nat /\ D.value \in Nat
    BY <1>6, <1>7, <1>10, <1>11
  <2> DEFINE a == A.at
             b == B.at
             c == C.at
             d == D.at
             e == E.at
             takes == B.value
             gives == D.value
  <2>4. /\ a \in Nat /\ b \in Nat /\ c \in Nat /\ d \in Nat /\ e \in Nat
        /\ at \in Nat /\ takes \in Nat /\ gives \in Nat
        /\ at <= a /\ a <= b /\ b + takes <= c /\ c <= d /\ d + gives <= e
    BY <2>1, <2>2, <2>3, Zenon
  <2> HIDE DEF a, b, c, d, e, takes, gives
  <2>5. at + takes <= e
    BY <2>4
  <2> QED
    BY <2>5 DEF e, takes
<1>17. type.params = C.value /\ Ok(type, E.at).value = type /\ Ok(type, E.at).at = E.at
  BY DEF Ok
<1>18. Err("Malformed").error # "None" /\ Err("Unsupported").error # "None"
  BY DEF Err
<1> HIDE DEF type
<1> DEFINE F == FuncType(bytes, at)
<1> HIDE DEF F
<1>19. F \in Reads(AType, N)
  BY <1>3, <1>13, <1>14, <1>15 DEF F
<1>20. F.error = "None" => F = Ok(type, E.at) /\ at + Len(C.value) <= E.at
  BY <1>3, <1>16, <1>18 DEF F
<1> QED
  BY <1>17, <1>19, <1>20 DEF F

LEMMA ImportRead ==
  ASSUME NEW bytes \in Seq(Byte), NEW at \in 0..Len(bytes)
  PROVE  ImportRef(bytes, at) \in Reads(AnImport, Len(bytes))
<1> DEFINE N == Len(bytes)
           A == Reader_name(bytes, at)
           B == Reader_name(bytes, A.at)
           C == Reader_byte(bytes, B.at)
           D == Reader_u32(bytes, C.at)
           import == [module |-> A.value, name |-> B.value, type_index |-> D.value]
<1>1. N \in Nat /\ A \in Reads(Seq(Byte), N)
  BY NameRead
<1>2. ImportRef(bytes, at) =
        IF A.error # "None" THEN A ELSE IF B.error # "None" THEN B
        ELSE IF C.error # "None" THEN C
        ELSE CASE C.value = 0 -> (IF D.error # "None" THEN D ELSE Ok(import, D.at))
               [] C.value \in 1..3 -> Err("Unsupported")
               [] OTHER -> Err("Malformed")
  BY DEF ImportRef, Then
<1>3. A.at \in 0..N /\ (A.error = "None" => A.value \in Seq(Byte))
  BY <1>1, ReadFacts
<1>4. B \in Reads(Seq(Byte), N)
  BY <1>3, NameRead
<1>5. B.at \in 0..N /\ (B.error = "None" => B.value \in Seq(Byte))
  BY <1>1, <1>4, ReadFacts
<1>6. C \in Reads(Byte, N)
  BY <1>1, <1>5, ByteRead
<1>7. C.at \in 0..N
  BY <1>1, <1>6, ReadFacts
<1>8. D \in Reads(Nat, N)
  BY <1>7, WordRead
<1>9. D.at \in 0..N /\ D.value \in Nat
  BY <1>1, <1>8, ReadFacts
<1>10. A.error = "None" /\ B.error = "None" => Ok(import, D.at) \in Reads(AnImport, N)
  <2>1. A.error = "None" /\ B.error = "None" => import \in AnImport
    BY <1>3, <1>5, <1>9 DEF AnImport
  <2> HIDE DEF import
  <2> QED
    BY <1>1, <1>9, <2>1, ReadFacts
<1>11. Err("Unsupported") \in Reads(AnImport, N) /\ Err("Malformed") \in Reads(AnImport, N)
  BY <1>1, ErrorNames, ReadFacts
<1> HIDE DEF A, B, C, D, import
<1>12. /\ A.error # "None" => A \in Reads(AnImport, N)
       /\ B.error # "None" => B \in Reads(AnImport, N)
       /\ C.error # "None" => C \in Reads(AnImport, N)
       /\ D.error # "None" => D \in Reads(AnImport, N)
  BY <1>1, <1>4, <1>6, <1>8, ReadFacts
<1> QED
  BY <1>2, <1>10, <1>11, <1>12

LEMMA LimitsRead ==
  ASSUME NEW bytes \in Seq(Byte), NEW at \in 0..Len(bytes)
  PROVE  MemoryLimits(bytes, at) \in Reads(Limits, Len(bytes))
<1> DEFINE N == Len(bytes)
           A == Reader_byte(bytes, at)
           B == Reader_u32(bytes, A.at)
           C == IF A.value = 0 THEN Ok(MAX_MEMORY_PAGES, B.at) ELSE Reader_u32(bytes, B.at)
           limits == <<B.value, C.value>>
<1>1. N \in Nat /\ at \in Nat /\ A \in Reads(Byte, N)
  BY ByteRead
<1>2. MemoryLimits(bytes, at) =
        IF A.error # "None" THEN A ELSE IF A.value > 1 THEN Err("Malformed")
        ELSE IF B.error # "None" THEN B ELSE IF C.error # "None" THEN C
        ELSE IF B.value > MAX_MEMORY_PAGES \/ C.value > MAX_MEMORY_PAGES
        THEN Err("TooLarge") ELSE Ok(limits, C.at)
  BY DEF MemoryLimits, Then
<1>3. A.at \in 0..N
  BY <1>1, ReadFacts
<1>4. B \in Reads(Nat, N)
  BY <1>3, WordRead
<1>5. B.at \in 0..N /\ B.value \in Nat
  BY <1>1, <1>4, ReadFacts
<1>6. C \in Reads(Nat, N)
  <2>1. Reader_u32(bytes, B.at) \in Reads(Nat, N)
    BY <1>5, WordRead
  <2>2. Ok(MAX_MEMORY_PAGES, B.at) \in Reads(Nat, N)
    <3>1. MAX_MEMORY_PAGES \in Nat
      BY CeilingsAssumption
    <3> HIDE DEF B
    <3> QED
      BY <1>1, <1>5, <3>1, ReadFacts
  <2> QED
    BY <2>1, <2>2
<1>7. C.at \in 0..N /\ C.value \in Nat
  BY <1>1, <1>6, ReadFacts
<1>8. ~(B.value > MAX_MEMORY_PAGES \/ C.value > MAX_MEMORY_PAGES)
        => Ok(limits, C.at) \in Reads(Limits, N)
  <2>1. ~(B.value > MAX_MEMORY_PAGES \/ C.value > MAX_MEMORY_PAGES) => limits \in Limits
    BY <1>5, <1>7, CeilingsAssumption DEF Limits
  <2> HIDE DEF limits
  <2> QED
    BY <1>1, <1>7, <2>1, ReadFacts
<1>9. Err("TooLarge") \in Reads(Limits, N) /\ Err("Malformed") \in Reads(Limits, N)
  BY <1>1, ErrorNames, ReadFacts
<1> HIDE DEF A, B, C, limits
<1>10. /\ A.error # "None" => A \in Reads(Limits, N)
       /\ B.error # "None" => B \in Reads(Limits, N)
       /\ C.error # "None" => C \in Reads(Limits, N)
  BY <1>1, <1>4, <1>6, ReadFacts
<1> QED
  BY <1>2, <1>8, <1>9, <1>10

LEMMA ExportRead ==
  ASSUME NEW bytes \in Seq(Byte), NEW at \in 0..Len(bytes)
  PROVE  Export(bytes, at) \in Reads(AnExport, Len(bytes))
<1> DEFINE N == Len(bytes)
           A == Reader_name(bytes, at)
           B == Reader_byte(bytes, A.at)
           C == Reader_u32(bytes, B.at)
           entry == [name |-> A.value, kind |-> B.value, function_index |-> C.value]
<1>1. N \in Nat /\ A \in Reads(Seq(Byte), N)
  BY NameRead
<1>2. Export(bytes, at) =
        IF A.error # "None" THEN A ELSE IF B.error # "None" THEN B
        ELSE IF C.error # "None" THEN C ELSE Ok(entry, C.at)
  BY DEF Export, Then
<1>3. A.at \in 0..N /\ (A.error = "None" => A.value \in Seq(Byte))
  BY <1>1, ReadFacts
<1>4. B \in Reads(Byte, N)
  BY <1>1, <1>3, ByteRead
<1>5. B.at \in 0..N /\ (B.error = "None" => B.value \in Byte)
  BY <1>1, <1>4, ReadFacts
<1>6. C \in Reads(Nat, N)
  BY <1>5, WordRead
<1>7. C.at \in 0..N /\ C.value \in Nat
  BY <1>1, <1>6, ReadFacts
<1>8. A.error = "None" /\ B.error = "None" => Ok(entry, C.at) \in Reads(AnExport, N)
  <2>1. A.error = "None" /\ B.error = "None" => entry \in AnExport
    BY <1>3, <1>5, <1>7 DEF AnExport
  <2> HIDE DEF entry
  <2> QED
    BY <1>1, <1>7, <2>1, ReadFacts
<1> HIDE DEF A, B, C, entry
<1>9. /\ A.error # "None" => A \in Reads(AnExport, N)
      /\ B.error # "None" => B \in Reads(AnExport, N)
      /\ C.error # "None" => C \in Reads(AnExport, N)
  BY <1>1, <1>4, <1>6, ReadFacts
<1> QED
  BY <1>2, <1>8, <1>9

LEMMA SegmentRead ==
  ASSUME NEW bytes \in Seq(Byte), NEW at \in 0..Len(bytes)
  PROVE  DataSegment(bytes, at) \in Reads(ASegment, Len(bytes))
<1> DEFINE N == Len(bytes)
           A == Reader_u32(bytes, at)
           B == Reader_byte(bytes, A.at)
           C == Reader_signed(bytes, B.at, Word)
           D == Reader_byte(bytes, C.at)
           E == Reader_usize(bytes, D.at)
           F == Reader_slice(bytes, E.at, E.value)
           segment == [offset |-> C.value % bit[Word], length |-> E.value]
<1>1. N \in Nat /\ A \in Reads(Nat, N)
  BY WordRead
<1>2. DataSegment(bytes, at) =
        IF A.error # "None" THEN A ELSE IF A.value # 0 THEN Err("Unsupported")
        ELSE IF B.error # "None" THEN B ELSE IF B.value # 65 THEN Err("Unsupported")
        ELSE IF C.error # "None" THEN C ELSE IF D.error # "None" THEN D
        ELSE IF D.value # 11 THEN Err("Malformed")
        ELSE IF E.error # "None" THEN E ELSE IF F.error # "None" THEN F
        ELSE Ok(segment, F.at)
  BY DEF DataSegment, Then
<1>3. A.at \in 0..N
  BY <1>1, ReadFacts
<1>4. B \in Reads(Byte, N)
  BY <1>1, <1>3, ByteRead
<1>5. B.at \in 0..N
  BY <1>1, <1>4, ReadFacts
<1>6. C \in Reads(Int, N)
  BY <1>5, SignedRead, WidthsAssumption
<1>7. C.at \in 0..N /\ C.value \in Int
  BY <1>1, <1>6, ReadFacts
<1>8. D \in Reads(Byte, N)
  BY <1>1, <1>7, ByteRead
<1>9. D.at \in 0..N
  BY <1>1, <1>8, ReadFacts
<1>10. E \in Reads(Nat, N)
  BY <1>9, WordRead
<1>11. E.at \in 0..N /\ E.value \in Nat
  BY <1>1, <1>10, ReadFacts
<1>12. F \in Reads(Seq(Byte), N)
  BY <1>11, SliceRead
<1>13. F.at \in 0..N
  BY <1>1, <1>12, ReadFacts
<1>14. Ok(segment, F.at) \in Reads(ASegment, N)
  <2>1. Word \in Nat
    BY WidthsAssumption
  <2>2. bit[Word] \in Nat \ {0}
    BY <2>1, Bits
  <2>3. C.value % bit[Word] \in Nat
    BY <1>7, <2>2
  <2>4. segment \in ASegment
    BY <1>11, <2>3 DEF ASegment
  <2> HIDE DEF segment
  <2> QED
    BY <1>1, <1>13, <2>4, ReadFacts
<1>15. Err("Unsupported") \in Reads(ASegment, N) /\ Err("Malformed") \in Reads(ASegment, N)
  BY <1>1, ErrorNames, ReadFacts
<1> HIDE DEF A, B, C, D, E, F, segment
<1>16. /\ A.error # "None" => A \in Reads(ASegment, N)
       /\ B.error # "None" => B \in Reads(ASegment, N)
       /\ C.error # "None" => C \in Reads(ASegment, N)
       /\ D.error # "None" => D \in Reads(ASegment, N)
       /\ E.error # "None" => E \in Reads(ASegment, N)
       /\ F.error # "None" => F \in Reads(ASegment, N)
  BY <1>1, <1>4, <1>6, <1>8, <1>10, <1>12, ReadFacts
<1> QED
  BY <1>2, <1>14, <1>15, <1>16

(* A body's locals stay under their ceiling, however they are grouped.     *)
LEMMA MoreLocals ==
  ASSUME NEW bytes \in Seq(Byte), NEW at \in 0..Len(bytes),
         NEW known \in AtMost(Byte, MAX_LOCALS)
  PROVE  more_locals(known, bytes, at) \in Reads(AtMost(Byte, MAX_LOCALS), Len(bytes))
<1> DEFINE N == Len(bytes)
           T == AtMost(Byte, MAX_LOCALS)
           A == Reader_usize(bytes, at)
           B == ValueType_decode(bytes, A.at)
           group == [j \in 1..A.value |-> B.value]
           all == known \o group
<1>1. N \in Nat /\ A \in Reads(Nat, N)
  BY WordRead
<1>2. more_locals(known, bytes, at) =
        IF A.error # "None" THEN A ELSE IF B.error # "None" THEN B
        ELSE IF Len(known) + A.value > MAX_LOCALS THEN Err("TooLarge") ELSE Ok(all, B.at)
  BY DEF more_locals, too_many_locals, Then
<1>3. A.at \in 0..N /\ A.value \in Nat
  BY <1>1, ReadFacts
<1>4. B \in Reads(Byte, N)
  BY <1>3, ValueTypeRead
<1>5. B.at \in 0..N /\ (B.error = "None" => B.value \in Byte)
  BY <1>1, <1>4, ReadFacts
<1>6. B.error = "None" /\ ~(Len(known) + A.value > MAX_LOCALS) => Ok(all, B.at) \in Reads(T, N)
  <2> SUFFICES ASSUME B.error = "None", ~(Len(known) + A.value > MAX_LOCALS)
               PROVE  Ok(all, B.at) \in Reads(T, N)
    OBVIOUS
  <2>1. group \in Seq(Byte) /\ Len(group) = A.value
    <3> DEFINE k == A.value
               b == B.value
    <3>1. k \in Nat /\ b \in Byte
      BY <1>3, <1>5
    <3> HIDE DEF k, b
    <3>2. [j \in 1..k |-> b] \in Seq(Byte) /\ Len([j \in 1..k |-> b]) = k
      BY <3>1
    <3> QED
      BY <3>2 DEF k, b
  <2> HIDE DEF group
  <2>2. known \in Seq(Byte) /\ Len(known) \in Nat
    BY DEF AtMost
  <2>3. all \in Seq(Byte) /\ Len(all) = Len(known) + Len(group)
    BY <2>1, <2>2, ConcatProperties
  <2> HIDE DEF all
  <2>4. all \in T
    BY <1>3, <2>1, <2>2, <2>3, CeilingsAssumption DEF AtMost
  <2> QED
    BY <1>1, <1>5, <2>4, ReadFacts
<1>7. Err("TooLarge") \in Reads(T, N)
  BY <1>1, ErrorNames, ReadFacts
<1> HIDE DEF A, B, all, T
<1>8. /\ A.error # "None" => A \in Reads(T, N)
      /\ B.error # "None" => B \in Reads(T, N)
  BY <1>1, <1>4, ReadFacts
<1> QED
  BY <1>2, <1>6, <1>7, <1>8 DEF T

LEMMA LocalsRead ==
  ASSUME NEW bytes \in Seq(Byte), NEW at \in 0..Len(bytes)
  PROVE  Locals(bytes, at) \in Reads(AtMost(Byte, MAX_LOCALS), Len(bytes))
<1> DEFINE N == Len(bytes)
           T == AtMost(Byte, MAX_LOCALS)
           W == Reads(T, N)
           A == Reader_usize(bytes, at)
           from == A.at
           groups == A.value
           step(x) == IF x.error # "None" THEN x ELSE more_locals(x.value, bytes, x.at)
           G == [n \in 0..(groups - 1) |-> [x \in W |-> step(x)]]
           Is(f) == f = [n \in 0..groups |->
             IF n = 0 THEN Ok(<<>>, from)
             ELSE IF f[n - 1].error # "None" THEN f[n - 1]
             ELSE more_locals(f[n - 1].value, bytes, f[n - 1].at)]
           upto == CHOOSE f : Is(f)
<1>1. N \in Nat /\ A \in Reads(Nat, N)
  BY WordRead
<1>2. from \in 0..N /\ groups \in Nat
  BY <1>1, ReadFacts
<1>3. Locals(bytes, at) = IF A.error # "None" THEN A ELSE upto[groups]
  BY DEF Locals, Then
<1>4. A.error # "None" => A \in W
  BY <1>1, ReadFacts
<1> HIDE DEF A, from, groups
<1>5. Ok(<<>>, from) \in W
  <2>1. <<>> \in T
    BY CeilingsAssumption DEF AtMost
  <2> HIDE DEF T
  <2> QED
    BY <1>1, <1>2, <2>1, ReadFacts
<1>6. ASSUME NEW x \in W  PROVE step(x) \in W
  <2>1. x.at \in 0..N /\ (x.error = "None" => x.value \in T)
    BY <1>1, ReadFacts
  <2> HIDE DEF T
  <2>2. x.error = "None" => more_locals(x.value, bytes, x.at) \in W
    BY <2>1, MoreLocals DEF T
  <2> QED
    BY <2>2
<1> HIDE DEF W
<1>7. G \in [0..(groups - 1) -> [W -> W]]
  BY <1>6
<1>8. \A n \in 0..(groups - 1), x \in W : G[n][x] = step(x)
  OBVIOUS
<1> HIDE DEF G
<1>9. PICK f \in [0..groups -> W] :
        f = [n \in 0..groups |-> IF n = 0 THEN Ok(<<>>, from) ELSE G[n - 1][f[n - 1]]]
  <2>1. Chain(W, Ok(<<>>, from), groups, G)
    BY <1>2, <1>5, <1>7, ChainExists
  <2> QED
    BY <2>1 DEF Chain
<1>10. ASSUME NEW n \in 0..groups, n # 0  PROVE f[n] = step(f[n - 1])
  <2>1. n - 1 \in 0..(groups - 1) /\ n - 1 \in 0..groups
    BY <1>2, <1>10
  <2>2. f[n] = G[n - 1][f[n - 1]] /\ f[n - 1] \in W
    BY <1>9, <1>10, <2>1
  <2> QED
    BY <1>8, <2>1, <2>2
<1>11. Is(f)
  BY <1>9, <1>10
<1>12. Is(upto)
  BY <1>11
<1> HIDE DEF upto
<1>13. upto = [n \in 0..groups |-> upto[n]] /\ upto[0] = Ok(<<>>, from)
  BY <1>2, <1>12
<1>14. \A n \in 0..groups : n # 0 => upto[n] = step(upto[n - 1])
  BY <1>12
<1> HIDE DEF Is, step
<1>15. upto \in [0..groups -> W]
  <2>1. ASSUME NEW n \in 0..(groups - 1), upto[n] \in W  PROVE upto[n + 1] \in W
    <3>1. n + 1 \in 0..groups /\ n + 1 # 0 /\ (n + 1) - 1 = n
      BY <1>2
    <3>2. upto[n + 1] = step(upto[n])
      BY <1>14, <3>1
    <3> QED
      BY <1>6, <2>1, <3>2
  <2>2. upto[0] \in W
    BY <1>5, <1>13
  <2> QED
    BY <1>2, <1>13, <2>1, <2>2, StaysIn
<1>16. upto[groups] \in W
  BY <1>2, <1>15
<1> QED
  BY <1>3, <1>4, <1>16 DEF W

LEMMA BodyRead ==
  ASSUME NEW bytes \in Seq(Byte), NEW at \in 0..Len(bytes)
  PROVE  FunctionBody(bytes, at) \in Reads(ABody(Len(bytes)), Len(bytes))
<1> DEFINE N == Len(bytes)
           T == ABody(N)
           A == Reader_usize(bytes, at)
           B == Locals(bytes, A.at)
           end == A.at + A.value
           function == [locals |-> B.value, start |-> B.at, end |-> end]
<1>1. N \in Nat /\ A \in Reads(Nat, N)
  BY WordRead
<1>2. FunctionBody(bytes, at) =
        IF A.error # "None" THEN A ELSE IF end > N THEN Err("Truncated")
        ELSE IF B.error # "None" THEN B ELSE Ok(function, end)
  BY DEF FunctionBody, Then
<1>3. A.at \in 0..N /\ A.value \in Nat
  BY <1>1, ReadFacts
<1>4. B \in Reads(AtMost(Byte, MAX_LOCALS), N)
  BY <1>3, LocalsRead
<1>5. B.at \in 0..N /\ (B.error = "None" => B.value \in AtMost(Byte, MAX_LOCALS))
  BY <1>1, <1>4, ReadFacts
<1>6. ~(end > N) => end \in 0..N
  BY <1>1, <1>3
<1> HIDE DEF end
<1>7. ~(end > N) /\ B.error = "None" => Ok(function, end) \in Reads(T, N)
  <2>1. ~(end > N) /\ B.error = "None" => function \in T
    BY <1>5, <1>6 DEF ABody
  <2> HIDE DEF function, T
  <2> QED
    BY <1>1, <1>6, <2>1, ReadFacts
<1>8. Err("Truncated") \in Reads(T, N)
  BY <1>1, ErrorNames, ReadFacts
<1> HIDE DEF A, B, function, T
<1>9. /\ A.error # "None" => A \in Reads(T, N)
      /\ B.error # "None" => B \in Reads(T, N)
  BY <1>1, <1>4, ReadFacts
<1> QED
  BY <1>2, <1>7, <1>8, <1>9 DEF T

-----------------------------------------------------------------------------
(* The module: what the sections hold, each under its ceiling.             *)
AFunction(N) == [body : ABody(N), type_index : Nat]

(* The types of a module have no more parameters than the module has bytes. *)
TypesOf(N) == {s \in AtMost(AType, MAX_TYPES) : Parameters(s) <= N}

AModule(N) ==
  [types : TypesOf(N),
   imports : AtMost(AnImport, MAX_IMPORTS),
   declared : AtMost(Nat, MAX_FUNCTIONS),
   functions : AtMost(AFunction(N), MAX_FUNCTIONS),
   exports : AtMost(AnExport, MAX_EXPORTS),
   memory_pages : Limits,
   data : AtMost(ASegment, MAX_DATA_SEGMENTS)]

(* A section that has not come yet has left its part empty.                *)
Untouched(m, previous) ==
  /\ previous < 1 => m.types = <<>>
  /\ previous < 2 => m.imports = <<>>
  /\ previous < 3 => m.declared = <<>>
  /\ previous < 7 => m.exports = <<>>
  /\ previous < 10 => m.functions = <<>>
  /\ previous < 11 => m.data = <<>>

LEMMA AtMostFacts ==
  ASSUME NEW V, NEW ceiling \in Nat
  PROVE  /\ <<>> \in AtMost(V, ceiling)
         /\ \A s \in AtMost(V, ceiling) : s \in Seq(V) /\ Len(s) \in Nat /\ Len(s) <= ceiling
         /\ \A s \in AtMost(V, ceiling) : <<>> \o s = s
         /\ \A s \in Seq(V) : Len(s) <= ceiling => s \in AtMost(V, ceiling)
BY DEF AtMost

LEMMA EntriesRead ==
  ASSUME NEW bytes \in Seq(Byte), NEW at \in 0..Len(bytes), NEW V, NEW ceiling \in Nat,
         NEW item \in [0..Len(bytes) -> Reads(V, Len(bytes))]
  PROVE  entries(ceiling, item, bytes, at) \in Reads(AtMost(V, ceiling), Len(bytes))
<1> DEFINE N == Len(bytes)
           T == AtMost(V, ceiling)
           A == Reader_usize(bytes, at)
           B == many(A.value, item, A.at)
<1>1. N \in Nat /\ A \in Reads(Nat, N)
  BY WordRead
<1>2. entries(ceiling, item, bytes, at) =
        IF A.error # "None" THEN A ELSE IF A.value > ceiling THEN Err("TooLarge") ELSE B
  BY DEF entries, Then
<1>3. A.at \in 0..N /\ A.value \in Nat
  BY <1>1, ReadFacts
<1>4. B \in Reads(Sized(V, A.value), N)
  BY <1>1, <1>3, ManyRead
<1> HIDE DEF A, B
<1>5. ~(A.value > ceiling) => B \in Reads(T, N)
  <2> SUFFICES ASSUME ~(A.value > ceiling)  PROVE B \in Reads(T, N)
    OBVIOUS
  <2>1. CASE B.error # "None"
    BY <1>1, <1>4, <2>1, ReadFacts
  <2>2. CASE B.error = "None"
    <3>1. B.value \in Sized(V, A.value) /\ B.at \in 0..N /\ B = Ok(B.value, B.at)
      BY <1>1, <1>4, <2>2, ReadFacts
    <3>2. B.value \in T
      BY <1>3, <3>1 DEF Sized, AtMost
    <3> HIDE DEF T
    <3>3. Ok(B.value, B.at) \in Reads(T, N)
      BY <1>1, <3>1, <3>2, ReadFacts
    <3> QED
      BY <3>1, <3>3
  <2> QED
    BY <2>1, <2>2
<1>6. Err("TooLarge") \in Reads(T, N)
  BY <1>1, ErrorNames, ReadFacts
<1>7. A.error # "None" => A \in Reads(T, N)
  BY <1>1, ReadFacts
<1> QED
  BY <1>2, <1>5, <1>6, <1>7 DEF T

(* The running number of parameters, one type after the other.             *)
Totals(g, s) ==
  /\ g \in [0..Len(s) -> Nat] /\ g[0] = 0
  /\ \A k \in 0..(Len(s) - 1) : g[k + 1] = g[k] + Len(s[k + 1].params)
  /\ Parameters(s) = g[Len(s)]

LEMMA ParametersTotal ==
  ASSUME NEW s \in Seq(AType)
  PROVE  \E g : Totals(g, s)
<1> DEFINE N == Len(s)
           w(k) == Len(s[k + 1].params)
           G == [k \in 0..(N - 1) |-> [x \in Nat |-> x + w(k)]]
           Is(f) == f = [n \in 0..N |-> IF n = 0 THEN 0 ELSE f[n - 1] + Len(s[n].params)]
           sum == CHOOSE f : Is(f)
<1>1. N \in Nat /\ \A k \in 0..(N - 1) : w(k) \in Nat
  <2>1. ASSUME NEW k \in 0..(N - 1)  PROVE w(k) \in Nat
    <3>1. s[k + 1] \in AType
      OBVIOUS
    <3>2. s[k + 1].params \in Seq(Byte)
      BY <3>1 DEF AType
    <3> QED
      BY <3>2
  <2> QED
    BY <2>1
<1>2. \A k \in 0..(N - 1) : w(k) = Len(s[k + 1].params)
  OBVIOUS
<1> HIDE DEF w
<1>3. G \in [0..(N - 1) -> [Nat -> Nat]] /\ \A k \in 0..(N - 1), x \in Nat : G[k][x] = x + w(k)
  BY <1>1
<1>4. Parameters(s) = sum[N]
  BY DEF Parameters
<1> HIDE DEF N, G
<1>5. PICK g \in [0..N -> Nat] : g = [k \in 0..N |-> IF k = 0 THEN 0 ELSE G[k - 1][g[k - 1]]]
  <2>1. Chain(Nat, 0, N, G)
    BY <1>1, <1>3, ChainExists
  <2> QED
    BY <2>1 DEF Chain
<1>6. ASSUME NEW n \in 0..N
      PROVE  g[n] = IF n = 0 THEN 0 ELSE g[n - 1] + Len(s[n].params)
  <2>1. CASE n = 0
    BY <1>5, <2>1
  <2>2. CASE n # 0
    <3>1. n - 1 \in 0..(N - 1) /\ n - 1 \in 0..N /\ (n - 1) + 1 = n
      BY <1>1, <2>2
    <3>2. g[n] = G[n - 1][g[n - 1]] /\ g[n - 1] \in Nat
      BY <1>5, <2>2, <3>1
    <3>3. g[n] = g[n - 1] + w(n - 1)
      BY <1>3, <3>1, <3>2
    <3>4. w(n - 1) = Len(s[n].params)
      BY <1>2, <3>1
    <3> QED
      BY <2>2, <3>3, <3>4
  <2> QED
    BY <2>1, <2>2
<1>7. Is(g)
  BY <1>5, <1>6
<1>8. Is(sum)
  BY <1>7
<1> HIDE DEF sum
<1>9. sum = [n \in 0..N |-> sum[n]] /\ sum[0] = 0
  BY <1>1, <1>8
<1>10. \A k \in 0..(N - 1) : sum[k + 1] = sum[k] + w(k)
  <2> SUFFICES ASSUME NEW k \in 0..(N - 1)  PROVE sum[k + 1] = sum[k] + w(k)
    OBVIOUS
  <2>1. k + 1 \in 0..N /\ k + 1 # 0 /\ (k + 1) - 1 = k
    BY <1>1
  <2>2. sum[k + 1] = sum[k] + Len(s[k + 1].params)
    BY <1>8, <2>1
  <2> QED
    BY <1>2, <2>2
<1> HIDE DEF Is
<1>11. sum \in [0..N -> Nat]
  <2> DEFINE V == Nat
  <2>1. \A k \in 0..(N - 1) : sum[k] \in V => sum[k + 1] \in V
    BY <1>1, <1>10
  <2>2. sum[0] \in V /\ sum = [n \in 0..N |-> sum[n]]
    BY <1>9
  <2> HIDE DEF V
  <2>3. sum \in [0..N -> V]
    BY <1>1, <2>1, <2>2, StaysIn
  <2> QED
    BY <2>3 DEF V
<1> QED
  BY <1>2, <1>4, <1>9, <1>10, <1>11 DEF Totals, N

LEMMA ParametersGrow ==
  /\ Parameters(<<>>) = 0
  /\ \A s \in Seq(AType) : Parameters(s) \in Nat
  /\ \A s \in Seq(AType), t \in AType :
       Parameters(Append(s, t)) = Parameters(s) + Len(t.params)
<1>1. Parameters(<<>>) = 0
  <2>1. <<>> \in Seq(AType) /\ Len(<<>>) = 0
    OBVIOUS
  <2>2. PICK g : Totals(g, <<>>)
    BY <2>1, ParametersTotal
  <2> QED
    BY <2>1, <2>2 DEF Totals
<1>2. ASSUME NEW s \in Seq(AType)  PROVE Parameters(s) \in Nat
  <2>1. PICK g : Totals(g, s)
    BY ParametersTotal
  <2>2. Len(s) \in 0..Len(s)
    OBVIOUS
  <2> QED
    BY <2>1, <2>2 DEF Totals
<1>3. ASSUME NEW s \in Seq(AType), NEW t \in AType
      PROVE  Parameters(Append(s, t)) = Parameters(s) + Len(t.params)
  <2> DEFINE z == Append(s, t)
             n == Len(s)
  <2>1. z \in Seq(AType) /\ Len(z) = n + 1 /\ n \in Nat
        /\ z[n + 1] = t /\ \A i \in 1..n : z[i] = s[i]
    BY AppendProperties
  <2>2. PICK g : Totals(g, s)
    BY ParametersTotal
  <2>3. PICK h : Totals(h, z)
    BY <2>1, ParametersTotal
  <2> HIDE DEF z
  <2> DEFINE S == {k \in 0..n : g[k] = h[k]}
  <2>4. 0 \in S
    BY <2>1, <2>2, <2>3 DEF Totals
  <2>5. ASSUME NEW k \in 0..(n - 1), k \in S  PROVE k + 1 \in S
    <3>1. k + 1 \in 1..n /\ k + 1 \in 0..n /\ k \in 0..(Len(z) - 1)
      BY <2>1
    <3>2. g[k + 1] = g[k] + Len(s[k + 1].params)
      BY <2>2 DEF Totals
    <3>3. h[k + 1] = h[k] + Len(z[k + 1].params)
      BY <2>3, <3>1 DEF Totals
    <3> QED
      BY <2>1, <2>5, <3>1, <3>2, <3>3
  <2>6. n \in S
    <3>1. n \in 0..n
      BY <2>1
    <3> HIDE DEF S
    <3> QED
      BY <2>1, <2>4, <2>5, <3>1, UpTo
  <2>7. n \in 0..(Len(z) - 1)
    BY <2>1
  <2>8. h[n + 1] = h[n] + Len(z[n + 1].params)
    BY <2>3, <2>7 DEF Totals
  <2>9. Parameters(s) = g[n] /\ Parameters(z) = h[n + 1]
    BY <2>1, <2>2, <2>3 DEF Totals
  <2>10. h[n] = g[n]
    BY <2>6
  <2> QED
    BY <2>1, <2>8, <2>9, <2>10 DEF z
<1> QED
  BY <1>1, <1>2, <1>3

LEMMA TypesRead ==
  ASSUME NEW bytes \in Seq(Byte), NEW at \in 0..Len(bytes)
  PROVE  entries(MAX_TYPES, Reading(FuncType, bytes), bytes, at) \in Reads(TypesOf(Len(bytes)), Len(bytes))
<1> DEFINE N == Len(bytes)
           items == Reading(FuncType, bytes)
           T == TypesOf(N)
           A == Reader_usize(bytes, at)
           B == many(A.value, items, A.at)
           R == entries(MAX_TYPES, items, bytes, at)
           weight == [s \in Seq(AType) |-> Parameters(s)]
<1>1. N \in Nat /\ A \in Reads(Nat, N) /\ MAX_TYPES \in Nat
  BY WordRead, CeilingsAssumption
<1>2. A.at \in 0..N /\ A.value \in Nat
  BY <1>1, ReadFacts
<1>3. items \in [0..N -> Reads(AType, N)]
  BY FuncTypeRead DEF Reading
<1>4. \A p \in 0..N : items[p].error = "None" => p + Len(items[p].value.params) <= items[p].at
  BY FuncTypeRead DEF Reading
<1> HIDE DEF items
<1>5. R \in Reads(AtMost(AType, MAX_TYPES), N)
  BY <1>1, <1>3, EntriesRead
<1>6. R = IF A.error # "None" THEN A ELSE IF A.value > MAX_TYPES THEN Err("TooLarge") ELSE B
  BY DEF entries, Then
<1> HIDE DEF A
<1>7. weight \in [Seq(AType) -> Nat] /\ weight[<<>>] = 0
  <2>1. <<>> \in Seq(AType)
    OBVIOUS
  <2> QED
    BY <2>1, ParametersGrow
<1>8. ASSUME NEW s \in Seq(AType), NEW p \in 0..N, items[p].error = "None"
      PROVE  p + weight[Append(s, items[p].value)] <= items[p].at + weight[s]
  <2> DEFINE t == items[p].value
             to == items[p].at
             before == weight[s]
             after == weight[Append(s, t)]
             takes == Len(t.params)
  <2>1. t \in AType /\ to \in 0..N
    BY <1>1, <1>3, <1>8, ReadFacts
  <2>2. takes \in Nat
    <3>1. t.params \in Seq(Byte)
      BY <2>1 DEF AType
    <3> QED
      BY <3>1
  <2>3. Append(s, t) \in Seq(AType)
    BY <2>1, AppendProperties
  <2>4. after = before + takes /\ before \in Nat
    BY <2>1, <2>3, ParametersGrow
  <2>5. p + takes <= to
    BY <1>4, <1>8
  <2> HIDE DEF t, to, before, after, takes
  <2>6. p + after <= to + before
    BY <1>1, <2>1, <2>2, <2>4, <2>5
  <2> QED
    BY <2>6 DEF t, to, before, after
<1>9. B.error = "None" => A.at + weight[B.value] <= B.at
  <2> HIDE DEF weight
  <2> QED
    BY <1>1, <1>2, <1>3, <1>7, <1>8, ManyWeighs
<1> HIDE DEF B, R
<1>10. Err("TooLarge").error # "None"
  BY DEF Err
<1>11. R.error = "None" => R = B /\ R.value \in AtMost(AType, MAX_TYPES) /\ R.at \in 0..N
                           /\ R = Ok(R.value, R.at)
  BY <1>1, <1>5, <1>6, <1>10, ReadFacts
<1>12. R.error = "None" => R.value \in T
  <2> SUFFICES ASSUME R.error = "None"  PROVE R.value \in T
    OBVIOUS
  <2>1. R.value \in Seq(AType)
    BY <1>11 DEF AtMost
  <2>2. weight[R.value] = Parameters(R.value) /\ Parameters(R.value) \in Nat
    BY <2>1, ParametersGrow
  <2> HIDE DEF weight
  <2>3. A.at + weight[R.value] <= R.at
    BY <1>9, <1>11
  <2> DEFINE total == Parameters(R.value)
  <2>4. A.at + total <= R.at /\ total \in Nat
    BY <2>2, <2>3
  <2> HIDE DEF total
  <2>5. total <= N
    BY <1>1, <1>2, <1>11, <2>4
  <2> QED
    BY <1>11, <2>5 DEF TypesOf, total
<1>13. R.error # "None" => R \in Reads(T, N)
  BY <1>1, <1>5, ReadFacts
<1>14. R.error = "None" => Ok(R.value, R.at) \in Reads(T, N)
  <2> HIDE DEF T
  <2> QED
    BY <1>1, <1>11, <1>12, ReadFacts
<1> QED
  BY <1>11, <1>13, <1>14 DEF R, T, items

LEMMA FunctionsAmong ==
  ASSUME NEW V, NEW exports \in Seq(V), NEW ceiling \in Nat, Len(exports) <= ceiling
  PROVE  of_functions(exports) \in AtMost(V, ceiling)
<1> DEFINE count == Len(exports)
           W == Seq(V)
           step(n, x) == IF exports[n + 1].kind = 0 THEN Append(x, exports[n + 1]) ELSE x
           G == [n \in 0..(count - 1) |-> [x \in W |-> step(n, x)]]
           Is(f) == f = [n \in 0..count |->
             IF n = 0 THEN <<>>
             ELSE IF exports[n].kind = 0 THEN Append(f[n - 1], exports[n]) ELSE f[n - 1]]
           upto == CHOOSE f : Is(f)
<1>1. count \in Nat /\ <<>> \in W
  OBVIOUS
<1>2. \A n \in 0..(count - 1) : exports[n + 1] \in V
  OBVIOUS
<1>3. of_functions(exports) = upto[count]
  BY DEF of_functions
<1> HIDE DEF count
<1>4. ASSUME NEW n \in 0..(count - 1), NEW x \in W
      PROVE  step(n, x) \in W /\ Len(x) \in Nat /\ Len(step(n, x)) <= Len(x) + 1
  <2>1. exports[n + 1] \in V
    BY <1>2
  <2> DEFINE e == exports[n + 1]
  <2> HIDE DEF e
  <2>2. Append(x, e) \in W /\ Len(x) \in Nat /\ Len(Append(x, e)) = Len(x) + 1
    BY <2>1 DEF e
  <2> HIDE DEF W
  <2> QED
    BY <2>2 DEF e
<1> HIDE DEF W
<1>5. G \in [0..(count - 1) -> [W -> W]]
  BY <1>4
<1>6. \A n \in 0..(count - 1), x \in W : G[n][x] = step(n, x)
  OBVIOUS
<1> HIDE DEF G
<1>7. PICK f \in [0..count -> W] :
        f = [n \in 0..count |-> IF n = 0 THEN <<>> ELSE G[n - 1][f[n - 1]]]
  <2>1. Chain(W, <<>>, count, G)
    BY <1>1, <1>5, ChainExists
  <2> QED
    BY <2>1 DEF Chain
<1>8. ASSUME NEW n \in 0..count, n # 0
      PROVE  f[n] = IF exports[n].kind = 0 THEN Append(f[n - 1], exports[n]) ELSE f[n - 1]
  <2>1. n - 1 \in 0..(count - 1) /\ n - 1 \in 0..count /\ (n - 1) + 1 = n
    BY <1>1, <1>8
  <2>2. f[n] = G[n - 1][f[n - 1]] /\ f[n - 1] \in W
    BY <1>7, <1>8, <2>1
  <2>3. f[n] = step(n - 1, f[n - 1])
    BY <1>6, <2>1, <2>2
  <2> QED
    BY <2>1, <2>3
<1>9. Is(f)
  BY <1>7, <1>8
<1>10. Is(upto)
  BY <1>9
<1> HIDE DEF upto
<1>11. upto = [n \in 0..count |-> upto[n]] /\ upto[0] = <<>>
  BY <1>1, <1>10
<1>12. \A n \in 0..count : n # 0 =>
         upto[n] = IF exports[n].kind = 0 THEN Append(upto[n - 1], exports[n]) ELSE upto[n - 1]
  BY <1>10
<1> HIDE DEF Is
<1>13. \A n \in 0..(count - 1) : upto[n + 1] = step(n, upto[n])
  <2> SUFFICES ASSUME NEW n \in 0..(count - 1)  PROVE upto[n + 1] = step(n, upto[n])
    OBVIOUS
  <2>1. n + 1 \in 0..count /\ n + 1 # 0 /\ (n + 1) - 1 = n
    BY <1>1
  <2> QED
    BY <1>12, <2>1
<1> HIDE DEF step
<1>14. upto \in [0..count -> W]
  <2>1. \A n \in 0..(count - 1) : upto[n] \in W => upto[n + 1] \in W
    BY <1>4, <1>13
  <2> QED
    BY <1>1, <1>11, <2>1, StaysIn
<1> DEFINE S == {n \in 0..count : Len(upto[n]) <= n}
<1>15. 0 \in S
  BY <1>1, <1>11
<1>16. ASSUME NEW n \in 0..(count - 1), n \in S  PROVE n + 1 \in S
  <2>1. n + 1 \in 0..count /\ n \in 0..count /\ n \in Nat
    BY <1>1
  <2>2. upto[n] \in W /\ upto[n + 1] \in W
    BY <1>14, <2>1
  <2>3. Len(upto[n]) \in Nat /\ Len(upto[n + 1]) \in Nat
    BY <2>2 DEF W
  <2>4. Len(upto[n + 1]) <= Len(upto[n]) + 1 /\ Len(upto[n]) <= n
    BY <1>4, <1>13, <1>16, <2>2
  <2> QED
    BY <2>1, <2>3, <2>4
<1>17. \A n \in 0..count : n \in S
  <2> HIDE DEF S
  <2> QED
    BY <1>1, <1>15, <1>16, UpTo
<1>18. count \in 0..count
  BY <1>1
<1>19. upto[count] \in W /\ Len(upto[count]) <= count
  BY <1>14, <1>17, <1>18
<1> DEFINE r == upto[count]
<1> HIDE DEF r
<1>20. r \in Seq(V) /\ Len(r) \in Nat /\ Len(r) <= ceiling
  <2>1. r \in Seq(V) /\ Len(r) <= count
    BY <1>19 DEF r, W
  <2> QED
    BY <1>1, <2>1 DEF count
<1> QED
  BY <1>3, <1>20, AtMostFacts DEF r

LEMMA NoTypes ==
  ASSUME NEW N \in Nat
  PROVE  <<>> \in TypesOf(N)
<1>1. <<>> \in AtMost(AType, MAX_TYPES)
  BY CeilingsAssumption, AtMostFacts
<1> QED
  BY <1>1, ParametersGrow DEF TypesOf

(* A part that was still empty now holds what its section does.            *)
Decoded(N, previous) == {w \in AModule(N) : Untouched(w, previous)}

LEMMA TypesSection ==
  ASSUME NEW bytes \in Seq(Byte), NEW at \in 0..Len(bytes), NEW previous \in Nat,
         previous < 1, NEW m \in Decoded(Len(bytes), previous)
  PROVE  decode_section(m, 1, bytes, at) \in Reads(Decoded(Len(bytes), 1), Len(bytes))
<1> DEFINE N == Len(bytes)
           T == Decoded(N, 1)
           items == Reading(FuncType, bytes)
           A == entries(MAX_TYPES, items, bytes, at)
           part == m.types \o A.value
           w == [m EXCEPT !.types = part]
<1>1. N \in Nat
  OBVIOUS
<1>2. decode_section(m, 1, bytes, at) = IF A.error # "None" THEN A ELSE Ok(w, A.at)
  BY DEF decode_section, Then
<1> HIDE DEF items
<1>3. A \in Reads(TypesOf(N), N)
  BY TypesRead DEF items
<1>4. A.at \in 0..N /\ (A.error = "None" => A.value \in TypesOf(N))
  BY <1>1, <1>3, ReadFacts
<1>5. m \in AModule(N) /\ Untouched(m, previous)
  BY DEF Decoded
<1>6. A.error = "None" => part \in TypesOf(N)
  <2>1. m.types = <<>>
    BY <1>5 DEF Untouched
  <2>2. \A types \in TypesOf(N) : <<>> \o types = types
    BY CeilingsAssumption, AtMostFacts DEF TypesOf
  <2> QED
    BY <1>4, <2>1, <2>2
<1> HIDE DEF A, part
<1>7. A.error = "None" => w \in T
  <2>1. A.error = "None" => w \in AModule(N)
    BY <1>5, <1>6 DEF AModule
  <2>2. Untouched(w, 1)
    BY <1>5 DEF AModule, Untouched
  <2> QED
    BY <2>1, <2>2 DEF Decoded
<1> HIDE DEF w, T
<1>8. A.error = "None" => Ok(w, A.at) \in Reads(T, N)
  BY <1>1, <1>4, <1>7, ReadFacts
<1>9. A.error # "None" => A \in Reads(T, N)
  BY <1>1, <1>3, ReadFacts
<1> QED
  BY <1>2, <1>8, <1>9 DEF T

LEMMA ImportsSection ==
  ASSUME NEW bytes \in Seq(Byte), NEW at \in 0..Len(bytes), NEW previous \in Nat,
         previous < 2, NEW m \in Decoded(Len(bytes), previous)
  PROVE  decode_section(m, 2, bytes, at) \in Reads(Decoded(Len(bytes), 2), Len(bytes))
<1> DEFINE N == Len(bytes)
           T == Decoded(N, 2)
           items == Reading(ImportRef, bytes)
           A == entries(MAX_IMPORTS, items, bytes, at)
           part == m.imports \o A.value
           w == [m EXCEPT !.imports = part]
<1>1. N \in Nat /\ items \in [0..N -> Reads(AnImport, N)] /\ MAX_IMPORTS \in Nat
  BY ImportRead, CeilingsAssumption DEF Reading
<1>2. decode_section(m, 2, bytes, at) = IF A.error # "None" THEN A ELSE Ok(w, A.at)
  BY DEF decode_section, Then
<1> HIDE DEF items
<1>3. A \in Reads(AtMost(AnImport, MAX_IMPORTS), N)
  BY <1>1, EntriesRead
<1>4. A.at \in 0..N /\ (A.error = "None" => A.value \in AtMost(AnImport, MAX_IMPORTS))
  BY <1>1, <1>3, ReadFacts
<1>5. m \in AModule(N) /\ Untouched(m, previous)
  BY DEF Decoded
<1>6. A.error = "None" => part \in AtMost(AnImport, MAX_IMPORTS)
  <2>1. m.imports = <<>>
    BY <1>5 DEF Untouched
  <2> QED
    BY <1>1, <1>4, <2>1, AtMostFacts
<1> HIDE DEF A, part
<1>7. A.error = "None" => w \in T
  <2>1. A.error = "None" => w \in AModule(N)
    BY <1>5, <1>6 DEF AModule
  <2>2. Untouched(w, 2)
    BY <1>5 DEF AModule, Untouched
  <2> QED
    BY <2>1, <2>2 DEF Decoded
<1> HIDE DEF w, T
<1>8. A.error = "None" => Ok(w, A.at) \in Reads(T, N)
  BY <1>1, <1>4, <1>7, ReadFacts
<1>9. A.error # "None" => A \in Reads(T, N)
  BY <1>1, <1>3, ReadFacts
<1> QED
  BY <1>2, <1>8, <1>9 DEF T

LEMMA DeclaredSection ==
  ASSUME NEW bytes \in Seq(Byte), NEW at \in 0..Len(bytes), NEW previous \in Nat,
         previous < 3, NEW m \in Decoded(Len(bytes), previous)
  PROVE  decode_section(m, 3, bytes, at) \in Reads(Decoded(Len(bytes), 3), Len(bytes))
<1> DEFINE N == Len(bytes)
           T == Decoded(N, 3)
           items == Reading(Reader_u32, bytes)
           A == entries(MAX_FUNCTIONS, items, bytes, at)
           part == m.declared \o A.value
           w == [m EXCEPT !.declared = part]
<1>1. N \in Nat /\ items \in [0..N -> Reads(Nat, N)] /\ MAX_FUNCTIONS \in Nat
  BY WordRead, CeilingsAssumption DEF Reading
<1>2. decode_section(m, 3, bytes, at) = IF A.error # "None" THEN A ELSE Ok(w, A.at)
  BY DEF decode_section, Then
<1> HIDE DEF items
<1>3. A \in Reads(AtMost(Nat, MAX_FUNCTIONS), N)
  BY <1>1, EntriesRead
<1>4. A.at \in 0..N /\ (A.error = "None" => A.value \in AtMost(Nat, MAX_FUNCTIONS))
  BY <1>1, <1>3, ReadFacts
<1>5. m \in AModule(N) /\ Untouched(m, previous)
  BY DEF Decoded
<1>6. A.error = "None" => part \in AtMost(Nat, MAX_FUNCTIONS)
  <2>1. m.declared = <<>>
    BY <1>5 DEF Untouched
  <2> QED
    BY <1>1, <1>4, <2>1, AtMostFacts
<1> HIDE DEF A, part
<1>7. A.error = "None" => w \in T
  <2>1. A.error = "None" => w \in AModule(N)
    BY <1>5, <1>6 DEF AModule
  <2>2. Untouched(w, 3)
    BY <1>5 DEF AModule, Untouched
  <2> QED
    BY <2>1, <2>2 DEF Decoded
<1> HIDE DEF w, T
<1>8. A.error = "None" => Ok(w, A.at) \in Reads(T, N)
  BY <1>1, <1>4, <1>7, ReadFacts
<1>9. A.error # "None" => A \in Reads(T, N)
  BY <1>1, <1>3, ReadFacts
<1> QED
  BY <1>2, <1>8, <1>9 DEF T

LEMMA ExportsSection ==
  ASSUME NEW bytes \in Seq(Byte), NEW at \in 0..Len(bytes), NEW previous \in Nat,
         previous < 7, NEW m \in Decoded(Len(bytes), previous)
  PROVE  decode_section(m, 7, bytes, at) \in Reads(Decoded(Len(bytes), 7), Len(bytes))
<1> DEFINE N == Len(bytes)
           T == Decoded(N, 7)
           items == Reading(Export, bytes)
           A == entries(MAX_EXPORTS, items, bytes, at)
           part == m.exports \o of_functions(A.value)
           w == [m EXCEPT !.exports = part]
<1>1. N \in Nat /\ items \in [0..N -> Reads(AnExport, N)] /\ MAX_EXPORTS \in Nat
  BY ExportRead, CeilingsAssumption DEF Reading
<1>2. decode_section(m, 7, bytes, at) = IF A.error # "None" THEN A ELSE Ok(w, A.at)
  BY DEF decode_section, Then
<1> HIDE DEF items
<1>3. A \in Reads(AtMost(AnExport, MAX_EXPORTS), N)
  BY <1>1, EntriesRead
<1>4. A.at \in 0..N /\ (A.error = "None" => A.value \in AtMost(AnExport, MAX_EXPORTS))
  BY <1>1, <1>3, ReadFacts
<1>5. m \in AModule(N) /\ Untouched(m, previous)
  BY DEF Decoded
<1>6. A.error = "None" => part \in AtMost(AnExport, MAX_EXPORTS)
  <2>1. A.error = "None" => of_functions(A.value) \in AtMost(AnExport, MAX_EXPORTS)
    BY <1>1, <1>4, AtMostFacts, FunctionsAmong
  <2>2. m.exports = <<>>
    BY <1>5 DEF Untouched
  <2> QED
    BY <1>1, <2>1, <2>2, AtMostFacts
<1> HIDE DEF A, part
<1>7. A.error = "None" => w \in T
  <2>1. A.error = "None" => w \in AModule(N)
    BY <1>5, <1>6 DEF AModule
  <2>2. Untouched(w, 7)
    BY <1>5 DEF AModule, Untouched
  <2> QED
    BY <2>1, <2>2 DEF Decoded
<1> HIDE DEF w, T
<1>8. A.error = "None" => Ok(w, A.at) \in Reads(T, N)
  BY <1>1, <1>4, <1>7, ReadFacts
<1>9. A.error # "None" => A \in Reads(T, N)
  BY <1>1, <1>3, ReadFacts
<1> QED
  BY <1>2, <1>8, <1>9 DEF T

LEMMA DataSection ==
  ASSUME NEW bytes \in Seq(Byte), NEW at \in 0..Len(bytes), NEW previous \in Nat,
         previous < 11, NEW m \in Decoded(Len(bytes), previous)
  PROVE  decode_section(m, 11, bytes, at) \in Reads(Decoded(Len(bytes), 11), Len(bytes))
<1> DEFINE N == Len(bytes)
           T == Decoded(N, 11)
           items == Reading(DataSegment, bytes)
           A == entries(MAX_DATA_SEGMENTS, items, bytes, at)
           part == m.data \o A.value
           w == [m EXCEPT !.data = part]
<1>1. N \in Nat /\ items \in [0..N -> Reads(ASegment, N)] /\ MAX_DATA_SEGMENTS \in Nat
  BY SegmentRead, CeilingsAssumption DEF Reading
<1>2. decode_section(m, 11, bytes, at) = IF A.error # "None" THEN A ELSE Ok(w, A.at)
  BY DEF decode_section, Then
<1> HIDE DEF items
<1>3. A \in Reads(AtMost(ASegment, MAX_DATA_SEGMENTS), N)
  BY <1>1, EntriesRead
<1>4. A.at \in 0..N /\ (A.error = "None" => A.value \in AtMost(ASegment, MAX_DATA_SEGMENTS))
  BY <1>1, <1>3, ReadFacts
<1>5. m \in AModule(N) /\ Untouched(m, previous)
  BY DEF Decoded
<1>6. A.error = "None" => part \in AtMost(ASegment, MAX_DATA_SEGMENTS)
  <2>1. m.data = <<>>
    BY <1>5 DEF Untouched
  <2> QED
    BY <1>1, <1>4, <2>1, AtMostFacts
<1> HIDE DEF A, part
<1>7. A.error = "None" => w \in T
  <2>1. A.error = "None" => w \in AModule(N)
    BY <1>5, <1>6 DEF AModule
  <2>2. Untouched(w, 11)
    BY <1>5 DEF AModule, Untouched
  <2> QED
    BY <2>1, <2>2 DEF Decoded
<1> HIDE DEF w, T
<1>8. A.error = "None" => Ok(w, A.at) \in Reads(T, N)
  BY <1>1, <1>4, <1>7, ReadFacts
<1>9. A.error # "None" => A \in Reads(T, N)
  BY <1>1, <1>3, ReadFacts
<1> QED
  BY <1>2, <1>8, <1>9 DEF T

LEMMA MemorySection ==
  ASSUME NEW bytes \in Seq(Byte), NEW at \in 0..Len(bytes), NEW previous \in Nat,
         previous < 5, NEW m \in Decoded(Len(bytes), previous)
  PROVE  decode_section(m, 5, bytes, at) \in Reads(Decoded(Len(bytes), 5), Len(bytes))
<1> DEFINE N == Len(bytes)
           T == Decoded(N, 5)
           items == Reading(MemoryLimits, bytes)
           A == Reader_usize(bytes, at)
           B == many(A.value, items, A.at)
           w == [m EXCEPT !.memory_pages = IF A.value = 1 THEN B.value[1] ELSE m.memory_pages]
<1>1. N \in Nat /\ items \in [0..N -> Reads(Limits, N)] /\ A \in Reads(Nat, N)
  BY LimitsRead, WordRead DEF Reading
<1>2. decode_section(m, 5, bytes, at) =
        IF A.error # "None" THEN A ELSE IF A.value > 1 THEN Err("Unsupported")
        ELSE IF B.error # "None" THEN B ELSE Ok(w, B.at)
  BY DEF decode_section, Then
<1> HIDE DEF items
<1>3. A.at \in 0..N /\ A.value \in Nat
  BY <1>1, ReadFacts
<1>4. B \in Reads(Sized(Limits, A.value), N)
  BY <1>1, <1>3, ManyRead
<1>5. B.at \in 0..N /\ (B.error = "None" => B.value \in Sized(Limits, A.value))
  BY <1>1, <1>4, ReadFacts
<1>6. m \in AModule(N) /\ Untouched(m, previous)
  BY DEF Decoded
<1> HIDE DEF A, B
<1>7. B.error = "None" => w \in T
  <2>1. B.error = "None" /\ A.value = 1 => B.value[1] \in Limits
    BY <1>5 DEF Sized
  <2>2. B.error = "None" => w \in AModule(N)
    BY <1>6, <2>1 DEF AModule
  <2>3. Untouched(w, 5)
    BY <1>6 DEF AModule, Untouched
  <2> QED
    BY <2>2, <2>3 DEF Decoded
<1> HIDE DEF w, T
<1>8. B.error = "None" => Ok(w, B.at) \in Reads(T, N)
  BY <1>1, <1>5, <1>7, ReadFacts
<1>9. Err("Unsupported") \in Reads(T, N)
  BY <1>1, ErrorNames, ReadFacts
<1>10. (A.error # "None" => A \in Reads(T, N)) /\ (B.error # "None" => B \in Reads(T, N))
  BY <1>1, <1>4, ReadFacts
<1> QED
  BY <1>2, <1>8, <1>9, <1>10 DEF T

LEMMA CodeSection ==
  ASSUME NEW bytes \in Seq(Byte), NEW at \in 0..Len(bytes), NEW previous \in Nat,
         previous < 10, NEW m \in Decoded(Len(bytes), previous)
  PROVE  decode_section(m, 10, bytes, at) \in Reads(Decoded(Len(bytes), 10), Len(bytes))
<1> DEFINE N == Len(bytes)
           T == Decoded(N, 10)
           items == Reading(FunctionBody, bytes)
           A == Reader_usize(bytes, at)
           B == many(A.value, items, A.at)
           new == [i \in 1..A.value |-> [body |-> B.value[i], type_index |-> m.declared[i]]]
           part == m.functions \o new
           w == [m EXCEPT !.functions = part]
<1>1. N \in Nat /\ items \in [0..N -> Reads(ABody(N), N)] /\ A \in Reads(Nat, N)
  BY BodyRead, WordRead DEF Reading
<1>2. decode_section(m, 10, bytes, at) =
        IF A.error # "None" THEN A ELSE IF A.value # Len(m.declared) THEN Err("Malformed")
        ELSE IF B.error # "None" THEN B ELSE Ok(w, B.at)
  BY DEF decode_section, decode_code, Then
<1> HIDE DEF items
<1>3. A.at \in 0..N /\ A.value \in Nat
  BY <1>1, ReadFacts
<1>4. B \in Reads(Sized(ABody(N), A.value), N)
  BY <1>1, <1>3, ManyRead
<1>5. B.at \in 0..N /\ (B.error = "None" => B.value \in Sized(ABody(N), A.value))
  BY <1>1, <1>4, ReadFacts
<1>6. m \in AModule(N) /\ Untouched(m, previous)
  BY DEF Decoded
<1> HIDE DEF A, B
<1>7. B.error = "None" /\ A.value = Len(m.declared) => part \in AtMost(AFunction(N), MAX_FUNCTIONS)
  <2> SUFFICES ASSUME B.error = "None", A.value = Len(m.declared)
               PROVE  part \in AtMost(AFunction(N), MAX_FUNCTIONS)
    OBVIOUS
  <2>1. m.declared \in Seq(Nat) /\ Len(m.declared) <= MAX_FUNCTIONS
    BY <1>6 DEF AModule, AtMost
  <2>2. B.value \in Seq(ABody(N)) /\ Len(B.value) = A.value
    BY <1>5 DEF Sized
  <2>3. \A i \in 1..A.value : [body |-> B.value[i], type_index |-> m.declared[i]] \in AFunction(N)
    BY <1>3, <2>1, <2>2 DEF AFunction
  <2> DEFINE F == AFunction(N)
  <2> HIDE DEF F
  <2>4. \A i \in 1..A.value : new[i] \in F
    BY <2>3 DEF F
  <2>5. new = [i \in 1..A.value |-> new[i]]
    OBVIOUS
  <2> HIDE DEF new
  <2>6. new \in Seq(F) /\ Len(new) = A.value
    <3> DEFINE k == A.value
    <3>1. k \in Nat
      BY <1>3
    <3>2. new = [i \in 1..k |-> new[i]] /\ \A i \in 1..k : new[i] \in F
      BY <2>4, <2>5
    <3> HIDE DEF k
    <3>3. new \in [1..k -> F]
      BY <3>2
    <3>4. new \in Seq(F) /\ Len(new) = k
      BY <3>1, <3>3
    <3> QED
      BY <3>4 DEF k
  <2>7. m.functions = <<>>
    BY <1>6 DEF Untouched
  <2>8. new \in AtMost(F, MAX_FUNCTIONS)
    BY <2>1, <2>6 DEF AtMost
  <2> QED
    BY <2>7, <2>8, AtMostFacts, CeilingsAssumption DEF F
<1> HIDE DEF part
<1>8. B.error = "None" /\ A.value = Len(m.declared) => w \in T
  <2>1. B.error = "None" /\ A.value = Len(m.declared) => w \in AModule(N)
    BY <1>6, <1>7 DEF AModule
  <2>2. Untouched(w, 10)
    BY <1>6 DEF AModule, Untouched
  <2> QED
    BY <2>1, <2>2 DEF Decoded
<1> HIDE DEF w, T
<1>9. B.error = "None" /\ A.value = Len(m.declared) => Ok(w, B.at) \in Reads(T, N)
  BY <1>1, <1>5, <1>8, ReadFacts
<1>10. Err("Malformed") \in Reads(T, N)
  BY <1>1, ErrorNames, ReadFacts
<1>11. (A.error # "None" => A \in Reads(T, N)) /\ (B.error # "None" => B \in Reads(T, N))
  BY <1>1, <1>4, ReadFacts
<1> QED
  BY <1>2, <1>9, <1>10, <1>11 DEF T

LEMMA SectionRead ==
  ASSUME NEW bytes \in Seq(Byte), NEW at \in 0..Len(bytes), NEW previous \in Nat,
         NEW m \in Decoded(Len(bytes), previous), NEW id \in Byte, id # 0 => previous < id
  PROVE  decode_section(m, id, bytes, at)
           \in Reads(Decoded(Len(bytes), IF id = 0 THEN previous ELSE id), Len(bytes))
<1> DEFINE N == Len(bytes)
           T(p) == Decoded(N, p)
<1>1. N \in Nat
  OBVIOUS
<1>2. CASE id = 0
  <2>1. decode_section(m, id, bytes, at) = Ok(m, at)
    BY <1>2 DEF decode_section
  <2> QED
    BY <1>1, <1>2, <2>1, ReadFacts
<1>3. CASE id \in {1, 2, 3, 5, 7, 10, 11}
  BY <1>3, TypesSection, ImportsSection, DeclaredSection, MemorySection, ExportsSection,
     CodeSection, DataSection
<1>4. CASE id \notin {0, 1, 2, 3, 5, 7, 10, 11}
  <2>1. decode_section(m, id, bytes, at) =
          IF id \in {4, 6, 8, 9} THEN Err("Unsupported") ELSE Err("Malformed")
    BY <1>4 DEF decode_section
  <2> QED
    BY <1>1, <2>1, ErrorNames, ReadFacts
<1> QED
  BY <1>2, <1>3, <1>4

(* The sections one after the other.                                       *)
Partial(N) == {s \in [module : AModule(N), previous : Nat] : Untouched(s.module, s.previous)}

LEMMA NextSection ==
  ASSUME NEW bytes \in Seq(Byte), NEW at \in 0..Len(bytes), NEW s \in Partial(Len(bytes))
  PROVE  next_section(s.module, s.previous, bytes, at) \in Reads(Partial(Len(bytes)), Len(bytes))
<1> DEFINE N == Len(bytes)
           T == Partial(N)
           A == Reader_byte(bytes, at)
           B == Reader_usize(bytes, A.at)
           end == B.at + B.value
           previous == IF A.value = 0 THEN s.previous ELSE A.value
           C == decode_section(s.module, A.value, bytes, B.at)
           further == [module |-> C.value, previous |-> previous]
           bad == A.value # 0 /\ A.value <= s.previous
<1>1. N \in Nat /\ at \in Nat /\ A \in Reads(Byte, N)
  BY ByteRead
<1>2. next_section(s.module, s.previous, bytes, at) =
        IF A.error # "None" THEN A ELSE IF bad THEN Err("Malformed")
        ELSE IF B.error # "None" THEN B ELSE IF end > N THEN Err("Truncated")
        ELSE IF C.error # "None" THEN C ELSE Ok(further, end)
  BY DEF next_section, out_of_order, Then
<1>3. A.at \in 0..N /\ (A.error = "None" => A.value \in Byte)
  BY <1>1, ReadFacts
<1>4. B \in Reads(Nat, N)
  BY <1>3, WordRead
<1>5. B.at \in 0..N /\ B.value \in Nat
  BY <1>1, <1>4, ReadFacts
<1>6. ~(end > N) => end \in 0..N
  BY <1>1, <1>5
<1>7. s.previous \in Nat /\ s.module \in Decoded(N, s.previous)
  BY DEF Partial, Decoded
<1> HIDE DEF A, B, end
<1> DEFINE fine == A.error = "None" /\ ~bad
<1>8. fine => C \in Reads(Decoded(N, previous), N)
  <2>0. \A v \in Byte : v \in Nat
    BY DEF Byte
  <2>1. fine => A.value \in Byte /\ (A.value # 0 => s.previous < A.value)
    BY <1>3, <1>7, <2>0
  <2> QED
    BY <1>5, <1>7, <2>1, SectionRead
<1>9. fine => previous \in Nat
  <2>1. \A v \in Byte : v \in Nat
    BY DEF Byte
  <2>2. fine => A.value \in Nat
    BY <1>3, <2>1
  <2> HIDE DEF fine
  <2> QED
    BY <1>7, <2>2
<1> HIDE DEF C, previous, bad
<1>10. fine /\ C.error = "None" => C.value \in Decoded(N, previous)
  BY <1>1, <1>8, ReadFacts
<1>11. fine /\ C.error = "None" => further \in T
  BY <1>9, <1>10 DEF Decoded, Partial
<1> HIDE DEF further, T
<1>12. fine /\ C.error = "None" /\ ~(end > N) => Ok(further, end) \in Reads(T, N)
  BY <1>1, <1>6, <1>11, ReadFacts
<1>13. Err("Malformed") \in Reads(T, N) /\ Err("Truncated") \in Reads(T, N)
  BY <1>1, ErrorNames, ReadFacts
<1>14. /\ A.error # "None" => A \in Reads(T, N)
       /\ B.error # "None" => B \in Reads(T, N)
       /\ fine /\ C.error # "None" => C \in Reads(T, N)
  BY <1>1, <1>4, <1>8, ReadFacts
<1> QED
  BY <1>2, <1>12, <1>13, <1>14 DEF T

LEMMA SectionsRead ==
  ASSUME NEW bytes \in Seq(Byte), NEW at \in 0..Len(bytes)
  PROVE  decode_sections(bytes, at) \in Reads(AModule(Len(bytes)), Len(bytes))
<1> DEFINE N == Len(bytes)
           W == Reads(Partial(N), N)
           start == Ok([module |-> Empty, previous |-> 0], at)
           step(x) == IF x.error # "None" THEN x ELSE IF x.at >= N THEN x
                      ELSE next_section(x.value.module, x.value.previous, bytes, x.at)
           G == [n \in 0..(N - 1) |-> [x \in W |-> step(x)]]
           Is(f) == f = [n \in 0..N |->
             IF n = 0 THEN start
             ELSE IF f[n - 1].error # "None" THEN f[n - 1]
             ELSE IF f[n - 1].at >= N THEN Ok(f[n - 1].value, f[n - 1].at)
             ELSE next_section(f[n - 1].value.module, f[n - 1].value.previous, bytes, f[n - 1].at)]
           after == CHOOSE f : Is(f)
           r == after[N]
<1>1. N \in Nat
  OBVIOUS
<1>2. decode_sections(bytes, at) = IF r.error # "None" THEN r ELSE Ok(r.value.module, r.at)
  BY DEF decode_sections, Then
<1>3. start \in W
  <2> DEFINE empty == [module |-> Empty, previous |-> 0]
  <2>0. <<>> \in TypesOf(N)
    BY <1>1, NoTypes
  <2>1. Empty \in AModule(N)
    BY <2>0, CeilingsAssumption DEF Empty, AModule, AtMost, Limits
  <2>2. Untouched(Empty, 0)
    BY DEF Empty, Untouched
  <2>3. empty \in Partial(N)
    BY <2>1, <2>2 DEF Partial
  <2> HIDE DEF empty
  <2> QED
    BY <1>1, <2>3, ReadFacts DEF empty
<1> HIDE DEF start
<1>4. ASSUME NEW x \in W
      PROVE  step(x) \in W /\ (x.error = "None" => x = Ok(x.value, x.at))
  <2>1. x.at \in 0..N /\ (x.error = "None" => x.value \in Partial(N) /\ x = Ok(x.value, x.at))
    BY <1>1, ReadFacts
  <2>2. x.error = "None" =>
          next_section(x.value.module, x.value.previous, bytes, x.at) \in W
    BY <2>1, NextSection
  <2> QED
    BY <2>1, <2>2
<1> HIDE DEF W, N
<1>5. G \in [0..(N - 1) -> [W -> W]]
  BY <1>4
<1>6. \A n \in 0..(N - 1), x \in W : G[n][x] = step(x)
  OBVIOUS
<1> HIDE DEF G
<1>7. PICK f \in [0..N -> W] :
        f = [n \in 0..N |-> IF n = 0 THEN start ELSE G[n - 1][f[n - 1]]]
  <2>1. Chain(W, start, N, G)
    BY <1>1, <1>3, <1>5, ChainExists
  <2> QED
    BY <2>1 DEF Chain
<1>8. ASSUME NEW n \in 0..N, n # 0
      PROVE  /\ f[n] = step(f[n - 1])
             /\ f[n - 1].error = "None" => f[n - 1] = Ok(f[n - 1].value, f[n - 1].at)
  <2>1. n - 1 \in 0..(N - 1) /\ n - 1 \in 0..N
    BY <1>1, <1>8
  <2>2. f[n] = G[n - 1][f[n - 1]] /\ f[n - 1] \in W
    BY <1>7, <1>8, <2>1
  <2> QED
    BY <1>4, <1>6, <2>1, <2>2
<1>9. Is(f)
  BY <1>7, <1>8
<1>10. Is(after)
  BY <1>9
<1> HIDE DEF after
<1>11. after = [n \in 0..N |-> after[n]] /\ after[0] = start
  BY <1>1, <1>10
<1>12. \A n \in 0..N : n # 0 =>
         after[n] =
           IF after[n - 1].error # "None" THEN after[n - 1]
           ELSE IF after[n - 1].at >= N THEN Ok(after[n - 1].value, after[n - 1].at)
           ELSE next_section(after[n - 1].value.module, after[n - 1].value.previous, bytes,
                             after[n - 1].at)
  BY <1>10
<1> HIDE DEF Is
<1>13. after \in [0..N -> W]
  <2>1. ASSUME NEW n \in 0..(N - 1), after[n] \in W  PROVE after[n + 1] \in W
    <3>1. n + 1 \in 0..N /\ n + 1 # 0 /\ (n + 1) - 1 = n
      BY <1>1
    <3>2. step(after[n]) \in W /\ (after[n].error = "None" => after[n] = Ok(after[n].value, after[n].at))
      BY <1>4, <2>1
    <3>3. after[n + 1] = step(after[n])
      BY <1>12, <3>1, <3>2
    <3> QED
      BY <3>2, <3>3
  <2> HIDE DEF step
  <2> QED
    BY <1>1, <1>3, <1>11, <2>1, StaysIn
<1>14. r \in W
  BY <1>1, <1>13
<1> HIDE DEF r
<1>15. r \in Reads(Partial(N), N)
  BY <1>14 DEF W
<1>16. r.at \in 0..N /\ (r.error = "None" => r.value \in Partial(N))
  BY <1>1, <1>15, ReadFacts
<1>17. r.error = "None" => r.value.module \in AModule(N)
  BY <1>16 DEF Partial
<1>18. r.error = "None" => Ok(r.value.module, r.at) \in Reads(AModule(N), N)
  BY <1>1, <1>16, <1>17, ReadFacts
<1>19. r.error # "None" => r \in Reads(AModule(N), N)
  BY <1>1, <1>15, ReadFacts
<1> QED
  BY <1>2, <1>18, <1>19 DEF N

(* Whatever the bytes, what decodes is a module under every ceiling.       *)
LEMMA ModuleRead ==
  ASSUME NEW bytes \in Seq(Byte)
  PROVE  Module_decode(bytes) \in Reads(AModule(Len(bytes)), Len(bytes))
<1> DEFINE N == Len(bytes)
           T == AModule(N)
           A == Reader_slice(bytes, 0, 4)
           B == Reader_slice(bytes, A.at, 4)
           C == decode_sections(bytes, B.at)
<1>1. N \in Nat /\ 0 \in 0..N
  OBVIOUS
<1>2. Module_decode(bytes) =
        IF N > MAX_MODULE_BYTES THEN Err("TooLarge")
        ELSE IF A.error # "None" THEN A ELSE IF A.value # Magic THEN Err("NotWasm")
        ELSE IF B.error # "None" THEN B ELSE IF B.value # Version THEN Err("UnsupportedVersion")
        ELSE C
  BY DEF Module_decode, Then
<1>3. A \in Reads(Seq(Byte), N)
  BY <1>1, SliceRead
<1>4. A.at \in 0..N
  BY <1>1, <1>3, ReadFacts
<1>5. B \in Reads(Seq(Byte), N)
  BY <1>4, SliceRead
<1>6. B.at \in 0..N
  BY <1>1, <1>5, ReadFacts
<1>7. C \in Reads(T, N)
  BY <1>6, SectionsRead
<1>8. /\ Err("TooLarge") \in Reads(T, N) /\ Err("NotWasm") \in Reads(T, N)
      /\ Err("UnsupportedVersion") \in Reads(T, N)
  BY <1>1, ErrorNames, ReadFacts
<1> HIDE DEF A, B, C, T
<1>9. (A.error # "None" => A \in Reads(T, N)) /\ (B.error # "None" => B \in Reads(T, N))
  BY <1>1, <1>3, <1>5, ReadFacts
<1> QED
  BY <1>2, <1>7, <1>8, <1>9 DEF T

-----------------------------------------------------------------------------
(* What an instruction's immediates read as, and how the scanner ends.     *)
LEMMA ReadsWiden ==
  ASSUME NEW N \in Nat, NEW V, NEW W, V \subseteq W
  PROVE  Reads(V, N) \subseteq Reads(W, N)
BY DEF Reads

Indexed == {12, 13, 16} \cup (32..36)

LEMMA Immediates ==
  ASSUME NEW bytes \in Seq(Byte), NEW at \in 0..Len(bytes), NEW op
  PROVE  /\ immediates(bytes, at, op) \in Reads(Int, Len(bytes))
         /\ op \in Indexed => immediates(bytes, at, op) \in Reads(Nat, Len(bytes))
<1> DEFINE N == Len(bytes)
           A == Reader_byte(bytes, at)
           B == Reader_u32(bytes, at)
           C == Reader_u32(bytes, B.at)
           D == Reader_signed(bytes, at, Word)
           E == Reader_signed(bytes, at, Long)
<1>1. N \in Nat /\ at \in Nat /\ A \in Reads(Byte, N)
  BY ByteRead
<1>2. B \in Reads(Nat, N)
  BY WordRead
<1>3. B.at \in 0..N
  BY <1>1, <1>2, ReadFacts
<1>4. C \in Reads(Nat, N)
  BY <1>3, WordRead
<1>5. D \in Reads(Int, N)
  BY SignedRead, WidthsAssumption
<1>6. E \in Reads(Int, N)
  <2>1. Long \in Nat \ {0}
    BY WidthsAssumption
  <2> QED
    BY <2>1, SignedRead
<1>7. Ok(0, at) \in Reads(Int, N)
  BY <1>1, ReadFacts
<1>8. A \in Reads(Int, N) /\ B \in Reads(Int, N) /\ C \in Reads(Int, N)
  <2>1. Byte \subseteq Int /\ Nat \subseteq Int
    BY DEF Byte
  <2>2. Reads(Byte, N) \subseteq Reads(Int, N) /\ Reads(Nat, N) \subseteq Reads(Int, N)
    BY <1>1, <2>1, ReadsWiden
  <2> QED
    BY <1>1, <1>2, <1>4, <2>2
<1>9. immediates(bytes, at, op) \in {A, B, IF B.error # "None" THEN B ELSE C, D, E, Ok(0, at)}
  BY DEF immediates, Then
<1>10. op \in Indexed => immediates(bytes, at, op) = B
  <2>1. op \in Indexed => op \in {12, 13, 16} \cup (32..36) /\ op \notin {2, 3, 4, 63, 64}
    BY DEF Indexed
  <2>2. op \in Indexed => op \notin Openers \cup {63, 64}
    BY <2>1 DEF Openers
  <2>3. \A x \in {12, 13, 16} \cup (32..36) : x \notin (40..62) /\ x # 65 /\ x # 66
    OBVIOUS
  <2> SUFFICES ASSUME op \in Indexed  PROVE immediates(bytes, at, op) = B
    OBVIOUS
  <2>4. op \in {12, 13, 16} \cup (32..36) /\ op \notin Openers \cup {63, 64}
    BY <2>1, <2>2
  <2>5. op \notin (40..62) /\ op # 65 /\ op # 66
    BY <2>3, <2>4
  <2> HIDE DEF A, C, D, E
  <2> QED
    BY <2>4, <2>5 DEF immediates
<1> HIDE DEF A, B, C, D, E, N
<1> QED
  BY <1>2, <1>5, <1>6, <1>7, <1>8, <1>9, <1>10 DEF N

ScanTraps == {"None", "Malformed", "OutOfFuel", "Unsupported"}

Scans(N, left) ==
  [trap : ScanTraps \cup {Scanning}, at : 0..N, depth : Int,
   else_at : (0..N) \cup {None}, fuel : 0..left]

LEMMA ScanTurn ==
  ASSUME NEW bytes \in Seq(Byte), NEW want_else \in BOOLEAN, NEW left \in Nat,
         NEW s \in Scans(Len(bytes), left)
  PROVE  /\ scan_turn(bytes, want_else, s) \in Scans(Len(bytes), left)
         /\ scan_turn(bytes, want_else, s).trap = Scanning =>
              s.trap = Scanning /\ scan_turn(bytes, want_else, s).fuel = s.fuel - 1
<1> DEFINE N == Len(bytes)
           op == bytes[s.at + 1]
           next == skip(bytes, s.at + 1, op)
           ends(trap, rest) == [s EXCEPT !.trap = trap, !.fuel = rest]
           depth == CASE op \in Openers -> s.depth + 1 [] op = 11 -> s.depth - 1 [] OTHER -> s.depth
           else == IF op = 5 /\ s.depth = 0 /\ want_else /\ s.else_at = None
                   THEN next.at ELSE s.else_at
<1>1. N \in Nat /\ s.at \in 0..N /\ s.depth \in Int /\ s.fuel \in 0..left
      /\ s.else_at \in (0..N) \cup {None} /\ s.trap \in ScanTraps \cup {Scanning}
  BY DEF Scans
<1>2. scan_turn(bytes, want_else, s) =
        IF s.trap # Scanning THEN s
        ELSE IF s.at >= N THEN ends("Malformed", s.fuel)
        ELSE IF s.fuel = 0 THEN ends("OutOfFuel", 0)
        ELSE IF op = 14 THEN ends("Unsupported", s.fuel - 1)
        ELSE IF next.error # "None" THEN ends("Malformed", s.fuel - 1)
        ELSE IF op = 11 /\ s.depth = 0 THEN Scan("None", next.at, 0, s.else_at, s.fuel - 1)
        ELSE Scan(Scanning, next.at, depth, else, s.fuel - 1)
  BY DEF scan_turn, scan_past, metered
<1>3. s.at < N => next.at \in 0..N
  <2>1. s.at < N => s.at + 1 \in 0..N
    BY <1>1
  <2>2. s.at < N => next \in Reads(Int, N)
    BY <2>1, Immediates DEF skip
  <2> QED
    BY <1>1, <2>2, ReadFacts
<1> HIDE DEF next
<1>4. depth \in Int
  BY <1>1
<1>5. s.at < N => else \in (0..N) \cup {None}
  BY <1>1, <1>3
<1> HIDE DEF depth, else, op, N
<1>6. s.fuel # 0 => s.fuel - 1 \in 0..left
  BY <1>1
<1>7. \A trap \in ScanTraps, rest \in 0..left :
        ends(trap, rest) \in Scans(N, left) /\ ends(trap, rest).trap = trap
  BY DEF Scans, N
<1>8. "None" # Scanning /\ "Malformed" # Scanning /\ "OutOfFuel" # Scanning
      /\ "Unsupported" # Scanning /\ {"None", "Malformed", "OutOfFuel", "Unsupported"} = ScanTraps
  BY DEF Scanning, ScanTraps
<1>9. 0 \in 0..left
  OBVIOUS
<1> HIDE DEF ends
<1>10. s.at < N /\ s.fuel # 0 =>
         /\ Scan("None", next.at, 0, s.else_at, s.fuel - 1) \in Scans(N, left)
         /\ Scan("None", next.at, 0, s.else_at, s.fuel - 1).trap = "None"
         /\ Scan(Scanning, next.at, depth, else, s.fuel - 1) \in Scans(N, left)
         /\ Scan(Scanning, next.at, depth, else, s.fuel - 1).fuel = s.fuel - 1
  BY <1>1, <1>3, <1>4, <1>5, <1>6, <1>8 DEF Scan, Scans
<1>11. s.at >= N \/ s.at < N
  BY <1>1
<1>12. s \in Scans(N, left)
  BY DEF N
<1> DEFINE turned == scan_turn(bytes, want_else, s)
           Right == /\ turned \in Scans(N, left)
                    /\ turned.trap = Scanning => s.trap = Scanning /\ turned.fuel = s.fuel - 1
<1> SUFFICES Right
  BY DEF N
<1>13. CASE s.trap # Scanning
  <2>1. turned = s
    BY <1>2, <1>13
  <2> QED
    BY <1>12, <1>13, <2>1
<1>14. CASE s.trap = Scanning /\ s.at >= N
  <2>1. turned = ends("Malformed", s.fuel)
    BY <1>2, <1>14
  <2> QED
    BY <1>1, <1>7, <1>8, <2>1
<1>15. CASE s.trap = Scanning /\ s.at < N /\ s.fuel = 0
  <2>1. turned = ends("OutOfFuel", 0)
    BY <1>1, <1>2, <1>15
  <2> QED
    BY <1>7, <1>8, <1>9, <2>1
<1>16. CASE s.trap = Scanning /\ s.at < N /\ s.fuel # 0
  <2>1. \/ turned \in {ends("Unsupported", s.fuel - 1), ends("Malformed", s.fuel - 1)}
        \/ turned = Scan("None", next.at, 0, s.else_at, s.fuel - 1)
        \/ turned = Scan(Scanning, next.at, depth, else, s.fuel - 1)
    <3>1. ~(s.at >= N)
      BY <1>1, <1>16
    <3> QED
      BY <1>2, <1>16, <3>1
  <2>2. CASE turned \in {ends("Unsupported", s.fuel - 1), ends("Malformed", s.fuel - 1)}
    BY <1>6, <1>7, <1>8, <1>16, <2>2
  <2>3. CASE turned = Scan("None", next.at, 0, s.else_at, s.fuel - 1)
    BY <1>8, <1>10, <1>16, <2>3
  <2>4. CASE turned = Scan(Scanning, next.at, depth, else, s.fuel - 1)
    BY <1>10, <1>16, <2>4
  <2> QED
    BY <2>1, <2>2, <2>3, <2>4
<1> QED
  BY <1>11, <1>13, <1>14, <1>15, <1>16

Ends_well(e, N, left) ==
  /\ e.trap \in ScanTraps /\ e.at \in 0..N /\ e.else_at \in (0..N) \cup {None}
  /\ e.fuel \in 0..left

ScanStart(at, left) == Scan(Scanning, at, 0, None, left)

(* A scan goes through left + 1 turns, all of them in a set that is closed *)
(* under turns.                                                            *)
ScanRuns(bytes, at, want_else, left, P) ==
  \E after \in [0..(left + 1) -> P] :
    /\ after[0] = ScanStart(at, left)
    /\ \A n \in 0..left : after[n + 1] = scan_turn(bytes, want_else, after[n])
    /\ scan(bytes, at, want_else, left) = after[left + 1]

LEMMA ScanGoes ==
  ASSUME NEW bytes, NEW at, NEW want_else, NEW left \in Nat, NEW P,
         ScanStart(at, left) \in P, \A x \in P : scan_turn(bytes, want_else, x) \in P
  PROVE  ScanRuns(bytes, at, want_else, left, P)
<1> DEFINE start == ScanStart(at, left)
           count == left + 1
           step(x) == scan_turn(bytes, want_else, x)
           G == [n \in 0..(count - 1) |-> [x \in P |-> step(x)]]
           Is(f) == f = [n \in 0..count |-> IF n = 0 THEN start ELSE step(f[n - 1])]
           after == CHOOSE f : Is(f)
<1>1. count \in Nat /\ \A n \in 0..left : n \in 0..(count - 1)
  OBVIOUS
<1>2. scan(bytes, at, want_else, left) = after[count]
  BY DEF scan, ScanStart
<1>3. start \in P /\ \A x \in P : step(x) \in P
  OBVIOUS
<1> HIDE DEF start, step, count
<1>4. G \in [0..(count - 1) -> [P -> P]]
  BY <1>3
<1>5. \A n \in 0..(count - 1), x \in P : G[n][x] = step(x)
  OBVIOUS
<1> HIDE DEF G
<1>6. PICK f \in [0..count -> P] :
        f = [n \in 0..count |-> IF n = 0 THEN start ELSE G[n - 1][f[n - 1]]]
  <2>1. Chain(P, start, count, G)
    BY <1>1, <1>3, <1>4, ChainExists
  <2> QED
    BY <2>1 DEF Chain
<1>7. ASSUME NEW n \in 0..count, n # 0  PROVE f[n] = step(f[n - 1])
  <2>1. n - 1 \in 0..(count - 1) /\ n - 1 \in 0..count
    BY <1>1, <1>7
  <2>2. f[n] = G[n - 1][f[n - 1]] /\ f[n - 1] \in P
    BY <1>6, <1>7, <2>1
  <2> QED
    BY <1>5, <2>1, <2>2
<1>8. Is(f)
  BY <1>6, <1>7
<1>9. Is(after)
  BY <1>8
<1> HIDE DEF after
<1>10. after = [n \in 0..count |-> after[n]] /\ after[0] = start
  BY <1>1, <1>9
<1>11. \A n \in 0..count : n # 0 => after[n] = step(after[n - 1])
  BY <1>9
<1> HIDE DEF Is
<1>12. ASSUME NEW n \in 0..(count - 1)
       PROVE  after[n + 1] = step(after[n])
  <2>1. n + 1 \in 0..count /\ n + 1 # 0 /\ (n + 1) - 1 = n
    BY <1>1
  <2> QED
    BY <1>11, <2>1
<1>13. after \in [0..count -> P]
  <2>1. \A n \in 0..(count - 1) : after[n] \in P => after[n + 1] \in P
    BY <1>3, <1>12
  <2> QED
    BY <1>1, <1>3, <1>10, <2>1, StaysIn
<1>14. \A n \in 0..left : after[n + 1] = step(after[n])
  BY <1>1, <1>12
<1> QED
  BY <1>2, <1>10, <1>13, <1>14 DEF ScanRuns, start, step, count

(* What every turn keeps holds in the end.                                 *)
LEMMA ScanStays ==
  ASSUME NEW bytes, NEW at, NEW want_else, NEW left \in Nat, NEW P,
         ScanStart(at, left) \in P, \A x \in P : scan_turn(bytes, want_else, x) \in P
  PROVE  scan(bytes, at, want_else, left) \in P
<1>1. ScanRuns(bytes, at, want_else, left, P)
  BY ScanGoes
<1>2. left + 1 \in 0..(left + 1)
  OBVIOUS
<1> QED
  BY <1>1, <1>2 DEF ScanRuns

(* A scan ends, within the bytes and within the fuel it was given.         *)
LEMMA ScanEnds ==
  ASSUME NEW bytes \in Seq(Byte), NEW at \in 0..Len(bytes), NEW want_else \in BOOLEAN,
         NEW left \in Nat
  PROVE  Ends_well(scan(bytes, at, want_else, left), Len(bytes), left)
<1> DEFINE W == Scans(Len(bytes), left)
           count == left + 1
           step(x) == scan_turn(bytes, want_else, x)
           r == scan(bytes, at, want_else, left)
<1>1. count \in Nat /\ count - 1 = left
  OBVIOUS
<1>2. ScanStart(at, left) \in W /\ ScanStart(at, left).fuel = left
  BY DEF ScanStart, Scan, Scans
<1>3. ASSUME NEW x \in W
      PROVE  /\ step(x) \in W
             /\ step(x).trap = Scanning => x.trap = Scanning /\ step(x).fuel = x.fuel - 1
  BY ScanTurn
<1> HIDE DEF W, step
<1>4. ScanRuns(bytes, at, want_else, left, W)
  <2>1. \A x \in W : step(x) \in W
    BY <1>3
  <2> QED
    BY <1>2, <2>1, ScanGoes DEF step
<1>5. PICK after \in [0..(left + 1) -> W] :
        /\ after[0] = ScanStart(at, left)
        /\ \A n \in 0..left : after[n + 1] = scan_turn(bytes, want_else, after[n])
        /\ scan(bytes, at, want_else, left) = after[left + 1]
  BY <1>4 DEF ScanRuns
<1>11. /\ after \in [0..count -> W] /\ r = after[count]
       /\ \A n \in 0..left : after[n + 1] = step(after[n])
  BY <1>5 DEF step
<1> HIDE DEF r, count
<1> DEFINE S == {n \in 0..count : after[n].trap = Scanning => after[n].fuel = left - n}
<1>6. 0 \in S
  BY <1>1, <1>2, <1>5
<1>7. ASSUME NEW n \in 0..(count - 1), n \in S  PROVE n + 1 \in S
  <2>1. n \in 0..count /\ n + 1 \in 0..count /\ n \in 0..left
    BY <1>1
  <2>2. after[n] \in W /\ after[n + 1] = step(after[n])
    BY <1>11, <2>1
  <2>3. after[n + 1].trap = Scanning =>
          after[n].trap = Scanning /\ after[n + 1].fuel = after[n].fuel - 1
    <3> DEFINE x == after[n]
    <3>1. x \in W
      BY <2>2
    <3> HIDE DEF x
    <3>2. step(x).trap = Scanning => x.trap = Scanning /\ step(x).fuel = x.fuel - 1
      BY <1>3, <3>1
    <3>3. after[n + 1] = step(x)
      BY <2>2 DEF x
    <3> QED
      BY <3>2, <3>3 DEF x
  <2>4. after[n + 1].trap = Scanning => after[n + 1].fuel = (left - n) - 1
    BY <1>7, <2>3
  <2>5. (left - n) - 1 = left - (n + 1)
    BY <2>1
  <2> QED
    BY <2>1, <2>4, <2>5
<1>8. \A n \in 0..count : n \in S
  <2> HIDE DEF S
  <2> QED
    BY <1>1, <1>6, <1>7, UpTo
<1>9. r \in W /\ (r.trap = Scanning => r.fuel = left - count)
  <2>1. count \in 0..count
    BY <1>1
  <2> QED
    BY <1>8, <1>11, <2>1
<1>10. r.trap # Scanning
  <2>1. r.fuel \in 0..left
    BY <1>9 DEF W, Scans
  <2>2. ~(left - count >= 0)
    BY DEF count
  <2> QED
    BY <1>9, <2>1, <2>2
<1> QED
  BY <1>9, <1>10 DEF W, Scans, Ends_well, r

-----------------------------------------------------------------------------
(* What holds of the machine and of its host in every state.               *)
ALabel == [target : Nat, height : Nat, is_loop : BOOLEAN, returns_value : BOOLEAN]

AFrame(m) ==
  [function : DOMAIN m.functions, at : Nat, locals : AtMost(Int, MAX_STACK + MAX_LOCALS),
   stack : Seq(Int), labels : Seq(ALabel)]

Within(frame, n) == Len(frame.stack) <= n /\ Len(frame.labels) <= n

(* Only the running activation may be one past the stacks' ceiling, since  *)
(* that is checked before the next instruction and not after this one.     *)
MachineInv ==
  /\ image \in Seq(Byte) /\ wasm \in AModule(Len(image))
  /\ fuel \in Nat
  /\ frames \in AtMost(AFrame(wasm), MAX_FRAMES)
  /\ \A i \in DOMAIN frames :
       Within(frames[i], IF i = Len(frames) THEN MAX_STACK + 1 ELSE MAX_STACK)
  /\ outcome = "Running" <=> frames # <<>>

(* Once resolved, every import is authorized, and the host knows it.       *)
Resolved ==
  /\ \A i \in DOMAIN wasm.imports : authorized(manifest(wasm)[i], granted)
  /\ host.verbs = bound(wasm, granted).verbs
  /\ host.bindings = bound(wasm, granted).bindings

AHost ==
  [verbs : [1 .. VerbSlots -> Seq(Byte)], bindings : SUBSET {Invoke, Approve},
   crossings : Nat, refusals : Nat, notes : 0 .. MAX_NOTES]

HostInv ==
  /\ host \in AHost
  /\ outcome \in {"Bound", "Running"} => Resolved
  /\ outcome \in {"Raw", "Decoded"} => acts = {}
  /\ UnauthorizedUnreachable

LEMMA TopFacts ==
  ASSUME MachineInv, frames # <<>>
  PROVE  /\ Len(frames) \in 1..MAX_FRAMES /\ top = frames[Len(frames)]
         /\ top \in AFrame(wasm) /\ Within(top, MAX_STACK + 1)
         /\ Len(top.stack) \in Nat /\ Len(top.labels) \in Nat
         /\ body \in ABody(Len(image)) /\ body.end \in 0..Len(image)
         /\ code \in Seq(Byte) /\ Len(code) = body.end
<1>1. frames \in Seq(AFrame(wasm)) /\ Len(frames) <= MAX_FRAMES
  BY DEF MachineInv, AtMost
<1>2. Len(frames) \in Nat /\ Len(frames) \in DOMAIN frames
  BY <1>1
<1>3. top = frames[Len(frames)] /\ top \in AFrame(wasm)
  BY <1>1, <1>2 DEF top, Last
<1>4. Within(top, MAX_STACK + 1)
  BY <1>2, <1>3 DEF MachineInv
<1>5. wasm.functions \in Seq(AFunction(Len(image))) /\ top.function \in DOMAIN wasm.functions
  BY <1>3 DEF MachineInv, AModule, AtMost, AFrame
<1>6. wasm.functions[top.function] \in AFunction(Len(image))
  BY <1>5
<1>7. body \in ABody(Len(image)) /\ body.end \in 0..Len(image)
  BY <1>6 DEF body, AFunction, ABody
<1>8. image \in Seq(Byte) /\ Len(image) \in Nat
  BY DEF MachineInv
<1>9. code \in Seq(Byte) /\ Len(code) = body.end
  <2> DEFINE n == body.end
  <2>1. n \in 0..Len(image) /\ code = SubSeq(image, 1, n)
    BY <1>7 DEF code
  <2> HIDE DEF n
  <2>2. SubSeq(image, 1, n) \in Seq(Byte) /\ Len(SubSeq(image, 1, n)) = n
    BY <1>8, <2>1
  <2> QED
    BY <2>1, <2>2 DEF n
<1>10. Len(top.stack) \in Nat /\ Len(top.labels) \in Nat
  BY <1>3 DEF AFrame
<1> QED
  BY <1>1, <1>2, <1>3, <1>4, <1>7, <1>9, <1>10

(* An instruction that was fetched: the running activation keeps to the    *)
(* ceilings and the immediates are read inside its body.                   *)
Fetches ==
  /\ frames # <<>> /\ fuel \in Nat \ {0} /\ outcome = "Running"
  /\ top \in AFrame(wasm) /\ Within(top, MAX_STACK)
  /\ Len(top.stack) \in Nat /\ Len(top.labels) \in Nat
  /\ paid(fuel) \in Nat
  /\ code \in Seq(Byte)
  /\ immediate \in Reads(Int, Len(code))
  /\ immediate.at \in 0..Len(code) /\ immediate.at \in Nat /\ immediate.value \in Int
  /\ opcode \in Indexed => immediate.value \in Nat

LEMMA FetchedFacts ==
  ASSUME MachineInv, NEW ops, Fetched(ops)
  PROVE  Fetches /\ opcode \in ops
<1>1. outcome = "Running" /\ fuel > 0 /\ ~Overflowing /\ top.at < body.end /\ opcode \in ops
  BY DEF Fetched
<1>2. frames # <<>> /\ fuel \in Nat
  BY <1>1 DEF MachineInv
<1>3. /\ top \in AFrame(wasm) /\ Len(top.stack) \in Nat /\ Len(top.labels) \in Nat
      /\ body.end \in 0..Len(image) /\ code \in Seq(Byte) /\ Len(code) = body.end
  BY <1>2, TopFacts
<1>4. Within(top, MAX_STACK)
  BY <1>1, <1>3, MachineAssumption DEF Overflowing, Within
<1>5. top.at + 1 \in 0..Len(code) /\ Len(code) \in Nat
  <2>1. top.at \in Nat
    BY <1>3 DEF AFrame
  <2>2. Len(image) \in Nat
    BY DEF MachineInv
  <2> QED
    BY <1>1, <1>3, <2>1, <2>2
<1>6. /\ immediate \in Reads(Int, Len(code))
      /\ opcode \in Indexed => immediate \in Reads(Nat, Len(code))
  BY <1>3, <1>5, Immediates DEF immediate
<1>7. immediate.at \in 0..Len(code) /\ immediate.value \in Int
  BY <1>5, <1>6, ReadFacts
<1>8. opcode \in Indexed => immediate.value \in Nat
  BY <1>5, <1>6, ReadFacts
<1>9. immediate.at \in Nat
  BY <1>5, <1>7
<1>10. paid(fuel) \in Nat /\ fuel \in Nat \ {0}
  BY <1>1, <1>2 DEF paid
<1> QED
  BY <1>1, <1>2, <1>3, <1>4, <1>6, <1>7, <1>8, <1>9, <1>10 DEF Fetches

LEMMA BecomesKeeps ==
  ASSUME MachineInv, frames # <<>>, NEW frame \in AFrame(wasm), Within(frame, MAX_STACK + 1),
         NEW left \in Nat, Becomes(frame, left)
  PROVE  MachineInv'
<1>1. /\ frames' = [frames EXCEPT ![Len(frames)] = frame] /\ fuel' = left
      /\ image' = image /\ wasm' = wasm /\ outcome' = outcome
  BY DEF Becomes, loaded
<1>2. frames \in Seq(AFrame(wasm)) /\ Len(frames) <= MAX_FRAMES
  BY DEF MachineInv, AtMost
<1> DEFINE F == AFrame(wasm)
<1> HIDE DEF F
<1>3. frames \in Seq(F) /\ Len(frames) \in DOMAIN frames /\ frame \in F
  BY <1>2 DEF F
<1>4. frames' \in Seq(F) /\ Len(frames') = Len(frames) /\ DOMAIN frames' = DOMAIN frames
  BY <1>1, <1>3
<1>5. \A i \in DOMAIN frames :
        frames'[i] = IF i = Len(frames) THEN frame ELSE frames[i]
  BY <1>1, <1>3
<1>6. \A i \in DOMAIN frames' :
        Within(frames'[i], IF i = Len(frames') THEN MAX_STACK + 1 ELSE MAX_STACK)
  BY <1>4, <1>5 DEF MachineInv
<1>7. AFrame(wasm)' = F /\ AModule(Len(image))' = AModule(Len(image))
  BY <1>1 DEF AFrame, F, AModule, AFunction, ABody
<1>8. frames' \in AtMost(F, MAX_FRAMES)
  BY <1>2, <1>4 DEF AtMost
<1>9. frames' # <<>>
  BY <1>3, <1>4
<1> QED
  BY <1>1, <1>6, <1>7, <1>8, <1>9 DEF MachineInv, Within, AtMost

LEMMA TrapsKeeps ==
  ASSUME MachineInv, NEW trap, trap # "Running", NEW left \in Nat, Traps(trap, left)
  PROVE  MachineInv'
<1>1. outcome' = trap /\ frames' = <<>> /\ fuel' = left /\ image' = image /\ wasm' = wasm
  BY DEF Traps, loaded
<1>2. AModule(Len(image))' = AModule(Len(image))
  BY <1>1 DEF AModule, AFunction, ABody
<1>3. (<<>> \in AtMost(AFrame(wasm), MAX_FRAMES))'
  BY MachineAssumption DEF AtMost
<1> QED
  BY <1>1, <1>2, <1>3 DEF MachineInv

LEMMA ReturnsKeeps ==
  ASSUME MachineInv, frames # <<>>, NEW stack \in Seq(Int), NEW left \in Nat,
         Returns(stack, left)
  PROVE  MachineInv'
<1> DEFINE given == IF returns_value /\ stack # <<>> THEN <<Last(stack)>> ELSE <<>>
           n == Len(frames) - 1
           caller == [frames[n] EXCEPT !.stack = @ \o given]
           F == AFrame(wasm)
<1>1. Len(frames) \in 1..MAX_FRAMES /\ top \in F
  BY TopFacts
<1>2. given \in Seq(Int) /\ Len(given) <= 1 /\ Len(given) \in Nat
  <2>2. stack # <<>> => Last(stack) \in Int
    BY DEF Last
  <2> DEFINE x == Last(stack)
  <2>3. stack # <<>> => x \in Int
    BY <2>2
  <2> HIDE DEF x
  <2>4. stack # <<>> => <<x>> \in Seq(Int) /\ Len(<<x>>) = 1
    BY <2>3
  <2>5. (given = <<x>> /\ stack # <<>>) \/ given = <<>>
    BY DEF x
  <2>6. <<>> \in Seq(Int) /\ Len(<<>>) = 0
    OBVIOUS
  <2> HIDE DEF given
  <2>7. CASE given = <<>>
    BY <2>6, <2>7
  <2>8. CASE given = <<x>> /\ stack # <<>>
    BY <2>4, <2>8
  <2> QED
    BY <2>5, <2>7, <2>8
<1> HIDE DEF given
<1>3. CASE n = 0
  <2>1. Traps("Done", left)
    BY <1>3 DEF Returns
  <2> QED
    BY <2>1, TrapsKeeps
<1>4. CASE n # 0
  <2>1. /\ frames' = [SubSeq(frames, 1, n) EXCEPT ![n].stack = @ \o given] /\ fuel' = left
        /\ image' = image /\ wasm' = wasm /\ outcome' = outcome
    BY <1>4 DEF Returns, loaded, given
  <2>2. frames \in Seq(F) /\ Len(frames) <= MAX_FRAMES /\ n \in 1..Len(frames) /\ n \in Nat
        /\ n < Len(frames)
    <3>1. frames \in Seq(F) /\ Len(frames) <= MAX_FRAMES
      BY DEF MachineInv, AtMost
    <3>2. n \in 1..Len(frames) /\ n \in Nat /\ n < Len(frames)
      <4> DEFINE l == Len(frames)
      <4>1. l \in 1..MAX_FRAMES /\ l - 1 # 0
        BY <1>1, <1>4
      <4> HIDE DEF l
      <4>2. l - 1 \in 1..l /\ l - 1 \in Nat /\ l - 1 < l
        BY <4>1, MachineAssumption
      <4> QED
        BY <4>2 DEF l
    <3> QED
      BY <3>1, <3>2
  <2>3. frames[n] \in F /\ Within(frames[n], MAX_STACK)
    BY <2>2 DEF MachineInv
  <2>4. caller \in F /\ Within(caller, MAX_STACK + 1)
    <3>1. frames[n].stack \in Seq(Int) /\ Len(frames[n].labels) \in Nat
      BY <2>3 DEF AFrame
    <3> DEFINE s == frames[n].stack
               t == s \o given
    <3>2. t \in Seq(Int) /\ Len(t) = Len(s) + Len(given) /\ Len(s) \in Nat
      <4>1. s \in Seq(Int)
        BY <3>1
      <4> HIDE DEF s
      <4> QED
        BY <1>2, <4>1
    <3>3. caller = [frames[n] EXCEPT !.stack = t]
      OBVIOUS
    <3> HIDE DEF t, caller
    <3>4. caller \in F /\ caller.stack = t /\ caller.labels = frames[n].labels
      BY <2>3, <3>2, <3>3 DEF AFrame
    <3>5. Len(s) <= MAX_STACK /\ Len(frames[n].labels) <= MAX_STACK
      BY <2>3 DEF Within
    <3> HIDE DEF s
    <3> QED
      BY <1>2, <3>1, <3>2, <3>4, <3>5, MachineAssumption DEF Within
  <2> HIDE DEF caller, F
  <2> DEFINE rest == SubSeq(frames, 1, n)
  <2>5. rest \in Seq(F) /\ Len(rest) = n /\ \A i \in 1..n : rest[i] = frames[i]
    BY <2>2
  <2>6. frames' = [rest EXCEPT ![n] = caller]
    <3>1. rest[n] = frames[n]
      BY <2>2, <2>5
    <3> QED
      BY <2>1, <3>1 DEF caller
  <2> HIDE DEF rest, n
  <2>7. /\ frames' \in Seq(F) /\ Len(frames') = n /\ DOMAIN frames' = 1..n
        /\ \A i \in 1..n : frames'[i] = IF i = n THEN caller ELSE frames[i]
    BY <2>2, <2>4, <2>5, <2>6
  <2>8. AFrame(wasm)' = F /\ AModule(Len(image))' = AModule(Len(image))
    BY <2>1 DEF AFrame, F, AModule, AFunction, ABody
  <2>9. frames' \in AtMost(F, MAX_FRAMES)
    BY <2>2, <2>7, MachineAssumption DEF AtMost
  <2>10. frames' # <<>>
    BY <2>2, <2>7
  <2>11. \A i \in DOMAIN frames' :
           Within(frames'[i], IF i = Len(frames') THEN MAX_STACK + 1 ELSE MAX_STACK)
    <3> SUFFICES ASSUME NEW i \in 1..n
                 PROVE  Within(frames'[i], IF i = n THEN MAX_STACK + 1 ELSE MAX_STACK)
      BY <2>7
    <3>1. i # n => i \in DOMAIN frames /\ i # Len(frames)
      BY <2>2
    <3>2. i # n => Within(frames[i], MAX_STACK)
      BY <3>1 DEF MachineInv
    <3> QED
      BY <2>4, <2>7, <3>2
  <2> QED
    BY <2>1, <2>8, <2>9, <2>10, <2>11 DEF MachineInv, Within, AtMost
<1> QED
  BY <1>3, <1>4

LEMMA ActivationFits ==
  ASSUME NEW N \in Nat, NEW m \in AModule(N), NEW index \in Nat, index >= Len(m.imports),
         NEW arguments \in Seq(Int), Len(arguments) <= MAX_STACK, NEW depth \in Nat
  PROVE  /\ activation(m, index, arguments, depth).error
              \in {"None", "StackOverflow", "Malformed", "Faulted"}
         /\ activation(m, index, arguments, depth).error = "None" =>
              /\ depth < MAX_FRAMES
              /\ activation(m, index, arguments, depth).value \in AFrame(m)
              /\ activation(m, index, arguments, depth).value.stack = <<>>
              /\ activation(m, index, arguments, depth).value.labels = <<>>
<1> DEFINE f == index - Len(m.imports) + 1
           function == m.functions[f]
           zeros == [i \in DOMAIN function.body.locals |-> 0]
           frame == [function |-> f, at |-> function.body.start, locals |-> arguments \o zeros,
                     stack |-> <<>>, labels |-> <<>>]
           c == activation(m, index, arguments, depth)
           bad == Len(arguments) # Len(function_type(m, index).params)
<1>1. c = IF depth >= MAX_FRAMES THEN Err("StackOverflow")
          ELSE IF f > Len(m.functions) \/ ~has_function_type(m, index) THEN Err("Malformed")
          ELSE IF bad THEN Err("Faulted")
          ELSE IF function.body.start > function.body.end THEN Err("Malformed")
          ELSE Ok(frame, 0)
  BY DEF activation, too_deep
<1>2. Len(m.imports) \in Nat /\ m.functions \in Seq(AFunction(N)) /\ f \in Nat \ {0}
  <2>1. m.imports \in Seq(AnImport) /\ m.functions \in Seq(AFunction(N))
    BY DEF AModule, AtMost
  <2>2. Len(m.imports) \in Nat
    BY <2>1
  <2> QED
    BY <2>1, <2>2
<1>3. ~(f > Len(m.functions)) => f \in DOMAIN m.functions /\ function \in AFunction(N)
  <2> DEFINE fs == m.functions
             S == AFunction(N)
  <2>1. fs \in Seq(S) /\ f \in Nat \ {0}
    BY <1>2
  <2> HIDE DEF f, fs, S
  <2>2. ~(f > Len(fs)) => f \in DOMAIN fs /\ fs[f] \in S
    BY <2>1
  <2> QED
    BY <2>2 DEF fs, S
<1>4. ~(f > Len(m.functions)) => frame \in AFrame(m)
  <2> SUFFICES ASSUME ~(f > Len(m.functions))  PROVE frame \in AFrame(m)
    OBVIOUS
  <2>1. function.body.locals \in AtMost(Byte, MAX_LOCALS) /\ function.body.start \in Nat
    BY <1>3 DEF AFunction, ABody
  <2> DEFINE l == function.body.locals
  <2>2. l \in Seq(Byte) /\ Len(l) <= MAX_LOCALS /\ Len(l) \in Nat
    <3>1. l \in AtMost(Byte, MAX_LOCALS)
      BY <2>1
    <3> HIDE DEF l
    <3> QED
      BY <3>1, AtMostFacts, CeilingsAssumption
  <2>3. zeros = [i \in DOMAIN l |-> 0]
    OBVIOUS
  <2> HIDE DEF l, zeros
  <2>4. zeros \in Seq(Int) /\ Len(zeros) = Len(l)
    <3>1. DOMAIN l = 1..Len(l)
      BY <2>2
    <3> QED
      BY <2>2, <2>3, <3>1
  <2> DEFINE all == arguments \o zeros
  <2>5. all \in Seq(Int) /\ Len(all) = Len(arguments) + Len(zeros)
    BY <2>4, ConcatProperties
  <2> HIDE DEF all
  <2>6. all \in AtMost(Int, MAX_STACK + MAX_LOCALS)
    BY <2>2, <2>4, <2>5, MachineAssumption, CeilingsAssumption DEF AtMost
  <2> HIDE DEF f, function
  <2>7. f \in DOMAIN m.functions
    BY <1>3 DEF function
  <2> QED
    BY <2>1, <2>6, <2>7 DEF AFrame, all
<1>5. frame.stack = <<>> /\ frame.labels = <<>>
  OBVIOUS
<1> HIDE DEF frame, bad, f, function, c
<1>6. depth >= MAX_FRAMES \/ depth < MAX_FRAMES
  BY MachineAssumption
<1>7. c.error \in {"None", "StackOverflow", "Malformed", "Faulted"}
  BY <1>1 DEF Ok, Err
<1>8. c.error = "None" => depth < MAX_FRAMES /\ ~(f > Len(m.functions)) /\ c.value = frame
  BY <1>1, <1>6 DEF Ok, Err
<1> QED
  BY <1>4, <1>5, <1>7, <1>8 DEF c

-----------------------------------------------------------------------------
(* The instructions, one by one.                                           *)
LEMMA ReadyFacts ==
  ASSUME MachineInv, NEW ops, Ready(ops)
  PROVE  /\ Fetches /\ opcode \in ops /\ Len(top.stack) >= operands(opcode)
         /\ immediate.error = "None"
<1>1. Fetched(ops) /\ immediate.error = "None" /\ Len(top.stack) >= operands(opcode)
  BY DEF Ready
<1> QED
  BY <1>1, FetchedFacts

LEMMA Popped ==
  ASSUME NEW s \in Seq(Int), NEW n \in Nat, Len(s) >= n
  PROVE  /\ Pop(s, n) \in Seq(Int) /\ Len(Pop(s, n)) = Len(s) - n
         /\ \A v \in Int : Append(Pop(s, n), v) \in Seq(Int)
                             /\ Len(Append(Pop(s, n), v)) = Len(s) - n + 1
<1>1. Len(s) \in Nat /\ Len(s) - n \in 0..Len(s)
  OBVIOUS
<1> DEFINE p == SubSeq(s, 1, Len(s) - n)
<1>2. p \in Seq(Int) /\ Len(p) = Len(s) - n
  BY <1>1
<1>3. Pop(s, n) = p
  BY DEF Pop
<1> HIDE DEF p
<1>4. \A v \in Int : Append(p, v) \in Seq(Int) /\ Len(Append(p, v)) = Len(p) + 1
  BY <1>2
<1> QED
  BY <1>1, <1>2, <1>3, <1>4

Fits(frame) == frame \in AFrame(wasm) /\ Within(frame, MAX_STACK + 1)

(* The running activation, moved on, with another stack or other labels.   *)
LEMMA Moved ==
  ASSUME NEW frame \in AFrame(wasm), Within(frame, MAX_STACK), NEW at \in Nat
  PROVE  /\ Fits([frame EXCEPT !.at = at])
         /\ \A stack \in Seq(Int) : Len(stack) <= MAX_STACK + 1 =>
              /\ Fits([frame EXCEPT !.at = at, !.stack = stack])
              /\ Fits([frame EXCEPT !.stack = stack, !.at = at])
         /\ \A labels \in Seq(ALabel) : Len(labels) <= MAX_STACK + 1 =>
              Fits([frame EXCEPT !.at = at, !.labels = labels])
         /\ \A stack \in Seq(Int), labels \in Seq(ALabel) :
              Len(stack) <= MAX_STACK + 1 /\ Len(labels) <= MAX_STACK + 1 =>
                /\ Fits([frame EXCEPT !.at = at, !.stack = stack, !.labels = labels])
                /\ Fits([[frame EXCEPT !.stack = stack, !.labels = labels] EXCEPT !.at = at])
<1>1. Len(frame.stack) \in Nat /\ Len(frame.labels) \in Nat
  BY DEF AFrame
<1>2. Within(frame, MAX_STACK + 1)
  BY <1>1, MachineAssumption DEF Within
<1>3. Fits([frame EXCEPT !.at = at])
  BY <1>2 DEF Fits, AFrame, Within
<1>4. ASSUME NEW stack \in Seq(Int), Len(stack) <= MAX_STACK + 1
      PROVE  /\ Fits([frame EXCEPT !.at = at, !.stack = stack])
             /\ Fits([frame EXCEPT !.stack = stack, !.at = at])
  BY <1>2, <1>4 DEF Fits, AFrame, Within
<1>5. ASSUME NEW labels \in Seq(ALabel), Len(labels) <= MAX_STACK + 1
      PROVE  Fits([frame EXCEPT !.at = at, !.labels = labels])
  BY <1>2, <1>5 DEF Fits, AFrame, Within
<1>6. ASSUME NEW stack \in Seq(Int), NEW labels \in Seq(ALabel),
             Len(stack) <= MAX_STACK + 1, Len(labels) <= MAX_STACK + 1
      PROVE  /\ Fits([frame EXCEPT !.at = at, !.stack = stack, !.labels = labels])
             /\ Fits([[frame EXCEPT !.stack = stack, !.labels = labels] EXCEPT !.at = at])
  BY <1>6 DEF Fits, AFrame, Within
<1> QED
  BY <1>3, <1>4, <1>5, <1>6

LEMMA BecomesFits ==
  ASSUME MachineInv, Fetches, NEW frame, Fits(frame), NEW left \in Nat, Becomes(frame, left)
  PROVE  MachineInv'
BY BecomesKeeps DEF Fits, Fetches

(* What the stack and the labels of a fetched instruction are.             *)
LEMMA TopIs ==
  ASSUME Fetches
  PROVE  /\ top \in AFrame(wasm) /\ Within(top, MAX_STACK) /\ immediate.at \in Nat
         /\ top.stack \in Seq(Int) /\ Len(top.stack) \in Nat /\ Len(top.stack) <= MAX_STACK
         /\ top.labels \in Seq(ALabel) /\ Len(top.labels) \in Nat
         /\ Len(top.labels) <= MAX_STACK
         /\ top.locals \in Seq(Int) /\ frames # <<>> /\ paid(fuel) \in Nat
         /\ immediate.value \in Int
BY DEF Fetches, AFrame, Within, AtMost

LEMMA NopKeeps ==
  ASSUME MachineInv, Nop
  PROVE  MachineInv'
<1>1. Ready({\h01}) /\ Becomes([top EXCEPT !.at = immediate.at], paid(fuel))
  BY DEF Nop
<1>2. Fetches
  BY <1>1, ReadyFacts
<1>3. Fits([top EXCEPT !.at = immediate.at]) /\ paid(fuel) \in Nat
  BY <1>2, TopIs, Moved
<1> QED
  BY <1>1, <1>2, <1>3, BecomesFits

LEMMA Labelled ==
  ASSUME Fetches, NEW target \in Nat, NEW height \in Nat
  PROVE  /\ Append(top.labels, Label(target, height)) \in Seq(ALabel)
         /\ Len(Append(top.labels, Label(target, height))) <= MAX_STACK + 1
<1> DEFINE l == Label(target, height)
<1>1. l \in ALabel
  BY DEF Label, ALabel
<1>2. top.labels \in Seq(ALabel) /\ Len(top.labels) \in Nat /\ Len(top.labels) <= MAX_STACK
  BY TopIs
<1> HIDE DEF l
<1>3. Append(top.labels, l) \in Seq(ALabel) /\ Len(Append(top.labels, l)) = Len(top.labels) + 1
  BY <1>1, <1>2
<1>4. Len(top.labels) + 1 <= MAX_STACK + 1
  BY <1>2, MachineAssumption
<1> QED
  BY <1>3, <1>4 DEF l

LEMMA LoopKeeps ==
  ASSUME MachineInv, Loop
  PROVE  MachineInv'
<1> DEFINE labels == Append(top.labels, Label(immediate.at, Len(top.stack)))
<1>1. Ready({\h03}) /\ Becomes([top EXCEPT !.at = immediate.at, !.labels = labels], paid(fuel))
  BY DEF Loop
<1>2. Fetches
  BY <1>1, ReadyFacts
<1>3. labels \in Seq(ALabel) /\ Len(labels) <= MAX_STACK + 1
  BY <1>2, Labelled, TopIs
<1> HIDE DEF labels
<1>4. Fits([top EXCEPT !.at = immediate.at, !.labels = labels]) /\ paid(fuel) \in Nat
  BY <1>2, <1>3, TopIs, Moved
<1> QED
  BY <1>1, <1>2, <1>4, BecomesFits

(* A scan for an `end` from behind the immediates, on what fuel is left.   *)
LEMMA LooksAhead ==
  ASSUME MachineInv, Fetches, NEW left \in Nat
  PROVE  /\ Ends_well(find_end(code, immediate.at, left), Len(code), left)
         /\ Ends_well(find_else(code, immediate.at, left), Len(code), left)
<1>1. code \in Seq(Byte) /\ immediate.at \in 0..Len(code)
  BY DEF Fetches
<1> QED
  BY <1>1, ScanEnds DEF find_end, find_else

LEMMA EndsWell ==
  ASSUME NEW e, NEW N \in Nat, NEW left \in Nat, Ends_well(e, N, left)
  PROVE  /\ e.fuel \in Nat /\ e.fuel <= left /\ e.at \in Nat /\ e.trap # "Running"
         /\ e.trap # "HostDenied" /\ (e.else_at # None => e.else_at \in Nat)
BY DEF Ends_well, ScanTraps

LEMMA BlockKeeps ==
  ASSUME MachineInv, Block
  PROVE  MachineInv'
<1> DEFINE end == find_end(code, immediate.at, paid(fuel))
           labels == Append(top.labels, Label(end.at, Len(top.stack)))
<1>1. /\ Ready({\h02})
      /\ IF end.trap # "None" THEN Traps(end.trap, end.fuel)
         ELSE Becomes([top EXCEPT !.at = immediate.at, !.labels = labels], end.fuel)
  BY DEF Block
<1>2. Fetches
  BY <1>1, ReadyFacts
<1>3. end.fuel \in Nat /\ end.at \in Nat /\ end.trap # "Running"
  <2>1. paid(fuel) \in Nat /\ Len(code) \in Nat
    BY <1>2 DEF Fetches
  <2> QED
    BY <1>2, <2>1, LooksAhead, EndsWell
<1> HIDE DEF end
<1>4. labels \in Seq(ALabel) /\ Len(labels) <= MAX_STACK + 1
  BY <1>2, <1>3, Labelled, TopIs
<1> HIDE DEF labels
<1>5. Fits([top EXCEPT !.at = immediate.at, !.labels = labels])
  BY <1>2, <1>4, TopIs, Moved
<1>6. CASE end.trap # "None"
  BY <1>1, <1>3, <1>6, TrapsKeeps
<1>7. CASE end.trap = "None"
  BY <1>1, <1>2, <1>3, <1>5, <1>7, BecomesFits
<1> QED
  BY <1>6, <1>7

LEMMA IfKeeps ==
  ASSUME MachineInv, If
  PROVE  MachineInv'
<1> DEFINE end == find_end(code, immediate.at, paid(fuel))
           else == find_else(code, immediate.at, end.fuel)
           stack == Pop(top.stack, 1)
           labels == Append(top.labels, Label(end.at, Len(stack)))
           opened == [top EXCEPT !.stack = stack, !.labels = labels]
<1>1. /\ Ready({\h04})
      /\ \/ Traps(end.trap, end.fuel) /\ end.trap # "None"
         \/ Traps("Faulted", end.fuel)
         \/ top.stack # <<>> /\ Becomes([opened EXCEPT !.at = immediate.at], end.fuel)
         \/ Traps(else.trap, else.fuel)
         \/ /\ top.stack # <<>> /\ else.else_at # None
            /\ Becomes([opened EXCEPT !.at = else.else_at], else.fuel)
         \/ /\ top.stack # <<>>
            /\ Becomes([top EXCEPT !.stack = stack, !.at = else.at], else.fuel)
  BY DEF If
<1>2. Fetches
  BY <1>1, ReadyFacts
<1>3. paid(fuel) \in Nat /\ Len(code) \in Nat
  BY <1>2 DEF Fetches
<1>4. end.fuel \in Nat /\ end.at \in Nat /\ end.trap # "Running"
  BY <1>2, <1>3, LooksAhead, EndsWell
<1> HIDE DEF end
<1>5. /\ else.fuel \in Nat /\ else.at \in Nat /\ else.trap # "Running"
      /\ else.else_at # None => else.else_at \in Nat
  BY <1>2, <1>3, <1>4, LooksAhead, EndsWell
<1> HIDE DEF else
<1>6. top.stack # <<>> => stack \in Seq(Int) /\ Len(stack) \in Nat /\ Len(stack) <= MAX_STACK + 1
  <2>1. top.stack \in Seq(Int) /\ Len(top.stack) \in Nat /\ Len(top.stack) <= MAX_STACK
    BY <1>2, TopIs
  <2>2. top.stack # <<>> => Len(top.stack) >= 1
    BY <2>1
  <2>3. top.stack # <<>> => stack \in Seq(Int) /\ Len(stack) = Len(top.stack) - 1
    BY <2>1, <2>2, Popped
  <2> QED
    BY <2>1, <2>2, <2>3, MachineAssumption
<1> HIDE DEF stack
<1>7. top.stack # <<>> => labels \in Seq(ALabel) /\ Len(labels) <= MAX_STACK + 1
  BY <1>2, <1>4, <1>6, Labelled
<1> HIDE DEF labels
<1>8. ASSUME top.stack # <<>>, NEW at \in Nat
      PROVE  Fits([opened EXCEPT !.at = at]) /\ Fits([top EXCEPT !.stack = stack, !.at = at])
  BY <1>2, <1>6, <1>7, <1>8, TopIs, Moved
<1> HIDE DEF opened
<1>9. CASE Traps(end.trap, end.fuel)
  BY <1>4, <1>9, TrapsKeeps
<1>10. CASE Traps("Faulted", end.fuel)
  BY <1>4, <1>10, TrapsKeeps
<1>11. CASE top.stack # <<>> /\ Becomes([opened EXCEPT !.at = immediate.at], end.fuel)
  <2>1. Fits([opened EXCEPT !.at = immediate.at])
    BY <1>2, <1>8, <1>11, TopIs
  <2> QED
    BY <1>2, <1>4, <1>11, <2>1, BecomesFits
<1>12. CASE Traps(else.trap, else.fuel)
  BY <1>5, <1>12, TrapsKeeps
<1>13. CASE /\ top.stack # <<>> /\ else.else_at # None
            /\ Becomes([opened EXCEPT !.at = else.else_at], else.fuel)
  <2>1. Fits([opened EXCEPT !.at = else.else_at])
    BY <1>5, <1>8, <1>13
  <2> QED
    BY <1>2, <1>5, <1>13, <2>1, BecomesFits
<1>14. CASE top.stack # <<>> /\ Becomes([top EXCEPT !.stack = stack, !.at = else.at], else.fuel)
  <2>1. Fits([top EXCEPT !.stack = stack, !.at = else.at])
    BY <1>5, <1>8, <1>14
  <2> QED
    BY <1>2, <1>5, <1>14, <2>1, BecomesFits
<1> QED
  BY <1>1, <1>9, <1>10, <1>11, <1>12, <1>13, <1>14

LEMMA Shortened ==
  ASSUME NEW V, NEW s \in Seq(V), NEW n \in Int, n <= Len(s)
  PROVE  /\ SubSeq(s, 1, n) \in Seq(V) /\ Len(SubSeq(s, 1, n)) \in Nat
         /\ Len(SubSeq(s, 1, n)) <= Len(s) /\ (n >= 0 => Len(SubSeq(s, 1, n)) = n)
         /\ Len(s) \in Nat
<1>1. Len(s) \in Nat
  OBVIOUS
<1>2. CASE n >= 0
  <2>1. n \in 0..Len(s)
    BY <1>1, <1>2
  <2>2. SubSeq(s, 1, n) \in Seq(V) /\ Len(SubSeq(s, 1, n)) = n
    BY <1>1, <2>1
  <2> QED
    BY <1>1, <2>1, <2>2
<1>3. CASE n < 0
  <2>1. SubSeq(s, 1, n) = <<>>
    BY <1>3
  <2> QED
    BY <1>1, <1>3, <2>1
<1> QED
  BY <1>2, <1>3

LEMMA ElseKeeps ==
  ASSUME MachineInv, Else
  PROVE  MachineInv'
<1> DEFINE end == find_end(code, immediate.at, paid(fuel))
           labels == closed(top.labels)
<1>1. /\ Ready({\h05})
      /\ \/ Traps(end.trap, end.fuel) \/ Traps("Malformed", end.fuel)
         \/ /\ top.labels # <<>>
            /\ Becomes([top EXCEPT !.at = end.at, !.labels = labels], end.fuel)
  BY DEF Else
<1>2. Fetches
  BY <1>1, ReadyFacts
<1>3. end.fuel \in Nat /\ end.at \in Nat /\ end.trap # "Running"
  <2>1. paid(fuel) \in Nat /\ Len(code) \in Nat
    BY <1>2 DEF Fetches
  <2> QED
    BY <1>2, <2>1, LooksAhead, EndsWell
<1> HIDE DEF end
<1>4. labels \in Seq(ALabel) /\ Len(labels) <= MAX_STACK + 1
  <2> DEFINE l == top.labels
  <2>1. l \in Seq(ALabel) /\ Len(l) \in Nat /\ Len(l) <= MAX_STACK
    BY <1>2, TopIs
  <2>2. labels = SubSeq(l, 1, Len(l) - 1)
    BY DEF closed, Front
  <2> HIDE DEF l, labels
  <2>3. SubSeq(l, 1, Len(l) - 1) \in Seq(ALabel) /\ Len(SubSeq(l, 1, Len(l) - 1)) \in Nat
        /\ Len(SubSeq(l, 1, Len(l) - 1)) <= Len(l)
    BY <2>1, Shortened
  <2> QED
    BY <2>1, <2>2, <2>3, MachineAssumption
<1> HIDE DEF labels
<1>5. Fits([top EXCEPT !.at = end.at, !.labels = labels])
  BY <1>2, <1>3, <1>4, TopIs, Moved
<1>6. CASE Traps(end.trap, end.fuel)
  BY <1>3, <1>6, TrapsKeeps
<1>7. CASE Traps("Malformed", end.fuel)
  BY <1>3, <1>7, TrapsKeeps
<1>8. CASE Becomes([top EXCEPT !.at = end.at, !.labels = labels], end.fuel)
  BY <1>2, <1>3, <1>5, <1>8, BecomesFits
<1> QED
  BY <1>1, <1>6, <1>7, <1>8

LEMMA EndKeeps ==
  ASSUME MachineInv, End
  PROVE  MachineInv'
<1> DEFINE labels == SubSeq(top.labels, 1, Len(top.labels) - 1)
<1>1. Ready({\h0b})
  BY DEF End
<1>2. Fetches
  BY <1>1, ReadyFacts
<1>3. \/ Returns(top.stack, paid(fuel))
      \/ Becomes([top EXCEPT !.at = immediate.at, !.labels = labels], paid(fuel))
  BY DEF End, Front
<1>4. labels \in Seq(ALabel) /\ Len(labels) <= MAX_STACK + 1
  <2> DEFINE l == top.labels
  <2>1. l \in Seq(ALabel) /\ Len(l) \in Nat /\ Len(l) <= MAX_STACK
    BY <1>2, TopIs
  <2> HIDE DEF l
  <2>2. SubSeq(l, 1, Len(l) - 1) \in Seq(ALabel) /\ Len(SubSeq(l, 1, Len(l) - 1)) \in Nat
        /\ Len(SubSeq(l, 1, Len(l) - 1)) <= Len(l)
    BY <2>1, Shortened
  <2>3. Len(SubSeq(l, 1, Len(l) - 1)) <= MAX_STACK + 1
    BY <2>1, <2>2, MachineAssumption
  <2> QED
    BY <2>2, <2>3 DEF l
<1> HIDE DEF labels
<1>5. Fits([top EXCEPT !.at = immediate.at, !.labels = labels]) /\ paid(fuel) \in Nat
  BY <1>2, <1>4, TopIs, Moved
<1>6. CASE Returns(top.stack, paid(fuel))
  BY <1>2, <1>5, <1>6, TopIs, ReturnsKeeps
<1>7. CASE Becomes([top EXCEPT !.at = immediate.at, !.labels = labels], paid(fuel))
  BY <1>2, <1>5, <1>7, BecomesFits
<1> QED
  BY <1>3, <1>6, <1>7

LEMMA ReturnKeeps ==
  ASSUME MachineInv, Return
  PROVE  MachineInv'
<1>1. Ready({\h0f}) /\ Returns(top.stack, paid(fuel))
  BY DEF Return
<1>2. frames # <<>> /\ paid(fuel) \in Nat /\ top.stack \in Seq(Int)
  BY <1>1, ReadyFacts, TopIs
<1> QED
  BY <1>1, <1>2, ReturnsKeeps

LEMMA Operands ==
  ASSUME NEW op
  PROVE  /\ operands(op) \in 0..3 /\ operands(op) \in Nat
         /\ op \in {\h1a, \h21, \h22} => operands(op) = 1
         /\ op \in Loads \cup Stores \cup Numeric1 \cup Numeric2 => operands(op) >= 1
         /\ op = \h1b => operands(op) = 3
<1>1. operands(op) \in 0..3 /\ operands(op) \in Nat
  BY DEF operands
<1> DEFINE one == {\h0d, \h1a, \h21, \h22} \cup Loads \cup Numeric1
           two == Stores \cup Numeric2
<1>5. \A x \in one : x \notin two /\ x # \h1b
  BY DEF Loads, Stores, Numeric1, Numeric2
<1>6. \A x \in two : x \notin one /\ x # \h1b
  BY DEF Loads, Stores, Numeric1, Numeric2
<1>7. operands(op) = CASE op \in one -> 1 [] op \in two -> 2 [] op = \h1b -> 3 [] OTHER -> 0
  BY DEF operands
<1>8. op \in {\h1a, \h21, \h22} => op \in one
  OBVIOUS
<1>9. op \in Loads \cup Stores \cup Numeric1 \cup Numeric2 => op \in one \/ op \in two
  OBVIOUS
<1> HIDE DEF one, two
<1>10. (op \in one => operands(op) = 1) /\ (op \in two => operands(op) = 2)
  BY <1>5, <1>6, <1>7
<1>2. op \in {\h1a, \h21, \h22} => operands(op) = 1
  BY <1>8, <1>10
<1>3. op \in Loads \cup Stores \cup Numeric1 \cup Numeric2 => operands(op) >= 1
  BY <1>9, <1>10
<1>4. op = \h1b => operands(op) = 3
  BY DEF operands, Loads, Stores, Numeric1, Numeric2
<1> QED
  BY <1>1, <1>2, <1>3, <1>4

LEMMA BranchKeeps ==
  ASSUME MachineInv, Branch
  PROVE  MachineInv'
<1> DEFINE stack == Pop(top.stack, operands(opcode))
           depth == immediate.value
           label == top.labels[Len(top.labels) - depth]
           carried == IF label.returns_value /\ ~label.is_loop /\ stack # <<>>
                      THEN <<Last(stack)>> ELSE <<>>
           rest == IF carried # <<>> THEN Pop(stack, 1) ELSE stack
           unwound == IF Len(rest) > label.height THEN SubSeq(rest, 1, label.height) ELSE rest
           all == unwound \o carried
           kept == kept_labels(top.labels, depth, label)
<1>1. /\ Ready({\h0c, \h0d})
      /\ \/ Becomes([top EXCEPT !.at = immediate.at, !.stack = stack], paid(fuel))
         \/ Returns(stack, paid(fuel))
         \/ /\ depth < Len(top.labels)
            /\ Becomes([top EXCEPT !.at = label.target, !.stack = all, !.labels = kept], paid(fuel))
  BY DEF Branch
<1>2. Fetches /\ opcode \in {12, 13} /\ Len(top.stack) >= operands(opcode)
  BY <1>1, ReadyFacts
<1>3. /\ top.stack \in Seq(Int) /\ Len(top.stack) \in Nat /\ Len(top.stack) <= MAX_STACK
      /\ top.labels \in Seq(ALabel) /\ Len(top.labels) \in Nat /\ Len(top.labels) <= MAX_STACK
      /\ paid(fuel) \in Nat /\ immediate.at \in Nat /\ frames # <<>>
  BY <1>2, TopIs
<1>4. depth \in Nat
  BY <1>2 DEF Fetches, Indexed
<1> HIDE DEF depth
<1>5. stack \in Seq(Int) /\ Len(stack) \in Nat /\ Len(stack) <= MAX_STACK
  <2>1. operands(opcode) \in Nat
    BY Operands
  <2>2. stack \in Seq(Int) /\ Len(stack) = Len(top.stack) - operands(opcode)
    BY <1>2, <1>3, <2>1, Popped
  <2> QED
    BY <1>2, <1>3, <2>1, <2>2, MachineAssumption
<1> HIDE DEF stack
<1>6. depth < Len(top.labels) =>
        /\ label \in ALabel
        /\ kept \in Seq(ALabel) /\ Len(kept) <= MAX_STACK + 1
  <2> SUFFICES ASSUME depth < Len(top.labels)
               PROVE  /\ label \in ALabel
                      /\ kept \in Seq(ALabel) /\ Len(kept) <= MAX_STACK + 1
    OBVIOUS
  <2> DEFINE l == top.labels
             less == IF label.is_loop THEN 0 ELSE 1
             n == Len(l) - depth - less
  <2>1. kept = SubSeq(l, 1, n)
    BY DEF kept_labels
  <2>2. l \in Seq(ALabel) /\ Len(l) \in Nat /\ Len(l) - depth \in 1..Len(l)
    BY <1>3, <1>4
  <2> HIDE DEF kept
  <2>3. label \in ALabel
    BY <2>2
  <2> HIDE DEF label, l
  <2>4. less \in 0..1
    OBVIOUS
  <2> HIDE DEF less
  <2>5. n \in Int /\ n <= Len(l)
    BY <1>4, <2>2, <2>4
  <2> HIDE DEF n
  <2>6. kept \in Seq(ALabel) /\ Len(kept) \in Nat /\ Len(kept) <= Len(l)
    BY <2>1, <2>2, <2>5, Shortened
  <2>7. Len(l) <= MAX_STACK
    BY <1>3 DEF l
  <2> QED
    BY <2>2, <2>3, <2>6, <2>7, MachineAssumption
<1> HIDE DEF kept, label
<1>7. label \in ALabel => label.height \in Nat /\ label.target \in Nat
  BY DEF ALabel
<1>8. label \in ALabel => all \in Seq(Int) /\ Len(all) <= MAX_STACK + 1
  <2> SUFFICES ASSUME label \in ALabel  PROVE all \in Seq(Int) /\ Len(all) <= MAX_STACK + 1
    OBVIOUS
  <2> DEFINE x == Last(stack)
  <2>1. stack # <<>> => x \in Int /\ Len(stack) >= 1
    BY <1>5 DEF Last
  <2>2. carried = <<>> \/ (carried = <<x>> /\ stack # <<>>)
    OBVIOUS
  <2> HIDE DEF x, carried
  <2>3. carried \in Seq(Int) /\ Len(carried) \in Nat
    <3>1. CASE carried = <<>>
      BY <3>1
    <3>2. CASE carried = <<x>> /\ stack # <<>>
      BY <2>1, <3>2
    <3> QED
      BY <2>2, <3>1, <3>2
  <2>4. rest \in Seq(Int) /\ Len(rest) \in Nat /\ Len(rest) + Len(carried) <= Len(stack)
    <3>1. CASE carried = <<>>
      <4>1. rest = stack /\ Len(carried) = 0
        BY <3>1
      <4> QED
        BY <1>5, <4>1
    <3>2. CASE carried # <<>>
      <4>1. carried = <<x>> /\ Len(stack) >= 1 /\ rest = Pop(stack, 1)
        BY <2>1, <2>2, <3>2
      <4>2. Len(carried) = 1
        BY <4>1
      <4>3. rest \in Seq(Int) /\ Len(rest) = Len(stack) - 1
        BY <1>5, <4>1, Popped
      <4> QED
        BY <1>5, <4>1, <4>2, <4>3
    <3> QED
      BY <3>1, <3>2
  <2> HIDE DEF rest
  <2>5. unwound \in Seq(Int) /\ Len(unwound) \in Nat /\ Len(unwound) <= Len(rest)
    <3>1. CASE Len(rest) > label.height
      <4> DEFINE h == label.height
      <4>1. h \in Int /\ h <= Len(rest) /\ unwound = SubSeq(rest, 1, h)
        BY <1>7, <2>4, <3>1
      <4> HIDE DEF h, unwound
      <4> QED
        BY <2>4, <4>1, Shortened
    <3>2. CASE ~(Len(rest) > label.height)
      BY <2>4, <3>2
    <3> QED
      BY <3>1, <3>2
  <2> HIDE DEF unwound
  <2>6. all \in Seq(Int) /\ Len(all) = Len(unwound) + Len(carried)
    BY <2>3, <2>5, ConcatProperties
  <2> HIDE DEF all
  <2>7. Len(all) <= Len(stack)
    BY <1>5, <2>3, <2>4, <2>5, <2>6
  <2> QED
    BY <1>5, <2>3, <2>5, <2>6, <2>7, MachineAssumption
<1> HIDE DEF all
<1>9. Fits([top EXCEPT !.at = immediate.at, !.stack = stack])
  <2>1. Len(stack) <= MAX_STACK + 1
    BY <1>5, MachineAssumption
  <2> QED
    BY <1>2, <1>5, <2>1, TopIs, Moved
<1>10. depth < Len(top.labels) =>
         Fits([top EXCEPT !.at = label.target, !.stack = all, !.labels = kept])
  <2> SUFFICES ASSUME depth < Len(top.labels)
               PROVE  Fits([top EXCEPT !.at = label.target, !.stack = all, !.labels = kept])
    OBVIOUS
  <2>1. label.target \in Nat /\ all \in Seq(Int) /\ Len(all) <= MAX_STACK + 1
    BY <1>6, <1>7, <1>8
  <2>2. kept \in Seq(ALabel) /\ Len(kept) <= MAX_STACK + 1
    BY <1>6
  <2>3. top \in AFrame(wasm) /\ Within(top, MAX_STACK)
    BY <1>2, TopIs
  <2> QED
    BY <2>1, <2>2, <2>3, Moved
<1>11. CASE Becomes([top EXCEPT !.at = immediate.at, !.stack = stack], paid(fuel))
  BY <1>2, <1>3, <1>9, <1>11, BecomesFits
<1>12. CASE Returns(stack, paid(fuel))
  BY <1>3, <1>5, <1>12, ReturnsKeeps
<1>13. CASE /\ depth < Len(top.labels)
            /\ Becomes([top EXCEPT !.at = label.target, !.stack = all, !.labels = kept], paid(fuel))
  BY <1>2, <1>3, <1>10, <1>13, BecomesFits
<1> QED
  BY <1>1, <1>11, <1>12, <1>13

LEMMA ParamsAre ==
  ASSUME NEW N \in Nat, NEW m \in AModule(N), NEW index \in Nat, has_function_type(m, index)
  PROVE  function_type(m, index) \in AType /\ Len(function_type(m, index).params) \in Nat
<1> DEFINE types == m.types
           imports == m.imports
           functions == m.functions
           F == AFunction(N)
           t == function_type_index(m, index)
<1>1. types \in Seq(AType) /\ imports \in Seq(AnImport) /\ functions \in Seq(F)
  BY DEF AModule, AtMost, TypesOf
<1>2. t = CASE index < Len(imports) -> imports[index + 1].type_index
            [] index - Len(imports) \in 0..(Len(functions) - 1) ->
                 functions[index - Len(imports) + 1].type_index
            [] OTHER -> Len(types)
  BY DEF function_type_index
<1>3. t < Len(types) /\ function_type(m, index) = types[t + 1]
  BY DEF has_function_type, function_type
<1> HIDE DEF types, imports, functions, t, F
<1>4. Len(types) \in Nat /\ Len(imports) \in Nat /\ Len(functions) \in Nat
  BY <1>1
<1>5. index < Len(imports) => imports[index + 1].type_index \in Nat
  <2>1. index < Len(imports) => imports[index + 1] \in AnImport
    BY <1>1, <1>4
  <2> QED
    BY <2>1 DEF AnImport
<1>6. index - Len(imports) \in 0..(Len(functions) - 1) =>
        functions[index - Len(imports) + 1].type_index \in Nat
  <2>1. index - Len(imports) \in 0..(Len(functions) - 1) =>
          index - Len(imports) + 1 \in 1..Len(functions)
    BY <1>4
  <2>2. index - Len(imports) \in 0..(Len(functions) - 1) =>
          functions[index - Len(imports) + 1] \in F
    BY <1>1, <2>1
  <2> QED
    BY <2>2 DEF F, AFunction
<1>7. ~(index < Len(imports) /\ index - Len(imports) \in 0..(Len(functions) - 1))
  BY <1>4
<1>8. t \in Nat
  BY <1>2, <1>4, <1>5, <1>6, <1>7
<1>9. types[t + 1] \in AType
  BY <1>1, <1>3, <1>4, <1>8
<1>10. \A type \in AType : Len(type.params) \in Nat
  BY DEF AType
<1> QED
  BY <1>3, <1>9, <1>10

(* The caller, past the call and without the arguments.                    *)
LEMMA CallerFits ==
  ASSUME MachineInv, Fetches, NEW index \in Nat, has_function_type(wasm, index),
         Len(top.stack) >= arguments_of(index)
  PROVE  /\ calling(index) \in AFrame(wasm) /\ Within(calling(index), MAX_STACK)
         /\ \A value \in Int : Fits([calling(index) EXCEPT !.stack = Append(@, value)])
         /\ arguments_of(index) \in Nat
<1> DEFINE n == arguments_of(index)
           stack == Pop(top.stack, n)
<1>1. n \in Nat
  <2>1. Len(image) \in Nat /\ wasm \in AModule(Len(image))
    BY DEF MachineInv
  <2> QED
    BY <2>1, ParamsAre DEF arguments_of
<1> HIDE DEF n
<1>2. /\ top.stack \in Seq(Int) /\ Len(top.stack) \in Nat /\ Len(top.stack) <= MAX_STACK
      /\ Len(top.labels) \in Nat /\ Len(top.labels) <= MAX_STACK /\ immediate.at \in Nat
      /\ top \in AFrame(wasm)
  BY TopIs
<1>3. Len(top.stack) >= n
  BY DEF n
<1>4. /\ stack \in Seq(Int) /\ Len(stack) = Len(top.stack) - n
      /\ \A v \in Int : Append(stack, v) \in Seq(Int)
                          /\ Len(Append(stack, v)) = Len(top.stack) - n + 1
  BY <1>1, <1>2, <1>3, Popped
<1>5. calling(index) = [top EXCEPT !.at = immediate.at, !.stack = stack]
  BY DEF calling, n
<1> HIDE DEF stack
<1>6. Len(stack) <= MAX_STACK /\ \A v \in Int : Len(Append(stack, v)) <= MAX_STACK + 1
  BY <1>1, <1>2, <1>3, <1>4, MachineAssumption
<1>7. calling(index) \in AFrame(wasm) /\ Within(calling(index), MAX_STACK)
  BY <1>2, <1>4, <1>5, <1>6 DEF AFrame, Within
<1>8. ASSUME NEW value \in Int
      PROVE  Fits([calling(index) EXCEPT !.stack = Append(@, value)])
  <2> DEFINE s == Append(stack, value)
  <2>1. [calling(index) EXCEPT !.stack = Append(@, value)]
          = [top EXCEPT !.at = immediate.at, !.stack = s]
    BY <1>2, <1>5 DEF AFrame
  <2>2. s \in Seq(Int) /\ Len(s) <= MAX_STACK + 1
    BY <1>4, <1>6
  <2> HIDE DEF s
  <2>3. Within(top, MAX_STACK)
    BY TopIs
  <2>4. Fits([top EXCEPT !.at = immediate.at, !.stack = s])
    BY <1>2, <2>2, <2>3, Moved
  <2> QED
    BY <2>1, <2>4
<1> QED
  BY <1>1, <1>7, <1>8 DEF n

LEMMA EntersKeeps ==
  ASSUME MachineInv, frames # <<>>, Len(frames) < MAX_FRAMES,
         NEW caller \in AFrame(wasm), Within(caller, MAX_STACK),
         NEW callee \in AFrame(wasm), callee.stack = <<>>, callee.labels = <<>>,
         NEW left \in Nat,
         frames' = Append([frames EXCEPT ![Len(frames)] = caller], callee),
         fuel' = left, UNCHANGED <<loaded, outcome>>
  PROVE  MachineInv'
<1> DEFINE F == AFrame(wasm)
           n == Len(frames)
           before == [frames EXCEPT ![n] = caller]
<1>1. image' = image /\ wasm' = wasm /\ outcome' = outcome
  BY DEF loaded
<1>2. frames \in Seq(F) /\ n \in Nat
  BY DEF MachineInv, AtMost
<1>3. AFrame(wasm)' = F /\ AModule(Len(image))' = AModule(Len(image))
  BY <1>1 DEF AFrame, F, AModule, AFunction, ABody
<1>4. caller \in F /\ callee \in F
  OBVIOUS
<1> HIDE DEF F
<1>5. n \in DOMAIN frames
  BY <1>2
<1>6. before \in Seq(F) /\ Len(before) = n
      /\ \A i \in 1..n : before[i] = IF i = n THEN caller ELSE frames[i]
  BY <1>2, <1>4, <1>5
<1> HIDE DEF before
<1>7. /\ frames' \in Seq(F) /\ Len(frames') = n + 1 /\ DOMAIN frames' = 1..(n + 1)
      /\ \A i \in 1..(n + 1) : frames'[i] = IF i = n + 1 THEN callee ELSE before[i]
  <2>1. frames' = Append(before, callee)
    BY DEF before
  <2> QED
    BY <1>2, <1>4, <1>6, <2>1
<1>8. frames' \in AtMost(F, MAX_FRAMES) /\ frames' # <<>>
  BY <1>2, <1>7, MachineAssumption DEF AtMost
<1>9. \A i \in DOMAIN frames' :
         Within(frames'[i], IF i = Len(frames') THEN MAX_STACK + 1 ELSE MAX_STACK)
  <2> SUFFICES ASSUME NEW i \in 1..(n + 1)
               PROVE  Within(frames'[i], IF i = n + 1 THEN MAX_STACK + 1 ELSE MAX_STACK)
    BY <1>7
  <2>1. CASE i = n + 1
    <3>1. frames'[i] = callee
      BY <1>7, <2>1
    <3> QED
      BY <2>1, <3>1, MachineAssumption DEF Within
  <2>2. CASE i # n + 1
    <3>1. i \in 1..n /\ frames'[i] = IF i = n THEN caller ELSE frames[i]
      BY <1>2, <1>6, <1>7, <2>2
    <3>2. i # n => Within(frames[i], MAX_STACK)
      BY <1>2, <3>1 DEF MachineInv
    <3> QED
      BY <2>2, <3>1, <3>2
  <2> QED
    BY <2>1, <2>2
<1> QED
  BY <1>1, <1>3, <1>8, <1>9 DEF MachineInv, Within, AtMost

LEMMA CallKeeps ==
  ASSUME MachineInv, Call
  PROVE  MachineInv'
<1> DEFINE index == immediate.value
           n == arguments_of(index)
           arguments == SubSeq(top.stack, Len(top.stack) - n + 1, Len(top.stack))
           callee == activation(wasm, index, arguments, Len(frames))
<1>1. /\ Ready({\h10})
      /\ \/ \E trap \in {"Malformed", "Faulted", "StackOverflow"} : Traps(trap, paid(fuel))
         \/ /\ has_function_type(wasm, index)
            /\ Len(top.stack) >= n
            /\ index >= Len(wasm.imports)
            /\ \/ callee.error # "None" /\ Traps(callee.error, paid(fuel))
               \/ /\ callee.error = "None"
                  /\ frames' = Append([frames EXCEPT ![Len(frames)] = calling(index)],
                                      callee.value)
                  /\ fuel' = paid(fuel)
                  /\ UNCHANGED <<loaded, outcome>>
  BY DEF Call
<1>2. Fetches /\ opcode = 16
  BY <1>1, ReadyFacts
<1>3. index \in Nat
  BY <1>2 DEF Fetches, Indexed
<1>4. paid(fuel) \in Nat /\ frames # <<>> /\ Len(frames) \in Nat
  BY <1>2, TopIs, TopFacts
<1>5. CASE \E trap \in {"Malformed", "Faulted", "StackOverflow"} : Traps(trap, paid(fuel))
  BY <1>4, <1>5, TrapsKeeps
<1>6. CASE /\ has_function_type(wasm, index) /\ Len(top.stack) >= n /\ index >= Len(wasm.imports)
           /\ \/ callee.error # "None" /\ Traps(callee.error, paid(fuel))
              \/ /\ callee.error = "None"
                 /\ frames' = Append([frames EXCEPT ![Len(frames)] = calling(index)],
                                     callee.value)
                 /\ fuel' = paid(fuel)
                 /\ UNCHANGED <<loaded, outcome>>
  <2> HIDE DEF index
  <2>1. /\ calling(index) \in AFrame(wasm) /\ Within(calling(index), MAX_STACK) /\ n \in Nat
    BY <1>2, <1>3, <1>6, CallerFits
  <2> HIDE DEF n
  <2>2. arguments \in Seq(Int) /\ Len(arguments) <= MAX_STACK
    <3> DEFINE s == top.stack
    <3>1. s \in Seq(Int) /\ Len(s) \in Nat /\ Len(s) <= MAX_STACK
      BY <1>2, TopIs
    <3>2. Len(s) >= n
      BY <1>6
    <3>3. arguments = SubSeq(s, Len(s) - n + 1, Len(s))
      OBVIOUS
    <3> HIDE DEF s, arguments
    <3>4. /\ SubSeq(s, Len(s) - n + 1, Len(s)) \in Seq(Int)
          /\ Len(SubSeq(s, Len(s) - n + 1, Len(s))) = n
      <4>1. Len(s) - n + 1 \in 1..(Len(s) + 1)
        BY <2>1, <3>1, <3>2
      <4> QED
        BY <2>1, <3>1, <3>2, <4>1, SubSeqProperties
    <3> QED
      BY <2>1, <3>1, <3>2, <3>3, <3>4, MachineAssumption
  <2> HIDE DEF arguments
  <2>3. /\ callee.error \in {"None", "StackOverflow", "Malformed", "Faulted"}
        /\ callee.error = "None" =>
             /\ Len(frames) < MAX_FRAMES /\ callee.value \in AFrame(wasm)
             /\ callee.value.stack = <<>> /\ callee.value.labels = <<>>
    <3>1. Len(image) \in Nat /\ wasm \in AModule(Len(image))
      BY DEF MachineInv
    <3> QED
      BY <1>3, <1>4, <1>6, <2>2, <3>1, ActivationFits
  <2> HIDE DEF callee
  <2>4. CASE Traps(callee.error, paid(fuel))
    BY <1>4, <2>3, <2>4, TrapsKeeps
  <2>5. CASE /\ callee.error = "None"
             /\ frames' = Append([frames EXCEPT ![Len(frames)] = calling(index)], callee.value)
             /\ fuel' = paid(fuel)
             /\ UNCHANGED <<loaded, outcome>>
    BY <1>4, <2>1, <2>3, <2>5, EntersKeeps
  <2> QED
    BY <1>6, <2>4, <2>5
<1> QED
  BY <1>1, <1>5, <1>6

LEMMA DropKeeps ==
  ASSUME MachineInv, Drop
  PROVE  MachineInv'
<1> DEFINE stack == Pop(top.stack, 1)
<1>1. Ready({\h1a}) /\ Becomes([top EXCEPT !.at = immediate.at, !.stack = stack], paid(fuel))
  BY DEF Drop
<1>2. Fetches /\ opcode = 26 /\ Len(top.stack) >= operands(opcode)
  BY <1>1, ReadyFacts
<1>3. top.stack \in Seq(Int) /\ Len(top.stack) \in Nat /\ Len(top.stack) <= MAX_STACK
  BY <1>2, TopIs
<1>4. Len(top.stack) >= 1
  BY <1>2, Operands
<1>5. stack \in Seq(Int) /\ Len(stack) <= MAX_STACK + 1
  BY <1>3, <1>4, Popped, MachineAssumption
<1> HIDE DEF stack
<1>6. Fits([top EXCEPT !.at = immediate.at, !.stack = stack]) /\ paid(fuel) \in Nat
  BY <1>2, <1>5, TopIs, Moved
<1> QED
  BY <1>1, <1>2, <1>6, BecomesFits

(* An instruction that takes operands and leaves one result.               *)
LEMMA Computes ==
  ASSUME Fetches, Len(top.stack) >= operands(opcode), NEW value \in Int
  PROVE  Fits([top EXCEPT !.at = immediate.at,
                          !.stack = Append(Pop(top.stack, operands(opcode)), value)])
<1> DEFINE n == operands(opcode)
           stack == Append(Pop(top.stack, n), value)
<1>1. n \in Nat
  BY Operands
<1> HIDE DEF n
<1>2. top.stack \in Seq(Int) /\ Len(top.stack) \in Nat /\ Len(top.stack) <= MAX_STACK
      /\ Len(top.stack) >= n
  BY TopIs DEF n
<1>3. stack \in Seq(Int) /\ Len(stack) = Len(top.stack) - n + 1
  BY <1>1, <1>2, Popped
<1> HIDE DEF stack
<1>4. Len(stack) <= MAX_STACK + 1
  BY <1>1, <1>2, <1>3, MachineAssumption
<1>5. Fits([top EXCEPT !.at = immediate.at, !.stack = stack])
  BY <1>3, <1>4, TopIs, Moved
<1> QED
  BY <1>5 DEF stack, n

LEMMA SelectKeeps ==
  ASSUME MachineInv, Select
  PROVE  MachineInv'
<1> DEFINE n == Len(top.stack)
           chosen == IF Condition(top.stack) THEN top.stack[n - 2] ELSE top.stack[n - 1]
<1>1. Ready({\h1b})
  BY DEF Select
<1>2. Fetches /\ opcode = 27 /\ n >= operands(opcode)
  BY <1>1, ReadyFacts
<1>3. operands(opcode) = 3
  BY <1>2, Operands
<1>4. Becomes([top EXCEPT !.at = immediate.at,
                          !.stack = Append(Pop(top.stack, operands(opcode)), chosen)], paid(fuel))
  BY <1>3 DEF Select
<1>5. top.stack \in Seq(Int) /\ n \in Nat
  BY <1>2, TopIs
<1>6. n - 2 \in 1..n /\ n - 1 \in 1..n
  BY <1>2, <1>3, <1>5
<1>7. chosen \in Int
  BY <1>5, <1>6
<1> HIDE DEF chosen
<1>8. Fits([top EXCEPT !.at = immediate.at,
                       !.stack = Append(Pop(top.stack, operands(opcode)), chosen)])
      /\ paid(fuel) \in Nat
  BY <1>2, <1>7, Computes, TopIs
<1> QED
  BY <1>2, <1>4, <1>8, BecomesFits

LEMMA Pushes ==
  ASSUME Fetches, NEW value \in Int
  PROVE  Fits([top EXCEPT !.at = immediate.at, !.stack = Append(top.stack, value)])
<1> DEFINE s == top.stack
           stack == Append(s, value)
<1>1. s \in Seq(Int) /\ Len(s) \in Nat /\ Len(s) <= MAX_STACK
  BY TopIs
<1> HIDE DEF s
<1>2. stack \in Seq(Int) /\ Len(stack) = Len(s) + 1
  BY <1>1
<1> HIDE DEF stack
<1>3. Len(stack) <= MAX_STACK + 1
  BY <1>1, <1>2, MachineAssumption
<1>4. Fits([top EXCEPT !.at = immediate.at, !.stack = stack])
  BY <1>2, <1>3, TopIs, Moved
<1> QED
  BY <1>4 DEF stack, s

LEMMA LocalKeeps ==
  ASSUME MachineInv, Local
  PROVE  MachineInv'
<1> DEFINE i == immediate.value + 1
           known == i \in DOMAIN top.locals
           value == Last(top.stack)
           stack == IF opcode = \h21 THEN Pop(top.stack, 1) ELSE top.stack
           written == [top EXCEPT !.at = immediate.at, !.locals[i] = value, !.stack = stack]
<1>1. /\ Ready({\h20, \h21, \h22})
      /\ \/ Traps("Faulted", paid(fuel))
         \/ /\ known
            /\ Becomes([top EXCEPT !.at = immediate.at,
                                   !.stack = Append(top.stack, top.locals[i])], paid(fuel))
         \/ /\ known /\ opcode # \h20 /\ Becomes(written, paid(fuel))
  BY DEF Local
<1>2. Fetches /\ opcode \in {32, 33, 34} /\ Len(top.stack) >= operands(opcode)
  BY <1>1, ReadyFacts
<1>3. /\ top.stack \in Seq(Int) /\ Len(top.stack) \in Nat /\ Len(top.stack) <= MAX_STACK
      /\ top.locals \in Seq(Int) /\ paid(fuel) \in Nat /\ immediate.at \in Nat
      /\ top \in AFrame(wasm) /\ Within(top, MAX_STACK)
  BY <1>2, TopIs
<1>4. known => top.locals[i] \in Int
  BY <1>3
<1>5. opcode # \h20 => /\ value \in Int /\ stack \in Seq(Int) /\ Len(stack) <= MAX_STACK + 1
  <2> SUFFICES ASSUME opcode # \h20
               PROVE  value \in Int /\ stack \in Seq(Int) /\ Len(stack) <= MAX_STACK + 1
    OBVIOUS
  <2>1. Len(top.stack) >= 1
    BY <1>2, Operands
  <2>2. value \in Int
    BY <1>3, <2>1 DEF Last
  <2>3. Pop(top.stack, 1) \in Seq(Int) /\ Len(Pop(top.stack, 1)) = Len(top.stack) - 1
    BY <1>3, <2>1, Popped
  <2> QED
    BY <1>3, <2>2, <2>3, MachineAssumption
<1> HIDE DEF value, stack
<1>6. known /\ opcode # \h20 => Fits(written)
  <2> SUFFICES ASSUME known, opcode # \h20  PROVE Fits(written)
    OBVIOUS
  <2> DEFINE l == top.locals
             locals == [l EXCEPT ![i] = value]
             C == MAX_STACK + MAX_LOCALS
  <2>1. l \in Seq(Int) /\ Len(l) <= C /\ i \in DOMAIN l
    BY <1>3 DEF AFrame, AtMost
  <2>2. written = [top EXCEPT !.at = immediate.at, !.locals = locals, !.stack = stack]
    BY <1>3 DEF AFrame
  <2> HIDE DEF l, i, written
  <2>3. locals \in Seq(Int) /\ Len(locals) = Len(l)
    BY <1>5, <2>1
  <2> HIDE DEF locals
  <2>4. locals \in AtMost(Int, C)
    BY <2>1, <2>3 DEF AtMost
  <2>5. written \in AFrame(wasm) /\ written.stack = stack /\ written.labels = top.labels
    BY <1>3, <1>5, <2>2, <2>4 DEF AFrame
  <2>6. Len(top.labels) <= MAX_STACK + 1
    BY <1>2, TopIs, MachineAssumption
  <2> QED
    BY <1>5, <2>5, <2>6 DEF Fits, Within
<1> HIDE DEF written
<1>7. CASE Traps("Faulted", paid(fuel))
  BY <1>3, <1>7, TrapsKeeps
<1>8. CASE /\ known
           /\ Becomes([top EXCEPT !.at = immediate.at,
                                  !.stack = Append(top.stack, top.locals[i])], paid(fuel))
  <2> DEFINE v == top.locals[i]
  <2>1. v \in Int
    BY <1>4, <1>8
  <2>2. Becomes([top EXCEPT !.at = immediate.at, !.stack = Append(top.stack, v)], paid(fuel))
    BY <1>8
  <2> HIDE DEF v
  <2>3. Fits([top EXCEPT !.at = immediate.at, !.stack = Append(top.stack, v)])
    BY <1>2, <2>1, Pushes
  <2> QED
    BY <1>2, <1>3, <2>2, <2>3, BecomesFits
<1>9. CASE known /\ opcode # \h20 /\ Becomes(written, paid(fuel))
  BY <1>2, <1>3, <1>6, <1>9, BecomesFits
<1> QED
  BY <1>1, <1>7, <1>8, <1>9

LEMMA MemoryKeeps ==
  ASSUME MachineInv, Memory
  PROVE  MachineInv'
<1> DEFINE stack == Pop(top.stack, operands(opcode))
<1>1. /\ Ready(Loads \cup Stores)
      /\ \/ Traps("OutOfBounds", paid(fuel))
         \/ Becomes([top EXCEPT !.at = immediate.at, !.stack = stack], paid(fuel))
         \/ \E value \in Sample :
              Becomes([top EXCEPT !.at = immediate.at, !.stack = Append(stack, value)], paid(fuel))
  BY DEF Memory
<1>2. Fetches /\ Len(top.stack) >= operands(opcode)
  BY <1>1, ReadyFacts
<1>3. top.stack \in Seq(Int) /\ Len(top.stack) \in Nat /\ Len(top.stack) <= MAX_STACK
      /\ paid(fuel) \in Nat
  BY <1>2, TopIs
<1>4. \A value \in Sample :
        Fits([top EXCEPT !.at = immediate.at, !.stack = Append(stack, value)])
  BY <1>2, Computes, MachineAssumption
<1>5. stack \in Seq(Int) /\ Len(stack) <= MAX_STACK + 1
  <2>1. operands(opcode) \in Nat
    BY Operands
  <2>2. stack \in Seq(Int) /\ Len(stack) = Len(top.stack) - operands(opcode)
    BY <1>2, <1>3, <2>1, Popped
  <2> QED
    BY <1>3, <2>1, <2>2, MachineAssumption
<1> HIDE DEF stack
<1>6. Fits([top EXCEPT !.at = immediate.at, !.stack = stack])
  BY <1>2, <1>5, TopIs, Moved
<1>7. CASE Traps("OutOfBounds", paid(fuel))
  BY <1>3, <1>7, TrapsKeeps
<1>8. CASE Becomes([top EXCEPT !.at = immediate.at, !.stack = stack], paid(fuel))
  BY <1>2, <1>3, <1>6, <1>8, BecomesFits
<1>9. CASE \E value \in Sample :
             Becomes([top EXCEPT !.at = immediate.at, !.stack = Append(stack, value)], paid(fuel))
  BY <1>2, <1>3, <1>4, <1>9, BecomesFits
<1> QED
  BY <1>1, <1>7, <1>8, <1>9

LEMMA ConstantKeeps ==
  ASSUME MachineInv, Constant
  PROVE  MachineInv'
<1> DEFINE pushed == IF opcode = \h3f THEN wasm.memory_pages[1] ELSE immediate.value
<1>1. /\ Ready({\h3f, \h41, \h42})
      /\ Becomes([top EXCEPT !.at = immediate.at, !.stack = Append(top.stack, pushed)], paid(fuel))
  BY DEF Constant
<1>2. Fetches
  BY <1>1, ReadyFacts
<1>3. pushed \in Int
  <2>1. wasm.memory_pages[1] \in Int
    BY DEF MachineInv, AModule, Limits
  <2> QED
    BY <1>2, <2>1, TopIs
<1> HIDE DEF pushed
<1>4. Fits([top EXCEPT !.at = immediate.at, !.stack = Append(top.stack, pushed)])
      /\ paid(fuel) \in Nat
  BY <1>2, <1>3, Pushes, TopIs
<1> QED
  BY <1>1, <1>2, <1>4, BecomesFits

LEMMA Wraps ==
  ASSUME NEW n \in Int
  PROVE  as_i32(n) \in Int /\ n % bit[Word] \in Int
<1>1. Word \in Nat /\ Word - 1 \in Nat
  BY WidthsAssumption
<1> DEFINE h == bit[Word - 1]
           m == bit[Word]
<1>2. h \in Nat \ {0} /\ m \in Nat \ {0}
  BY <1>1, Bits
<1>3. as_i32(n) = ((n + h) % m) - h
  BY DEF as_i32
<1> HIDE DEF h, m
<1>4. (n + h) % m \in Int /\ n % m \in Int
  BY <1>2
<1>5. as_i32(n) \in Int
  BY <1>2, <1>3, <1>4
<1> QED
  BY <1>4, <1>5 DEF m

LEMMA NumericKeeps ==
  ASSUME MachineInv, Numeric
  PROVE  MachineInv'
<1> DEFINE right == Last(top.stack)
<1>1. /\ Ready(Numeric1 \cup Numeric2)
      /\ \/ \E trap \in {"Unsupported", "Faulted"} : Traps(trap, paid(fuel))
         \/ \E result \in results(opcode, right) :
              Becomes([top EXCEPT !.at = immediate.at,
                                  !.stack = Append(Pop(top.stack, operands(opcode)), result)],
                      paid(fuel))
  BY DEF Numeric
<1>2. Fetches /\ opcode \in Numeric1 \cup Numeric2 /\ Len(top.stack) >= operands(opcode)
  BY <1>1, ReadyFacts
<1>3. paid(fuel) \in Nat /\ top.stack \in Seq(Int) /\ Len(top.stack) \in Nat
  BY <1>2, TopIs
<1>4. right \in Int
  <2>1. operands(opcode) >= 1 /\ operands(opcode) \in Nat
    BY <1>2, Operands
  <2> QED
    BY <1>2, <1>3, <2>1 DEF Last
<1> HIDE DEF right
<1>5. results(opcode, right) \subseteq Int
  <2>1. as_i32(right) \in Int /\ right % bit[Word] \in Int /\ Sample \subseteq Int
    BY <1>4, Wraps, MachineAssumption
  <2> DEFINE R == results(opcode, right)
             a == as_i32(right)
             b == right % bit[Word]
  <2>2. R = {0, 1} \/ R = {a} \/ R = {b} \/ R = Sample
    BY DEF results
  <2>3. a \in Int /\ b \in Int
    BY <2>1
  <2>4. Sample \subseteq Int
    BY <2>1
  <2> HIDE DEF R, a, b
  <2>5. CASE R = {0, 1}
    BY <2>5 DEF R
  <2>6. CASE R = {a}
    <3>1. R \subseteq Int
      BY <2>6, <2>3
    <3> QED
      BY <3>1 DEF R
  <2>7. CASE R = {b}
    <3>1. R \subseteq Int
      BY <2>7, <2>3
    <3> QED
      BY <3>1 DEF R
  <2>8. CASE R = Sample
    BY <2>8, <2>4 DEF R
  <2> QED
    BY <2>2, <2>5, <2>6, <2>7, <2>8
<1>6. \A result \in results(opcode, right) :
        Fits([top EXCEPT !.at = immediate.at,
                         !.stack = Append(Pop(top.stack, operands(opcode)), result)])
  BY <1>2, <1>5, Computes
<1>7. CASE \E trap \in {"Unsupported", "Faulted"} : Traps(trap, paid(fuel))
  BY <1>3, <1>7, TrapsKeeps
<1>8. CASE \E result \in results(opcode, right) :
             Becomes([top EXCEPT !.at = immediate.at,
                                 !.stack = Append(Pop(top.stack, operands(opcode)), result)],
                     paid(fuel))
  BY <1>2, <1>3, <1>6, <1>8, BecomesFits
<1> QED
  BY <1>1, <1>7, <1>8

LEMMA StopsKeep ==
  ASSUME MachineInv, OutOfFuel \/ StackOverflow \/ RunsOff \/ Refuses
  PROVE  MachineInv'
<1>1. \E trap \in {"OutOfFuel", "StackOverflow", "Malformed", "Unsupported", "Faulted"} :
        \/ Traps(trap, 0)
        \/ fuel > 0 /\ Traps(trap, paid(fuel))
  BY DEF OutOfFuel, StackOverflow, RunsOff, Refuses, Fetched
<1>2. fuel \in Nat /\ (fuel > 0 => paid(fuel) \in Nat)
  BY DEF MachineInv, paid
<1> QED
  BY <1>1, <1>2, TrapsKeeps

LEMMA ExecuteKeeps ==
  ASSUME MachineInv, Execute
  PROVE  MachineInv'
BY StopsKeep, NopKeeps, LoopKeeps, BlockKeeps, IfKeeps, ElseKeeps, EndKeeps, BranchKeeps,
   ReturnKeeps, CallKeeps, DropKeeps, SelectKeeps, LocalKeeps, MemoryKeeps, ConstantKeeps,
   NumericKeeps DEF Execute

-----------------------------------------------------------------------------
(* What a step costs, and what it never ends in.                           *)
NoTrap == {"Raw", "Decoded", "Bound", "Running", "HostDenied"}

Spends ==
  /\ image' = image /\ wasm' = wasm
  /\ outcome' = "Running" \/ outcome' \notin NoTrap
  /\ fuel' <= fuel
  /\ outcome' = "Running" => fuel' < fuel

LEMMA BecomesSpends ==
  ASSUME fuel \in Nat, fuel > 0, NEW left \in Nat, left <= paid(fuel),
         outcome = "Running", NEW frame, Becomes(frame, left)
  PROVE  Spends
BY DEF Becomes, Spends, loaded, paid

LEMMA TrapsSpends ==
  ASSUME fuel \in Nat, NEW left \in Nat, left <= fuel,
         NEW trap, trap \notin NoTrap, Traps(trap, left)
  PROVE  Spends
BY DEF Traps, Spends, loaded, NoTrap

LEMMA ReturnsSpends ==
  ASSUME fuel \in Nat, fuel > 0, outcome = "Running",
         NEW stack, Returns(stack, paid(fuel))
  PROVE  Spends
<1>1. paid(fuel) = fuel - 1 /\ paid(fuel) \in Nat /\ paid(fuel) <= fuel
  BY DEF paid
<1>2. CASE Traps("Done", paid(fuel))
  BY <1>1, <1>2, TrapsSpends DEF NoTrap
<1>3. CASE fuel' = paid(fuel) /\ UNCHANGED <<loaded, outcome>>
  BY <1>1, <1>3 DEF Spends, loaded
<1> QED
  BY <1>2, <1>3 DEF Returns

(* A step that pays for its instruction and for nothing else.              *)
Simply ==
  \/ \E frame : Becomes(frame, paid(fuel))
  \/ \E stack : Returns(stack, paid(fuel))
  \/ \E trap \in {"Malformed", "Unsupported", "Faulted", "OutOfBounds", "StackOverflow"} :
       Traps(trap, paid(fuel))

LEMMA SimplySpends ==
  ASSUME fuel \in Nat, fuel > 0, outcome = "Running", Simply
  PROVE  Spends
<1>1. paid(fuel) \in Nat /\ paid(fuel) <= paid(fuel) /\ paid(fuel) <= fuel
  BY DEF paid
<1>2. {"Malformed", "Unsupported", "Faulted", "OutOfBounds", "StackOverflow"} \cap NoTrap = {}
  BY DEF NoTrap
<1> QED
  BY <1>1, <1>2, BecomesSpends, ReturnsSpends, TrapsSpends DEF Simply

LEMMA SimplePays ==
  ASSUME MachineInv,
         \/ StackOverflow \/ RunsOff \/ Refuses \/ Nop \/ Loop \/ End \/ Branch \/ Return
         \/ Drop \/ Select \/ Local \/ Memory \/ Constant \/ Numeric
  PROVE  Spends
<1>1. fuel \in Nat
  BY DEF MachineInv
<1>2. fuel > 0 /\ outcome = "Running"
  BY DEF StackOverflow, RunsOff, Refuses, Nop, Loop, End, Branch, Return, Drop, Select, Local,
         Memory, Constant, Numeric, Ready, Fetched
<1>3. Simply => Spends
  BY <1>1, <1>2, SimplySpends
<1>4. CASE StackOverflow \/ RunsOff \/ Refuses
  <2>1. Simply
    BY <1>4 DEF StackOverflow, RunsOff, Refuses, Simply
  <2> QED
    BY <1>3, <2>1
<1>5. CASE Nop \/ Loop \/ End \/ Return \/ Drop
  <2>1. Simply
    BY <1>5 DEF Nop, Loop, End, Return, Drop, Simply
  <2> QED
    BY <1>3, <2>1
<1>6. CASE Branch
  <2>1. Simply
    BY <1>6 DEF Branch, Simply
  <2> QED
    BY <1>3, <2>1
<1>7. CASE Select \/ Constant
  <2>1. Simply
    BY <1>7 DEF Select, Constant, Simply
  <2> QED
    BY <1>3, <2>1
<1>8. CASE Local
  <2>1. Simply
    BY <1>8 DEF Local, Simply
  <2> QED
    BY <1>3, <2>1
<1>9. CASE Memory
  <2>1. Simply
    BY <1>9 DEF Memory, Simply
  <2> QED
    BY <1>3, <2>1
<1>10. CASE Numeric
  <2>1. Simply
    BY <1>10 DEF Numeric, Simply
  <2> QED
    BY <1>3, <2>1
<1> QED
  BY <1>4, <1>5, <1>6, <1>7, <1>8, <1>9, <1>10

LEMMA EndsTrapped ==
  ASSUME NEW e, NEW N, NEW left, Ends_well(e, N, left)
  PROVE  e.trap \notin NoTrap
BY DEF Ends_well, ScanTraps, NoTrap

(* A step that looks ahead pays the scanner too.                           *)
LEMMA ScanningPays ==
  ASSUME MachineInv, Block \/ If \/ Else
  PROVE  Spends
<1> DEFINE end == find_end(code, immediate.at, paid(fuel))
           else == find_else(code, immediate.at, end.fuel)
<1>1. fuel \in Nat /\ fuel > 0 /\ outcome = "Running" /\ Fetches
  <2>1. \E ops : Ready(ops)
    BY DEF Block, If, Else
  <2>2. Fetches
    BY <2>1, ReadyFacts
  <2> QED
    BY <2>2 DEF Fetches
<1>2. /\ end.fuel \in Nat /\ end.fuel <= paid(fuel) /\ end.trap \notin NoTrap
  <2>1. code \in Seq(Byte) /\ paid(fuel) \in Nat
    BY <1>1 DEF Fetches
  <2>2. Ends_well(end, Len(code), paid(fuel)) /\ Len(code) \in Nat
    BY <1>1, <2>1, LooksAhead
  <2> HIDE DEF end
  <2> QED
    BY <2>1, <2>2, EndsWell, EndsTrapped
<1>3. /\ else.fuel \in Nat /\ else.fuel <= end.fuel /\ else.trap \notin NoTrap
  <2>1. code \in Seq(Byte)
    BY <1>1 DEF Fetches
  <2> HIDE DEF end
  <2>2. Ends_well(else, Len(code), end.fuel) /\ Len(code) \in Nat
    BY <1>1, <1>2, <2>1, LooksAhead
  <2> HIDE DEF else
  <2> QED
    BY <1>2, <2>1, <2>2, EndsWell, EndsTrapped
<1>4. \/ \E frame : Becomes(frame, end.fuel)
      \/ \E frame : Becomes(frame, else.fuel)
      \/ Traps(end.trap, end.fuel)
      \/ Traps(else.trap, else.fuel)
      \/ \E trap \in {"Faulted", "Malformed"} : Traps(trap, end.fuel)
  <2>1. CASE Block
    BY <2>1 DEF Block
  <2>2. CASE If
    BY <2>2 DEF If
  <2>3. CASE Else
    BY <2>3 DEF Else
  <2> QED
    BY <2>1, <2>2, <2>3
<1> HIDE DEF end, else
<1>5. paid(fuel) \in Nat /\ paid(fuel) <= fuel
  BY <1>1 DEF paid
<1>6. /\ end.fuel <= fuel /\ else.fuel <= paid(fuel) /\ else.fuel <= fuel
  BY <1>1, <1>2, <1>3, <1>5
<1>7. CASE \/ \E frame : Becomes(frame, end.fuel)
           \/ \E frame : Becomes(frame, else.fuel)
  BY <1>1, <1>2, <1>3, <1>6, <1>7, BecomesSpends
<1>8. CASE \/ Traps(end.trap, end.fuel)
           \/ Traps(else.trap, else.fuel)
           \/ \E trap \in {"Faulted", "Malformed"} : Traps(trap, end.fuel)
  <2>1. "Faulted" \notin NoTrap /\ "Malformed" \notin NoTrap
    BY DEF NoTrap
  <2> QED
    BY <1>1, <1>2, <1>3, <1>6, <1>8, <2>1, TrapsSpends
<1> QED
  BY <1>4, <1>7, <1>8

LEMMA ActivationErrors ==
  ASSUME NEW m, NEW index, NEW arguments, NEW depth
  PROVE  activation(m, index, arguments, depth).error
           \in {"None", "StackOverflow", "Malformed", "Faulted"}
BY DEF activation, Ok, Err

LEMMA CallPays ==
  ASSUME MachineInv, Call
  PROVE  Spends
<1> DEFINE index == immediate.value
           arguments == SubSeq(top.stack, Len(top.stack) - arguments_of(index) + 1,
                               Len(top.stack))
           callee == activation(wasm, index, arguments, Len(frames))
<1>1. fuel \in Nat /\ fuel > 0 /\ outcome = "Running"
  BY DEF MachineInv, Call, Ready, Fetched
<1>2. paid(fuel) \in Nat /\ paid(fuel) <= fuel /\ paid(fuel) < fuel
  BY <1>1 DEF paid
<1>3. callee.error \in {"None", "StackOverflow", "Malformed", "Faulted"}
  BY ActivationErrors
<1>4. \/ \E trap \in {"Malformed", "Faulted", "StackOverflow"} : Traps(trap, paid(fuel))
      \/ callee.error # "None" /\ Traps(callee.error, paid(fuel))
      \/ fuel' = paid(fuel) /\ UNCHANGED <<loaded, outcome>>
  BY DEF Call
<1> HIDE DEF callee
<1>5. CASE \/ \E trap \in {"Malformed", "Faulted", "StackOverflow"} : Traps(trap, paid(fuel))
           \/ callee.error # "None" /\ Traps(callee.error, paid(fuel))
  <2>1. {"StackOverflow", "Malformed", "Faulted"} \cap NoTrap = {}
    BY DEF NoTrap
  <2> QED
    BY <1>1, <1>2, <1>3, <1>5, <2>1, TrapsSpends
<1>6. CASE fuel' = paid(fuel) /\ UNCHANGED <<loaded, outcome>>
  BY <1>1, <1>2, <1>6 DEF Spends, loaded
<1> QED
  BY <1>4, <1>5, <1>6

LEMMA ExecuteSpends ==
  ASSUME MachineInv, Execute
  PROVE  Spends /\ outcome = "Running"
<1>1. CASE OutOfFuel
  <2>1. fuel = 0 /\ Traps("OutOfFuel", 0) /\ outcome = "Running"
    BY <1>1 DEF OutOfFuel
  <2> QED
    BY <2>1, TrapsSpends DEF NoTrap
<1>2. ASSUME ~OutOfFuel
      PROVE  outcome = "Running"
  BY <1>2 DEF Execute, StackOverflow, RunsOff, Refuses, Nop, Loop, End, Branch, Return, Drop,
              Select, Local, Memory, Constant, Numeric, Ready, Fetched, Call, Block, If, Else
<1> QED
  BY <1>1, <1>2, SimplePays, ScanningPays, CallPays DEF Execute

-----------------------------------------------------------------------------
(* The host: what it is asked, and what it answers.                        *)
LEMMA Authorizes ==
  ASSUME MachineInv, Resolved, NEW import \in 0 .. Len(wasm.imports) - 1
  PROVE  /\ import + 1 \in DOMAIN wasm.imports
         /\ import + 1 \in 1 .. VerbSlots
         /\ host.verbs[import + 1] = wasm.imports[import + 1].name
         /\ host.verbs[import + 1] \in VERBS /\ host.verbs[import + 1] # no_verb
         /\ host.verbs[import + 1] # Journal =>
              /\ host.verbs[import + 1] \in granted
              /\ host.verbs[import + 1] \in host.bindings
<1> DEFINE slot == import + 1
           imports == wasm.imports
           name == imports[slot].name
<1>1. imports \in Seq(AnImport) /\ DOMAIN imports = 1 .. Len(imports) /\ Len(imports) \in Nat
  BY DEF MachineInv, AModule, AtMost
<1>2. slot \in DOMAIN imports /\ slot \in Nat /\ slot - 1 = import
  <2>1. import \in Int /\ import >= 0 /\ import <= Len(imports) - 1
    OBVIOUS
  <2> HIDE DEF imports
  <2> QED
    BY <1>1, <2>1
<1>3. manifest(wasm)[slot] = [index |-> slot - 1, module |-> imports[slot].module, name |-> name]
  BY <1>2 DEF manifest
<1>4. authorized(manifest(wasm)[slot], granted)
  BY <1>2 DEF Resolved
<1>5. /\ import < VerbSlots /\ name \in VERBS
      /\ name # Journal => name \in granted
  BY <1>2, <1>3, <1>4 DEF authorized
<1>6. slot \in 1 .. VerbSlots
  BY <1>2, <1>5, ToolAssumption
<1>7. host.verbs[slot] = name
  BY <1>2, <1>6 DEF Resolved, bound, Unbound
<1>8. name # no_verb
  BY <1>5, ToolAssumption DEF VERBS, no_verb
<1>9. name # Journal => name \in host.bindings
  BY <1>2, <1>5 DEF Resolved, bound, Unbound
<1> QED
  BY <1>2, <1>5, <1>6, <1>7, <1>8, <1>9

LEMMA Counted ==
  ASSUME NEW h \in AHost
  PROVE  /\ [h EXCEPT !.crossings = @ + 1] \in AHost
         /\ [h EXCEPT !.refusals = @ + 1] \in AHost
         /\ h.notes < MAX_NOTES => [h EXCEPT !.notes = @ + 1] \in AHost
         /\ [h EXCEPT !.crossings = @ + 1].verbs = h.verbs
         /\ [h EXCEPT !.crossings = @ + 1].bindings = h.bindings
         /\ [h EXCEPT !.crossings = @ + 1].notes = h.notes
         /\ [h EXCEPT !.refusals = @ + 1].verbs = h.verbs
         /\ [h EXCEPT !.refusals = @ + 1].bindings = h.bindings
         /\ [h EXCEPT !.notes = @ + 1].verbs = h.verbs
         /\ [h EXCEPT !.notes = @ + 1].bindings = h.bindings
<1>1. h.crossings + 1 \in Nat /\ h.refusals + 1 \in Nat
  BY DEF AHost
<1>2. h.notes < MAX_NOTES => h.notes + 1 \in 0 .. MAX_NOTES
  BY ToolAssumption DEF AHost
<1> QED
  BY <1>1, <1>2 DEF AHost

LEMMA Answers ==
  ASSUME MachineInv, host \in AHost, Resolved, NEW import \in 0 .. Len(wasm.imports) - 1,
         NEW answer \in host_call(import)
  PROVE  /\ answer.trap = "None" /\ answer.value \in Int
         /\ answer.host \in AHost
         /\ answer.host.verbs = host.verbs /\ answer.host.bindings = host.bindings
         /\ \A verb \in answer.acts :
              \/ verb \in acts
              \/ /\ \E i \in DOMAIN wasm.imports : wasm.imports[i].name = verb
                 /\ verb # Journal => verb \in granted
<1> DEFINE slot == import + 1
           verb == host.verbs[slot]
           crossed == [host EXCEPT !.crossings = @ + 1]
           refused == [crossed EXCEPT !.refusals = @ + 1]
           noted == [crossed EXCEPT !.notes = @ + 1]
<1>1. /\ slot \in DOMAIN wasm.imports /\ slot \in 1 .. VerbSlots
      /\ verb = wasm.imports[slot].name /\ verb \in VERBS /\ verb # no_verb
      /\ verb # Journal => verb \in granted /\ verb \in host.bindings
  BY Authorizes
<1>2. slot \in DOMAIN host.verbs
  BY <1>1 DEF AHost
<1>3. /\ crossed \in AHost /\ crossed.verbs = host.verbs /\ crossed.bindings = host.bindings
      /\ refused \in AHost /\ refused.verbs = host.verbs /\ refused.bindings = host.bindings
      /\ host.notes < MAX_NOTES => noted \in AHost
      /\ noted.verbs = host.verbs /\ noted.bindings = host.bindings
  <2>1. /\ crossed \in AHost /\ crossed.verbs = host.verbs
        /\ crossed.bindings = host.bindings /\ crossed.notes = host.notes
    BY Counted
  <2> HIDE DEF crossed
  <2> QED
    BY <2>1, Counted
<1>4. \/ answer = [trap |-> "None", value |-> -1, host |-> refused, acts |-> acts \cup {}]
      \/ /\ host.notes < MAX_NOTES
         /\ answer = [trap |-> "None", value |-> 0, host |-> noted, acts |-> acts \cup {Journal}]
         /\ verb = Journal
      \/ answer = [trap |-> "None", value |-> -1, host |-> refused, acts |-> acts \cup {verb}]
      \/ \E value \in {0} \cup Sample :
           answer = [trap |-> "None", value |-> value, host |-> crossed,
                     acts |-> acts \cup {verb}]
  <2>1. CASE verb = Journal
    <3>1. verb \notin {Invoke, Approve}
      BY <2>1, ToolAssumption
    <3> HIDE DEF crossed, refused, noted
    <3>2. CASE host.notes >= MAX_NOTES
      <4>1. ~(host.notes < MAX_NOTES)
        BY <3>2, ToolAssumption DEF AHost
      <4> QED
        BY <1>1, <1>2, <2>1, <3>1, <3>2, <4>1 DEF host_call, crossed, refused, noted
    <3>3. CASE ~(host.notes >= MAX_NOTES)
      <4>1. host.notes < MAX_NOTES
        BY <3>3, ToolAssumption DEF AHost
      <4> QED
        BY <1>1, <1>2, <2>1, <3>1, <3>3, <4>1 DEF host_call, crossed, refused, noted
    <3> QED
      BY <3>2, <3>3
  <2>2. CASE verb # Journal
    <3>1. verb \in {Invoke, Approve}
      BY <1>1, <2>2 DEF VERBS
    <3> QED
      BY <1>1, <1>2, <2>2, <3>1 DEF host_call
  <2> QED
    BY <2>1, <2>2
<1> HIDE DEF crossed, refused, noted, slot
<1>5. 0 \in Int /\ -1 \in Int /\ \A value \in Sample : value \in Int
  BY MachineAssumption
<1> QED
  BY <1>1, <1>3, <1>4, <1>5

-----------------------------------------------------------------------------
(* Every step of the host keeps both.                                      *)
LEMMA StaysResolved ==
  ASSUME wasm' = wasm, granted' = granted, Resolved,
         host'.verbs = host.verbs, host'.bindings = host.bindings
  PROVE  Resolved'
<1>1. manifest(wasm)' = manifest(wasm)
  BY DEF manifest
<1>2. (\A i \in DOMAIN wasm.imports : authorized(manifest(wasm)[i], granted))'
  BY <1>1 DEF Resolved, authorized
<1>3. bound(wasm, granted)' = bound(wasm, granted)
  BY DEF bound, Unbound
<1> QED
  BY <1>2, <1>3 DEF Resolved

LEMMA StaysReached ==
  ASSUME wasm' = wasm, granted' = granted, UnauthorizedUnreachable, outcome' # "HostDenied",
         \A verb \in acts' :
           \/ verb \in acts
           \/ /\ \E i \in DOMAIN wasm.imports : wasm.imports[i].name = verb
              /\ verb # Journal => verb \in granted
  PROVE  UnauthorizedUnreachable'
BY DEF UnauthorizedUnreachable

LEMMA HostCallKeeps ==
  ASSUME MachineInv, HostInv, HostCall
  PROVE  MachineInv' /\ HostInv' /\ Spends /\ outcome = "Running"
<1>1. PICK import \in 0 .. Len(wasm.imports) - 1 :
        /\ Imports(import)
        /\ \E answer \in host_call(import) :
             /\ IF answer.trap = "None" THEN HostAnswers(import, answer.value)
                ELSE Traps(answer.trap, paid(fuel))
             /\ host' = answer.host /\ acts' = answer.acts
        /\ UNCHANGED granted
  BY DEF HostCall
<1>2. PICK answer \in host_call(import) :
        /\ IF answer.trap = "None" THEN HostAnswers(import, answer.value)
           ELSE Traps(answer.trap, paid(fuel))
        /\ host' = answer.host /\ acts' = answer.acts
  BY <1>1
<1>3. Fetches /\ outcome = "Running" /\ import = immediate.value /\ opcode = 16
  <2>1. Ready({\h10}) /\ import = immediate.value
    BY <1>1 DEF Imports
  <2>2. Fetches /\ opcode = 16
    BY <2>1, ReadyFacts
  <2> QED
    BY <2>1, <2>2 DEF Fetches
<1>4. Resolved /\ host \in AHost
  BY <1>3 DEF HostInv
<1>5. /\ answer.trap = "None" /\ answer.value \in Int
      /\ answer.host \in AHost
      /\ answer.host.verbs = host.verbs /\ answer.host.bindings = host.bindings
      /\ \A verb \in answer.acts :
           \/ verb \in acts
           \/ /\ \E i \in DOMAIN wasm.imports : wasm.imports[i].name = verb
              /\ verb # Journal => verb \in granted
  BY <1>4, Answers
<1> DEFINE frame == [calling(import) EXCEPT !.stack = Append(@, answer.value)]
<1>6. Becomes(frame, paid(fuel))
  BY <1>2, <1>5 DEF HostAnswers
<1>7. Fits(frame) /\ fuel \in Nat /\ fuel > 0 /\ paid(fuel) \in Nat
  <2>1. import \in Nat
    BY <1>3 DEF Fetches, Indexed
  <2>2. has_function_type(wasm, import) /\ Len(top.stack) >= arguments_of(import)
    BY <1>1 DEF Imports
  <2>3. Fits(frame)
    BY <1>3, <1>5, <2>1, <2>2, CallerFits
  <2> QED
    BY <1>3, <2>3 DEF Fetches
<1> HIDE DEF frame
<1>8. MachineInv'
  BY <1>3, <1>6, <1>7, BecomesFits
<1>9. Spends
  <2>1. paid(fuel) <= paid(fuel)
    BY <1>7
  <2> QED
    BY <1>3, <1>6, <1>7, <2>1, BecomesSpends
<1>10. wasm' = wasm /\ outcome' = outcome /\ granted' = granted
  BY <1>1, <1>6 DEF Becomes, loaded
<1>11. Resolved'
  BY <1>2, <1>4, <1>5, <1>10, StaysResolved
<1>12. UnauthorizedUnreachable'
  BY <1>2, <1>3, <1>5, <1>10, StaysReached DEF HostInv
<1>13. (host \in AHost)'
  BY <1>2, <1>5 DEF AHost
<1> QED
  BY <1>3, <1>8, <1>9, <1>10, <1>11, <1>12, <1>13 DEF HostInv

LEMMA ExecuteKeepsHost ==
  ASSUME MachineInv, HostInv, Execute, UNCHANGED <<granted, host, acts>>
  PROVE  HostInv'
<1>1. Spends /\ outcome = "Running"
  BY ExecuteSpends
<1>2. wasm' = wasm /\ outcome' # "HostDenied"
  BY <1>1 DEF Spends, NoTrap
<1>3. Resolved' /\ UnauthorizedUnreachable'
  BY <1>1, <1>2, StaysResolved, StaysReached DEF HostInv
<1>4. (host \in AHost)'
  BY DEF HostInv, AHost
<1>5. outcome' \notin {"Raw", "Decoded"}
  BY <1>1 DEF Spends, NoTrap
<1> QED
  BY <1>3, <1>4, <1>5 DEF HostInv

LEMMA Rests ==
  ASSUME MachineInv, outcome # "Running", frames' = frames, outcome' # "Running",
         fuel' = fuel, image' = image, wasm' \in AModule(Len(image))
  PROVE  MachineInv'
<1>1. frames = <<>>
  BY DEF MachineInv
<1>2. AModule(Len(image))' = AModule(Len(image))
  BY DEF AModule, AFunction, ABody
<1>3. (<<>> \in AtMost(AFrame(wasm), MAX_FRAMES))'
  BY MachineAssumption DEF AtMost
<1> QED
  BY <1>1, <1>2, <1>3 DEF MachineInv

LEMMA DecodeKeeps ==
  ASSUME MachineInv, HostInv, Decode
  PROVE  MachineInv' /\ HostInv'
<1> DEFINE decoded == Module_decode(image)
<1>1. /\ outcome = "Raw"
      /\ \/ outcome' = "Rejected" /\ wasm' = wasm
         \/ decoded.error = "None" /\ outcome' = "Decoded" /\ wasm' = decoded.value
      /\ UNCHANGED <<listing, image, frames, fuel, granted, host, acts>>
  BY DEF Decode
<1>2. wasm' \in AModule(Len(image))
  <2>1. decoded \in Reads(AModule(Len(image)), Len(image)) /\ Len(image) \in Nat
    BY ModuleRead DEF MachineInv
  <2> HIDE DEF decoded
  <2>2. decoded.error = "None" => decoded.value \in AModule(Len(image))
    BY <2>1, ReadFacts
  <2>3. wasm \in AModule(Len(image))
    BY DEF MachineInv
  <2> QED
    BY <1>1, <2>2, <2>3
<1>3. MachineInv'
  BY <1>1, <1>2, Rests
<1>4. acts = {} /\ acts' = {}
  BY <1>1 DEF HostInv
<1>5. UnauthorizedUnreachable'
  BY <1>1, <1>4 DEF UnauthorizedUnreachable
<1>6. (host \in AHost)'
  BY <1>1 DEF HostInv, AHost
<1> QED
  BY <1>1, <1>3, <1>4, <1>5, <1>6 DEF HostInv

LEMMA Binds ==
  ASSUME MachineInv, NEW grants \in SUBSET {Invoke, Approve}
  PROVE  bound(wasm, grants) \in AHost
<1> DEFINE imports == wasm.imports
           verbs == [i \in 1 .. VerbSlots |->
                       IF i \in DOMAIN imports THEN imports[i].name ELSE no_verb]
<1>1. imports \in Seq(AnImport)
  BY DEF MachineInv, AModule, AtMost
<1>2. ASSUME NEW i \in DOMAIN imports
      PROVE  imports[i].name \in Seq(Byte)
  <2>1. imports[i] \in AnImport
    BY <1>1
  <2> QED
    BY <2>1 DEF AnImport
<1>3. no_verb \in Seq(Byte)
  BY DEF no_verb
<1>4. verbs \in [1 .. VerbSlots -> Seq(Byte)]
  BY <1>2, <1>3
<1> DEFINE bindings == grants \cap {imports[i].name : i \in DOMAIN imports}
<1>5. bound(wasm, grants) = [Unbound EXCEPT !.verbs = verbs, !.bindings = bindings]
  BY DEF bound
<1>6. bindings \in SUBSET {Invoke, Approve}
  OBVIOUS
<1> HIDE DEF verbs, bindings, imports
<1>7. bound(wasm, grants) = [verbs |-> verbs, bindings |-> bindings,
                             crossings |-> 0, refusals |-> 0, notes |-> 0]
  BY <1>5 DEF Unbound
<1> QED
  BY <1>4, <1>6, <1>7, ToolAssumption DEF AHost

LEMMA BindKeeps ==
  ASSUME MachineInv, HostInv, Bind
  PROVE  MachineInv' /\ HostInv'
<1>1. /\ outcome = "Decoded" /\ granted' \in SUBSET {Invoke, Approve}
      /\ \/ /\ \A i \in DOMAIN wasm.imports : authorized(manifest(wasm)[i], granted')
            /\ outcome' = "Bound" /\ host' = bound(wasm, granted')
         \/ outcome' = "UnauthorizedImport" /\ host' = host
      /\ UNCHANGED <<loaded, frames, fuel, acts>>
  BY DEF Bind
<1>2. wasm' = wasm /\ image' = image /\ wasm \in AModule(Len(image))
  BY <1>1 DEF loaded, MachineInv
<1>3. MachineInv'
  BY <1>1, <1>2, Rests
<1>4. acts' = {}
  BY <1>1 DEF HostInv
<1>5. UnauthorizedUnreachable'
  BY <1>1, <1>4 DEF UnauthorizedUnreachable
<1>6. (host \in AHost)'
  <2>1. CASE host' = host
    BY <2>1 DEF HostInv, AHost
  <2>2. CASE host' = bound(wasm, granted')
    <3>1. bound(wasm, granted') \in AHost
      BY <1>1, Binds
    <3> QED
      BY <2>2, <3>1 DEF AHost
  <2> QED
    BY <1>1, <2>1, <2>2
<1>7. outcome' = "Bound" => Resolved'
  <2> SUFFICES ASSUME outcome' = "Bound"  PROVE Resolved'
    OBVIOUS
  <2>1. /\ \A i \in DOMAIN wasm.imports : authorized(manifest(wasm)[i], granted')
        /\ host' = bound(wasm, granted')
    BY <1>1
  <2>2. manifest(wasm)' = manifest(wasm)
    BY <1>2 DEF manifest
  <2>3. (\A i \in DOMAIN wasm.imports : authorized(manifest(wasm)[i], granted))'
    BY <1>2, <2>1, <2>2 DEF authorized
  <2>4. bound(wasm, granted)' = bound(wasm, granted')
    BY <1>2 DEF bound, Unbound
  <2> QED
    BY <2>1, <2>3, <2>4 DEF Resolved
<1> QED
  BY <1>1, <1>3, <1>4, <1>5, <1>6, <1>7 DEF HostInv

LEMMA EntryPoint ==
  ASSUME NEW N \in Nat, NEW m \in AModule(N), NEW text, exported(m, text) # {}
  PROVE  export(m, text) \in Nat
<1> DEFINE S == exported(m, text)
<1>1. m.exports \in Seq(AnExport)
  BY DEF AModule, AtMost
<1>2. S \subseteq DOMAIN m.exports /\ DOMAIN m.exports \subseteq Nat
  BY <1>1 DEF exported
<1>3. PICK x \in S : \A y \in S : x <= y
  BY <1>2, LeastNatural
<1>4. Min(S) \in S
  BY <1>3 DEF Min
<1>5. m.exports[Min(S)] \in AnExport
  BY <1>1, <1>2, <1>4
<1> QED
  BY <1>5 DEF export, AnExport

LEMMA RunKeeps ==
  ASSUME MachineInv, HostInv, Run
  PROVE  MachineInv' /\ HostInv'
<1> DEFINE index == export(wasm, EntryName)
           callee == activation(wasm, index, <<>>, 0)
           found == exported(wasm, EntryName) # {}
<1>1. /\ outcome = "Bound"
      /\ UNCHANGED <<loaded, granted>>
      /\ \/ /\ \/ outcome' \in {"OutOfBounds", "Malformed"}
               \/ found /\ callee.error # "None" /\ outcome' = callee.error
            /\ UNCHANGED <<frames, fuel, host, acts>>
         \/ /\ found /\ index < Len(wasm.imports)
            /\ \E answer \in host_call(index) :
                 /\ outcome' = IF answer.trap = "None" THEN "Done" ELSE answer.trap
                 /\ host' = answer.host /\ acts' = answer.acts
            /\ UNCHANGED <<frames, fuel>>
         \/ /\ found /\ index >= Len(wasm.imports) /\ callee.error = "None"
            /\ outcome' = "Running" /\ frames' = <<callee.value>> /\ fuel' = Fuel
            /\ UNCHANGED <<host, acts>>
  BY DEF Run
<1>2. /\ wasm' = wasm /\ image' = image /\ granted' = granted
      /\ wasm \in AModule(Len(image)) /\ Len(image) \in Nat /\ wasm' \in AModule(Len(image))
      /\ Len(wasm.imports) \in Nat
  <2>1. wasm' = wasm /\ image' = image /\ granted' = granted
    BY <1>1 DEF loaded
  <2>2. wasm \in AModule(Len(image)) /\ Len(image) \in Nat
    BY DEF MachineInv
  <2>3. Len(wasm.imports) \in Nat
    BY <2>2 DEF AModule, AtMost
  <2> QED
    BY <2>1, <2>2, <2>3
<1>3. found => index \in Nat
  BY <1>2, EntryPoint
<1>4. callee.error \in {"None", "StackOverflow", "Malformed", "Faulted"}
  BY ActivationErrors
<1>5. Resolved /\ UnauthorizedUnreachable /\ host \in AHost
  BY <1>1 DEF HostInv
<1> HIDE DEF index, callee
<1>6. CASE /\ \/ outcome' \in {"OutOfBounds", "Malformed"}
              \/ found /\ callee.error # "None" /\ outcome' = callee.error
           /\ UNCHANGED <<frames, fuel, host, acts>>
  <2>1. outcome' \in {"OutOfBounds", "Malformed", "StackOverflow", "Faulted"}
    BY <1>4, <1>6
  <2>2. MachineInv'
    BY <1>1, <1>2, <1>6, <2>1, Rests
  <2>3. UnauthorizedUnreachable'
    BY <1>2, <1>5, <1>6, <2>1, StaysReached
  <2>4. (host \in AHost)'
    BY <1>5, <1>6 DEF AHost
  <2> QED
    BY <2>1, <2>2, <2>3, <2>4 DEF HostInv
<1>7. CASE /\ found /\ index < Len(wasm.imports)
           /\ \E answer \in host_call(index) :
                /\ outcome' = IF answer.trap = "None" THEN "Done" ELSE answer.trap
                /\ host' = answer.host /\ acts' = answer.acts
           /\ UNCHANGED <<frames, fuel>>
  <2>1. index \in 0 .. Len(wasm.imports) - 1
    BY <1>2, <1>3, <1>7
  <2>2. PICK answer \in host_call(index) :
          /\ outcome' = IF answer.trap = "None" THEN "Done" ELSE answer.trap
          /\ host' = answer.host /\ acts' = answer.acts
    BY <1>7
  <2>3. /\ answer.trap = "None" /\ answer.host \in AHost
        /\ \A verb \in answer.acts :
             \/ verb \in acts
             \/ /\ \E i \in DOMAIN wasm.imports : wasm.imports[i].name = verb
                /\ verb # Journal => verb \in granted
    BY <1>5, <2>1, Answers
  <2>4. outcome' = "Done"
    BY <2>2, <2>3
  <2>5. MachineInv'
    BY <1>1, <1>2, <1>7, <2>4, Rests
  <2>6. UnauthorizedUnreachable'
    BY <1>2, <1>5, <2>2, <2>3, <2>4, StaysReached
  <2>7. (host \in AHost)'
    BY <2>2, <2>3 DEF AHost
  <2> QED
    BY <2>4, <2>5, <2>6, <2>7 DEF HostInv
<1>8. CASE /\ found /\ index >= Len(wasm.imports) /\ callee.error = "None"
           /\ outcome' = "Running" /\ frames' = <<callee.value>> /\ fuel' = Fuel
           /\ UNCHANGED <<host, acts>>
  <2>1. /\ 0 < MAX_FRAMES /\ callee.value \in AFrame(wasm)
        /\ callee.value.stack = <<>> /\ callee.value.labels = <<>>
    <3>1. <<>> \in Seq(Int) /\ Len(<<>>) <= MAX_STACK /\ 0 \in Nat
      BY MachineAssumption
    <3> QED
      BY <1>2, <1>3, <1>8, <3>1, ActivationFits DEF callee
  <2> DEFINE frame == callee.value
             F == AFrame(wasm)
  <2>2. Within(frame, MAX_STACK + 1)
    BY <2>1, MachineAssumption DEF Within
  <2>3. AFrame(wasm)' = F /\ AModule(Len(image))' = AModule(Len(image))
    BY <1>2 DEF AFrame, AModule, AFunction, ABody
  <2>4. frame \in F
    BY <2>1
  <2> HIDE DEF frame, F
  <2>5. frames' = <<frame>> /\ frames' \in Seq(F) /\ Len(frames') = 1 /\ frames' # <<>>
        /\ DOMAIN frames' = {1} /\ frames'[1] = frame
    BY <1>8, <2>4 DEF frame
  <2>6. frames' \in AtMost(F, MAX_FRAMES)
    BY <2>1, <2>5, MachineAssumption DEF AtMost
  <2>7. \A i \in DOMAIN frames' :
          Within(frames'[i], IF i = Len(frames') THEN MAX_STACK + 1 ELSE MAX_STACK)
    BY <2>2, <2>5
  <2>8. image \in Seq(Byte) /\ Fuel \in Nat
    BY ToolAssumption DEF MachineInv
  <2>9. MachineInv'
    BY <1>2, <1>8, <2>3, <2>5, <2>6, <2>7, <2>8 DEF MachineInv, Within, AtMost
  <2>10. Resolved' /\ UnauthorizedUnreachable'
    BY <1>2, <1>5, <1>8, StaysResolved, StaysReached
  <2>11. (host \in AHost)'
    BY <1>5, <1>8 DEF AHost
  <2> QED
    BY <1>8, <2>9, <2>10, <2>11 DEF HostInv
<1> QED
  BY <1>1, <1>6, <1>7, <1>8

-----------------------------------------------------------------------------
(* The tool in every state.                                                *)
LEMMA ToolStarts ==
  ASSUME ToolInit
  PROVE  MachineInv /\ HostInv
<1>1. /\ image \in Seq(Byte) /\ wasm = Empty /\ frames = <<>> /\ fuel = 0 /\ outcome = "Raw"
      /\ granted = {} /\ host = Unbound /\ acts = {}
  BY ToolAssumption DEF ToolInit
<1>2. Len(image) \in Nat
  BY <1>1
<1>3. wasm \in AModule(Len(image))
  <2>1. <<>> \in TypesOf(Len(image))
    BY <1>2, NoTypes
  <2> QED
    BY <1>1, <1>2, <2>1, CeilingsAssumption DEF Empty, AModule, AtMost, Limits
<1>4. frames \in AtMost(AFrame(wasm), MAX_FRAMES)
  BY <1>1, MachineAssumption DEF AtMost
<1>5. MachineInv
  BY <1>1, <1>3, <1>4 DEF MachineInv
<1>6. Unbound.verbs \in [1 .. VerbSlots -> Seq(Byte)]
  <2>1. no_verb \in Seq(Byte)
    BY DEF no_verb
  <2> QED
    BY <2>1 DEF Unbound
<1>7. host \in AHost
  BY <1>1, <1>6, ToolAssumption DEF Unbound, AHost
<1> QED
  BY <1>1, <1>5, <1>7 DEF HostInv, UnauthorizedUnreachable

LEMMA ToolStutters ==
  ASSUME MachineInv, HostInv, UNCHANGED vars
  PROVE  MachineInv' /\ HostInv'
<1>1. /\ image' = image /\ wasm' = wasm /\ frames' = frames /\ fuel' = fuel
      /\ outcome' = outcome /\ granted' = granted /\ host' = host /\ acts' = acts
  BY DEF vars, machine, loaded
<1>2. AModule(Len(image))' = AModule(Len(image))
  BY <1>1 DEF AModule, AFunction, ABody
<1>3. (frames \in AtMost(AFrame(wasm), MAX_FRAMES))'
  BY <1>1 DEF MachineInv, AtMost, AFrame
<1>4. MachineInv'
  BY <1>1, <1>2, <1>3 DEF MachineInv, Within
<1>5. UnauthorizedUnreachable'
  BY <1>1 DEF HostInv, UnauthorizedUnreachable
<1>6. Resolved => Resolved'
  BY <1>1, StaysResolved
<1>7. (host \in AHost)'
  BY <1>1 DEF HostInv, AHost
<1> QED
  BY <1>1, <1>4, <1>5, <1>6, <1>7 DEF HostInv

LEMMA ToolSteps ==
  ASSUME MachineInv, HostInv, ToolNext
  PROVE  MachineInv' /\ HostInv'
<1>1. CASE Step
  BY <1>1, ExecuteKeeps, ExecuteKeepsHost DEF Step
<1>2. CASE Rest
  BY <1>2, ToolStutters DEF Rest
<1> QED
  BY <1>1, <1>2, DecodeKeeps, BindKeeps, RunKeeps, HostCallKeeps DEF ToolNext

ToolInv == MachineInv /\ HostInv

(* In every state the loaded module is one the decoder's ceilings allow,   *)
(* every activation is one of the interpreter's, with its operands and     *)
(* labels counted, and while a tool is bound or runs its host knows every  *)
(* import the module has, each of them authorized.                         *)
THEOREM ToolTypeCorrect == ToolSpec => []ToolInv
<1>1. ToolInit => ToolInv
  BY ToolStarts DEF ToolInv
<1>2. ToolInv /\ [ToolNext]_vars => ToolInv'
  <2> SUFFICES ASSUME ToolInv, [ToolNext]_vars
               PROVE  ToolInv'
    OBVIOUS
  <2>1. CASE ToolNext
    BY <2>1, ToolSteps DEF ToolInv
  <2>2. CASE UNCHANGED vars
    BY <2>2, ToolStutters DEF ToolInv
  <2> QED
    BY <2>1, <2>2
<1> QED
  BY <1>1, <1>2, PTL DEF ToolSpec

LEMMA ModuleFits ==
  ASSUME NEW N \in Nat, NEW m \in AModule(N)
  PROVE  /\ Len(m.types) <= MAX_TYPES /\ Parameters(m.types) <= N
         /\ \A i \in DOMAIN m.types : Len(m.types[i].results) <= 1
         /\ Len(m.imports) <= MAX_IMPORTS
         /\ Len(m.functions) <= MAX_FUNCTIONS /\ Len(m.exports) <= MAX_EXPORTS
         /\ Len(m.data) <= MAX_DATA_SEGMENTS /\ m.memory_pages[1] <= MAX_MEMORY_PAGES
         /\ \A i \in DOMAIN m.functions :
              Len(m.functions[i].body.locals) <= MAX_LOCALS /\ m.functions[i].body.end <= N
<1>1. /\ Len(m.types) <= MAX_TYPES /\ Parameters(m.types) <= N
      /\ Len(m.imports) <= MAX_IMPORTS
      /\ Len(m.functions) <= MAX_FUNCTIONS /\ Len(m.exports) <= MAX_EXPORTS
      /\ Len(m.data) <= MAX_DATA_SEGMENTS
  BY DEF AModule, AtMost, TypesOf
<1>4. ASSUME NEW i \in DOMAIN m.types
      PROVE  Len(m.types[i].results) <= 1
  <2>1. m.types \in Seq(AType)
    BY DEF AModule, AtMost, TypesOf
  <2>2. m.types[i] \in AType
    BY <2>1
  <2>3. m.types[i].results \in AtMost(Byte, 1)
    BY <2>2 DEF AType
  <2> QED
    BY <2>3 DEF AtMost
<1>2. m.memory_pages[1] <= MAX_MEMORY_PAGES
  BY CeilingsAssumption DEF AModule, Limits
<1>3. ASSUME NEW i \in DOMAIN m.functions
      PROVE  Len(m.functions[i].body.locals) <= MAX_LOCALS /\ m.functions[i].body.end <= N
  <2>1. m.functions \in Seq(AFunction(N))
    BY DEF AModule, AtMost
  <2>2. m.functions[i] \in AFunction(N)
    BY <2>1
  <2> QED
    BY <2>2 DEF AFunction, ABody, AtMost
<1> QED
  BY <1>1, <1>2, <1>3, <1>4

LEMMA FramesFit ==
  ASSUME MachineInv
  PROVE  MachineBounded
<1>1. frames \in Seq(AFrame(wasm)) /\ Len(frames) <= MAX_FRAMES
  BY DEF MachineInv, AtMost
<1>2. ASSUME NEW i \in DOMAIN frames
      PROVE  /\ Len(frames[i].stack) <= MAX_STACK + 1
             /\ Len(frames[i].labels) <= MAX_STACK + 1
             /\ Len(frames[i].locals) <= MAX_STACK + 1 + MAX_LOCALS
  <2>1. frames[i] \in AFrame(wasm)
    BY <1>1
  <2>2. /\ Len(frames[i].stack) \in Nat /\ Len(frames[i].labels) \in Nat
        /\ Len(frames[i].locals) \in Nat /\ Len(frames[i].locals) <= MAX_STACK + MAX_LOCALS
    BY <2>1 DEF AFrame, AtMost
  <2>3. Within(frames[i], IF i = Len(frames) THEN MAX_STACK + 1 ELSE MAX_STACK)
    BY DEF MachineInv
  <2> QED
    BY <2>2, <2>3, MachineAssumption, CeilingsAssumption DEF Within
<1> QED
  BY <1>1, <1>2 DEF MachineBounded

(* Only a module under the ceiling on bytes is ever loaded.                *)
LoadedFits == wasm.types = <<>> \/ Len(image) <= MAX_MODULE_BYTES

LEMMA LoadedOnce ==
  ASSUME MachineInv, [ToolNext]_vars
  PROVE  Decode \/ (image' = image /\ wasm' = wasm)
<1>1. CASE Bind \/ Run
  BY <1>1 DEF Bind, Run, loaded
<1>2. CASE Step
  BY <1>2, ExecuteSpends DEF Step, Spends
<1>3. CASE HostCall
  BY <1>3 DEF HostCall, HostAnswers, Becomes, Traps, loaded
<1>4. CASE UNCHANGED vars
  BY <1>4 DEF vars, machine, loaded
<1> QED
  BY <1>1, <1>2, <1>3, <1>4 DEF ToolNext, Rest

LEMMA LoadedAlwaysFits == ToolSpec => []LoadedFits
<1>1. ToolInit => LoadedFits
  BY DEF ToolInit, LoadedFits, Empty
<1>2. ToolInv /\ LoadedFits /\ [ToolNext]_vars => LoadedFits'
  <2> SUFFICES ASSUME ToolInv, LoadedFits, [ToolNext]_vars
               PROVE  LoadedFits'
    OBVIOUS
  <2>1. CASE Decode
    <3> DEFINE decoded == Module_decode(image)
    <3>1. image' = image /\ (wasm' = wasm \/ decoded.error = "None")
      BY <2>1 DEF Decode
    <3>2. Err("TooLarge").error # "None"
      BY DEF Err
    <3>3. decoded.error = "None" => ~(Len(image) > MAX_MODULE_BYTES)
      BY <3>2, Zenon DEF Module_decode
    <3> HIDE DEF decoded
    <3>4. CASE wasm' = wasm
      BY <3>1, <3>4 DEF LoadedFits
    <3>5. CASE decoded.error = "None"
      BY <3>1, <3>3, <3>5, CeilingsAssumption DEF LoadedFits
    <3> QED
      BY <3>1, <3>4, <3>5
  <2>2. CASE image' = image /\ wasm' = wasm
    BY <2>2 DEF LoadedFits
  <2>3. Decode \/ (image' = image /\ wasm' = wasm)
    BY LoadedOnce DEF ToolInv
  <2> QED
    BY <2>1, <2>2, <2>3
<1> QED
  BY <1>1, <1>2, ToolTypeCorrect, PTL DEF ToolSpec

(* Whatever its bytes and whatever it computes, a module never makes the   *)
(* vectors the kernel grows for it longer than their ceilings: the         *)
(* decoder's on the entries of a section, on locals and on results, the    *)
(* module's own bytes on all its parameters, the interpreter's on          *)
(* activations, operands, labels and locals.                               *)
THEOREM HeapBoundedAlways == ToolSpec => []HeapBounded
<1>1. ToolInv /\ LoadedFits => HeapBounded
  <2> SUFFICES ASSUME ToolInv, LoadedFits
               PROVE  HeapBounded
    OBVIOUS
  <2>1. MachineInv
    BY DEF ToolInv
  <2>2. Len(image) \in Nat /\ wasm \in AModule(Len(image))
    BY <2>1 DEF MachineInv
  <2>3. Parameters(wasm.types) <= MAX_MODULE_BYTES
    <3>1. wasm.types \in Seq(AType) /\ Parameters(wasm.types) <= Len(image)
      BY <2>2 DEF AModule, TypesOf, AtMost
    <3>2. Parameters(wasm.types) \in Nat
      BY <3>1, ParametersGrow
    <3> DEFINE total == Parameters(wasm.types)
    <3>3. wasm.types = <<>> => total = 0
      BY ParametersGrow
    <3> HIDE DEF total
    <3>4. total \in Nat /\ total <= Len(image)
      BY <3>1, <3>2 DEF total
    <3>5. total <= MAX_MODULE_BYTES
      BY <2>2, <3>3, <3>4, CeilingsAssumption DEF LoadedFits
    <3> QED
      BY <3>5 DEF total
  <2> QED
    BY <2>1, <2>2, <2>3, ModuleFits, FramesFit DEF HeapBounded, ModuleBounded
<1> QED
  BY <1>1, ToolTypeCorrect, LoadedAlwaysFits, PTL

(* A tool that runs is never denied by its host, and whatever it reached   *)
(* was in its manifest and granted before its first instruction.           *)
THEOREM UnauthorizedNeverReached == ToolSpec => []UnauthorizedUnreachable
<1>1. ToolInv => UnauthorizedUnreachable
  BY DEF ToolInv, HostInv
<1> QED
  BY <1>1, ToolTypeCorrect, PTL

LEMMA RunGoesOn ==
  ASSUME MachineInv, HostInv, Run
  PROVE  outcome' \notin {"Raw", "Decoded", "Bound"}
<1> DEFINE index == export(wasm, EntryName)
           callee == activation(wasm, index, <<>>, 0)
<1>1. callee.error \in {"None", "StackOverflow", "Malformed", "Faulted"}
  BY ActivationErrors
<1>2. \/ outcome' \in {"OutOfBounds", "Malformed", "Running"}
      \/ callee.error # "None" /\ outcome' = callee.error
      \/ /\ exported(wasm, EntryName) # {} /\ index < Len(wasm.imports)
         /\ \E answer \in host_call(index) :
              outcome' = IF answer.trap = "None" THEN "Done" ELSE answer.trap
  BY DEF Run
<1> HIDE DEF callee
<1>3. CASE /\ exported(wasm, EntryName) # {} /\ index < Len(wasm.imports)
           /\ \E answer \in host_call(index) :
                outcome' = IF answer.trap = "None" THEN "Done" ELSE answer.trap
  <2>1. /\ wasm \in AModule(Len(image)) /\ Len(image) \in Nat
    BY DEF MachineInv
  <2>2. index \in Nat /\ Len(wasm.imports) \in Nat
    BY <1>3, <2>1, EntryPoint DEF AModule, AtMost
  <2> HIDE DEF index
  <2>3. index \in 0 .. Len(wasm.imports) - 1
    BY <1>3, <2>2
  <2>4. Resolved /\ host \in AHost
    BY DEF HostInv, Run
  <2>5. \A answer \in host_call(index) : answer.trap = "None"
    BY <2>3, <2>4, Answers
  <2> QED
    BY <1>3, <2>5
<1> QED
  BY <1>1, <1>2, <1>3

(* Every step of a tool that is not its end is one stage further, or one   *)
(* instruction of a run that has less fuel after it: with the fuel a       *)
(* natural number, a tool takes at most Fuel + 4 steps.                    *)
Advances ==
  \/ Ended'
  \/ outcome = "Raw" /\ outcome' = "Decoded"
  \/ outcome = "Decoded" /\ outcome' = "Bound"
  \/ outcome = "Bound" /\ outcome' = "Running" /\ fuel' = Fuel
  \/ outcome = "Running" /\ outcome' = "Running" /\ fuel' \in Nat /\ fuel' < fuel

THEOREM EveryStepAdvances == ToolSpec => [][Advances]_vars
<1>1. ToolInv /\ ToolInv' /\ [ToolNext]_vars => [Advances]_vars
  <2> SUFFICES ASSUME ToolInv, ToolInv', ToolNext, ~UNCHANGED vars
               PROVE  Advances
    OBVIOUS
  <2>1. MachineInv /\ HostInv /\ fuel' \in Nat
    BY DEF ToolInv, MachineInv
  <2>2. CASE Decode
    BY <2>2 DEF Decode, Advances, Ended
  <2>3. CASE Bind
    BY <2>3 DEF Bind, Advances, Ended
  <2>4. CASE Run
    <3>1. outcome = "Bound" /\ outcome' = "Running" => fuel' = Fuel
      <4> SUFFICES ASSUME outcome = "Bound", outcome' = "Running"  PROVE fuel' = Fuel
        OBVIOUS
      <4>1. frames = <<>> /\ frames' # <<>>
        BY DEF ToolInv, MachineInv
      <4> QED
        BY <2>4, <4>1 DEF Run
    <3>2. outcome = "Bound"
      BY <2>4 DEF Run
    <3> QED
      BY <3>1, <3>2, <2>1, <2>4, RunGoesOn DEF Advances, Ended
  <2>5. CASE Step \/ HostCall
    <3>1. Spends /\ outcome = "Running"
      BY <2>1, <2>5, ExecuteSpends, HostCallKeeps DEF Step
    <3>2. CASE outcome' = "Running"
      BY <2>1, <3>1, <3>2 DEF Spends, Advances
    <3>3. CASE outcome' \notin NoTrap
      BY <3>3 DEF Advances, Ended, NoTrap
    <3> QED
      BY <3>1, <3>2, <3>3 DEF Spends
  <2>6. CASE Rest
    BY <2>6 DEF Rest
  <2> QED
    BY <2>2, <2>3, <2>4, <2>5, <2>6 DEF ToolNext
<1> QED
  BY <1>1, ToolTypeCorrect, PTL DEF ToolSpec

(* Whatever bytes it is given, the cursor reads an integer to what its     *)
(* encoding means when that fits the width, and refuses it when it does    *)
(* not; only a signed integer as wide as an i64 is cut off to its width    *)
(* where one would expect it to be refused.                                *)
THEOREM LebAlwaysAgrees == ToolSpec => []LebAgrees
<1>1. ToolInv => LebAgrees
  <2> SUFFICES ASSUME ToolInv, NEW bits \in {Word, Long}
               PROVE  UnsignedAgrees(image, bits) /\ SignedAgrees(image, bits)
    BY DEF LebAgrees
  <2>1. image \in Seq(Byte)
    BY DEF ToolInv, MachineInv
  <2>2. Gathered(bits) /\ bits \in Nat \ {0}
    BY WidthsAssumption DEF Gathered, Groups
  <2> QED
    BY <2>1, <2>2, UnsignedMeans, SignedMeans
<1> QED
  BY <1>1, ToolTypeCorrect, PTL

-----------------------------------------------------------------------------
(* The structure of a function's body.                                     *)

(* Recursion that counts from one.                                         *)
CountsUp(V, b, n, G) ==
  \E f \in [1..(n + 1) -> V] : f[1] = b /\ \A k \in 1..n : f[k + 1] = G[k][f[k]]

LEMMA CountedChain ==
  ASSUME NEW V, NEW b \in V, NEW n \in Nat, NEW G \in [1..n -> [V -> V]]
  PROVE  CountsUp(V, b, n, G)
<1> DEFINE H == [k \in 0..(n - 1) |-> G[k + 1]]
<1>1. \A k \in 0..(n - 1) : k + 1 \in 1..n
  OBVIOUS
<1>2. H \in [0..(n - 1) -> [V -> V]] /\ \A k \in 0..(n - 1) : H[k] = G[k + 1]
  BY <1>1
<1> HIDE DEF H
<1>3. PICK h \in [0..n -> V] : h = [k \in 0..n |-> IF k = 0 THEN b ELSE H[k - 1][h[k - 1]]]
  <2>1. Chain(V, b, n, H)
    BY <1>2, ChainExists
  <2> QED
    BY <2>1 DEF Chain
<1> DEFINE f == [k \in 1..(n + 1) |-> h[k - 1]]
<1>4. \A k \in 1..(n + 1) : k - 1 \in 0..n /\ f[k] = h[k - 1]
  OBVIOUS
<1>5. f \in [1..(n + 1) -> V]
  BY <1>4
<1>6. 1 \in 1..(n + 1) /\ 0 \in 0..n /\ h[0] = b
  BY <1>3
<1>7. f[1] = b
  BY <1>4, <1>6
<1>8. ASSUME NEW k \in 1..n  PROVE f[k + 1] = G[k][f[k]]
  <2>1. k + 1 \in 1..(n + 1) /\ k \in 1..(n + 1) /\ k \in 0..n /\ k # 0 /\ k - 1 \in 0..(n - 1)
        /\ (k + 1) - 1 = k /\ (k - 1) + 1 = k
    OBVIOUS
  <2> HIDE DEF f
  <2>2. f[k + 1] = h[k] /\ f[k] = h[k - 1]
    BY <1>4, <2>1
  <2>3. h[k] = H[k - 1][h[k - 1]]
    BY <1>3, <2>1
  <2> QED
    BY <1>2, <2>1, <2>2, <2>3
<1> HIDE DEF f
<1> QED
  BY <1>5, <1>7, <1>8 DEF CountsUp

LEMMA CountingUp ==
  ASSUME NEW n \in Nat, NEW S, 1 \in S, \A k \in 1..n : k \in S => k + 1 \in S
  PROVE  \A k \in 1..(n + 1) : k \in S
<1> DEFINE T == {k \in 0..n : k + 1 \in S}
<1>1. 0 \in T
  OBVIOUS
<1>2. ASSUME NEW k \in 0..(n - 1), k \in T  PROVE k + 1 \in T
  <2>1. k + 1 \in 1..n /\ k + 1 \in 0..n
    OBVIOUS
  <2> QED
    BY <1>2, <2>1
<1> HIDE DEF T
<1>3. \A k \in 0..n : k \in T
  BY <1>1, <1>2, UpTo
<1>4. \A k \in 1..(n + 1) : k - 1 \in 0..n /\ (k - 1) + 1 = k
  OBVIOUS
<1> QED
  BY <1>3, <1>4 DEF T

LEMMA StartsAre ==
  ASSUME NEW L \in Seq(Seq(Byte)), NEW from \in Nat
  PROVE  /\ Starts(L, from, 1) = from
         /\ \A k \in 1..(Len(L) + 1) : Starts(L, from, k) \in Nat
         /\ \A k \in 1..Len(L) : Starts(L, from, k + 1) = Starts(L, from, k) + Len(L[k])
<1> DEFINE N == Len(L)
           w(k) == Len(L[k])
           G == [k \in 1..N |-> [x \in Nat |-> x + w(k)]]
<1>1. N \in Nat /\ \A k \in 1..N : w(k) \in Nat
  <2>1. \A s \in Seq(Byte) : Len(s) \in Nat
    OBVIOUS
  <2>2. \A k \in 1..N : L[k] \in Seq(Byte)
    OBVIOUS
  <2> QED
    BY <2>1, <2>2
<1> HIDE DEF w
<1>2. G \in [1..N -> [Nat -> Nat]] /\ \A k \in 1..N, x \in Nat : G[k][x] = x + w(k)
  BY <1>1
<1> HIDE DEF N, G
<1>3. PICK f \in [1..(N + 1) -> Nat] : f[1] = from /\ \A k \in 1..N : f[k + 1] = G[k][f[k]]
  <2>1. CountsUp(Nat, from, N, G)
    BY <1>1, <1>2, CountedChain
  <2> QED
    BY <2>1 DEF CountsUp
<1>4. \A k \in 1..N : f[k + 1] = f[k] + w(k)
  <2>1. \A k \in 1..N : k \in 1..(N + 1)
    BY <1>1
  <2> QED
    BY <1>2, <1>3, <2>1
<1>5. ASSUME NEW n \in 1..(N + 1)
      PROVE  Starts(L, from, n) = f[n]
  <2> DEFINE Is(g) == g = [j \in 1..n |-> IF j = 1 THEN from ELSE g[j - 1] + Len(L[j - 1])]
             at == CHOOSE g : Is(g)
             t == [j \in 1..n |-> f[j]]
             S == {j \in 1..n : at[j] = f[j]}
  <2>1. Starts(L, from, n) = at[n]
    BY DEF Starts
  <2>2. n - 1 \in Nat /\ 1 \in 1..n /\ \A j \in 1..n : j \in 1..(N + 1) /\
          (j # 1 => j - 1 \in 1..n /\ j - 1 \in 1..N /\ (j - 1) + 1 = j)
    BY <1>1
  <2>3. \A j \in 1..n : j # 1 => f[j] = f[j - 1] + Len(L[j - 1])
    BY <1>4, <2>2 DEF w
  <2>4. \A j \in 1..n : t[j] = f[j]
    OBVIOUS
  <2>5. \A j \in 1..n : f[j] = IF j = 1 THEN from ELSE t[j - 1] + Len(L[j - 1])
    BY <1>3, <2>2, <2>3, <2>4
  <2>6. Is(t)
    BY <2>5
  <2>7. Is(at)
    BY <2>6
  <2> HIDE DEF at, t
  <2>8. 1 \in S
    BY <1>3, <2>2, <2>7
  <2>9. ASSUME NEW j \in 1..(n - 1), j \in S
        PROVE  j + 1 \in S
    <3>1. j + 1 \in 1..n /\ j + 1 # 1 /\ (j + 1) - 1 = j
      BY <2>2
    <3>2. at[j + 1] = at[j] + Len(L[j])
      BY <2>7, <3>1
    <3>3. f[j + 1] = f[j] + Len(L[j])
      BY <2>3, <3>1
    <3> QED
      BY <2>9, <3>1, <3>2, <3>3
  <2> HIDE DEF S
  <2>10. \A j \in 1..((n - 1) + 1) : j \in S
    BY <2>2, <2>8, <2>9, CountingUp
  <2>11. n \in 1..((n - 1) + 1)
    BY <2>2
  <2> QED
    BY <2>1, <2>10, <2>11 DEF S
<1>6. 1 \in 1..(N + 1) /\ \A k \in 1..N : k \in 1..(N + 1) /\ k + 1 \in 1..(N + 1)
  BY <1>1
<1> QED
  BY <1>3, <1>4, <1>5, <1>6 DEF N, w

(* No two instructions start at the same place.                            *)
LEMMA StartsRise ==
  ASSUME NEW L \in Seq(Seq(Byte)), NEW from \in Nat, \A k \in 1..Len(L) : L[k] # <<>>
  PROVE  \A j, k \in 1..(Len(L) + 1) : j < k => Starts(L, from, j) < Starts(L, from, k)
<1> DEFINE N == Len(L)
           at(k) == Starts(L, from, k)
<1>1. /\ \A k \in 1..(N + 1) : at(k) \in Nat
      /\ \A k \in 1..N : at(k + 1) = at(k) + Len(L[k])
  BY StartsAre
<1>2. N \in Nat /\ \A k \in 1..N : Len(L[k]) \in Nat /\ Len(L[k]) >= 1
  <2>1. \A s \in Seq(Byte) : s # <<>> => Len(s) \in Nat /\ Len(s) >= 1
    OBVIOUS
  <2>2. \A k \in 1..N : L[k] \in Seq(Byte)
    OBVIOUS
  <2> QED
    BY <2>1, <2>2
<1> HIDE DEF N, at
<1> SUFFICES ASSUME NEW j \in 1..(N + 1)
             PROVE  \A k \in 1..(N + 1) : j < k => at(j) < at(k)
  BY DEF N, at
<1> DEFINE S == {k \in 1..(N + 1) : j < k => at(j) < at(k)}
<1>3. 1 \in S
  BY <1>2
<1>4. ASSUME NEW k \in 1..N, k \in S  PROVE k + 1 \in S
  <2>1. k \in 1..(N + 1) /\ k + 1 \in 1..(N + 1)
    BY <1>2
  <2>2. at(k + 1) = at(k) + Len(L[k]) /\ at(k) \in Nat /\ at(j) \in Nat
    BY <1>1, <2>1
  <2>3. at(k) < at(k + 1)
    BY <1>2, <2>2
  <2>4. j < k + 1 => j = k \/ j < k
    BY <1>2
  <2>5. j < k => at(j) < at(k)
    BY <1>4
  <2>6. j < k + 1 => at(j) < at(k + 1)
    <3>1. CASE j = k
      BY <2>3, <3>1
    <3>2. CASE j < k
      <4>1. at(j) < at(k)
        BY <2>5, <3>2
      <4> QED
        BY <1>1, <2>1, <2>2, <2>3, <4>1
    <3> QED
      BY <2>4, <3>1, <3>2
  <2> QED
    BY <2>1, <2>6
<1> HIDE DEF S
<1>5. \A k \in 1..(N + 1) : k \in S
  BY <1>2, <1>3, <1>4, CountingUp
<1> QED
  BY <1>5 DEF S

(* What instruction k does to the blocks that are open.                    *)
Inner(L, k, x) ==
  IF L[k][1] \in Openers THEN Append(x, k)
  ELSE IF L[k][1] = \h0b /\ x # <<>> THEN Front(x)
  ELSE x

LEMMA InnerIs ==
  ASSUME NEW L, NEW k \in Nat, NEW x \in Seq(Nat)
  PROVE  Inner(L, k, x) \in Seq(Nat)
<1>1. Append(x, k) \in Seq(Nat)
  OBVIOUS
<1>2. x # <<>> => SubSeq(x, 1, Len(x) - 1) \in Seq(Nat)
  BY Shortened
<1> QED
  BY <1>1, <1>2 DEF Inner, Front

LEMMA NestingIs ==
  ASSUME NEW L \in Seq(Seq(Byte))
  PROVE  /\ Nesting(L, 1) = <<>>
         /\ \A k \in 1..(Len(L) + 1) : Nesting(L, k) \in Seq(Nat)
         /\ \A k \in 1..Len(L) : Nesting(L, k + 1) = Inner(L, k, Nesting(L, k))
<1> DEFINE N == Len(L)
           G == [k \in 1..N |-> [x \in Seq(Nat) |-> Inner(L, k, x)]]
<1>1. N \in Nat
  OBVIOUS
<1>2. G \in [1..N -> [Seq(Nat) -> Seq(Nat)]]
      /\ \A k \in 1..N, x \in Seq(Nat) : G[k][x] = Inner(L, k, x)
  <2>1. \A k \in 1..N, x \in Seq(Nat) : Inner(L, k, x) \in Seq(Nat)
    BY InnerIs
  <2> QED
    BY <2>1
<1> HIDE DEF N, G
<1>3. <<>> \in Seq(Nat)
  OBVIOUS
<1>4. PICK f \in [1..(N + 1) -> Seq(Nat)] :
        f[1] = <<>> /\ \A k \in 1..N : f[k + 1] = G[k][f[k]]
  <2> DEFINE S == Seq(Nat)
  <2>1. G \in [1..N -> [S -> S]] /\ <<>> \in S
    BY <1>2, <1>3
  <2> HIDE DEF S
  <2>2. CountsUp(S, <<>>, N, G)
    BY <1>1, <2>1, CountedChain
  <2> QED
    BY <2>2 DEF CountsUp, S
<1>5. \A k \in 1..N : f[k + 1] = Inner(L, k, f[k])
  <2>1. \A k \in 1..N : k \in 1..(N + 1)
    BY <1>1
  <2> QED
    BY <1>2, <1>4, <2>1
<1>6. ASSUME NEW n \in 1..(N + 1)
      PROVE  Nesting(L, n) = f[n]
  <2> DEFINE Is(g) == g = [j \in 1..n |-> IF j = 1 THEN <<>> ELSE Inner(L, j - 1, g[j - 1])]
             open == CHOOSE g : Is(g)
             t == [j \in 1..n |-> f[j]]
             S == {j \in 1..n : open[j] = f[j]}
  <2>1. Nesting(L, n) = open[n]
    BY DEF Nesting, Inner
  <2>2. n - 1 \in Nat /\ 1 \in 1..n /\ \A j \in 1..n : j \in 1..(N + 1) /\
          (j # 1 => j - 1 \in 1..n /\ j - 1 \in 1..N /\ (j - 1) + 1 = j)
    BY <1>1
  <2>3. \A j \in 1..n : j # 1 => f[j] = Inner(L, j - 1, f[j - 1])
    BY <1>5, <2>2
  <2>4. \A j \in 1..n : t[j] = f[j]
    OBVIOUS
  <2>5. \A j \in 1..n : f[j] = IF j = 1 THEN <<>> ELSE Inner(L, j - 1, t[j - 1])
    BY <1>4, <2>2, <2>3, <2>4
  <2>6. Is(t)
    BY <2>5
  <2>7. Is(open)
    BY <2>6
  <2> HIDE DEF open, t
  <2>8. 1 \in S
    BY <1>4, <2>2, <2>7
  <2>9. ASSUME NEW j \in 1..(n - 1), j \in S
        PROVE  j + 1 \in S
    <3>1. j + 1 \in 1..n /\ j + 1 # 1 /\ (j + 1) - 1 = j
      BY <2>2
    <3>2. open[j + 1] = Inner(L, j, open[j])
      BY <2>7, <3>1
    <3>3. f[j + 1] = Inner(L, j, f[j])
      BY <2>3, <3>1
    <3> QED
      BY <2>9, <3>1, <3>2, <3>3
  <2> HIDE DEF S
  <2>10. \A j \in 1..((n - 1) + 1) : j \in S
    BY <2>2, <2>8, <2>9, CountingUp
  <2>11. n \in 1..((n - 1) + 1)
    BY <2>2
  <2> QED
    BY <2>1, <2>10, <2>11 DEF S
<1>7. 1 \in 1..(N + 1) /\ \A k \in 1..N : k \in 1..(N + 1) /\ k + 1 \in 1..(N + 1)
  BY <1>1
<1> QED
  BY <1>4, <1>5, <1>6, <1>7 DEF N

(* How the open blocks differ before and after instruction k.              *)
Deepens(L, k) ==
  LET x == Nesting(L, k)
      y == Nesting(L, k + 1)
      op == L[k][1]
  IN  /\ Len(x) \in Nat /\ Len(y) \in Nat
      /\ op \in Openers => Len(y) = Len(x) + 1 /\ y[Len(x) + 1] = k
      /\ op = \h0b /\ Len(x) # 0 => Len(y) = Len(x) - 1
      /\ op \notin Openers /\ (op # \h0b \/ Len(x) = 0) => Len(y) = Len(x)
      /\ \A q \in 1..Len(x) : q <= Len(y) => y[q] = x[q]

LEMMA NestingDeepens ==
  ASSUME NEW L \in Seq(Seq(Byte)), NEW k \in 1..Len(L)
  PROVE  Deepens(L, k)
<1> DEFINE x == Nesting(L, k)
           y == Nesting(L, k + 1)
           op == L[k][1]
<1>1. x \in Seq(Nat) /\ y = Inner(L, k, x) /\ k \in Nat
  <2>1. k \in 1..(Len(L) + 1)
    OBVIOUS
  <2> QED
    BY <2>1, NestingIs
<1>2. 11 \notin Openers
  BY DEF Openers
<1>3. y = IF op \in Openers THEN Append(x, k) ELSE IF op = 11 /\ x # <<>> THEN Front(x) ELSE x
  BY <1>1 DEF Inner
<1> HIDE DEF x, y, op
<1>4. Len(x) \in Nat /\ (x # <<>> <=> Len(x) # 0)
  BY <1>1
<1>5. CASE op \in Openers
  <2>1. y = Append(x, k)
    BY <1>3, <1>5
  <2>2. Len(y) = Len(x) + 1 /\ y[Len(x) + 1] = k /\ \A q \in 1..Len(x) : y[q] = x[q]
    BY <1>1, <2>1
  <2> QED
    BY <1>2, <1>4, <1>5, <2>2 DEF Deepens, x, y, op
<1>6. CASE op = 11 /\ Len(x) # 0
  <2>1. y = SubSeq(x, 1, Len(x) - 1)
    BY <1>2, <1>3, <1>4, <1>6 DEF Front
  <2> DEFINE m == Len(x) - 1
  <2>2. m \in 0..Len(x)
    BY <1>4, <1>6
  <2>3. Len(y) = m /\ \A q \in 1..m : y[q] = x[q]
    <3>1. y = SubSeq(x, 1, m)
      BY <2>1
    <3> HIDE DEF m
    <3> QED
      BY <1>1, <2>2, <3>1
  <2>4. Len(y) \in Nat /\ \A q \in 1..Len(x) : q <= Len(y) => q \in 1..(Len(x) - 1)
    BY <1>4, <2>2, <2>3
  <2> QED
    BY <1>2, <1>4, <1>6, <2>3, <2>4 DEF Deepens, x, y, op
<1>7. CASE op \notin Openers /\ (op # 11 \/ Len(x) = 0)
  <2>1. y = x
    BY <1>3, <1>4, <1>7
  <2> QED
    BY <1>4, <1>7, <2>1 DEF Deepens, x, y, op
<1> QED
  BY <1>5, <1>6, <1>7

(* The block opened p-th before instruction k is one that instruction j    *)
(* opens, inside the blocks opened before it.                              *)
Opened(L, k, p) ==
  LET j == Nesting(L, k)[p] IN
  /\ j \in 1..(k - 1) /\ L[j][1] \in Openers
  /\ Len(Nesting(L, j)) = p - 1
  /\ \A q \in 1..(p - 1) : Nesting(L, j)[q] = Nesting(L, k)[q]

LEMMA Nested ==
  ASSUME NEW L \in Seq(Seq(Byte))
  PROVE  \A k \in 1..(Len(L) + 1) : \A p \in 1..Len(Nesting(L, k)) : Opened(L, k, p)
<1> DEFINE N == Len(L)
           S == {k \in 1..(N + 1) : \A p \in 1..Len(Nesting(L, k)) : Opened(L, k, p)}
<1>1. N \in Nat
  OBVIOUS
<1>2. 1 \in S
  <2>1. Nesting(L, 1) = <<>>
    BY NestingIs
  <2>2. 1..Len(Nesting(L, 1)) = {}
    BY <2>1
  <2> QED
    BY <1>1, <2>2
<1>3. ASSUME NEW k \in 1..N, k \in S
      PROVE  k + 1 \in S
  <2> DEFINE x == Nesting(L, k)
             y == Nesting(L, k + 1)
             op == L[k][1]
  <2>1. Deepens(L, k)
    BY NestingDeepens
  <2>2. /\ Len(x) \in Nat /\ Len(y) \in Nat
        /\ op \in Openers => Len(y) = Len(x) + 1 /\ y[Len(x) + 1] = k
        /\ op \notin Openers => Len(y) <= Len(x)
        /\ \A q \in 1..Len(x) : q <= Len(y) => y[q] = x[q]
    BY <2>1 DEF Deepens
  <2>3. k \in Nat /\ k + 1 \in 1..(N + 1) /\ (k + 1) - 1 = k
    BY <1>1
  <2>4. ASSUME NEW p \in 1..Len(y)
        PROVE  Opened(L, k + 1, p)
    <3>1. CASE p <= Len(x)
      <4>1. p \in 1..Len(x) /\ y[p] = x[p]
        BY <2>2, <3>1
      <4>2. Opened(L, k, p)
        BY <1>3, <4>1
      <4>3. \A q \in 1..(p - 1) : q \in 1..Len(x) /\ q <= Len(y)
        BY <2>2, <3>1
      <4>4. \A q \in 1..(p - 1) : y[q] = x[q]
        BY <2>2, <4>3
      <4> DEFINE j == x[p]
      <4>5. /\ j \in 1..(k - 1) /\ L[j][1] \in Openers /\ Len(Nesting(L, j)) = p - 1
            /\ \A q \in 1..(p - 1) : Nesting(L, j)[q] = x[q]
        BY <4>2 DEF Opened
      <4>6. y[p] = j
        BY <4>1
      <4> HIDE DEF j, x, y
      <4>7. j \in 1..((k + 1) - 1)
        BY <2>3, <4>5
      <4> QED
        BY <4>4, <4>5, <4>6, <4>7 DEF Opened, y
    <3>2. CASE p > Len(x)
      <4>1. op \in Openers /\ p = Len(x) + 1 /\ y[p] = k
        BY <2>2, <3>2
      <4>2. \A q \in 1..(p - 1) : q \in 1..Len(x) /\ q <= Len(y)
        BY <2>2, <4>1
      <4>3. \A q \in 1..(p - 1) : x[q] = y[q]
        BY <2>2, <4>2
      <4>4. Len(x) = p - 1 /\ k \in 1..((k + 1) - 1)
        BY <2>2, <2>3, <4>1
      <4> HIDE DEF y
      <4> QED
        BY <4>1, <4>3, <4>4 DEF Opened, y
    <3> QED
      BY <2>2, <3>1, <3>2
  <2> QED
    BY <2>3, <2>4
<1> HIDE DEF S
<1>4. \A k \in 1..(N + 1) : k \in S
  BY <1>1, <1>2, <1>3, CountingUp
<1> QED
  BY <1>4 DEF S

(* Instruction c is an `end` that has the block of instruction j innermost. *)
Shuts(L, j, c) ==
  /\ c \in 1..Len(L) /\ j < c /\ L[c][1] = \h0b
  /\ Len(Nesting(L, c)) # 0 /\ Nesting(L, c)[Len(Nesting(L, c))] = j

(* Blocks further in were opened later.                                    *)
LEMMA InnerLater ==
  ASSUME NEW L \in Seq(Seq(Byte)), NEW k \in 1..(Len(L) + 1),
         NEW p \in 1..Len(Nesting(L, k)), NEW q \in 1..(p - 1)
  PROVE  Nesting(L, k)[q] < Nesting(L, k)[p]
<1> DEFINE N == Len(L)
           x == Nesting(L, k)
           j == x[p]
<1>1. Opened(L, k, p) /\ Len(x) \in Nat /\ N \in Nat
  <2>1. x \in Seq(Nat)
    BY NestingIs
  <2> QED
    BY <2>1, Nested
<1>2. j \in 1..(k - 1) /\ Len(Nesting(L, j)) = p - 1 /\ Nesting(L, j)[q] = x[q]
  BY <1>1 DEF Opened
<1> HIDE DEF j
<1>3. j \in 1..(Len(L) + 1) /\ q \in 1..Len(Nesting(L, j))
  BY <1>1, <1>2
<1>4. Opened(L, j, q)
  BY <1>3, Nested
<1>5. Nesting(L, j)[q] \in 1..(j - 1)
  BY <1>4 DEF Opened
<1>6. x[q] < j
  <2> DEFINE i == Nesting(L, j)[q]
  <2>1. i \in 1..(j - 1) /\ x[q] = i /\ j \in Nat
    BY <1>2, <1>3, <1>5
  <2> HIDE DEF i, x
  <2> QED
    BY <2>1
<1> QED
  BY <1>6 DEF j

(* A block that is shut is not opened again.                               *)
LEMMA StaysShut ==
  ASSUME NEW L \in Seq(Seq(Byte)), NEW j \in Nat, NEW c \in 1..Len(L), Shuts(L, j, c)
  PROVE  \A k \in 1..(Len(L) + 1) : c < k =>
           \A p \in 1..Len(Nesting(L, k)) : Nesting(L, k)[p] # j
<1> DEFINE N == Len(L)
           o(k) == Nesting(L, k)
           S == {k \in 1..(N + 1) : c < k => \A p \in 1..Len(o(k)) : o(k)[p] # j}
<1>1. N \in Nat /\ c \in 1..N /\ c \in Nat /\ j < c
  BY DEF Shuts
<1>2. 1 \in S
  BY <1>1
<1>3. ASSUME NEW k \in 1..N, k \in S
      PROVE  k + 1 \in S
  <2>1. k + 1 \in 1..(N + 1) /\ k \in 1..(N + 1) /\ k \in Nat
    BY <1>1
  <2>2. Deepens(L, k)
    BY NestingDeepens
  <2> DEFINE x == o(k)
             y == o(k + 1)
             op == L[k][1]
  <2>3. /\ Len(x) \in Nat /\ Len(y) \in Nat
        /\ op \in Openers => Len(y) = Len(x) + 1 /\ y[Len(x) + 1] = k
        /\ op \notin Openers => Len(y) <= Len(x)
        /\ op = 11 /\ Len(x) # 0 => Len(y) = Len(x) - 1
        /\ \A q \in 1..Len(x) : q <= Len(y) => y[q] = x[q]
    BY <2>2 DEF Deepens
  <2>4. ASSUME c < k + 1, NEW p \in 1..Len(y)
        PROVE  y[p] # j
    <3>1. CASE c < k
      <4>1. CASE p <= Len(x)
        <5>1. p \in 1..Len(x) /\ y[p] = x[p]
          BY <2>3, <4>1
        <5>2. \A q \in 1..Len(x) : x[q] # j
          BY <1>3, <3>1
        <5> QED
          BY <5>1, <5>2
      <4>2. CASE p > Len(x)
        <5>1. y[p] = k
          <6>1. op \in Openers
            BY <2>3, <4>2
          <6>2. Len(y) = Len(x) + 1 /\ y[Len(x) + 1] = k /\ Len(x) \in Nat
            BY <2>3, <6>1
          <6>3. p = Len(x) + 1
            BY <4>2, <6>2
          <6> QED
            BY <6>2, <6>3
        <5>2. k # j
          BY <1>1, <2>1, <3>1
        <5> QED
          BY <5>1, <5>2
      <4> QED
        BY <2>3, <4>1, <4>2
    <3>2. CASE c = k
      <4>1. op = 11 /\ Len(x) # 0 /\ x[Len(x)] = j
        BY <3>2 DEF Shuts
      <4>2. Len(y) = Len(x) - 1 /\ p \in 1..(Len(x) - 1) /\ y[p] = x[p]
        BY <2>3, <4>1
      <4>3. Len(x) \in 1..Len(x)
        BY <2>3, <4>1
      <4>4. x[p] < x[Len(x)]
        BY <2>1, <4>2, <4>3, InnerLater
      <4>5. x[p] < j
        BY <4>1, <4>4
      <4> QED
        BY <4>2, <4>5
    <3> QED
      BY <1>1, <2>1, <2>4, <3>1, <3>2
  <2> QED
    BY <2>1, <2>4
<1> HIDE DEF S
<1>4. \A k \in 1..(N + 1) : k \in S
  BY <1>1, <1>2, <1>3, CountingUp
<1> QED
  BY <1>4 DEF S

LEMMA ShutsOnce ==
  ASSUME NEW L \in Seq(Seq(Byte)), NEW j \in Nat, NEW c, NEW d,
         Shuts(L, j, c), Shuts(L, j, d)
  PROVE  c = d
<1>1. ASSUME NEW a, NEW b, Shuts(L, j, a), Shuts(L, j, b), a < b
      PROVE  FALSE
  <2>1. a \in 1..Len(L) /\ b \in 1..Len(L) /\ b \in 1..(Len(L) + 1)
    BY <1>1 DEF Shuts
  <2> DEFINE y == Nesting(L, b)
  <2>2. Len(y) # 0 /\ y[Len(y)] = j
    BY <1>1 DEF Shuts
  <2>3. y \in Seq(Nat)
    BY <2>1, NestingIs
  <2> HIDE DEF y
  <2>4. Len(y) \in 1..Len(y)
    BY <2>2, <2>3
  <2>5. \A p \in 1..Len(y) : y[p] # j
    BY <1>1, <2>1, StaysShut DEF y
  <2> QED
    BY <2>2, <2>4, <2>5
<1>2. c \in Int /\ d \in Int
  BY DEF Shuts
<1>3. ~(c < d) /\ ~(d < c)
  BY <1>1
<1> QED
  BY <1>2, <1>3

-----------------------------------------------------------------------------
(* Instructions laid out in the bytes, the first at `from`.                *)
Laid(L, bytes, from) ==
  /\ L \in Seq(Seq(Byte)) /\ bytes \in Seq(Byte) /\ from \in Nat
  /\ Starts(L, from, Len(L) + 1) = Len(bytes)
  /\ \A k \in 1..Len(L) :
       LET at == Starts(L, from, k)
           op == L[k][1]
           read == immediates(bytes, at + 1, op)
       IN  /\ L[k] # <<>> /\ op = bytes[at + 1]
           /\ op # \h0e /\ read.error = "None" => read.at = Starts(L, from, k + 1)

LEMMA LaidFacts ==
  ASSUME NEW L, NEW bytes, NEW from, Laid(L, bytes, from)
  PROVE  /\ Len(L) \in Nat /\ Len(bytes) \in Nat
         /\ \A k \in 1..(Len(L) + 1) : Starts(L, from, k) \in 0..Len(bytes)
         /\ \A k \in 1..(Len(L) + 1) : Starts(L, from, k) < Len(bytes) <=> k \in 1..Len(L)
         /\ \A j, k \in 1..(Len(L) + 1) : Starts(L, from, j) = Starts(L, from, k) => j = k
<1> DEFINE N == Len(L)
           at(k) == Starts(L, from, k)
<1>1. L \in Seq(Seq(Byte)) /\ bytes \in Seq(Byte) /\ from \in Nat /\ at(N + 1) = Len(bytes)
      /\ \A k \in 1..N : L[k] # <<>>
  BY DEF Laid
<1>2. \A k \in 1..(N + 1) : at(k) \in Nat
  BY <1>1, StartsAre
<1>3. \A j, k \in 1..(N + 1) : j < k => at(j) < at(k)
  BY <1>1, StartsRise
<1>4. N \in Nat /\ Len(bytes) \in Nat
  BY <1>1
<1> HIDE DEF N, at
<1>5. ASSUME NEW k \in 1..(N + 1)
      PROVE  at(k) \in 0..Len(bytes) /\ (at(k) < Len(bytes) <=> k \in 1..N)
  <2>1. N + 1 \in 1..(N + 1) /\ (k = N + 1 \/ (k \in 1..N /\ k < N + 1))
    BY <1>4
  <2>2. CASE k = N + 1
    BY <1>1, <1>4, <2>2
  <2>3. CASE k \in 1..N /\ k < N + 1
    <3>1. at(k) < at(N + 1) /\ at(k) \in Nat
      BY <1>2, <1>3, <2>1, <2>3
    <3> QED
      BY <1>1, <1>4, <2>3, <3>1
  <2> QED
    BY <2>1, <2>2, <2>3
<1>6. ASSUME NEW j \in 1..(N + 1), NEW k \in 1..(N + 1), at(j) = at(k)
      PROVE  j = k
  <2>1. ~(at(j) < at(k)) /\ ~(at(k) < at(j))
    BY <1>2, <1>6
  <2>2. ~(j < k) /\ ~(k < j)
    BY <1>3, <2>1
  <2> QED
    BY <1>4, <2>2
<1> QED
  BY <1>4, <1>5, <1>6 DEF N, at

(* The blocks open before instruction k are those open before a, and depth *)
(* more.                                                                   *)
Deeper(L, a, k, depth) ==
  /\ Len(Nesting(L, k)) = Len(Nesting(L, a)) + depth
  /\ \A q \in 1..Len(Nesting(L, a)) : Nesting(L, k)[q] = Nesting(L, a)[q]

(* Where a scan from instruction a stands: how deep it is, what it paid,   *)
(* which `else` it met.                                                    *)
Alternative(L, from, a, else) ==
  else # None => \E d \in a..Len(L) : else = Starts(L, from, d + 1) /\ Deeper(L, a, d + 1, 0)

AtInstruction(L, from, a, left, s) ==
  \E k \in a..(Len(L) + 1) :
    /\ s.at = Starts(L, from, k) /\ s.depth \in Nat /\ Deeper(L, a, k, s.depth)
    /\ s.fuel = left - (k - a)

AtEnd(L, from, a, left, s) ==
  \E c \in a..Len(L) :
    /\ L[c][1] = \h0b /\ s.at = Starts(L, from, c + 1) /\ Deeper(L, a, c, 0)
    /\ s.fuel = left - (c - a) - 1

Tracks(L, bytes, from, a, left) ==
  {s \in Scans(Len(bytes), left) :
     /\ s.trap = Scanning => AtInstruction(L, from, a, left, s)
     /\ s.trap = "None" => AtEnd(L, from, a, left, s)
     /\ Alternative(L, from, a, s.else_at)}

(* The depth of the next instruction.                                      *)
LEMMA DeeperNext ==
  ASSUME NEW L \in Seq(Seq(Byte)), NEW a \in 1..(Len(L) + 1), NEW k \in 1..Len(L),
         NEW depth \in Nat, Deeper(L, a, k, depth)
  PROVE  /\ L[k][1] \in Openers => Deeper(L, a, k + 1, depth + 1)
         /\ L[k][1] = \h0b /\ depth # 0 => Deeper(L, a, k + 1, depth - 1)
         /\ L[k][1] \notin Openers /\ L[k][1] # \h0b => Deeper(L, a, k + 1, depth)
<1> DEFINE x == Nesting(L, k)
           y == Nesting(L, k + 1)
           z == Nesting(L, a)
           op == L[k][1]
<1>1. Deepens(L, k)
  BY NestingDeepens
<1>2. Len(z) \in Nat
  BY NestingIs
<1>3. /\ Len(x) \in Nat /\ Len(y) \in Nat
      /\ op \in Openers => Len(y) = Len(x) + 1
      /\ op = \h0b /\ Len(x) # 0 => Len(y) = Len(x) - 1
      /\ op \notin Openers /\ op # \h0b => Len(y) = Len(x)
      /\ \A q \in 1..Len(x) : q <= Len(y) => y[q] = x[q]
  BY <1>1 DEF Deepens
<1>4. Len(x) = Len(z) + depth /\ \A q \in 1..Len(z) : x[q] = z[q]
  BY DEF Deeper
<1> HIDE DEF x, y, z, op
<1>5. ASSUME Len(y) >= Len(z)
      PROVE  \A q \in 1..Len(z) : y[q] = z[q]
  <2>1. \A q \in 1..Len(z) : q \in 1..Len(x) /\ q <= Len(y)
    BY <1>2, <1>3, <1>4, <1>5
  <2> QED
    BY <1>3, <1>4, <2>1
<1>6. ASSUME op \in Openers  PROVE Deeper(L, a, k + 1, depth + 1)
  <2>1. Len(y) = Len(z) + (depth + 1) /\ Len(y) >= Len(z)
    BY <1>2, <1>3, <1>4, <1>6
  <2> QED
    BY <1>5, <2>1 DEF Deeper, y, z
<1>7. ASSUME op = \h0b, depth # 0  PROVE Deeper(L, a, k + 1, depth - 1)
  <2>1. Len(x) # 0
    BY <1>2, <1>4, <1>7
  <2>2. Len(y) = Len(z) + (depth - 1) /\ Len(y) >= Len(z)
    BY <1>2, <1>3, <1>4, <1>7, <2>1
  <2> QED
    BY <1>5, <2>2 DEF Deeper, y, z
<1>8. ASSUME op \notin Openers, op # \h0b  PROVE Deeper(L, a, k + 1, depth)
  <2>1. Len(y) = Len(z) + depth /\ Len(y) >= Len(z)
    BY <1>2, <1>3, <1>4, <1>8
  <2> QED
    BY <1>5, <2>1 DEF Deeper, y, z
<1> QED
  BY <1>6, <1>7, <1>8 DEF op

LEMMA TurnTracks ==
  ASSUME NEW L, NEW bytes, NEW from, Laid(L, bytes, from), NEW a \in 1..(Len(L) + 1),
         NEW left \in Nat, NEW want_else \in BOOLEAN, NEW s \in Tracks(L, bytes, from, a, left)
  PROVE  scan_turn(bytes, want_else, s) \in Tracks(L, bytes, from, a, left)
<1> DEFINE N == Len(L)
           B == Len(bytes)
           at(k) == Starts(L, from, k)
           r == scan_turn(bytes, want_else, s)
           op == bytes[s.at + 1]
           next == skip(bytes, s.at + 1, op)
           depth == CASE op \in Openers -> s.depth + 1 [] op = 11 -> s.depth - 1 [] OTHER -> s.depth
           else == IF op = 5 /\ s.depth = 0 /\ want_else /\ s.else_at = None
                   THEN next.at ELSE s.else_at
           stuck(trap, rest) == [s EXCEPT !.trap = trap, !.fuel = rest]
<1>1. /\ L \in Seq(Seq(Byte)) /\ bytes \in Seq(Byte) /\ from \in Nat
      /\ N \in Nat /\ B \in Nat /\ a \in Nat
      /\ \A k \in 1..(N + 1) : at(k) < B <=> k \in 1..N
  <2>1. L \in Seq(Seq(Byte)) /\ bytes \in Seq(Byte) /\ from \in Nat
    BY DEF Laid
  <2>2. N \in Nat /\ B \in Nat
    BY <2>1
  <2>3. a \in Nat
    BY <2>2
  <2>4. \A k \in 1..(N + 1) : at(k) < B <=> k \in 1..N
    BY LaidFacts
  <2> QED
    BY <2>1, <2>2, <2>3, <2>4
<1>2. /\ s \in Scans(B, left)
      /\ s.trap = Scanning => AtInstruction(L, from, a, left, s)
      /\ s.trap = "None" => AtEnd(L, from, a, left, s)
      /\ Alternative(L, from, a, s.else_at)
  BY DEF Tracks
<1>3. r \in Scans(B, left)
  BY <1>1, <1>2, ScanTurn
<1>4. /\ s.trap # Scanning => r = s
      /\ s.trap = Scanning =>
           \/ r \in {stuck("Malformed", s.fuel), stuck("OutOfFuel", 0),
                     stuck("Unsupported", s.fuel - 1), stuck("Malformed", s.fuel - 1)}
           \/ /\ ~(s.at >= B) /\ op # 14 /\ next.error = "None"
              /\ IF op = 11 /\ s.depth = 0
                 THEN r = Scan("None", next.at, 0, s.else_at, s.fuel - 1)
                 ELSE r = Scan(Scanning, next.at, depth, else, s.fuel - 1)
  BY DEF scan_turn, scan_past, metered
<1>5. CASE s.trap # Scanning
  BY <1>4, <1>5
<1>6. CASE r \in {stuck("Malformed", s.fuel), stuck("OutOfFuel", 0),
                  stuck("Unsupported", s.fuel - 1), stuck("Malformed", s.fuel - 1)}
  <2>1. r.else_at = s.else_at /\ r.trap \in {"Malformed", "OutOfFuel", "Unsupported"}
    BY <1>2, <1>6 DEF Scans
  <2>2. r.trap # Scanning /\ r.trap # "None"
    BY <2>1 DEF Scanning
  <2> HIDE DEF r
  <2>3. Alternative(L, from, a, r.else_at)
    BY <1>2, <2>1
  <2>4. r \in Tracks(L, bytes, from, a, left)
    BY <1>3, <2>2, <2>3 DEF Tracks
  <2> QED
    BY <2>4 DEF r
<1>7. CASE /\ s.trap = Scanning /\ ~(s.at >= B) /\ op # 14 /\ next.error = "None"
           /\ IF op = 11 /\ s.depth = 0
              THEN r = Scan("None", next.at, 0, s.else_at, s.fuel - 1)
              ELSE r = Scan(Scanning, next.at, depth, else, s.fuel - 1)
  <2>1. PICK k \in a..(N + 1) :
          /\ s.at = at(k) /\ s.depth \in Nat /\ Deeper(L, a, k, s.depth)
          /\ s.fuel = left - (k - a)
    BY <1>2, <1>7 DEF AtInstruction
  <2>2. k \in 1..(N + 1) /\ k \in Nat /\ s.at \in 0..B
    BY <1>1, <1>2, <2>1 DEF Scans
  <2>3. k \in 1..N
    <3>1. s.at < B
      BY <1>1, <1>7, <2>2
    <3> QED
      BY <1>1, <2>1, <2>2, <3>1
  <2>4. op = L[k][1] /\ next.at = at(k + 1)
    <3>1. op = L[k][1]
      BY <2>1, <2>3 DEF Laid
    <3>2. next = immediates(bytes, at(k) + 1, L[k][1])
      BY <2>1, <3>1 DEF skip
    <3> HIDE DEF next, op
    <3> QED
      BY <1>7, <2>3, <3>1, <3>2 DEF Laid
  <2>5. k + 1 \in a..(N + 1) /\ k \in a..N
    BY <1>1, <2>1, <2>3
  <2>6. s.fuel - 1 = left - (k - a) - 1 /\ s.fuel - 1 = left - ((k + 1) - a)
    BY <1>1, <2>1, <2>2
  <2>7. /\ op \in Openers => Deeper(L, a, k + 1, s.depth + 1)
        /\ op = 11 /\ s.depth # 0 => Deeper(L, a, k + 1, s.depth - 1)
        /\ op \notin Openers /\ op # 11 => Deeper(L, a, k + 1, s.depth)
    BY <1>1, <2>1, <2>3, <2>4, DeeperNext
  <2>8. 11 \notin Openers /\ 5 \notin Openers
    BY DEF Openers
  <2> HIDE DEF next, op, r, at
  <2>9. CASE op = 11 /\ s.depth = 0
    <3>1. r = Scan("None", next.at, 0, s.else_at, s.fuel - 1)
      BY <1>7, <2>9
    <3>2. r.trap = "None" /\ r.at = at(k + 1) /\ r.else_at = s.else_at /\ r.fuel = s.fuel - 1
      BY <2>4, <3>1 DEF Scan
    <3>3. AtEnd(L, from, a, left, r)
      BY <2>1, <2>4, <2>5, <2>6, <2>9, <3>2 DEF AtEnd, at
    <3>4. r.trap # Scanning
      BY <3>2 DEF Scanning
    <3> QED
      BY <1>2, <1>3, <3>2, <3>3, <3>4 DEF Tracks, r
  <2>10. CASE ~(op = 11 /\ s.depth = 0)
    <3>1. r = Scan(Scanning, next.at, depth, else, s.fuel - 1)
      BY <1>7, <2>10
    <3>2. depth \in Nat /\ Deeper(L, a, k + 1, depth)
      <4>1. CASE op \in Openers
        BY <2>1, <2>7, <2>8, <4>1
      <4>2. CASE op = 11
        <5>1. s.depth # 0 /\ depth = s.depth - 1
          BY <2>8, <2>10, <4>2
        <5> QED
          BY <2>1, <2>7, <4>2, <5>1
      <4>3. CASE op \notin Openers /\ op # 11
        BY <2>1, <2>7, <4>3
      <4> QED
        BY <4>1, <4>2, <4>3
    <3>3. Alternative(L, from, a, else)
      <4>1. CASE op = 5 /\ s.depth = 0 /\ want_else /\ s.else_at = None
        <5>1. else = at(k + 1) /\ Deeper(L, a, k + 1, 0)
          BY <2>4, <2>7, <2>8, <4>1
        <5> HIDE DEF else
        <5> QED
          BY <2>5, <5>1 DEF Alternative, at
      <4>2. CASE ~(op = 5 /\ s.depth = 0 /\ want_else /\ s.else_at = None)
        <5>1. else = s.else_at
          BY <4>2
        <5> HIDE DEF else
        <5> QED
          BY <1>2, <5>1
      <4> QED
        BY <4>1, <4>2
    <3> HIDE DEF depth, else
    <3>4. /\ r.trap = Scanning /\ r.at = at(k + 1) /\ r.depth = depth /\ r.else_at = else
          /\ r.fuel = s.fuel - 1
      BY <2>4, <3>1 DEF Scan
    <3>5. AtInstruction(L, from, a, left, r)
      BY <2>5, <2>6, <3>2, <3>4 DEF AtInstruction, at
    <3>6. r.trap # "None"
      BY <3>4 DEF Scanning
    <3> QED
      BY <1>3, <3>3, <3>4, <3>5, <3>6 DEF Tracks, r
  <2> QED
    BY <2>9, <2>10
<1> QED
  BY <1>4, <1>5, <1>6, <1>7

(* A scan that finds an `end` finds the one that shuts what instruction a  *)
(* is in, and an `else` it meets lies directly in the same block.          *)
LEMMA ScanFinds ==
  ASSUME NEW L, NEW bytes, NEW from, Laid(L, bytes, from), NEW a \in 1..(Len(L) + 1),
         NEW left \in Nat, NEW want_else \in BOOLEAN
  PROVE  LET r == scan(bytes, Starts(L, from, a), want_else, left) IN
         r.trap = "None" => AtEnd(L, from, a, left, r) /\ Alternative(L, from, a, r.else_at)
<1> DEFINE s == ScanStart(Starts(L, from, a), left)
           T == Tracks(L, bytes, from, a, left)
           r == scan(bytes, Starts(L, from, a), want_else, left)
<1>1. Starts(L, from, a) \in 0..Len(bytes) /\ Len(L) \in Nat /\ L \in Seq(Seq(Byte))
  <2>1. Starts(L, from, a) \in 0..Len(bytes) /\ Len(L) \in Nat
    BY LaidFacts
  <2>2. L \in Seq(Seq(Byte))
    BY DEF Laid
  <2> QED
    BY <2>1, <2>2
<1>2. s \in Scans(Len(bytes), left) /\ s.trap = Scanning /\ s.at = Starts(L, from, a)
      /\ s.depth = 0 /\ s.else_at = None /\ s.fuel = left
  BY <1>1 DEF ScanStart, Scan, Scans
<1>3. Deeper(L, a, a, 0)
  <2>1. Len(Nesting(L, a)) \in Nat
    BY <1>1, NestingIs
  <2> QED
    BY <2>1 DEF Deeper
<1> HIDE DEF s
<1>4. AtInstruction(L, from, a, left, s)
  <2>1. a \in a..(Len(L) + 1) /\ s.fuel = left - (a - a)
    BY <1>1, <1>2
  <2> QED
    BY <1>2, <1>3, <2>1 DEF AtInstruction
<1>5. s \in T
  <2>1. Alternative(L, from, a, s.else_at) /\ s.trap # "None"
    BY <1>2 DEF Alternative, Scanning
  <2> QED
    BY <1>2, <1>4, <2>1 DEF Tracks
<1>6. \A x \in T : scan_turn(bytes, want_else, x) \in T
  BY TurnTracks
<1> HIDE DEF T
<1>7. r \in T
  BY <1>5, <1>6, ScanStays DEF s
<1> HIDE DEF r
<1>8. r.trap = "None" => AtEnd(L, from, a, left, r) /\ Alternative(L, from, a, r.else_at)
  BY <1>7 DEF T, Tracks
<1> QED
  BY <1>8 DEF r

-----------------------------------------------------------------------------
(* Labels that are the blocks around an instruction.                       *)

(* A label leads to the head of the loop that instruction j opens, or      *)
(* behind the `end` of its block.                                          *)
Leads(L, from, label, j) ==
  /\ label.is_loop = (L[j][1] = \h03)
  /\ label.is_loop => label.target = Starts(L, from, j + 1)
  /\ ~label.is_loop => \E c : Shuts(L, j, c) /\ label.target = Starts(L, from, c + 1)

Fitted(L, from, labels, k) ==
  /\ Len(labels) = Len(Nesting(L, k))
  /\ \A n \in 1..Len(labels) : Leads(L, from, labels[n], Nesting(L, k)[n])

(* The labels that are left fit where the blocks that are left are open.   *)
LEMMA FitsPrefix ==
  ASSUME NEW L \in Seq(Seq(Byte)), NEW from, NEW V, NEW labels \in Seq(V),
         NEW k \in 1..(Len(L) + 1), NEW c \in 1..(Len(L) + 1), Fitted(L, from, labels, k),
         NEW m \in 0..Len(labels), Len(Nesting(L, c)) = m,
         \A q \in 1..m : Nesting(L, c)[q] = Nesting(L, k)[q]
  PROVE  Fitted(L, from, SubSeq(labels, 1, m), c)
<1> DEFINE s == SubSeq(labels, 1, m)
<1>1. Len(s) = m /\ \A q \in 1..m : s[q] = labels[q] /\ q \in 1..Len(labels)
  OBVIOUS
<1> HIDE DEF s
<1>2. \A q \in 1..m : Leads(L, from, s[q], Nesting(L, c)[q])
  BY <1>1 DEF Fitted
<1> QED
  BY <1>1, <1>2 DEF Fitted, s

LEMMA FitsSame ==
  ASSUME NEW L, NEW from, NEW labels, NEW k, NEW c, Fitted(L, from, labels, k),
         Len(Nesting(L, k)) \in Nat, Deeper(L, k, c, 0)
  PROVE  Fitted(L, from, labels, c)
BY DEF Fitted, Deeper

LEMMA FitsOpen ==
  ASSUME NEW L \in Seq(Seq(Byte)), NEW from, NEW V, NEW labels \in Seq(V),
         NEW k \in 1..Len(L), Fitted(L, from, labels, k),
         L[k][1] \in Openers, NEW label \in V, Leads(L, from, label, k)
  PROVE  Fitted(L, from, Append(labels, label), k + 1)
<1> DEFINE x == Nesting(L, k)
           y == Nesting(L, k + 1)
           s == Append(labels, label)
<1>1. Deepens(L, k)
  BY NestingDeepens
<1>2. /\ Len(x) \in Nat /\ Len(y) = Len(x) + 1 /\ y[Len(x) + 1] = k
      /\ \A q \in 1..Len(x) : y[q] = x[q]
  BY <1>1 DEF Deepens
<1>3. Len(labels) = Len(x) /\ \A q \in 1..Len(x) : Leads(L, from, labels[q], x[q])
  BY DEF Fitted
<1> HIDE DEF x, y
<1>4. Len(s) = Len(x) + 1 /\ s[Len(x) + 1] = label /\ \A q \in 1..Len(x) : s[q] = labels[q]
  BY <1>2, <1>3
<1> HIDE DEF s
<1>5. ASSUME NEW q \in 1..(Len(x) + 1)
      PROVE  Leads(L, from, s[q], y[q])
  <2>1. q \in 1..Len(x) \/ q = Len(x) + 1
    <3> DEFINE n == Len(x)
    <3>1. n \in Nat /\ q \in 1..(n + 1)
      BY <1>2
    <3> HIDE DEF n
    <3>2. q \in 1..n \/ q = n + 1
      BY <3>1
    <3> QED
      BY <3>2 DEF n
  <2>2. CASE q \in 1..Len(x)
    BY <1>2, <1>3, <1>4, <2>2
  <2>3. CASE q = Len(x) + 1
    BY <1>2, <1>4, <2>3
  <2> QED
    BY <2>1, <2>2, <2>3
<1> QED
  BY <1>2, <1>4, <1>5 DEF Fitted, s, y

LEMMA FitsShut ==
  ASSUME NEW L \in Seq(Seq(Byte)), NEW from, NEW V, NEW labels \in Seq(V),
         NEW k \in 1..Len(L), Fitted(L, from, labels, k),
         L[k][1] = \h0b, labels # <<>>
  PROVE  Fitted(L, from, SubSeq(labels, 1, Len(labels) - 1), k + 1)
<1> DEFINE x == Nesting(L, k)
           y == Nesting(L, k + 1)
           m == Len(labels) - 1
<1>1. Deepens(L, k)
  BY NestingDeepens
<1>2. Len(labels) = Len(x) /\ Len(labels) \in Nat /\ Len(labels) # 0
  BY DEF Fitted
<1>3. Len(y) = m /\ m \in 0..Len(labels) /\ \A q \in 1..m : y[q] = x[q]
  <2>1. /\ Len(y) = Len(x) - 1
        /\ \A q \in 1..Len(x) : q <= Len(y) => y[q] = x[q]
    BY <1>1, <1>2 DEF Deepens
  <2>2. Len(y) = m /\ m \in 0..Len(labels) /\ \A q \in 1..m : q \in 1..Len(x) /\ q <= m
    BY <1>2, <2>1
  <2> QED
    BY <2>1, <2>2
<1>4. k \in 1..(Len(L) + 1) /\ k + 1 \in 1..(Len(L) + 1)
  OBVIOUS
<1> HIDE DEF m
<1>5. Fitted(L, from, SubSeq(labels, 1, m), k + 1)
  BY <1>3, <1>4, FitsPrefix
<1> QED
  BY <1>5 DEF m

(* The rest does not change what is open.                                  *)
LEMMA SameLevel ==
  ASSUME NEW L \in Seq(Seq(Byte)), NEW k \in 1..Len(L),
         L[k][1] \notin Openers, L[k][1] # \h0b
  PROVE  Deeper(L, k, k + 1, 0) /\ Len(Nesting(L, k)) \in Nat
<1>1. Deepens(L, k)
  BY NestingDeepens
<1>2. /\ Len(Nesting(L, k)) \in Nat /\ Len(Nesting(L, k + 1)) = Len(Nesting(L, k))
      /\ \A q \in 1..Len(Nesting(L, k)) :
           q <= Len(Nesting(L, k + 1)) => Nesting(L, k + 1)[q] = Nesting(L, k)[q]
  BY <1>1 DEF Deepens
<1> DEFINE x == Nesting(L, k)
           y == Nesting(L, k + 1)
<1>3. Len(y) = Len(x) + 0 /\ \A q \in 1..Len(x) : y[q] = x[q]
  <2>1. /\ Len(x) \in Nat /\ Len(y) = Len(x)
        /\ \A q \in 1..Len(x) : q <= Len(y) => y[q] = x[q]
    BY <1>2
  <2> HIDE DEF x, y
  <2> QED
    BY <2>1
<1>4. Deeper(L, k, k + 1, 0)
  BY <1>3 DEF Deeper
<1> QED
  BY <1>2, <1>4

(* The `end` found from behind an opening instruction shuts its block, and *)
(* behind it is open what was open before.                                 *)
LEMMA EndShuts ==
  ASSUME NEW L \in Seq(Seq(Byte)), NEW k \in 1..Len(L), L[k][1] \in Openers,
         NEW c \in (k + 1)..Len(L), L[c][1] = \h0b, Deeper(L, k + 1, c, 0)
  PROVE  Shuts(L, k, c) /\ Deeper(L, k, c + 1, 0)
<1> DEFINE x == Nesting(L, k)
           y == Nesting(L, k + 1)
           z == Nesting(L, c)
           w == Nesting(L, c + 1)
<1>1. c \in 1..Len(L) /\ k < c
  OBVIOUS
<1>2. Deepens(L, k) /\ Deepens(L, c)
  BY <1>1, NestingDeepens
<1>3. /\ Len(x) \in Nat /\ Len(y) = Len(x) + 1 /\ y[Len(x) + 1] = k
      /\ \A q \in 1..Len(x) : y[q] = x[q]
  BY <1>2 DEF Deepens
<1>4. Len(z) = Len(x) + 1 /\ \A q \in 1..(Len(x) + 1) : z[q] = y[q]
  BY <1>3 DEF Deeper
<1>5. Len(z) # 0 /\ z[Len(z)] = k
  BY <1>3, <1>4
<1>6. Len(w) = Len(x) /\ \A q \in 1..Len(x) : w[q] = z[q]
  <2>1. /\ Len(w) = Len(z) - 1
        /\ \A q \in 1..Len(z) : q <= Len(w) => w[q] = z[q]
    BY <1>2, <1>5 DEF Deepens
  <2>2. Len(w) = Len(x) /\ \A q \in 1..Len(x) : q \in 1..Len(z) /\ q <= Len(w)
    BY <1>3, <1>4, <2>1
  <2> QED
    BY <2>1, <2>2
<1>7. \A q \in 1..Len(x) : w[q] = x[q]
  <2>1. \A q \in 1..Len(x) : q \in 1..(Len(x) + 1)
    BY <1>3
  <2> HIDE DEF x, y, z, w
  <2> QED
    BY <1>3, <1>4, <1>6, <2>1
<1> HIDE DEF x, w
<1>8. Deeper(L, k, c + 1, 0)
  BY <1>3, <1>6, <1>7 DEF Deeper, x, w
<1> QED
  BY <1>1, <1>5, <1>8 DEF Shuts

(* Where a branch to the n-th label goes, the labels it keeps fit.         *)
LEMMA FitsTarget ==
  ASSUME NEW L \in Seq(Seq(Byte)), NEW from, NEW V, NEW labels \in Seq(V),
         NEW k \in 1..(Len(L) + 1), Fitted(L, from, labels, k), NEW n \in 1..Len(labels),
         labels[n].is_loop \in BOOLEAN
  PROVE  \E c \in 1..(Len(L) + 1) :
           /\ labels[n].target = Starts(L, from, c)
           /\ Fitted(L, from, SubSeq(labels, 1, n - (IF labels[n].is_loop THEN 0 ELSE 1)), c)
<1> DEFINE o(i) == Nesting(L, i)
           label == labels[n]
           j == o(k)[n]
<1>1. Len(o(k)) = Len(labels) /\ Len(labels) \in Nat /\ Len(L) \in Nat
      /\ Leads(L, from, label, j)
  BY DEF Fitted
<1>2. Opened(L, k, n)
  BY <1>1, Nested
<1>3. /\ j \in 1..(k - 1) /\ L[j][1] \in Openers /\ Len(o(j)) = n - 1
      /\ \A q \in 1..(n - 1) : o(j)[q] = o(k)[q]
  BY <1>2 DEF Opened
<1> HIDE DEF label
<1>4. j \in 1..Len(L) /\ j + 1 \in 1..(Len(L) + 1) /\ n \in 0..Len(labels)
      /\ n - 1 \in 0..Len(labels)
  BY <1>1, <1>3
<1>5. CASE label.is_loop
  <2>1. label.target = Starts(L, from, j + 1)
    BY <1>1, <1>5 DEF Leads
  <2>2. Deepens(L, j)
    BY <1>4, NestingDeepens
  <2>3. Len(o(j + 1)) = n /\ o(j + 1)[n] = j /\ \A q \in 1..(n - 1) : o(j + 1)[q] = o(j)[q]
    BY <1>3, <2>2 DEF Deepens
  <2>4. \A q \in 1..n : o(j + 1)[q] = o(k)[q]
    <3> SUFFICES ASSUME NEW q \in 1..n  PROVE o(j + 1)[q] = o(k)[q]
      OBVIOUS
    <3>1. q \in 1..(n - 1) \/ q = n
      OBVIOUS
    <3>2. CASE q \in 1..(n - 1)
      BY <1>3, <2>3, <3>2
    <3>3. CASE q = n
      BY <2>3, <3>3
    <3> QED
      BY <3>1, <3>2, <3>3
  <2> HIDE DEF j
  <2>5. Fitted(L, from, SubSeq(labels, 1, n), j + 1)
    BY <1>4, <2>3, <2>4, FitsPrefix
  <2>6. n - (IF label.is_loop THEN 0 ELSE 1) = n
    BY <1>4, <1>5
  <2> QED
    BY <1>4, <2>1, <2>5, <2>6 DEF label
<1>6. CASE ~label.is_loop
  <2>1. PICK c : Shuts(L, j, c) /\ label.target = Starts(L, from, c + 1)
    BY <1>1, <1>6 DEF Leads
  <2> DEFINE p == Len(o(c))
  <2>2. c \in 1..Len(L) /\ L[c][1] = 11 /\ p # 0 /\ o(c)[p] = j
    BY <2>1 DEF Shuts
  <2>3. c \in 1..(Len(L) + 1) /\ c + 1 \in 1..(Len(L) + 1)
    BY <1>1, <2>2
  <2>4. p \in Nat /\ Deepens(L, c)
    BY <2>2, <2>3, NestingIs, NestingDeepens
  <2>5. Opened(L, c, p)
    <3>1. p \in 1..Len(o(c))
      BY <2>2, <2>4
    <3> HIDE DEF p
    <3> QED
      BY <2>3, <3>1, Nested
  <2>6. Len(o(j)) = p - 1 /\ \A q \in 1..(p - 1) : o(j)[q] = o(c)[q]
    BY <2>2, <2>5 DEF Opened
  <2>7. p = n
    BY <1>3, <2>4, <2>6
  <2>8. Len(o(c + 1)) = p - 1 /\ \A q \in 1..(p - 1) : o(c + 1)[q] = o(c)[q]
    <3>1. /\ Len(o(c + 1)) = p - 1
          /\ \A q \in 1..p : q <= Len(o(c + 1)) => o(c + 1)[q] = o(c)[q]
      BY <2>2, <2>4 DEF Deepens
    <3>2. \A q \in 1..(p - 1) : q \in 1..p /\ q <= p - 1
      BY <2>4
    <3> QED
      BY <3>1, <3>2
  <2>9. Len(o(c + 1)) = n - 1 /\ \A q \in 1..(n - 1) : o(c + 1)[q] = o(k)[q]
    BY <1>3, <2>6, <2>7, <2>8
  <2>10. Fitted(L, from, SubSeq(labels, 1, n - 1), c + 1)
    BY <1>4, <2>3, <2>9, FitsPrefix
  <2>11. n - (IF label.is_loop THEN 0 ELSE 1) = n - 1
    BY <1>6
  <2> QED
    BY <2>1, <2>3, <2>10, <2>11 DEF label
<1>7. label.is_loop \in BOOLEAN
  BY DEF label
<1> QED
  BY <1>5, <1>6, <1>7

-----------------------------------------------------------------------------
(* The entry function's activations, wherever they are on the stack.       *)
LEMMA EntryIsLaid ==
  ASSUME NEW L \in Seq(Seq(Byte)), NEW bytes \in Seq(Byte), NEW m \in AModule(Len(bytes)),
         Lists(L, bytes, m), m.functions # <<>>,
         m.functions[1].body.start <= m.functions[1].body.end
  PROVE  Laid(L, SubSeq(bytes, 1, m.functions[1].body.end), m.functions[1].body.start)
<1> DEFINE entry == m.functions[1].body
           from == entry.start
           end == entry.end
           N == Len(L)
           at(k) == Starts(L, from, k)
           part == SubSeq(bytes, 1, end)
<1>1. from \in Nat /\ end \in 0..Len(bytes) /\ Len(bytes) \in Nat /\ N \in Nat
  <2>1. m.functions \in Seq(AFunction(Len(bytes)))
    BY DEF AModule, AtMost
  <2> DEFINE fs == m.functions
             S == AFunction(Len(bytes))
  <2>2. fs \in Seq(S) /\ fs # <<>>
    BY <2>1
  <2> HIDE DEF fs, S
  <2>3. fs[1] \in S
    BY <2>2
  <2>4. Len(bytes) \in Nat /\ N \in Nat
    OBVIOUS
  <2>5. entry \in ABody(Len(bytes))
    BY <2>3 DEF fs, S, AFunction
  <2>6. from \in 0..Len(bytes) /\ end \in 0..Len(bytes)
    BY <2>5 DEF ABody
  <2> QED
    BY <2>4, <2>6
<1>2. /\ at(N + 1) = end
      /\ \A k \in DOMAIN L :
           LET op == L[k][1]
               read == immediates(part, at(k) + 1, op)
           IN  /\ L[k] # <<>> /\ op = bytes[at(k) + 1]
               /\ op # \h0e /\ read.error = "None" => read.at = at(k + 1)
  BY DEF Lists
<1>3. DOMAIN L = 1..N
  OBVIOUS
<1>4. \A j, k \in 1..(N + 1) : j < k => at(j) < at(k)
  BY <1>1, <1>2, <1>3, StartsRise
<1>5. \A k \in 1..(N + 1) : at(k) \in Nat
  BY <1>1, StartsAre
<1> HIDE DEF entry, from, end, at, N
<1>6. part \in Seq(Byte) /\ Len(part) = end /\ \A i \in 1..end : part[i] = bytes[i]
  BY <1>1
<1> HIDE DEF part
<1>7. ASSUME NEW k \in 1..N
      PROVE  bytes[at(k) + 1] = part[at(k) + 1]
  <2>1. N + 1 \in 1..(N + 1) /\ k \in 1..(N + 1) /\ k < N + 1
    BY <1>1
  <2>2. at(k) < end /\ at(k) \in Nat
    BY <1>2, <1>4, <1>5, <2>1
  <2>3. at(k) + 1 \in 1..end
    BY <1>1, <2>2
  <2> QED
    BY <1>6, <2>3
<1>8. Laid(L, part, from)
  BY <1>1, <1>2, <1>3, <1>6, <1>7 DEF Laid, at, N
<1> QED
  BY <1>8 DEF part, end, from, entry

Placed(L, from, frame) ==
  \E k \in 1..(Len(L) + 1) :
    frame.at = Starts(L, from, k) /\ Fitted(L, from, frame.labels, k)

Structured(L, m, frame) ==
  frame.function = 1 =>
    /\ m.functions[1].body.start <= m.functions[1].body.end
    /\ Placed(L, m.functions[1].body.start, frame)

(* The listing is the image's, and the entry function is where it says.    *)
StructInv ==
  /\ \E input \in Inputs : listing = input.listing /\ image = input.image
  /\ Lists(listing, image, wasm)
  /\ \A i \in DOMAIN frames : Structured(listing, wasm, frames[i])

LEMMA ListingIs ==
  ASSUME StructInv
  PROVE  listing \in Seq(Seq(Byte)) /\ image \in Seq(Byte)
BY ToolAssumption DEF StructInv

(* The entry function is about to execute instruction k.                   *)
HereAt(k) ==
  /\ k \in 1..Len(listing) /\ Laid(listing, code, Entry.start)
  /\ Entry.start <= Entry.end
  /\ top.at = Starts(listing, Entry.start, k)
  /\ Fitted(listing, Entry.start, top.labels, k)
  /\ opcode = listing[k][1]
  /\ opcode # \h0e => immediate.at = Starts(listing, Entry.start, k + 1)

LEMMA Here ==
  ASSUME MachineInv, StructInv, NEW ops, Ready(ops), top.function = 1
  PROVE  \E k : HereAt(k)
<1> DEFINE from == Entry.start
           at(k) == Starts(listing, from, k)
<1>1. Fetches /\ immediate.error = "None" /\ top.at < body.end
  BY ReadyFacts DEF Ready, Fetched
<1>2. frames # <<>> /\ top \in AFrame(wasm) /\ top = frames[Len(frames)]
      /\ Len(frames) \in DOMAIN frames /\ wasm \in AModule(Len(image))
  <2>1. frames # <<>>
    BY <1>1 DEF Fetches
  <2>2. top = frames[Len(frames)] /\ top \in AFrame(wasm) /\ Len(frames) \in 1..MAX_FRAMES
    BY <2>1, TopFacts
  <2>3. frames \in Seq(AFrame(wasm)) /\ wasm \in AModule(Len(image))
    BY DEF MachineInv, AtMost
  <2>4. Len(frames) \in DOMAIN frames
    BY <2>1, <2>3
  <2> QED
    BY <2>1, <2>2, <2>3, <2>4
<1>3. Structured(listing, wasm, top)
  BY <1>2 DEF StructInv
<1>4. Entry.start <= Entry.end /\ Placed(listing, from, top)
  BY <1>3 DEF Structured, Entry
<1>5. listing \in Seq(Seq(Byte)) /\ image \in Seq(Byte) /\ Lists(listing, image, wasm)
  BY ListingIs DEF StructInv
<1>6. body = Entry /\ code = SubSeq(image, 1, Entry.end)
  BY DEF body, code, Entry
<1>7. Laid(listing, code, from)
  <2>1. 1 \in DOMAIN wasm.functions
    BY <1>2 DEF AFrame
  <2>2. wasm.functions # <<>>
    BY <2>1
  <2>3. Laid(listing, SubSeq(image, 1, wasm.functions[1].body.end), wasm.functions[1].body.start)
    BY <1>2, <1>4, <1>5, <2>2, EntryIsLaid DEF Entry
  <2> QED
    BY <1>6, <2>3 DEF Entry
<1>8. PICK k \in 1..(Len(listing) + 1) :
        top.at = at(k) /\ Fitted(listing, from, top.labels, k)
  BY <1>4 DEF Placed
<1>9. k \in 1..Len(listing)
  <2>1. Len(code) = body.end
    BY <1>2, TopFacts
  <2>2. at(k) < Len(code)
    BY <1>1, <1>8, <2>1
  <2> QED
    BY <1>7, <1>8, <2>2, LaidFacts
<1>10. opcode = listing[k][1]
  <2>1. listing[k][1] = code[at(k) + 1]
    BY <1>7, <1>9 DEF Laid
  <2>2. code[top.at + 1] = image[top.at + 1]
    <3>1. top.at \in Nat /\ body.end \in 0..Len(image) /\ Len(image) \in Nat
      BY <1>2, <1>5, TopFacts DEF AFrame
    <3> DEFINE i == top.at + 1
               e == body.end
    <3>2. i \in 1..e /\ e \in 0..Len(image)
      BY <1>1, <3>1
    <3>3. code = SubSeq(image, 1, e)
      BY <1>6
    <3> HIDE DEF i, e
    <3>4. code[i] = image[i]
      BY <1>5, <3>2, <3>3
    <3> QED
      BY <3>4 DEF i
  <2> QED
    BY <1>8, <2>1, <2>2 DEF opcode
<1>11. opcode # 14 => immediate.at = at(k + 1)
  <2>1. immediate = immediates(code, at(k) + 1, listing[k][1])
    BY <1>8, <1>10 DEF immediate
  <2> QED
    BY <1>1, <1>7, <1>9, <1>10, <2>1 DEF Laid
<1>12. HereAt(k)
  BY <1>4, <1>7, <1>8, <1>9, <1>10, <1>11 DEF HereAt
<1> QED
  BY <1>12

LEMMA Placing ==
  ASSUME StructInv, listing' = listing, image' = image, wasm' = wasm,
         \A i \in DOMAIN frames' :
           \/ i \in DOMAIN frames /\ frames'[i] = frames[i]
           \/ Structured(listing, wasm, frames'[i])
  PROVE  StructInv'
<1>1. (\E input \in Inputs : listing = input.listing /\ image = input.image)'
  BY DEF StructInv
<1>2. Lists(listing, image, wasm)'
  BY DEF StructInv
<1>3. ASSUME NEW i \in DOMAIN frames'
      PROVE  Structured(listing', wasm', frames'[i])
  <2>1. Structured(listing, wasm, frames'[i])
    BY DEF StructInv
  <2> QED
    BY <2>1
<1> QED
  BY <1>1, <1>2, <1>3 DEF StructInv

LEMMA BecomesPlaced ==
  ASSUME MachineInv, StructInv, NEW frame, Structured(listing, wasm, frame),
         NEW left, Becomes(frame, left)
  PROVE  StructInv'
<1>1. /\ frames' = [frames EXCEPT ![Len(frames)] = frame]
      /\ listing' = listing /\ image' = image /\ wasm' = wasm
  BY DEF Becomes, loaded
<1>2. DOMAIN frames' = DOMAIN frames
      /\ \A i \in DOMAIN frames : frames'[i] = frame \/ frames'[i] = frames[i]
  BY <1>1
<1> QED
  BY <1>1, <1>2, Placing

LEMMA TrapsPlaced ==
  ASSUME StructInv, NEW trap, NEW left, Traps(trap, left)
  PROVE  StructInv'
<1>1. frames' = <<>> /\ listing' = listing /\ image' = image /\ wasm' = wasm
  BY DEF Traps, loaded
<1>2. \A i \in DOMAIN frames' : FALSE
  BY <1>1
<1> QED
  BY <1>1, <1>2, Placing

LEMMA ReturnsPlaced ==
  ASSUME MachineInv, StructInv, frames # <<>>, NEW stack, NEW left,
         Returns(stack, left)
  PROVE  StructInv'
<1> DEFINE n == Len(frames) - 1
           F == AFrame(wasm)
<1>1. CASE n = 0
  <2>1. Traps("Done", left)
    BY <1>1 DEF Returns
  <2> QED
    BY <2>1, TrapsPlaced
<1>2. CASE n # 0
  <2>1. PICK given :
          /\ frames' = [SubSeq(frames, 1, n) EXCEPT ![n].stack = @ \o given]
          /\ listing' = listing /\ image' = image /\ wasm' = wasm
    BY <1>2 DEF Returns, loaded
  <2>2. frames \in Seq(F)
    BY DEF MachineInv, AtMost
  <2>3. n \in 1..Len(frames) /\ Len(frames) \in Nat
    <3> DEFINE length == Len(frames)
    <3>1. length \in Nat /\ length >= 1 /\ n = length - 1
      BY TopFacts
    <3> HIDE DEF length, n, F
    <3>2. n \in 1..length /\ length \in Nat
      BY <1>2, <3>1
    <3> QED
      BY <3>2 DEF length
  <2> HIDE DEF n, F
  <2> DEFINE s == SubSeq(frames, 1, n)
  <2>4. s \in Seq(F) /\ Len(s) = n /\ \A i \in 1..n : s[i] = frames[i]
    BY <2>2, <2>3
  <2>5. frames' = [s EXCEPT ![n].stack = @ \o given]
    BY <2>1
  <2> HIDE DEF s
  <2>6. DOMAIN s = 1..n /\ n \in DOMAIN s /\ \A i \in 1..n : i \in DOMAIN frames
    BY <2>2, <2>3, <2>4
  <2> DEFINE old == frames[n]
             new == [old EXCEPT !.stack = old.stack \o given]
  <2>7. DOMAIN frames' = 1..n /\ frames'[n] = new
        /\ \A i \in 1..n : i # n => frames'[i] = frames[i]
    BY <2>4, <2>5, <2>6
  <2>8. new.function = old.function /\ new.at = old.at /\ new.labels = old.labels
    <3>1. old \in F
      BY <2>2, <2>6, <2>3
    <3> QED
      BY <3>1 DEF AFrame, F
  <2>9. Structured(listing, wasm, old)
    BY <2>3, <2>6 DEF StructInv
  <2> HIDE DEF new, old
  <2>10. Structured(listing, wasm, new)
    BY <2>8, <2>9 DEF Structured, Placed
  <2> QED
    BY <2>1, <2>6, <2>7, <2>10, Placing
<1> QED
  BY <1>1, <1>2

(* An activation that goes on behind its instruction, its labels as they   *)
(* were.                                                                   *)
Moves(frame) ==
  frame.function = top.function /\ frame.at = immediate.at /\ frame.labels = top.labels

LEMMA MovesPlaced ==
  ASSUME MachineInv, StructInv, NEW ops, Ready(ops), opcode \notin Openers, opcode # \h0b,
         opcode # \h0e, NEW frame, Moves(frame)
  PROVE  Structured(listing, wasm, frame)
<1> SUFFICES ASSUME top.function = 1
             PROVE  Entry.start <= Entry.end /\ Placed(listing, Entry.start, frame)
  BY DEF Structured, Moves, Entry
<1>1. PICK k : HereAt(k)
  BY Here
<1>2. /\ k \in 1..Len(listing) /\ Entry.start <= Entry.end
      /\ Fitted(listing, Entry.start, top.labels, k) /\ opcode = listing[k][1]
      /\ immediate.at = Starts(listing, Entry.start, k + 1)
  BY <1>1 DEF HereAt
<1>3. listing \in Seq(Seq(Byte))
  BY ListingIs
<1>4. Fitted(listing, Entry.start, top.labels, k + 1)
  BY <1>2, <1>3, SameLevel, FitsSame
<1>5. k + 1 \in 1..(Len(listing) + 1)
  BY <1>2, <1>3
<1> QED
  BY <1>2, <1>4, <1>5 DEF Placed, Moves

Carries ==
  \/ \E frame, left : Moves(frame) /\ Becomes(frame, left)
  \/ \E stack, left : Returns(stack, left)
  \/ \E trap, left : Traps(trap, left)

LEMMA CarriesPlaced ==
  ASSUME MachineInv, StructInv, NEW ops, Ready(ops), ops \cap (Openers \cup {\h0b, \h0e}) = {},
         Carries
  PROVE  StructInv'
<1>1. opcode \notin Openers /\ opcode # \h0b /\ opcode # \h0e /\ frames # <<>>
  <2>1. opcode \in ops /\ frames # <<>>
    BY ReadyFacts, TopIs
  <2> QED
    BY <2>1
<1> QED
  BY <1>1, MovesPlaced, BecomesPlaced, ReturnsPlaced, TrapsPlaced DEF Carries

(* The running activation with another position, stack or locals.          *)
LEMMA Moving ==
  ASSUME NEW m, NEW frame \in AFrame(m), NEW at
  PROVE  /\ LET f == [frame EXCEPT !.at = at] IN
            f.function = frame.function /\ f.at = at /\ f.labels = frame.labels
         /\ \A stack :
              /\ LET f == [frame EXCEPT !.at = at, !.stack = stack] IN
                 f.function = frame.function /\ f.at = at /\ f.labels = frame.labels
              /\ \A i, v : LET f == [frame EXCEPT !.at = at, !.locals[i] = v, !.stack = stack] IN
                 f.function = frame.function /\ f.at = at /\ f.labels = frame.labels
BY DEF AFrame

LEMMA PlainPlaced ==
  ASSUME MachineInv, StructInv,
         Nop \/ Drop \/ Select \/ Local \/ Memory \/ Constant \/ Numeric \/ Return
  PROVE  StructInv'
<1> DEFINE at == immediate.at
<1>1. ASSUME NEW ops, Ready(ops), ops \cap (Openers \cup {\h0b, \h0e}) = {},
             \/ \E left : Becomes([top EXCEPT !.at = at], left)
             \/ \E stack, left : Becomes([top EXCEPT !.at = at, !.stack = stack], left)
             \/ \E i, v, stack, left :
                  Becomes([top EXCEPT !.at = at, !.locals[i] = v, !.stack = stack], left)
             \/ \E stack, left : Returns(stack, left)
             \/ \E trap, left : Traps(trap, left)
      PROVE  StructInv'
  <2>1. top \in AFrame(wasm)
    BY <1>1, ReadyFacts, TopIs
  <2>2. Moves([top EXCEPT !.at = at])
    BY <2>1, Moving DEF Moves
  <2>3. \A stack : Moves([top EXCEPT !.at = at, !.stack = stack])
    BY <2>1, Moving DEF Moves
  <2>4. \A i, v, stack : Moves([top EXCEPT !.at = at, !.locals[i] = v, !.stack = stack])
    BY <2>1, Moving DEF Moves
  <2>5. Carries
    BY <1>1, <2>2, <2>3, <2>4 DEF Carries
  <2> QED
    BY <1>1, <2>5, CarriesPlaced
<1>2. CASE Nop
  <2>1. {\h01} \cap (Openers \cup {\h0b, \h0e}) = {}
    BY DEF Openers
  <2> QED
    BY <1>1, <1>2, <2>1 DEF Nop
<1>3. CASE Drop
  <2>1. {\h1a} \cap (Openers \cup {\h0b, \h0e}) = {}
    BY DEF Openers
  <2>2. /\ Ready({\h1a})
        /\ \E stack : Becomes([top EXCEPT !.at = at, !.stack = stack], paid(fuel))
    BY <1>3 DEF Drop
  <2> HIDE DEF at
  <2> QED
    BY <1>1, <2>1, <2>2
<1>4. CASE Select
  <2>1. {\h1b} \cap (Openers \cup {\h0b, \h0e}) = {}
    BY DEF Openers
  <2>2. /\ Ready({\h1b})
        /\ \E stack : Becomes([top EXCEPT !.at = at, !.stack = stack], paid(fuel))
    BY <1>4 DEF Select
  <2> HIDE DEF at
  <2> QED
    BY <1>1, <2>1, <2>2
<1>5. CASE Local
  <2>1. {\h20, \h21, \h22} \cap (Openers \cup {\h0b, \h0e}) = {}
    BY DEF Openers
  <2> DEFINE i == immediate.value + 1
             v == Last(top.stack)
             stack == IF opcode = \h21 THEN Pop(top.stack, 1) ELSE top.stack
  <2>2. Ready({\h20, \h21, \h22})
    BY <1>5 DEF Local
  <2>3. \/ Traps("Faulted", paid(fuel))
        \/ Becomes([top EXCEPT !.at = at, !.stack = Append(top.stack, top.locals[i])], paid(fuel))
        \/ Becomes([top EXCEPT !.at = at, !.locals[i] = v, !.stack = stack], paid(fuel))
    BY <1>5 DEF Local
  <2> HIDE DEF i, v, stack, at
  <2> QED
    BY <1>1, <2>1, <2>2, <2>3
<1>6. CASE Memory
  <2>1. (Loads \cup Stores) \cap (Openers \cup {\h0b, \h0e}) = {}
    BY DEF Openers, Loads, Stores
  <2>2. /\ Ready(Loads \cup Stores)
        /\ \/ \E trap : Traps(trap, paid(fuel))
           \/ \E stack : Becomes([top EXCEPT !.at = at, !.stack = stack], paid(fuel))
    BY <1>6 DEF Memory
  <2> HIDE DEF at
  <2> QED
    BY <1>1, <2>1, <2>2
<1>7. CASE Constant
  <2>1. {\h3f, \h41, \h42} \cap (Openers \cup {\h0b, \h0e}) = {}
    BY DEF Openers
  <2>2. /\ Ready({\h3f, \h41, \h42})
        /\ \E stack : Becomes([top EXCEPT !.at = at, !.stack = stack], paid(fuel))
    BY <1>7 DEF Constant
  <2> HIDE DEF at
  <2> QED
    BY <1>1, <2>1, <2>2
<1>8. CASE Numeric
  <2>1. (Numeric1 \cup Numeric2) \cap (Openers \cup {\h0b, \h0e}) = {}
    BY DEF Openers, Numeric1, Numeric2
  <2>2. /\ Ready(Numeric1 \cup Numeric2)
        /\ \/ \E trap : Traps(trap, paid(fuel))
           \/ \E stack : Becomes([top EXCEPT !.at = at, !.stack = stack], paid(fuel))
    BY <1>8 DEF Numeric
  <2> HIDE DEF at
  <2> QED
    BY <1>1, <2>1, <2>2
<1>9. CASE Return
  <2>1. {\h0f} \cap (Openers \cup {\h0b, \h0e}) = {}
    BY DEF Openers
  <2> QED
    BY <1>1, <1>9, <2>1 DEF Return
<1> QED
  BY <1>2, <1>3, <1>4, <1>5, <1>6, <1>7, <1>8, <1>9

LEMMA StopsPlaced ==
  ASSUME StructInv, OutOfFuel \/ StackOverflow \/ RunsOff \/ Refuses
  PROVE  StructInv'
<1>1. \E trap, left : Traps(trap, left)
  BY DEF OutOfFuel, StackOverflow, RunsOff, Refuses
<1> QED
  BY <1>1, TrapsPlaced

(* What a scan from behind instruction k found, on what fuel there was.    *)
Found(k, left, r) ==
  /\ \E c \in (k + 1)..Len(listing) :
       /\ listing[c][1] = \h0b /\ r.at = Starts(listing, Entry.start, c + 1)
       /\ Deeper(listing, k + 1, c, 0) /\ r.fuel = left - (c - k)
  /\ Alternative(listing, Entry.start, k + 1, r.else_at)

LEMMA FindsEnd ==
  ASSUME NEW k, HereAt(k), opcode # \h0e, NEW left \in Nat, NEW want \in BOOLEAN,
         scan(code, immediate.at, want, left).trap = "None"
  PROVE  Found(k, left, scan(code, immediate.at, want, left))
<1> DEFINE from == Entry.start
           r == scan(code, immediate.at, want, left)
           a == k + 1
<1>1. /\ k \in 1..Len(listing) /\ Laid(listing, code, from)
      /\ immediate.at = Starts(listing, from, a) /\ listing \in Seq(Seq(Byte))
  BY DEF HereAt, Laid
<1>2. a \in 1..(Len(listing) + 1) /\ Len(listing) \in Nat /\ k \in Nat
  BY <1>1
<1> HIDE DEF a
<1>3. r.trap = "None" => AtEnd(listing, from, a, left, r) /\ Alternative(listing, from, a, r.else_at)
  BY <1>1, <1>2, ScanFinds
<1> HIDE DEF r
<1>4. AtEnd(listing, from, a, left, r) /\ Alternative(listing, from, a, r.else_at)
  BY <1>3 DEF r
<1>5. PICK c \in a..Len(listing) :
        /\ listing[c][1] = 11 /\ r.at = Starts(listing, from, c + 1)
        /\ Deeper(listing, a, c, 0) /\ r.fuel = left - (c - a) - 1
  BY <1>4 DEF AtEnd
<1>6. r.fuel = left - (c - k)
  BY <1>2, <1>5 DEF a
<1>7. Found(k, left, r)
  BY <1>4, <1>5, <1>6 DEF Found, a
<1> QED
  BY <1>7 DEF r

(* The running activation has to be looked at only when it is the entry's. *)
LEMMA Places ==
  ASSUME MachineInv, StructInv, NEW ops, Ready(ops),
         NEW frame, frame.function = top.function,
         \A k : HereAt(k) /\ top.function = 1 => Placed(listing, Entry.start, frame)
  PROVE  Structured(listing, wasm, frame)
<1> SUFFICES ASSUME top.function = 1
             PROVE  Entry.start <= Entry.end /\ Placed(listing, Entry.start, frame)
  BY DEF Structured, Entry
<1>1. PICK k : HereAt(k)
  BY Here
<1> QED
  BY <1>1 DEF HereAt

(* What a label makes of the labels it is put on.                          *)
LEMMA Opening ==
  ASSUME Fetches, StructInv, NEW k, HereAt(k), opcode \in Openers, NEW target \in Nat,
         NEW height \in Nat, Leads(listing, Entry.start, Label(target, height), k)
  PROVE  /\ k + 1 \in 1..(Len(listing) + 1)
         /\ Fitted(listing, Entry.start, Append(top.labels, Label(target, height)), k + 1)
<1> DEFINE l == Label(target, height)
<1>1. l \in ALabel
  BY DEF Label, ALabel
<1>2. top.labels \in Seq(ALabel)
  BY TopIs
<1>3. /\ k \in 1..Len(listing) /\ listing \in Seq(Seq(Byte))
      /\ Fitted(listing, Entry.start, top.labels, k) /\ listing[k][1] \in Openers
  BY ListingIs DEF HereAt
<1> HIDE DEF l
<1>4. Leads(listing, Entry.start, l, k)
  BY DEF l
<1>5. Fitted(listing, Entry.start, Append(top.labels, l), k + 1)
  BY <1>1, <1>2, <1>3, <1>4, FitsOpen
<1>6. k + 1 \in 1..(Len(listing) + 1)
  BY <1>3
<1> QED
  BY <1>5, <1>6 DEF l

(* The label of a block whose `end` the scanner found.                     *)
LEMMA LeadsBehind ==
  ASSUME StructInv, NEW k, HereAt(k), opcode \in {\h02, \h04}, NEW left, NEW r,
         Found(k, left, r), NEW height
  PROVE  Leads(listing, Entry.start, Label(r.at, height), k)
<1>1. /\ k \in 1..Len(listing) /\ listing \in Seq(Seq(Byte)) /\ listing[k][1] = opcode
  BY ListingIs DEF HereAt
<1>2. PICK c \in (k + 1)..Len(listing) :
        /\ listing[c][1] = 11 /\ r.at = Starts(listing, Entry.start, c + 1)
        /\ Deeper(listing, k + 1, c, 0)
  BY DEF Found
<1>3. Shuts(listing, k, c)
  BY <1>1, <1>2, EndShuts DEF Openers
<1> DEFINE l == Label(r.at, height)
<1>4. l.is_loop = (opcode = 3) /\ l.target = r.at
  BY DEF Label
<1> HIDE DEF l
<1>6. opcode # 3
  OBVIOUS
<1>7. l.is_loop = (listing[k][1] = 3) /\ ~l.is_loop
  BY <1>1, <1>4, <1>6
<1>5. Leads(listing, Entry.start, l, k)
  BY <1>2, <1>3, <1>4, <1>7 DEF Leads
<1> QED
  BY <1>5 DEF l

LEMMA LoopPlaced ==
  ASSUME MachineInv, StructInv, Loop
  PROVE  StructInv'
<1> DEFINE labels == Append(top.labels, Label(immediate.at, Len(top.stack)))
           frame == [top EXCEPT !.at = immediate.at, !.labels = labels]
<1>1. Ready({\h03}) /\ Becomes(frame, paid(fuel))
  BY DEF Loop
<1>2. Fetches /\ opcode = 3
  BY <1>1, ReadyFacts
<1>3. frame.function = top.function /\ frame.at = immediate.at /\ frame.labels = labels
  BY <1>2, TopIs DEF AFrame
<1>4. ASSUME NEW k, HereAt(k)
      PROVE  Placed(listing, Entry.start, frame)
  <2> DEFINE l == Label(immediate.at, Len(top.stack))
  <2>1. l.is_loop = TRUE /\ l.target = immediate.at
    BY <1>2 DEF Label
  <2> HIDE DEF l
  <2>2. listing[k][1] = 3 /\ immediate.at = Starts(listing, Entry.start, k + 1)
    BY <1>2, <1>4 DEF HereAt
  <2>3. Leads(listing, Entry.start, l, k)
    BY <2>1, <2>2 DEF Leads
  <2>4. immediate.at \in Nat /\ Len(top.stack) \in Nat /\ opcode \in Openers
    BY <1>2, TopIs DEF Openers
  <2>5. k + 1 \in 1..(Len(listing) + 1) /\ Fitted(listing, Entry.start, labels, k + 1)
    BY <1>2, <1>4, <2>3, <2>4, Opening DEF l
  <2> HIDE DEF labels, frame
  <2> QED
    BY <1>3, <2>2, <2>5 DEF Placed
<1> HIDE DEF frame
<1>5. Structured(listing, wasm, frame)
  BY <1>1, <1>3, <1>4, Places
<1> QED
  BY <1>1, <1>2, <1>5, TopIs, BecomesPlaced

LEMMA BlockPlaced ==
  ASSUME MachineInv, StructInv, Block
  PROVE  StructInv'
<1> DEFINE end == find_end(code, immediate.at, paid(fuel))
           labels == Append(top.labels, Label(end.at, Len(top.stack)))
           frame == [top EXCEPT !.at = immediate.at, !.labels = labels]
<1>1. /\ Ready({\h02})
      /\ \/ Traps(end.trap, end.fuel)
         \/ end.trap = "None" /\ Becomes(frame, end.fuel)
  BY DEF Block
<1>2. Fetches /\ opcode = 2 /\ paid(fuel) \in Nat
  BY <1>1, ReadyFacts, TopIs
<1>3. end.at \in Nat
  <2>1. Len(code) \in Nat
    BY <1>2 DEF Fetches
  <2> QED
    BY <1>2, <2>1, LooksAhead, EndsWell
<1>4. ASSUME end.trap = "None", NEW k, HereAt(k)
      PROVE  Found(k, paid(fuel), end)
  <2>1. end = scan(code, immediate.at, FALSE, paid(fuel)) /\ FALSE \in BOOLEAN
    BY DEF find_end
  <2>2. opcode # 14
    BY <1>2
  <2> HIDE DEF end
  <2> QED
    BY <1>2, <1>4, <2>1, <2>2, FindsEnd
<1> HIDE DEF end
<1>5. frame.function = top.function /\ frame.at = immediate.at /\ frame.labels = labels
  BY <1>2, TopIs DEF AFrame
<1>6. ASSUME end.trap = "None", NEW k, HereAt(k)
      PROVE  Placed(listing, Entry.start, frame)
  <2>1. Leads(listing, Entry.start, Label(end.at, Len(top.stack)), k)
    BY <1>2, <1>4, <1>6, LeadsBehind
  <2>2. immediate.at = Starts(listing, Entry.start, k + 1)
    BY <1>2, <1>6 DEF HereAt
  <2>3. Len(top.stack) \in Nat /\ opcode \in Openers
    BY <1>2, TopIs DEF Openers
  <2>4. k + 1 \in 1..(Len(listing) + 1) /\ Fitted(listing, Entry.start, labels, k + 1)
    BY <1>2, <1>3, <1>6, <2>1, <2>3, Opening
  <2> HIDE DEF labels, frame
  <2> QED
    BY <1>5, <2>2, <2>4 DEF Placed
<1> HIDE DEF frame
<1>7. end.trap = "None" => Structured(listing, wasm, frame)
  BY <1>1, <1>5, <1>6, Places
<1> QED
  BY <1>1, <1>2, <1>7, TopIs, BecomesPlaced, TrapsPlaced

LEMMA IfPlaced ==
  ASSUME MachineInv, StructInv, If
  PROVE  StructInv'
<1> DEFINE end == find_end(code, immediate.at, paid(fuel))
           else == find_else(code, immediate.at, end.fuel)
           stack == Pop(top.stack, 1)
           labels == Append(top.labels, Label(end.at, Len(stack)))
           opened == [top EXCEPT !.stack = stack, !.labels = labels]
           taken(at) == [opened EXCEPT !.at = at]
           skipped == [top EXCEPT !.stack = stack, !.at = else.at]
<1>1. /\ Ready({\h04})
      /\ \/ \E trap, left : Traps(trap, left)
         \/ /\ end.trap = "None" /\ top.stack # <<>>
            /\ Becomes(taken(immediate.at), end.fuel)
         \/ /\ end.trap = "None" /\ top.stack # <<>> /\ else.trap = "None"
            /\ \/ else.else_at # None /\ Becomes(taken(else.else_at), else.fuel)
               \/ Becomes(skipped, else.fuel)
  BY DEF If
<1>2. Fetches /\ opcode = 4 /\ paid(fuel) \in Nat /\ Len(code) \in Nat
  <2>1. Fetches /\ opcode = 4
    BY <1>1, ReadyFacts
  <2> QED
    BY <2>1 DEF Fetches
<1>3. end.at \in Nat /\ end.fuel \in Nat
  BY <1>2, LooksAhead, EndsWell
<1>4. ASSUME end.trap = "None", NEW k, HereAt(k)
      PROVE  Found(k, paid(fuel), end)
  <2>1. end = scan(code, immediate.at, FALSE, paid(fuel)) /\ FALSE \in BOOLEAN
    BY DEF find_end
  <2>2. opcode # 14
    BY <1>2
  <2> HIDE DEF end
  <2> QED
    BY <1>2, <1>4, <2>1, <2>2, FindsEnd
<1> HIDE DEF end
<1>5. ASSUME else.trap = "None", NEW k, HereAt(k)
      PROVE  Found(k, end.fuel, else)
  <2>1. else = scan(code, immediate.at, TRUE, end.fuel) /\ TRUE \in BOOLEAN
    BY DEF find_else
  <2>2. opcode # 14
    BY <1>2
  <2> HIDE DEF else
  <2> QED
    BY <1>2, <1>3, <1>5, <2>1, <2>2, FindsEnd
<1> HIDE DEF else
<1>6. top.stack # <<>> => Len(stack) \in Nat
  <2>1. top.stack \in Seq(Int) /\ 1 \in Nat /\ (top.stack # <<>> => Len(top.stack) >= 1)
    BY <1>2, TopIs
  <2>2. top.stack # <<>> => stack \in Seq(Int)
    BY <2>1, Popped
  <2> QED
    BY <2>2
<1> HIDE DEF stack
<1>7. /\ \A at : /\ taken(at).function = top.function /\ taken(at).at = at
                 /\ taken(at).labels = labels
      /\ skipped.function = top.function /\ skipped.at = else.at /\ skipped.labels = top.labels
  BY <1>2, TopIs DEF AFrame
<1> HIDE DEF taken, skipped, opened
<1>8. ASSUME end.trap = "None", top.stack # <<>>, NEW k, HereAt(k)
      PROVE  k + 1 \in 1..(Len(listing) + 1) /\ Fitted(listing, Entry.start, labels, k + 1)
  <2>1. Leads(listing, Entry.start, Label(end.at, Len(stack)), k)
    BY <1>2, <1>4, <1>8, LeadsBehind
  <2>2. opcode \in Openers
    BY <1>2 DEF Openers
  <2> QED
    BY <1>2, <1>3, <1>6, <1>8, <2>1, <2>2, Opening
<1> HIDE DEF labels
<1>9. ASSUME end.trap = "None", top.stack # <<>>
      PROVE  Structured(listing, wasm, taken(immediate.at))
  <2>1. ASSUME NEW k, HereAt(k)
        PROVE  Placed(listing, Entry.start, taken(immediate.at))
    <3>1. immediate.at = Starts(listing, Entry.start, k + 1)
      BY <1>2, <2>1 DEF HereAt
    <3> QED
      BY <1>7, <1>8, <1>9, <2>1, <3>1 DEF Placed
  <2> QED
    BY <1>1, <1>7, <2>1, Places
<1>10. ASSUME end.trap = "None", top.stack # <<>>, else.trap = "None", else.else_at # None
       PROVE  Structured(listing, wasm, taken(else.else_at))
  <2>1. ASSUME NEW k, HereAt(k)
        PROVE  Placed(listing, Entry.start, taken(else.else_at))
    <3>1. PICK d \in (k + 1)..Len(listing) :
            else.else_at = Starts(listing, Entry.start, d + 1) /\ Deeper(listing, k + 1, d + 1, 0)
      BY <1>5, <1>10, <2>1 DEF Found, Alternative
    <3>6. k + 1 \in 1..(Len(listing) + 1) /\ Fitted(listing, Entry.start, labels, k + 1)
      BY <1>8, <1>10, <2>1
    <3>7. listing \in Seq(Seq(Byte)) /\ k \in 1..Len(listing)
      BY <2>1, ListingIs DEF HereAt
    <3>2. /\ k + 1 \in 1..(Len(listing) + 1) /\ Fitted(listing, Entry.start, labels, k + 1)
          /\ listing \in Seq(Seq(Byte)) /\ Len(listing) \in Nat /\ k \in Nat
      BY <3>6, <3>7
    <3>3. Len(Nesting(listing, k + 1)) \in Nat
      <4>1. Nesting(listing, k + 1) \in Seq(Nat)
        BY <3>2, NestingIs
      <4> QED
        BY <4>1
    <3>4. Fitted(listing, Entry.start, labels, d + 1)
      BY <3>1, <3>2, <3>3, FitsSame
    <3>5. d + 1 \in 1..(Len(listing) + 1)
      BY <3>1, <3>2
    <3> QED
      BY <1>7, <3>1, <3>4, <3>5 DEF Placed
  <2> QED
    BY <1>1, <1>7, <2>1, Places
<1>11. ASSUME else.trap = "None"
       PROVE  Structured(listing, wasm, skipped)
  <2>1. ASSUME NEW k, HereAt(k)
        PROVE  Placed(listing, Entry.start, skipped)
    <3>1. PICK c \in (k + 1)..Len(listing) :
            /\ listing[c][1] = 11 /\ else.at = Starts(listing, Entry.start, c + 1)
            /\ Deeper(listing, k + 1, c, 0)
      BY <1>5, <1>11, <2>1 DEF Found
    <3>2. /\ k \in 1..Len(listing) /\ listing \in Seq(Seq(Byte)) /\ listing[k][1] \in Openers
          /\ Fitted(listing, Entry.start, top.labels, k)
      BY <1>2, <2>1, ListingIs DEF HereAt, Openers
    <3>3. Deeper(listing, k, c + 1, 0)
      BY <3>1, <3>2, EndShuts
    <3>4. Len(Nesting(listing, k)) \in Nat
      BY <3>2, NestingDeepens DEF Deepens
    <3>5. Fitted(listing, Entry.start, top.labels, c + 1)
      BY <3>2, <3>3, <3>4, FitsSame
    <3>6. c + 1 \in 1..(Len(listing) + 1)
      BY <3>1, <3>2
    <3> QED
      BY <1>7, <3>1, <3>5, <3>6 DEF Placed
  <2> QED
    BY <1>1, <1>7, <2>1, Places
<1>12. frames # <<>>
  BY <1>2, TopIs
<1>13. CASE \E trap, left : Traps(trap, left)
  BY <1>13, TrapsPlaced
<1>14. CASE end.trap = "None" /\ top.stack # <<>> /\ Becomes(taken(immediate.at), end.fuel)
  BY <1>9, <1>12, <1>14, BecomesPlaced
<1>15. CASE /\ end.trap = "None" /\ top.stack # <<>> /\ else.trap = "None"
            /\ \/ else.else_at # None /\ Becomes(taken(else.else_at), else.fuel)
               \/ Becomes(skipped, else.fuel)
  BY <1>10, <1>11, <1>12, <1>15, BecomesPlaced
<1> QED
  BY <1>1, <1>13, <1>14, <1>15

LEMMA ElsePlaced ==
  ASSUME MachineInv, StructInv, Else
  PROVE  StructInv'
<1> DEFINE end == find_end(code, immediate.at, paid(fuel))
           labels == SubSeq(top.labels, 1, Len(top.labels) - 1)
           frame == [top EXCEPT !.at = end.at, !.labels = labels]
<1>1. /\ Ready({\h05})
      /\ \/ \E trap, left : Traps(trap, left)
         \/ /\ end.trap = "None" /\ top.labels # <<>>
            /\ Becomes(frame, end.fuel)
  BY DEF Else, closed, Front
<1>2. Fetches /\ opcode = 5 /\ paid(fuel) \in Nat
  BY <1>1, ReadyFacts, TopIs
<1>3. ASSUME end.trap = "None", NEW k, HereAt(k)
      PROVE  Found(k, paid(fuel), end)
  <2>1. end = scan(code, immediate.at, FALSE, paid(fuel)) /\ FALSE \in BOOLEAN
    BY DEF find_end
  <2>2. opcode # 14
    BY <1>2
  <2> HIDE DEF end
  <2> QED
    BY <1>2, <1>3, <2>1, <2>2, FindsEnd
<1> HIDE DEF end
<1>4. frame.function = top.function /\ frame.at = end.at /\ frame.labels = labels
  BY <1>2, TopIs DEF AFrame
<1>5. ASSUME end.trap = "None", top.labels # <<>>, NEW k, HereAt(k)
      PROVE  Placed(listing, Entry.start, frame)
  <2>1. /\ k \in 1..Len(listing) /\ listing \in Seq(Seq(Byte)) /\ listing[k][1] = 5
        /\ Fitted(listing, Entry.start, top.labels, k)
    BY <1>2, <1>5, ListingIs DEF HereAt
  <2>2. PICK c \in (k + 1)..Len(listing) :
          /\ listing[c][1] = 11 /\ end.at = Starts(listing, Entry.start, c + 1)
          /\ Deeper(listing, k + 1, c, 0)
    BY <1>3, <1>5 DEF Found
  <2>3. Deeper(listing, k, k + 1, 0) /\ Len(Nesting(listing, k)) \in Nat
    <3>1. listing[k][1] \notin Openers /\ listing[k][1] # 11
      BY <2>1 DEF Openers
    <3> QED
      BY <2>1, <3>1, SameLevel
  <2>4. Fitted(listing, Entry.start, top.labels, k + 1)
    BY <2>1, <2>3, FitsSame
  <2>5. Len(Nesting(listing, k + 1)) \in Nat
    <3>1. k + 1 \in 1..(Len(listing) + 1)
      BY <2>1
    <3>2. Nesting(listing, k + 1) \in Seq(Nat)
      BY <2>1, <3>1, NestingIs
    <3> QED
      BY <3>2
  <2>6. Fitted(listing, Entry.start, top.labels, c)
    BY <2>2, <2>4, <2>5, FitsSame
  <2>7. c \in 1..Len(listing) /\ c + 1 \in 1..(Len(listing) + 1)
    BY <2>1
  <2>8. top.labels \in Seq(ALabel)
    BY <1>2, TopIs
  <2>9. Fitted(listing, Entry.start, labels, c + 1)
    BY <1>5, <2>1, <2>2, <2>6, <2>7, <2>8, FitsShut
  <2> HIDE DEF labels, frame
  <2> QED
    BY <1>4, <2>2, <2>7, <2>9 DEF Placed
<1> HIDE DEF frame
<1>6. end.trap = "None" /\ top.labels # <<>> => Structured(listing, wasm, frame)
  BY <1>1, <1>4, <1>5, Places
<1> QED
  BY <1>1, <1>2, <1>6, TopIs, BecomesPlaced, TrapsPlaced

LEMMA EndPlaced ==
  ASSUME MachineInv, StructInv, End
  PROVE  StructInv'
<1> DEFINE labels == SubSeq(top.labels, 1, Len(top.labels) - 1)
           frame == [top EXCEPT !.at = immediate.at, !.labels = labels]
<1>1. Ready({\h0b})
  BY DEF End
<1>2. \/ \E stack : Returns(stack, paid(fuel))
      \/ top.labels # <<>> /\ Becomes(frame, paid(fuel))
  BY DEF End, Front
<1>3. Fetches /\ opcode = 11
  BY <1>1, ReadyFacts
<1>4. frame.function = top.function /\ frame.at = immediate.at /\ frame.labels = labels
  BY <1>3, TopIs DEF AFrame
<1>5. ASSUME top.labels # <<>>, NEW k, HereAt(k)
      PROVE  Placed(listing, Entry.start, frame)
  <2>1. /\ k \in 1..Len(listing) /\ listing \in Seq(Seq(Byte)) /\ listing[k][1] = 11
        /\ Fitted(listing, Entry.start, top.labels, k)
        /\ immediate.at = Starts(listing, Entry.start, k + 1)
    BY <1>3, <1>5, ListingIs DEF HereAt
  <2>2. top.labels \in Seq(ALabel)
    BY <1>3, TopIs
  <2>3. Fitted(listing, Entry.start, labels, k + 1)
    BY <1>5, <2>1, <2>2, FitsShut
  <2>4. k + 1 \in 1..(Len(listing) + 1)
    BY <2>1
  <2> HIDE DEF labels, frame
  <2> QED
    BY <1>4, <2>1, <2>3, <2>4 DEF Placed
<1> HIDE DEF frame
<1>6. top.labels # <<>> => Structured(listing, wasm, frame)
  BY <1>1, <1>4, <1>5, Places
<1> QED
  BY <1>2, <1>3, <1>6, TopIs, BecomesPlaced, ReturnsPlaced

LEMMA BranchPlaced ==
  ASSUME MachineInv, StructInv, Branch
  PROVE  StructInv'
<1> DEFINE depth == immediate.value
           n == Len(top.labels) - depth
           label == top.labels[n]
           kept == SubSeq(top.labels, 1, n - (IF label.is_loop THEN 0 ELSE 1))
           falls(stack) == [top EXCEPT !.at = immediate.at, !.stack = stack]
           leaps(stack) == [top EXCEPT !.at = label.target, !.stack = stack, !.labels = kept]
<1>1. Ready({\h0c, \h0d})
  BY DEF Branch
<1>2. kept_labels(top.labels, depth, label) = kept
  BY DEF kept_labels
<1>3. \/ \E stack : Becomes(falls(stack), paid(fuel))
      \/ \E stack : Returns(stack, paid(fuel))
      \/ depth < Len(top.labels) /\ \E stack : Becomes(leaps(stack), paid(fuel))
  <2> HIDE DEF kept
  <2> QED
    BY <1>2 DEF Branch
<1>4. Fetches /\ opcode \in {12, 13}
  BY <1>1, ReadyFacts
<1>5. /\ \A stack : Moves(falls(stack))
      /\ \A stack : /\ leaps(stack).function = top.function
                    /\ leaps(stack).at = label.target
                    /\ leaps(stack).labels = kept
  <2> HIDE DEF kept, label, depth, n
  <2> QED
    BY <1>4, TopIs DEF AFrame, Moves
<1>6. depth \in Nat /\ top.labels \in Seq(ALabel) /\ Len(top.labels) \in Nat
  BY <1>4, TopIs DEF Fetches, Indexed
<1>7. ASSUME depth < Len(top.labels), NEW stack, NEW k, HereAt(k)
      PROVE  Placed(listing, Entry.start, leaps(stack))
  <2>1. /\ k \in 1..(Len(listing) + 1) /\ listing \in Seq(Seq(Byte))
        /\ Fitted(listing, Entry.start, top.labels, k)
    <3>1. k \in 1..Len(listing) /\ listing \in Seq(Seq(Byte))
          /\ Fitted(listing, Entry.start, top.labels, k)
      BY <1>7, ListingIs DEF HereAt
    <3> QED
      BY <3>1
  <2>2. n \in 1..Len(top.labels)
    BY <1>6, <1>7
  <2> HIDE DEF n, depth
  <2>3. label.is_loop \in BOOLEAN
    <3>1. label \in ALabel
      BY <1>6, <2>2
    <3> QED
      BY <3>1 DEF ALabel
  <2>4. \E c \in 1..(Len(listing) + 1) :
          label.target = Starts(listing, Entry.start, c) /\ Fitted(listing, Entry.start, kept, c)
    BY <1>6, <2>1, <2>2, <2>3, FitsTarget
  <2> HIDE DEF kept, label, leaps
  <2> QED
    BY <1>5, <2>4 DEF Placed
<1> HIDE DEF leaps, falls
<1>8. depth < Len(top.labels) => \A stack : Structured(listing, wasm, leaps(stack))
  BY <1>1, <1>5, <1>7, Places
<1>9. \A stack : Structured(listing, wasm, falls(stack))
  <2>1. opcode \notin Openers /\ opcode # 11 /\ opcode # 14
    BY <1>4 DEF Openers
  <2> QED
    BY <1>1, <1>5, <2>1, MovesPlaced
<1> HIDE DEF depth
<1> QED
  BY <1>3, <1>4, <1>8, <1>9, TopIs, BecomesPlaced, ReturnsPlaced

(* A function is entered at its first instruction, outside every block.    *)
LEMMA ActivationPlaced ==
  ASSUME NEW L \in Seq(Seq(Byte)), NEW N \in Nat, NEW m \in AModule(N), NEW index,
         NEW arguments, NEW depth, activation(m, index, arguments, depth).error = "None"
  PROVE  Structured(L, m, activation(m, index, arguments, depth).value)
<1> DEFINE f == index - Len(m.imports) + 1
           function == m.functions[f]
           frame == activation(m, index, arguments, depth).value
<1>1. ~(f > Len(m.functions)) /\ ~(function.body.start > function.body.end)
  BY DEF activation, Ok, Err
<1>2. frame.function = f /\ frame.at = function.body.start /\ frame.labels = <<>>
  BY DEF activation, Ok, Err
<1> HIDE DEF frame
<1> SUFFICES ASSUME f = 1
             PROVE  /\ m.functions[1].body.start <= m.functions[1].body.end
                    /\ Placed(L, m.functions[1].body.start, frame)
  BY <1>2 DEF Structured, frame
<1> DEFINE fs == m.functions
           from == fs[1].body.start
<1>3. from \in Nat /\ fs[1].body.end \in Nat
  <2> DEFINE F == AFunction(N)
  <2>1. fs \in Seq(F)
    BY DEF AModule, AtMost
  <2>2. ~(1 > Len(fs))
    BY <1>1
  <2> HIDE DEF fs, F
  <2>3. fs[1] \in F
    BY <2>1, <2>2
  <2>4. fs[1].body \in ABody(N)
    BY <2>3 DEF F, AFunction
  <2>5. fs[1].body.start \in 0..N /\ fs[1].body.end \in 0..N
    BY <2>4 DEF ABody
  <2> QED
    BY <2>5
<1>4. from <= fs[1].body.end /\ frame.at = from
  <2>1. ~(from > fs[1].body.end) /\ frame.at = from
    BY <1>1, <1>2
  <2> HIDE DEF from, fs
  <2> QED
    BY <1>3, <2>1
<1> HIDE DEF from, fs, f
<1>5. Starts(L, from, 1) = from
  BY <1>3, StartsAre
<1>6. Nesting(L, 1) = <<>> /\ 1 \in 1..(Len(L) + 1)
  BY NestingIs
<1>7. Fitted(L, from, <<>>, 1)
  BY <1>6 DEF Fitted
<1>8. Placed(L, from, frame)
  BY <1>2, <1>4, <1>5, <1>6, <1>7 DEF Placed
<1> QED
  BY <1>4, <1>8 DEF from, fs

LEMMA CallingMoves ==
  ASSUME Fetches, NEW index
  PROVE  Moves(calling(index)) /\ \A stack : Moves([calling(index) EXCEPT !.stack = stack])
<1> DEFINE stack == Pop(top.stack, arguments_of(index))
           frame == [top EXCEPT !.at = immediate.at, !.stack = stack]
<1>1. calling(index) = frame
  BY DEF calling
<1> HIDE DEF stack
<1>4. top \in AFrame(wasm)
  BY TopIs
<1>2. frame.function = top.function /\ frame.at = immediate.at /\ frame.labels = top.labels
  BY <1>4, Moving
<1>3. \A s : LET g == [frame EXCEPT !.stack = s] IN
             g.function = top.function /\ g.at = immediate.at /\ g.labels = top.labels
  BY <1>4 DEF AFrame
<1> HIDE DEF frame
<1> QED
  BY <1>1, <1>2, <1>3 DEF Moves

LEMMA CallPlaced ==
  ASSUME MachineInv, StructInv, Call
  PROVE  StructInv'
<1> DEFINE index == immediate.value
           arguments == SubSeq(top.stack, Len(top.stack) - arguments_of(index) + 1,
                               Len(top.stack))
           answer == activation(wasm, index, arguments, Len(frames))
           caller == calling(index)
           callee == answer.value
           n == Len(frames)
<1>1. /\ Ready({\h10})
      /\ \/ \E trap, left : Traps(trap, left)
         \/ /\ answer.error = "None"
            /\ frames' = Append([frames EXCEPT ![n] = caller], callee)
            /\ UNCHANGED <<loaded, outcome>>
  BY DEF Call
<1>2. Fetches /\ opcode = 16 /\ frames # <<>>
  <2>1. Fetches /\ opcode = 16
    BY <1>1, ReadyFacts
  <2> QED
    BY <2>1, TopIs
<1>3. Structured(listing, wasm, caller)
  <2>1. Moves(caller)
    BY <1>2, CallingMoves
  <2>2. opcode \notin Openers /\ opcode # 11 /\ opcode # 14
    BY <1>2 DEF Openers
  <2> HIDE DEF caller
  <2> QED
    BY <1>1, <2>1, <2>2, MovesPlaced
<1>4. answer.error = "None" => Structured(listing, wasm, callee)
  <2>1. listing \in Seq(Seq(Byte)) /\ Len(image) \in Nat /\ wasm \in AModule(Len(image))
    BY ListingIs DEF MachineInv
  <2> HIDE DEF index, arguments
  <2> QED
    BY <2>1, ActivationPlaced
<1> HIDE DEF caller, callee, answer, n
<1>5. CASE \E trap, left : Traps(trap, left)
  BY <1>5, TrapsPlaced
<1>6. CASE /\ answer.error = "None"
           /\ frames' = Append([frames EXCEPT ![n] = caller], callee)
           /\ UNCHANGED <<loaded, outcome>>
  <2> DEFINE F == AFrame(wasm)
             before == [frames EXCEPT ![n] = caller]
  <2>1. frames \in Seq(F) /\ n = Len(frames) /\ n \in Nat
    BY DEF MachineInv, AtMost, n
  <2> HIDE DEF F
  <2>2. /\ DOMAIN frames' = 1..(n + 1) /\ frames'[n + 1] = callee
        /\ \A i \in 1..n : frames'[i] = before[i]
    <3> DEFINE G == F \cup {caller}
    <3>3. frames \in Seq(G) /\ caller \in G
      BY <2>1
    <3> HIDE DEF G
    <3>4. n \in DOMAIN frames
      BY <1>2, <2>1
    <3> HIDE DEF n
    <3>1. before \in Seq(G) /\ Len(before) = n
      BY <2>1, <3>3, <3>4
    <3>2. frames' = Append(before, callee)
      BY <1>6
    <3> HIDE DEF before
    <3> QED
      BY <2>1, <3>1, <3>2
  <2>3. \A i \in 1..n : before[i] = caller \/ before[i] = frames[i]
    BY <2>1
  <2>4. \A i \in 1..n : i \in DOMAIN frames
    BY <2>1
  <2> HIDE DEF before
  <2>5. ASSUME NEW i \in DOMAIN frames'
        PROVE  \/ i \in DOMAIN frames /\ frames'[i] = frames[i]
               \/ Structured(listing, wasm, frames'[i])
    <3>1. CASE i = n + 1
      BY <1>4, <1>6, <2>2, <3>1
    <3>2. CASE i # n + 1
      <4>1. i \in 1..n
        BY <2>1, <2>2, <3>2
      <4> QED
        BY <1>3, <2>2, <2>3, <2>4, <4>1
    <3> QED
      BY <3>1, <3>2
  <2>6. listing' = listing /\ image' = image /\ wasm' = wasm
    BY <1>6 DEF loaded
  <2> QED
    BY <2>5, <2>6, Placing
<1> QED
  BY <1>1, <1>5, <1>6

LEMMA HostCallPlaced ==
  ASSUME MachineInv, StructInv, HostCall
  PROVE  StructInv'
<1>1. PICK import :
        /\ Imports(import)
        /\ \/ \E value : HostAnswers(import, value)
           \/ \E trap, left : Traps(trap, left)
  BY DEF HostCall
<1>2. Ready({\h10})
  BY <1>1 DEF Imports
<1>3. Fetches /\ opcode = 16 /\ frames # <<>>
  <2>1. Fetches /\ opcode = 16
    BY <1>2, ReadyFacts
  <2> QED
    BY <2>1, TopIs
<1>4. opcode \notin Openers /\ opcode # 11 /\ opcode # 14
  BY <1>3 DEF Openers
<1>6. ASSUME NEW value, HostAnswers(import, value)
      PROVE  StructInv'
  <2> DEFINE stack == Append(calling(import).stack, value)
  <2>1. Becomes([calling(import) EXCEPT !.stack = stack], paid(fuel))
    BY <1>6 DEF HostAnswers
  <2> HIDE DEF stack
  <2>2. Moves([calling(import) EXCEPT !.stack = stack])
    BY <1>3, CallingMoves
  <2> QED
    BY <1>2, <1>3, <1>4, <2>1, <2>2, MovesPlaced, BecomesPlaced
<1> QED
  BY <1>1, <1>6, TrapsPlaced

LEMMA ExecutePlaced ==
  ASSUME MachineInv, StructInv, Execute
  PROVE  StructInv'
BY StopsPlaced, PlainPlaced, LoopPlaced, BlockPlaced, IfPlaced, ElsePlaced, EndPlaced,
   BranchPlaced, CallPlaced DEF Execute

LEMMA RestPlaced ==
  ASSUME StructInv, listing' = listing, image' = image, wasm' = wasm, frames' = frames
  PROVE  StructInv'
BY Placing

LEMMA RunPlaced ==
  ASSUME MachineInv, StructInv, Run
  PROVE  StructInv'
<1> DEFINE index == export(wasm, EntryName)
           answer == activation(wasm, index, <<>>, 0)
           callee == answer.value
<1>1. /\ listing' = listing /\ image' = image /\ wasm' = wasm
      /\ frames' = frames \/ (answer.error = "None" /\ frames' = <<callee>>)
  BY DEF Run, loaded
<1>2. answer.error = "None" => Structured(listing, wasm, callee)
  <2>1. listing \in Seq(Seq(Byte)) /\ Len(image) \in Nat /\ wasm \in AModule(Len(image))
    BY ListingIs DEF MachineInv
  <2> HIDE DEF index
  <2> QED
    BY <2>1, ActivationPlaced
<1> HIDE DEF callee, answer
<1>3. CASE frames' = frames
  BY <1>1, <1>3, RestPlaced
<1>4. CASE answer.error = "None" /\ frames' = <<callee>>
  <2>1. \A i \in DOMAIN frames' : frames'[i] = callee
    BY <1>4
  <2> QED
    BY <1>1, <1>2, <1>4, <2>1, Placing
<1> QED
  BY <1>1, <1>3, <1>4

LEMMA DecodePlaced ==
  ASSUME MachineInv, StructInv, Decode
  PROVE  StructInv'
<1> DEFINE decoded == Module_decode(image)
<1>1. /\ outcome = "Raw" /\ listing' = listing /\ image' = image /\ frames' = frames
      /\ \/ wasm' = wasm
         \/ decoded.error = "None" /\ wasm' = decoded.value
  BY DEF Decode
<1>2. CASE wasm' = wasm
  BY <1>1, <1>2, RestPlaced
<1>3. CASE decoded.error = "None" /\ wasm' = decoded.value
  <2>1. PICK input \in Inputs : listing = input.listing /\ image = input.image
    BY DEF StructInv
  <2>2. Lists(listing, image, decoded.value)
    BY <1>3, <2>1, ListingAssumption
  <2> HIDE DEF decoded
  <2>3. Lists(listing, image, wasm)'
    BY <1>1, <1>3, <2>2
  <2>4. frames' = <<>>
    BY <1>1 DEF MachineInv
  <2>5. (\A i \in DOMAIN frames : Structured(listing, wasm, frames[i]))'
    BY <2>4
  <2>6. (\E given \in Inputs : listing = given.listing /\ image = given.image)'
    BY <1>1, <2>1
  <2> QED
    BY <2>3, <2>5, <2>6 DEF StructInv
<1> QED
  BY <1>1, <1>2, <1>3

LEMMA StructStarts ==
  ASSUME ToolInit
  PROVE  StructInv
<1>1. /\ \E input \in Inputs : listing = input.listing /\ image = input.image
      /\ wasm = Empty /\ frames = <<>>
  BY DEF ToolInit
<1>2. wasm.functions = <<>>
  BY <1>1 DEF Empty
<1>3. Lists(listing, image, wasm)
  BY <1>2 DEF Lists
<1> QED
  BY <1>1, <1>3 DEF StructInv

LEMMA StructSteps ==
  ASSUME MachineInv, StructInv, [ToolNext]_vars
  PROVE  StructInv'
<1>1. CASE Bind
  BY <1>1, RestPlaced DEF Bind, loaded
<1>2. CASE Rest \/ UNCHANGED vars
  BY <1>2, RestPlaced DEF Rest, vars, machine, loaded
<1>3. CASE Step
  BY <1>3, ExecutePlaced DEF Step
<1> QED
  BY <1>1, <1>2, <1>3, RunPlaced, HostCallPlaced, DecodePlaced DEF ToolNext

LEMMA ToolStructured == ToolSpec => []StructInv
<1>1. ToolInit => StructInv
  BY StructStarts
<1>2. ToolInv /\ StructInv /\ [ToolNext]_vars => StructInv'
  BY StructSteps DEF ToolInv
<1> QED
  BY <1>1, <1>2, ToolTypeCorrect, PTL DEF ToolSpec

-----------------------------------------------------------------------------
(* What the tools' properties ask of where a frame is, and of its labels.  *)
LEMMA CurrentIs ==
  ASSUME NEW bytes, Laid(listing, bytes, Entry.start), NEW k \in 1..(Len(listing) + 1),
         NEW frame, frame.at = Starts(listing, Entry.start, k)
  PROVE  Current(frame) = k
<1>1. Offset(k) = frame.at
  BY DEF Offset
<1> DEFINE K == Current(frame)
<1>2. K \in 1..(Len(listing) + 1) /\ Offset(K) = frame.at
  BY <1>1 DEF Current
<1>3. Starts(listing, Entry.start, K) = Starts(listing, Entry.start, k)
  BY <1>2 DEF Offset
<1> HIDE DEF K
<1>4. K = k
  BY <1>2, <1>3, LaidFacts
<1> QED
  BY <1>4 DEF K

LEMMA CloserIs ==
  ASSUME listing \in Seq(Seq(Byte)), NEW j \in Nat, NEW c, Shuts(listing, j, c)
  PROVE  Closer(j) = c
<1>1. ASSUME NEW d \in 1..Len(listing)
      PROVE  Closes(j, d) <=> Shuts(listing, j, d)
  <2> DEFINE open == Nesting(listing, d)
  <2>1. d \in 1..(Len(listing) + 1)
    OBVIOUS
  <2>2. open \in Seq(Nat)
    BY <2>1, NestingIs
  <2>3. Closes(j, d) <=> d > j /\ listing[d][1] = 11 /\ open # <<>> /\ open[Len(open)] = j
    BY DEF Closes, Enclosing, Last
  <2>4. Shuts(listing, j, d) <=> j < d /\ listing[d][1] = 11 /\ Len(open) # 0 /\ open[Len(open)] = j
    BY DEF Shuts
  <2> HIDE DEF open
  <2>5. open # <<>> <=> Len(open) # 0
    BY <2>2
  <2>6. d > j <=> j < d
    OBVIOUS
  <2> QED
    BY <2>3, <2>4, <2>5, <2>6
<1>2. c \in 1..Len(listing) /\ DOMAIN listing = 1..Len(listing)
  BY DEF Shuts
<1>3. Closer(j) \in 1..Len(listing) /\ Closes(j, Closer(j))
  BY <1>1, <1>2 DEF Closer
<1> QED
  BY <1>1, <1>3, ShutsOnce

LEMMA LabelsAreRight ==
  ASSUME ToolInv, StructInv
  PROVE  LabelsMatchNesting
<1> SUFFICES ASSUME NEW i \in DOMAIN frames, frames[i].function = 1
             PROVE  /\ \E k \in 1 .. Len(listing) + 1 : Offset(k) = frames[i].at
                    /\ LET open == Enclosing(Current(frames[i]))
                           labels == frames[i].labels
                       IN  /\ Len(labels) = Len(open)
                           /\ \A n \in DOMAIN open :
                                /\ labels[n].is_loop = (listing[open[n]][1] = \h03)
                                /\ labels[n].target =
                                     IF labels[n].is_loop THEN Offset(open[n] + 1)
                                     ELSE Offset(Closer(open[n]) + 1)
  BY DEF LabelsMatchNesting
<1> DEFINE frame == frames[i]
           from == Entry.start
           bytes == SubSeq(image, 1, Entry.end)
           labels == frame.labels
<1>1. /\ listing \in Seq(Seq(Byte)) /\ image \in Seq(Byte) /\ Lists(listing, image, wasm)
      /\ wasm \in AModule(Len(image)) /\ frames \in Seq(AFrame(wasm))
  BY ListingIs DEF StructInv, ToolInv, MachineInv, AtMost
<1>2. frame \in AFrame(wasm)
  BY <1>1
<1>3. Entry.start <= Entry.end /\ Placed(listing, from, frame)
  <2>1. Structured(listing, wasm, frame)
    BY DEF StructInv
  <2> QED
    BY <2>1 DEF Structured, Entry
<1> HIDE DEF frame
<1>4. Laid(listing, bytes, from)
  <2>1. 1 \in DOMAIN wasm.functions
    BY <1>2 DEF AFrame, frame
  <2>2. wasm.functions # <<>>
    BY <2>1
  <2> QED
    BY <1>1, <1>3, <2>2, EntryIsLaid DEF Entry
<1>5. PICK k \in 1..(Len(listing) + 1) :
        frame.at = Starts(listing, from, k) /\ Fitted(listing, from, labels, k)
  BY <1>3 DEF Placed
<1>6. Current(frame) = k
  BY <1>4, <1>5, CurrentIs
<1> DEFINE open == Nesting(listing, k)
<1>7. open \in Seq(Nat) /\ Enclosing(k) = open
  BY <1>1, NestingIs DEF Enclosing
<1>8. Len(labels) = Len(open) /\ \A n \in 1..Len(labels) : Leads(listing, from, labels[n], open[n])
  BY <1>5 DEF Fitted
<1> HIDE DEF open, labels, from
<1>9. ASSUME NEW n \in DOMAIN open
      PROVE  /\ labels[n].is_loop = (listing[open[n]][1] = \h03)
             /\ labels[n].target = IF labels[n].is_loop THEN Offset(open[n] + 1)
                                   ELSE Offset(Closer(open[n]) + 1)
  <2>1. open[n] \in Nat /\ n \in 1..Len(labels)
    BY <1>7, <1>8
  <2>2. Leads(listing, from, labels[n], open[n])
    BY <1>8, <2>1
  <2> DEFINE l == labels[n]
             j == open[n]
  <2>3. /\ l.is_loop = (listing[j][1] = \h03)
        /\ l.is_loop => l.target = Offset(j + 1)
        /\ ~l.is_loop => \E c : Shuts(listing, j, c) /\ l.target = Offset(c + 1)
    BY <2>2 DEF Leads, Offset, from
  <2> HIDE DEF l, j
  <2>4. ~l.is_loop => l.target = Offset(Closer(j) + 1)
    BY <1>1, <2>1, <2>3, CloserIs DEF j
  <2>5. l.target = IF l.is_loop THEN Offset(j + 1) ELSE Offset(Closer(j) + 1)
    BY <2>3, <2>4
  <2> QED
    BY <2>3, <2>5 DEF l, j
<1>10. \E q \in 1 .. Len(listing) + 1 : Offset(q) = frame.at
  BY <1>5 DEF Offset, from
<1> QED
  BY <1>6, <1>7, <1>8, <1>9, <1>10 DEF frame, labels

(* Whatever path the interpreter took through the entry function, the      *)
(* labels it keeps are the blocks around the instruction it is at, and     *)
(* each leads behind its block's `end`, which it found scanning bytes, or  *)
(* to the head of its loop: for every module and every way to run it.      *)
THEOREM LabelsAlwaysMatch == ToolSpec => []LabelsMatchNesting
<1>1. ToolInv /\ StructInv => LabelsMatchNesting
  BY LabelsAreRight
<1> QED
  BY <1>1, ToolTypeCorrect, ToolStructured, PTL

-----------------------------------------------------------------------------
(* What looking ahead costs.                                               *)
LEMMA HereCurrent ==
  ASSUME NEW k, HereAt(k)
  PROVE  Current(top) = k
<1>1. k \in 1..(Len(listing) + 1)
  BY DEF HereAt
<1> QED
  BY <1>1, CurrentIs DEF HereAt

(* From behind an opening instruction the scanner walks to its `end`.      *)
LEMMA OpenerScanned ==
  ASSUME StructInv, NEW k, HereAt(k), opcode \in {\h02, \h04}, fuel \in Nat, NEW r,
         Found(k, paid(fuel), r)
  PROVE  r.fuel = fuel - 1 - Scanned(k)
<1>1. /\ k \in 1..Len(listing) /\ listing \in Seq(Seq(Byte)) /\ listing[k][1] = opcode
  BY ListingIs DEF HereAt
<1>2. PICK c \in (k + 1)..Len(listing) :
        /\ listing[c][1] = 11 /\ Deeper(listing, k + 1, c, 0) /\ r.fuel = paid(fuel) - (c - k)
  BY DEF Found
<1>3. Shuts(listing, k, c)
  BY <1>1, <1>2, EndShuts DEF Openers
<1>4. Closer(k) = c
  BY <1>1, <1>3, CloserIs
<1>5. Scanned(k) = c - k
  <2>1. listing[k][1] \in {2, 4}
    BY <1>1
  <2> QED
    BY <1>4, <2>1 DEF Scanned
<1>6. paid(fuel) = fuel - 1
  BY DEF paid
<1> QED
  BY <1>1, <1>2, <1>5, <1>6

(* From behind an `else`, to the `end` of the block it is in.              *)
LEMMA ElseScanned ==
  ASSUME Fetches, StructInv, NEW k, HereAt(k), opcode = \h05, fuel \in Nat,
         top.labels # <<>>, NEW r, Found(k, paid(fuel), r)
  PROVE  r.fuel = fuel - 1 - Scanned(k)
<1> DEFINE o(i) == Nesting(listing, i)
           N == Len(listing)
<1>1. /\ k \in 1..N /\ listing \in Seq(Seq(Byte)) /\ listing[k][1] = 5 /\ N \in Nat
      /\ Fitted(listing, Entry.start, top.labels, k)
  BY ListingIs DEF HereAt
<1>2. PICK c \in (k + 1)..N :
        /\ listing[c][1] = 11 /\ Deeper(listing, k + 1, c, 0) /\ r.fuel = paid(fuel) - (c - k)
  BY DEF Found
<1>3. k \in 1..(N + 1) /\ c \in 1..N /\ c \in 1..(N + 1) /\ k < c /\ k + 1 \in 1..(N + 1)
  <2>1. k \in 1..N /\ N \in Nat /\ c \in (k + 1)..N
    BY <1>1, <1>2
  <2> HIDE DEF N
  <2> QED
    BY <2>1
<1>4. o(k) \in Seq(Nat) /\ Len(o(k)) \in Nat /\ Len(o(k)) # 0
  <2>1. o(k) \in Seq(Nat)
    BY <1>1, <1>3, NestingIs
  <2>2. Len(top.labels) # 0
    BY TopIs
  <2>3. Len(top.labels) = Len(o(k))
    BY <1>1 DEF Fitted
  <2> QED
    BY <2>1, <2>2, <2>3
<1> DEFINE n == Len(o(k))
           j == o(k)[n]
<1>5. Len(o(c)) = n /\ o(c)[n] = j
  <2>1. listing[k][1] \notin Openers /\ listing[k][1] # 11
    BY <1>1 DEF Openers
  <2>2. Deeper(listing, k, k + 1, 0)
    BY <1>1, <2>1, SameLevel
  <2>3. Len(o(k + 1)) = n /\ \A q \in 1..n : o(k + 1)[q] = o(k)[q]
    BY <1>4, <2>2 DEF Deeper
  <2>4. Len(o(c)) = n /\ \A q \in 1..n : o(c)[q] = o(k + 1)[q]
    BY <1>2, <1>4, <2>3 DEF Deeper
  <2>5. n \in 1..n
    BY <1>4
  <2> HIDE DEF n, o
  <2> QED
    BY <2>3, <2>4, <2>5
<1>6. j \in 1..(k - 1)
  <2>1. n \in 1..Len(o(k))
    BY <1>4
  <2> HIDE DEF n
  <2>2. Opened(listing, k, n)
    BY <1>1, <1>3, <2>1, Nested
  <2> QED
    BY <2>2 DEF Opened
<1>7. Shuts(listing, j, c)
  <2>1. j < c
    BY <1>1, <1>3, <1>6
  <2> HIDE DEF j
  <2> QED
    BY <1>2, <1>3, <1>4, <1>5, <2>1 DEF Shuts
<1>8. Last(Enclosing(k)) = j
  BY DEF Last, Enclosing
<1> HIDE DEF j
<1>9. j \in Nat
  BY <1>6
<1>10. Closer(j) = c
  BY <1>1, <1>7, <1>9, CloserIs
<1>11. Scanned(k) = c - k
  <2>1. listing[k][1] \notin {2, 4} /\ listing[k][1] = 5
    BY <1>1
  <2> QED
    BY <1>8, <1>10, <2>1 DEF Scanned
<1>12. paid(fuel) = fuel - 1
  BY DEF paid
<1> QED
  BY <1>1, <1>2, <1>11, <1>12

Metered == fuel' <= fuel - 1 - Scanned(Current(top))

(* Every other instruction only has to pay for itself.                     *)
LEMMA PlainMetered ==
  ASSUME MachineInv, StructInv, MachineInv', Spends, outcome' = "Running",
         top.function = 1, NEW ops, Ready(ops), ops \cap {\h02, \h04, \h05} = {}
  PROVE  Metered
<1>1. PICK k : HereAt(k)
  BY Here
<1>2. Current(top) = k
  BY <1>1, HereCurrent
<1>3. opcode \notin {2, 4, 5} /\ opcode = listing[k][1]
  <2>1. opcode \in ops
    BY ReadyFacts
  <2> QED
    BY <1>1, <2>1 DEF HereAt
<1>4. Scanned(k) = 0
  <2>1. listing[k][1] \notin {2, 4} /\ listing[k][1] # 5
    BY <1>3
  <2> QED
    BY <2>1 DEF Scanned
<1>5. fuel \in Nat /\ fuel' \in Nat /\ fuel' < fuel
  BY DEF MachineInv, Spends
<1>6. fuel' <= fuel - 1 - 0
  BY <1>5
<1> QED
  BY <1>2, <1>4, <1>6 DEF Metered

LEMMA LookingMetered ==
  ASSUME MachineInv, StructInv, Block \/ If \/ Else, outcome' = "Running", top.function = 1
  PROVE  Metered
<1> DEFINE end == find_end(code, immediate.at, paid(fuel))
           else == find_else(code, immediate.at, end.fuel)
<1>1. PICK ops : Ready(ops) /\ ops \in {{\h02}, {\h04}, {\h05}}
  BY DEF Block, If, Else
<1>2. /\ Fetches /\ fuel \in Nat /\ opcode \in {2, 4, 5} /\ paid(fuel) \in Nat /\ Len(code) \in Nat
  <2>1. Fetches /\ opcode \in ops
    BY <1>1, ReadyFacts
  <2> QED
    BY <1>1, <2>1 DEF Fetches
<1>3. /\ \/ fuel' = end.fuel
         \/ fuel' = else.fuel
      /\ end.trap = "None"
      /\ opcode = 5 => top.labels # <<>>
  <2>1. end.trap # "Running"
    BY <1>2, LooksAhead, EndsWell
  <2>2. CASE Block
    <3>1. opcode = 2
      BY <2>2, ReadyFacts DEF Block
    <3>2. \/ Traps(end.trap, end.fuel)
          \/ end.trap = "None" /\ fuel' = end.fuel
      BY <2>2 DEF Block, Becomes
    <3> HIDE DEF end, else
    <3> QED
      BY <2>1, <3>1, <3>2 DEF Traps
  <2>3. CASE If
    <3>1. opcode = 4
      BY <2>3, ReadyFacts DEF If
    <3>2. end.trap # "None" => Traps(end.trap, end.fuel)
      BY <2>3 DEF If
    <3>3. fuel' = end.fuel \/ fuel' = else.fuel
      BY <2>3 DEF If, Becomes, Traps
    <3> HIDE DEF end, else
    <3> QED
      BY <2>1, <3>1, <3>2, <3>3 DEF Traps
  <2>4. CASE Else
    <3>1. \/ Traps(end.trap, end.fuel)
          \/ Traps("Malformed", end.fuel)
          \/ end.trap = "None" /\ top.labels # <<>> /\ fuel' = end.fuel
      BY <2>4 DEF Else, Becomes
    <3> HIDE DEF end, else
    <3> QED
      BY <2>1, <3>1 DEF Traps
  <2> QED
    BY <1>1, <2>2, <2>3, <2>4
<1>4. PICK k : HereAt(k)
  BY <1>1, Here
<1>5. Found(k, paid(fuel), end)
  <2>1. end = scan(code, immediate.at, FALSE, paid(fuel)) /\ FALSE \in BOOLEAN
    BY DEF find_end
  <2>2. opcode # 14
    BY <1>2
  <2>3. end.trap = "None"
    BY <1>3
  <2> HIDE DEF end
  <2> QED
    BY <1>2, <1>4, <2>1, <2>2, <2>3, FindsEnd
<1>6. end.fuel \in Nat
  BY <1>2, LooksAhead, EndsWell
<1>7. else.fuel \in Nat /\ else.fuel <= end.fuel
  <2> HIDE DEF end
  <2> QED
    BY <1>2, <1>6, LooksAhead, EndsWell
<1> HIDE DEF end, else
<1>8. end.fuel = fuel - 1 - Scanned(k)
  <2>1. CASE opcode = 5
    BY <1>2, <1>3, <1>4, <1>5, <2>1, ElseScanned
  <2>2. CASE opcode # 5
    <3>1. opcode \in {2, 4}
      BY <1>2, <2>2
    <3> QED
      BY <1>2, <1>4, <1>5, <3>1, OpenerScanned
  <2> QED
    BY <2>1, <2>2
<1>9. fuel' <= end.fuel
  BY <1>3, <1>6, <1>7
<1> QED
  BY <1>4, <1>8, <1>9, HereCurrent DEF Metered

LEMMA StepMetered ==
  ASSUME ToolInv, ToolInv', StructInv, ToolNext, outcome = "Running", outcome' = "Running",
         top.function = 1
  PROVE  Metered
<1>1. MachineInv /\ HostInv /\ MachineInv'
  BY DEF ToolInv
<1>2. CASE HostCall
  <2>1. Ready({\h10}) /\ Spends
    BY <1>1, <1>2, HostCallKeeps DEF HostCall, Imports
  <2> QED
    BY <1>1, <2>1, PlainMetered
<1>3. CASE Execute
  <2>1. Spends
    BY <1>1, <1>3, ExecuteSpends
  <2>2. ASSUME NEW ops, Ready(ops), ops \cap {\h02, \h04, \h05} = {}
        PROVE  Metered
    BY <1>1, <2>1, <2>2, PlainMetered
  <2>3. CASE OutOfFuel \/ StackOverflow \/ RunsOff \/ Refuses
    BY <2>3 DEF OutOfFuel, StackOverflow, RunsOff, Refuses, Traps
  <2>4. CASE Block \/ If \/ Else
    BY <1>1, <2>4, LookingMetered
  <2>5. CASE Nop \/ Loop \/ End \/ Branch \/ Return
    BY <2>2, <2>5 DEF Nop, Loop, End, Branch, Return
  <2>6. CASE Call \/ Drop \/ Select \/ Local \/ Constant
    <3>1. \E ops \in {{\h10}, {\h1a}, {\h1b}, {\h20, \h21, \h22}, {\h3f, \h41, \h42}} : Ready(ops)
      BY <2>6 DEF Call, Drop, Select, Local, Constant
    <3> QED
      BY <2>2, <3>1
  <2>7. CASE Memory
    <3>1. (Loads \cup Stores) \cap {\h02, \h04, \h05} = {}
      BY DEF Loads, Stores
    <3> QED
      BY <2>2, <2>7, <3>1 DEF Memory
  <2>8. CASE Numeric
    <3>1. (Numeric1 \cup Numeric2) \cap {\h02, \h04, \h05} = {}
      BY DEF Numeric1, Numeric2
    <3> QED
      BY <2>2, <2>8, <3>1 DEF Numeric
  <2> QED
    BY <1>3, <2>3, <2>4, <2>5, <2>6, <2>7, <2>8 DEF Execute
<1>4. ~Decode /\ ~Bind /\ ~Run /\ ~Rest
  BY DEF Decode, Bind, Run, Rest, Ended
<1> QED
  BY <1>2, <1>3, <1>4 DEF ToolNext, Step

(* No step of the entry function gets a scan of the body for one unit of   *)
(* fuel: `block`, `if` and `else` pay for every instruction between them   *)
(* and the `end` they look for.                                            *)
THEOREM ScanAlwaysMetered == ToolSpec => ScanIsMetered
<1> DEFINE A == outcome = "Running" /\ outcome' = "Running" /\ top.function = 1
                  => fuel' <= fuel - 1 - Scanned(Current(top))
<1>1. ToolInv /\ ToolInv' /\ StructInv /\ [ToolNext]_vars => [A]_machine
  <2> SUFFICES ASSUME ToolInv, ToolInv', StructInv, [ToolNext]_vars
               PROVE  [A]_machine
    OBVIOUS
  <2>1. CASE UNCHANGED vars
    BY <2>1 DEF vars
  <2>2. CASE ToolNext
    <3>1. A
      BY <2>2, StepMetered DEF Metered
    <3> QED
      BY <3>1
  <2> QED
    BY <2>1, <2>2
<1>2. ToolSpec => [][A]_machine
  BY <1>1, ToolTypeCorrect, ToolStructured, PTL DEF ToolSpec
<1> QED
  BY <1>2 DEF ScanIsMetered

=============================================================================
