---------------------------- MODULE UtilsProofs ----------------------------
(***************************************************************************)
(* For every width of a word, every length of a hash and every base of its *)
(* digits: what is encoded decodes to what it was, what is decoded encodes *)
(* as what it was, and the two parts of a 128-bit integer are that integer.*)
(***************************************************************************)
EXTENDS Utils, TLAPS

-----------------------------------------------------------------------------
(* Division *)

LEMMA ProductMonotone ==
  ASSUME NEW a \in Int, NEW b \in Int, NEW w \in Nat, a <= b
  PROVE  a * w <= b * w
  BY Z3

LEMMA ProductPositive ==
  ASSUME NEW a \in Nat, NEW b \in Nat
  PROVE  a * b \in Nat
  BY Z3

(* Quotient and remainder are the only way to write a number so.             *)
LEMMA Division ==
  ASSUME NEW q \in Int, NEW r \in Int, NEW w \in Nat \ {0}, 0 <= r, r < w
  PROVE  /\ (q * w + r) \div w = q
         /\ (q * w + r) % w = r
  <1> DEFINE n == q * w + r
             p == n \div w
             s == n % w
  <1>1. n \in Int
    BY Z3
  <1> HIDE DEF n
  <1>2. p \in Int /\ s \in 0 .. w - 1 /\ n = w * p + s
    BY <1>1, Z3
  <1> HIDE DEF p, s
  <1>3. n = p * w + s /\ n = q * w + r
    BY <1>2, Z3 DEF n
  <1>4. ~ p < q
    <2> SUFFICES ASSUME p < q PROVE FALSE
      OBVIOUS
    <2>1. (p + 1) * w <= q * w
      BY <1>2, ProductMonotone
    <2>2. (p + 1) * w = p * w + w
      BY <1>2, Z3
    <2>3. p * w \in Int /\ q * w \in Int
      BY <1>2, Z3
    <2>4. QED
      BY <2>1, <2>2, <2>3, <1>2, <1>3
  <1>5. ~ q < p
    <2> SUFFICES ASSUME q < p PROVE FALSE
      OBVIOUS
    <2>1. (q + 1) * w <= p * w
      BY <1>2, ProductMonotone
    <2>2. (q + 1) * w = q * w + w
      BY <1>2, Z3
    <2>3. p * w \in Int /\ q * w \in Int
      BY <1>2, Z3
    <2>4. QED
      BY <2>1, <2>2, <2>3, <1>2, <1>3
  <1>6. p = q
    BY <1>2, <1>4, <1>5
  <1>7. p * w \in Int
    BY <1>2, Z3
  <1>8. s = r
    BY <1>2, <1>3, <1>6, <1>7
  <1>9. QED
    BY <1>6, <1>8 DEF n, p, s

LEMMA DivisionExists ==
  ASSUME NEW m \in Int, NEW w \in Nat \ {0}
  PROVE  /\ m \div w \in Int
         /\ (m % w) \in 0 .. w - 1
         /\ m = (m \div w) * w + (m % w)
  BY Z3

-----------------------------------------------------------------------------
(* 128-bit integers *)

LEMMA Words ==
  /\ Word \in Nat \ {0} /\ Half \in Nat \ {0}
  /\ Wider \in Nat \ {0} /\ Half * Word \in Nat \ {0}
  /\ Word = Half + Half
  /\ Wider = Half * Word + Half * Word
  /\ Word \div 2 = Half
  /\ Wider \div 2 = Half * Word
  <1>1. Half \in Nat \ {0} /\ Word \in Nat \ {0} /\ Word = Half + Half
    BY UtilsAssumption
  <1>2. Half * Word \in Nat \ {0}
    BY <1>1, Z3
  <1>3. Word * Word = Half * Word + Half * Word
    BY <1>1, Z3
  <1>4. \A h \in Nat : (h + h) \div 2 = h
    BY Z3
  <1>5. Wider = Half * Word + Half * Word
    BY <1>3 DEF Wider
  <1>6. QED
    BY <1>1, <1>2, <1>4, <1>5

(* A pattern is the number, one width up for a negative one.                 *)
LEMMA PatternIs ==
  ASSUME NEW size \in Nat \ {0}, NEW x \in Int, -size <= x, x < size
  PROVE  Pattern(x, size) = IF x < 0 THEN x + size ELSE x
  <1>1. CASE x < 0
    <2>1. ((-1) * size + (x + size)) % size = x + size
      BY <1>1, Division
    <2>2. (-1) * size + (x + size) = x
      BY Z3
    <2>3. QED
      BY <2>1, <2>2, <1>1 DEF Pattern
  <1>2. CASE ~ x < 0
    <2>1. (0 * size + x) % size = x
      BY <1>2, Division
    <2>2. 0 * size + x = x
      BY Z3
    <2>3. QED
      BY <2>1, <2>2, <1>2 DEF Pattern
  <1>3. QED
    BY <1>1, <1>2

(* Below w * m the quotient by w is below m.                                 *)
LEMMA QuotientBelow ==
  ASSUME NEW w \in Nat \ {0}, NEW m \in Nat, NEW x \in Int, 0 <= x, x < m * w
  PROVE  /\ x \div w \in 0 .. m - 1
         /\ (x % w) \in 0 .. w - 1
         /\ (x \div w) * w + (x % w) = x
  <1> DEFINE q == x \div w
             r == x % w
  <1>1. q \in Int /\ r \in 0 .. w - 1 /\ x = q * w + r
    BY DivisionExists
  <1> HIDE DEF q, r
  <1>2. q * w \in Int /\ (q + 1) * w = q * w + w /\ m * w \in Int /\ 0 * w = 0
    BY <1>1, Z3
  <1>3. ~ q < 0
    <2> SUFFICES ASSUME q < 0 PROVE FALSE
      OBVIOUS
    <2>1. (q + 1) * w <= 0 * w
      BY <1>1, ProductMonotone
    <2>2. QED
      BY <2>1, <1>1, <1>2
  <1>4. q < m
    <2> SUFFICES ASSUME ~ q < m PROVE FALSE
      OBVIOUS
    <2>1. m * w <= q * w
      BY <1>1, ProductMonotone
    <2>2. QED
      BY <2>1, <1>1, <1>2
  <1>5. QED
    BY <1>1, <1>3, <1>4 DEF q, r

(* The bytes of a number, as the quotient and the remainder of a word.       *)
LEMMA RawParts ==
  ASSUME NEW raw \in 0 .. Wider - 1
  PROVE  /\ raw \div Word \in 0 .. Word - 1
         /\ (raw % Word) \in 0 .. Word - 1
         /\ raw = (raw \div Word) * Word + (raw % Word)
         /\ raw < Half * Word <=> raw \div Word < Half
  <1> DEFINE q == raw \div Word
             r == raw % Word
  <1>0. raw \in Int /\ 0 <= raw /\ raw < Wider
    BY Words
  <1>1. q \in Int /\ r \in 0 .. Word - 1 /\ raw = q * Word + r
    BY <1>0, Words, DivisionExists
  <1> HIDE DEF q, r
  <1>2. q * Word \in Int /\ (q + 1) * Word = q * Word + Word
    BY <1>1, Words, Z3
  <1>3. ~ q < 0
    <2> SUFFICES ASSUME q < 0 PROVE FALSE
      OBVIOUS
    <2>1. (q + 1) * Word <= 0 * Word
      BY <1>1, Words, ProductMonotone
    <2>2. 0 * Word = 0
      BY Words
    <2>3. QED
      BY <2>1, <2>2, <1>0, <1>1, <1>2, Words
  <1>4. q < Word
    <2> SUFFICES ASSUME ~ q < Word PROVE FALSE
      OBVIOUS
    <2>1. Word * Word <= q * Word
      BY <1>1, Words, ProductMonotone
    <2>2. QED
      BY <2>1, <1>0, <1>1, <1>2, Words DEF Wider
  <1>5. ASSUME raw < Half * Word PROVE q < Half
    <2> SUFFICES ASSUME ~ q < Half PROVE FALSE
      OBVIOUS
    <2>1. Half * Word <= q * Word
      BY <1>1, Words, ProductMonotone
    <2>2. QED
      BY <2>1, <1>0, <1>1, <1>2, <1>5, Words
  <1>6. ASSUME q < Half PROVE raw < Half * Word
    <2>1. (q + 1) * Word <= Half * Word
      BY <1>1, <1>6, Words, ProductMonotone
    <2>2. QED
      BY <2>1, <1>0, <1>1, <1>2, Words
  <1>7. q \in 0 .. Word - 1
    BY <1>1, <1>3, <1>4, Words
  <1>8. QED
    BY <1>1, <1>5, <1>6, <1>7 DEF q, r

(* The parts i128_val makes are the number, and in the range of their types. *)
LEMMA I128Parts ==
  ASSUME NEW x \in I128
  PROVE  /\ i128_val(x).hi \in -Half .. Half - 1
         /\ i128_val(x).lo \in 0 .. Word - 1
         /\ i128_val(x).hi * Word + i128_val(x).lo = x
         /\ to_i128(i128_val(x)) = x
  <1> DEFINE raw == Pattern(x, Wider)
             q == raw \div Word
             lo == raw % Word
             hi == Signed(q, Word)
  <1>1. x \in Int /\ -(Half * Word) <= x /\ x < Half * Word
    BY Words DEF I128
  <1>2. raw = IF x < 0 THEN x + Wider ELSE x
    BY <1>1, Words, PatternIs
  <1>3. raw \in 0 .. Wider - 1 /\ (raw < Half * Word <=> x >= 0)
    BY <1>1, <1>2, Words
  <1>4. i128_val(x).hi = hi /\ i128_val(x).lo = lo
    BY DEF i128_val
  <1> HIDE DEF raw
  <1>5. /\ q \in 0 .. Word - 1 /\ lo \in 0 .. Word - 1
        /\ raw = q * Word + lo
        /\ raw < Half * Word <=> q < Half
    BY <1>3, RawParts
  <1> HIDE DEF q, lo
  <1>6. hi = IF x >= 0 THEN q ELSE q - Word
    BY <1>3, <1>5, Words DEF Signed
  <1>7. hi \in -Half .. Half - 1
    BY <1>3, <1>5, <1>6, Words
  <1>8. Pattern(hi, Word) = q
    BY <1>5, <1>6, <1>7, Words, PatternIs
  <1> HIDE DEF hi
  <1>9. (q - Word) * Word = q * Word - Wider
    BY <1>5, Words, Z3 DEF Wider
  <1>10. q * Word \in Int
    BY <1>5, Words, Z3
  <1>11. hi * Word + lo = x
    BY <1>1, <1>2, <1>3, <1>5, <1>6, <1>9, <1>10, Words
  <1>12. Signed(raw, Wider) = x
    BY <1>1, <1>2, <1>3, Words DEF Signed
  <1>13. to_i128(i128_val(x)) = x
    BY <1>4, <1>5, <1>8, <1>12 DEF to_i128
  <1>14. QED
    BY <1>4, <1>5, <1>7, <1>11, <1>13

LEMMA U128Parts ==
  ASSUME NEW x \in U128
  PROVE  /\ u128_val(x).hi \in 0 .. Word - 1
         /\ u128_val(x).lo \in 0 .. Word - 1
         /\ u128_val(x).hi * Word + u128_val(x).lo = x
         /\ to_u128(u128_val(x)) = x
  BY RawParts DEF U128, u128_val, to_u128

-----------------------------------------------------------------------------
(* Conversions that undo each other *)

LEMMA Kinds ==
  ASSUME NEW x \in Scalar
  PROVE  \/ x.type \in Plain /\ x = [type |-> x.type, num |-> x.num]
         \/ x.type = "I128" /\ x.num \in I128 /\ x = [type |-> "I128", num |-> x.num]
         \/ x.type = "U128" /\ x.num \in U128 /\ x = [type |-> "U128", num |-> x.num]
         \/ /\ x.type \in Textual /\ x = [type |-> x.type, text |-> x.text]
            /\ x.type = "Bytes" \/ x.text.utf8
  BY DEF Scalar

LEMMA ScalarRoundTrip ==
  ASSUME NEW x \in Scalar, encode(x).ok
  PROVE  decode(x.type, encode(x).value) = Ok(x)
  <1>1. CASE x.type \in Plain /\ x = [type |-> x.type, num |-> x.num]
    <2>1. encode(x) = Ok([tag |-> x.type, num |-> x.num])
      BY <1>1 DEF encode, Plain
    <2>2. encode(x).value.tag = x.type /\ encode(x).value.num = x.num
      BY <2>1 DEF Ok
    <2>3. ASSUME NEW v, v.tag = x.type, v.num = x.num
          PROVE  decode(x.type, v) = Ok([type |-> x.type, num |-> x.num])
      <3>1. x.type \in Plain
        BY <1>1
      <3>2. QED
        BY <2>3, <3>1 DEF decode, Plain
    <2>4. QED
      BY <1>1, <2>2, <2>3
  <1>2. CASE x.type = "I128" /\ x.num \in I128 /\ x = [type |-> "I128", num |-> x.num]
    <2>1. encode(x) = Ok(i128_val(x.num))
      BY <1>2 DEF encode, Plain
    <2>2. i128_val(x.num).tag = "I128"
      BY DEF i128_val
    <2>3. decode("I128", i128_val(x.num)) = Ok([type |-> "I128", num |-> x.num])
      BY <1>2, <2>2, I128Parts DEF decode, Plain
    <2>4. QED
      BY <1>2, <2>1, <2>3 DEF Ok
  <1>3. CASE x.type = "U128" /\ x.num \in U128 /\ x = [type |-> "U128", num |-> x.num]
    <2>1. encode(x) = Ok(u128_val(x.num))
      BY <1>3 DEF encode, Plain
    <2>2. u128_val(x.num).tag = "U128"
      BY DEF u128_val
    <2>3. decode("U128", u128_val(x.num)) = Ok([type |-> "U128", num |-> x.num])
      BY <1>3, <2>2, U128Parts DEF decode, Plain
    <2>4. QED
      BY <1>3, <2>1, <2>3 DEF Ok
  <1>4. CASE /\ x.type \in Textual /\ x = [type |-> x.type, text |-> x.text]
             /\ x.type = "Bytes" \/ x.text.utf8
    <2>1. encode(x) = Ok([tag |-> x.type, text |-> x.text])
      BY <1>4 DEF encode, symbol, address, Textual, Plain, Ok, Err
    <2>2. encode(x).value.tag = x.type /\ encode(x).value.text = x.text
      BY <2>1 DEF Ok
    <2>3. ASSUME NEW v, v.tag = x.type, v.text = x.text
          PROVE  decode(x.type, v) = Ok([type |-> x.type, text |-> x.text])
      <3>1. x.type \in Textual /\ (x.type = "Bytes" \/ x.text.utf8)
        BY <1>4
      <3>2. QED
        BY <2>3, <3>1 DEF decode, Plain, Textual
    <2>4. QED
      BY <1>4, <2>2, <2>3
  <1>5. QED
    BY <1>1, <1>2, <1>3, <1>4, Kinds

(* A list of good results collects to the list of their values.              *)
LEMMA CollectAll ==
  ASSUME NEW r, NEW s, s = [i \in DOMAIN s |-> s[i]],
         DOMAIN r = DOMAIN s, \A i \in DOMAIN s : r[i] = Ok(s[i])
  PROVE  Collect(r) = Ok(s)
  <1>1. \A i \in DOMAIN s : r[i].ok /\ r[i].value = s[i]
    BY DEF Ok
  <1>2. [i \in DOMAIN r |-> r[i].value] = [i \in DOMAIN s |-> s[i]]
    BY <1>1
  <1>3. Collect(r) = Ok([i \in DOMAIN r |-> r[i].value])
    BY <1>1 DEF Collect
  <1>4. QED
    BY <1>2, <1>3

LEMMA VecRoundTrip ==
  ASSUME NEW T, NEW s \in Seq(Scalar), \A i \in DOMAIN s : s[i].type = T,
         vec_of(s).ok
  PROVE  to_vec_of(T, vec_of(s).value) = Ok(s)
  <1> DEFINE e == [i \in DOMAIN s |-> encode(s[i])]
             v == [i \in DOMAIN s |-> e[i].value]
             back == [i \in DOMAIN v |-> decode(T, v[i])]
  <1>1. \A i \in DOMAIN s : e[i].ok
    BY DEF vec_of, Collect, Ok, Err
  <1>2. vec_of(s) = Ok(vec_val(v))
    BY <1>1 DEF vec_of, Collect, Ok
  <1>3. to_vec_val(vec_val(v)) = Ok(v)
    BY DEF to_vec_val, vec_val
  <1>4. \A i \in DOMAIN s : back[i] = Ok(s[i])
    BY <1>1, ScalarRoundTrip
  <1>5. DOMAIN back = DOMAIN s /\ s = [i \in DOMAIN s |-> s[i]]
    OBVIOUS
  <1>6. to_vec_val(vec_val(v)).ok /\ to_vec_val(vec_val(v)).value = v
    BY <1>3 DEF Ok
  <1> HIDE DEF v
  <1>7. to_vec_of(T, vec_val(v)) = Collect(back)
    BY <1>6 DEF to_vec_of
  <1> HIDE DEF back
  <1>8. Collect(back) = Ok(s)
    BY <1>4, <1>5, CollectAll
  <1>9. vec_of(s).value = vec_val(v)
    BY <1>2 DEF Ok
  <1>10. QED
    BY <1>7, <1>8, <1>9

LEMMA HexRoundTrip ==
  ASSUME NEW b \in Seq(Byte), Len(b) = HashLen
  PROVE  wasm_hash_from_hex(wasm_hash_to_hex(b)) = Ok(b)
  <1> DEFINE d == wasm_hash_to_hex(b).digits
             L == 2 * HashLen
  <1>1. HashLen \in Nat /\ HexBase \in Nat \ {0} /\ L \in Nat
    BY UtilsAssumption
  <1>2. \A i \in 1 .. HashLen :
          /\ b[i] \in Int /\ 0 <= b[i] /\ b[i] < HexBase * HexBase
          /\ 2 * i - 1 \in 1 .. L /\ 2 * i \in 1 .. L
    <2>1. HexBase * HexBase \in Nat
      BY <1>1, Z3
    <2>2. QED
      BY <1>1, <2>1 DEF Byte
  <1>3. d = [i \in 1 .. L |->
               IF i % 2 = 1 THEN b[(i + 1) \div 2] \div HexBase
               ELSE b[(i + 1) \div 2] % HexBase]
    BY DEF wasm_hash_to_hex
  <1>4. Len(d) = L /\ DOMAIN d = 1 .. L
    BY <1>1, <1>3
  <1> HIDE DEF d
  <1>5. \A i \in 1 .. HashLen :
          d[2 * i - 1] = b[i] \div HexBase /\ d[2 * i] = b[i] % HexBase
    <2> TAKE i \in 1 .. HashLen
    <2>1. /\ (2 * i - 1) % 2 = 1 /\ (2 * i) % 2 = 0
          /\ (2 * i - 1 + 1) \div 2 = i /\ (2 * i + 1) \div 2 = i
      BY Z3
    <2>2. QED
      BY <1>2, <1>3, <2>1
  <1>6. \A i \in 1 .. HashLen :
          /\ b[i] \div HexBase \in 0 .. HexBase - 1
          /\ (b[i] % HexBase) \in 0 .. HexBase - 1
          /\ (b[i] \div HexBase) * HexBase + (b[i] % HexBase) = b[i]
    BY <1>1, <1>2, QuotientBelow
  <1>7. \A j \in 1 .. L : d[j] < HexBase
    <2> TAKE j \in 1 .. L
    <2>1. PICK i \in 1 .. HashLen : j = 2 * i - 1 \/ j = 2 * i
      <3>1. (j + 1) \div 2 \in 1 .. HashLen
        BY <1>1
      <3>2. j = 2 * ((j + 1) \div 2) - 1 \/ j = 2 * ((j + 1) \div 2)
        BY <1>1
      <3>3. QED
        BY <3>1, <3>2
    <2>2. d[j] \in 0 .. HexBase - 1
      BY <1>5, <1>6, <2>1
    <2>3. QED
      BY <1>1, <2>2
  <1>8. Len(d) % 2 = 0 /\ Len(d) \div 2 = HashLen
    BY <1>1, <1>4
  <1>9. [i \in 1 .. HashLen |-> d[2 * i - 1] * HexBase + d[2 * i]] = b
    <2>1. \A i \in 1 .. HashLen : d[2 * i - 1] * HexBase + d[2 * i] = b[i]
      BY <1>5, <1>6
    <2>2. b = [i \in 1 .. HashLen |-> b[i]]
      BY <1>1
    <2>3. QED
      BY <2>1, <2>2
  <1>10. wasm_hash_to_hex(b).digits = d
    BY DEF d
  <1>11. QED
    BY <1>4, <1>7, <1>8, <1>9, <1>10 DEF wasm_hash_from_hex

(* Every value that can be encoded, but a key, for which there is no decoder.*)
LEMMA DecodeUndoesEncode ==
  ASSUME NEW x \in Native, Homogeneous(x), x.type # "Key", Encoded(x).ok
  PROVE  Decoded(ReaderOf(x), Encoded(x).value) = Ok(x)
  <1>1. CASE x \in Scalar
    <2>1. x.type \in Types
      BY <1>1 DEF Scalar, Types, Plain, Textual, Wide
    <2>2. /\ x.type \notin {"Vec", "VecOf", "Key", "Hash"}
          /\ ReaderOf(x) = [type |-> x.type]
      BY <2>1 DEF Types, Plain, Textual, Wide, ReaderOf
    <2>3. Encoded(x) = encode(x)
      BY <2>2 DEF Encoded
    <2>4. decode(x.type, encode(x).value) = Ok(x)
      BY <1>1, <2>3, ScalarRoundTrip
    <2>5. Decoded([type |-> x.type], encode(x).value) = decode(x.type, encode(x).value)
      BY <2>2 DEF Decoded
    <2>6. QED
      BY <2>2, <2>3, <2>4, <2>5
  <1>2. CASE x \in [type : {"Vec"}, items : Seq(Element)]
    <2>1. x = [type |-> "Vec", items |-> x.items] /\ x.type = "Vec"
      BY <1>2
    <2>2. Encoded(x).value = vec_val(x.items) /\ ReaderOf(x) = [type |-> "Vec"]
      BY <2>1 DEF Encoded, Ok, ReaderOf
    <2>3. to_vec_val(vec_val(x.items)).ok /\ to_vec_val(vec_val(x.items)).value = x.items
      BY DEF to_vec_val, vec_val, Ok
    <2>4. Decoded([type |-> "Vec"], vec_val(x.items))
            = Ok([type |-> "Vec", items |-> x.items])
      BY <2>3 DEF Decoded
    <2>5. QED
      BY <2>1, <2>2, <2>4
  <1>3. CASE x \in [type : {"VecOf"}, of : Types, items : Seq(Scalar)]
    <2>1. /\ x = [type |-> "VecOf", of |-> x.of, items |-> x.items]
          /\ x.type = "VecOf" /\ x.items \in Seq(Scalar)
      BY <1>3
    <2>2. /\ Encoded(x) = vec_of(x.items)
          /\ ReaderOf(x) = [type |-> "VecOf", of |-> x.of]
      BY <2>1 DEF Encoded, ReaderOf
    <2>3. to_vec_of(x.of, vec_of(x.items).value) = Ok(x.items)
      BY <2>1, <2>2, VecRoundTrip DEF Homogeneous
    <2>4. ASSUME NEW v, to_vec_of(x.of, v) = Ok(x.items)
          PROVE  Decoded([type |-> "VecOf", of |-> x.of], v)
                   = Ok([type |-> "VecOf", of |-> x.of, items |-> x.items])
      <3>1. to_vec_of(x.of, v).ok /\ to_vec_of(x.of, v).value = x.items
        BY <2>4 DEF Ok
      <3>2. QED
        BY <3>1 DEF Decoded
    <2>5. QED
      BY <2>1, <2>2, <2>3, <2>4
  <1>4. CASE x \in [type : {"Hash"}, bytes : Seq(Byte)] /\ Len(x.bytes) = HashLen
    <2>1. /\ x = [type |-> "Hash", bytes |-> x.bytes]
          /\ x.type = "Hash" /\ x.bytes \in Seq(Byte)
      BY <1>4
    <2>2. /\ Encoded(x).value = wasm_hash_to_hex(x.bytes)
          /\ ReaderOf(x) = [type |-> "Hash"]
      BY <2>1 DEF Encoded, Ok, ReaderOf
    <2>3. wasm_hash_from_hex(wasm_hash_to_hex(x.bytes)) = Ok(x.bytes)
      BY <1>4, <2>1, HexRoundTrip
    <2>4. ASSUME NEW v, wasm_hash_from_hex(v) = Ok(x.bytes)
          PROVE  Decoded([type |-> "Hash"], v) = Ok([type |-> "Hash", bytes |-> x.bytes])
      <3>1. wasm_hash_from_hex(v).ok /\ wasm_hash_from_hex(v).value = x.bytes
        BY <2>4 DEF Ok
      <3>2. QED
        BY <3>1 DEF Decoded
    <2>5. QED
      BY <2>1, <2>2, <2>3, <2>4
  <1>5. QED
    BY <1>1, <1>2, <1>3, <1>4 DEF Native

-----------------------------------------------------------------------------
(* What encodings and decoders come to *)

(* A scalar has no encoding or one that is an element.                       *)
LEMMA EncodeIsElement ==
  ASSUME NEW x \in Scalar
  PROVE  \/ encode(x) = Err
         \/ encode(x) = Ok(encode(x).value) /\ encode(x).value \in Element
  <1>1. CASE x.type \in Plain /\ x = [type |-> x.type, num |-> x.num]
    <2>1. encode(x) = Ok([tag |-> x.type, num |-> x.num]) /\ x.num \in Int
      BY <1>1 DEF encode, Plain, Scalar, Textual, I128, U128
    <2>2. [tag |-> x.type, num |-> x.num] \in Element
      BY <1>1, <2>1 DEF Element
    <2>3. QED
      BY <2>1, <2>2 DEF Ok
  <1>2. CASE x.type = "I128" /\ x.num \in I128
    <2>1. encode(x) = Ok(i128_val(x.num))
      BY <1>2 DEF encode
    <2>2. i128_val(x.num) \in Element
      <3>1. \A hi \in -Half .. Half - 1, lo \in 0 .. Word - 1 :
              [tag |-> "I128", hi |-> hi, lo |-> lo] \in Element
        BY DEF Element
      <3>2. i128_val(x.num)
              = [tag |-> "I128", hi |-> i128_val(x.num).hi, lo |-> i128_val(x.num).lo]
        BY DEF i128_val
      <3>3. QED
        BY <1>2, <3>1, <3>2, I128Parts
    <2>3. QED
      BY <2>1, <2>2 DEF Ok
  <1>3. CASE x.type = "U128" /\ x.num \in U128
    <2>1. encode(x) = Ok(u128_val(x.num))
      BY <1>3 DEF encode
    <2>2. u128_val(x.num) \in Element
      <3>1. \A hi \in 0 .. Word - 1, lo \in 0 .. Word - 1 :
              [tag |-> "U128", hi |-> hi, lo |-> lo] \in Element
        BY DEF Element
      <3>2. u128_val(x.num)
              = [tag |-> "U128", hi |-> u128_val(x.num).hi, lo |-> u128_val(x.num).lo]
        BY DEF u128_val
      <3>3. QED
        BY <1>3, <3>1, <3>2, U128Parts
    <2>3. QED
      BY <2>1, <2>2 DEF Ok
  <1>4. CASE x.type \in Textual /\ x = [type |-> x.type, text |-> x.text]
    <2>1. x.text \in Text
      BY <1>4 DEF Scalar, Textual, Plain
    <2>2. \/ encode(x) = Err
          \/ /\ encode(x) = Ok([tag |-> x.type, text |-> x.text])
             /\ x.type = "Symbol" => x.text.size <= MaxSymbol
             /\ x.type = "Address" => x.text \in Strkey
      BY <1>4 DEF encode, symbol, address, Plain, Textual
    <2>3. ASSUME x.type = "Symbol" => x.text.size <= MaxSymbol,
                 x.type = "Address" => x.text \in Strkey
          PROVE  [tag |-> x.type, text |-> x.text] \in Element
      BY <1>4, <2>1, <2>3 DEF Element, TextVal
    <2>4. QED
      BY <2>2, <2>3 DEF Ok
  <1>5. QED
    BY <1>1, <1>2, <1>3, <1>4, Kinds

(* Two parts are one number.                                                 *)
LEMMA I128Number ==
  ASSUME NEW hi \in -Half .. Half - 1, NEW lo \in 0 .. Word - 1
  PROVE  LET v == [tag |-> "I128", hi |-> hi, lo |-> lo]
         IN  to_i128(v) \in I128 /\ i128_val(to_i128(v)) = v
  <1> DEFINE v == [tag |-> "I128", hi |-> hi, lo |-> lo]
             p == Pattern(hi, Word)
             x == hi * Word + lo
  <1>1. /\ hi \in Int /\ -Half <= hi /\ hi < Half /\ lo \in Int /\ 0 <= lo /\ lo < Word
        /\ -Word <= hi /\ hi < Word
    BY Words
  <1>2. p = IF hi < 0 THEN hi + Word ELSE hi
    BY <1>1, Words, PatternIs
  <1>3. to_i128(v) = Signed(p * Word + lo, Wider)
    BY DEF to_i128
  <1> HIDE DEF p
  <1>4. /\ hi * Word \in Int
        /\ (hi + Word) * Word = hi * Word + Wider
        /\ (hi + 1) * Word = hi * Word + Word
        /\ (-Half) * Word = -(Half * Word)
    BY <1>1, Words, Z3 DEF Wider
  <1>5. -(Half * Word) <= hi * Word /\ (hi + 1) * Word <= Half * Word
    <2>1. (-Half) * Word <= hi * Word /\ (hi + 1) * Word <= Half * Word
      BY <1>1, Words, ProductMonotone
    <2>2. QED
      BY <1>4, <2>1
  <1>6. x \in I128
    BY <1>1, <1>4, <1>5, Words DEF I128
  <1>7. to_i128(v) = x
    <2>1. CASE hi < 0
      <3>1. p * Word = hi * Word + Wider
        BY <1>2, <1>4, <2>1
      <3>2. (hi + 1) * Word <= 0
        <4>1. (hi + 1) * Word <= 0 * Word
          BY <1>1, <2>1, Words, ProductMonotone
        <4>2. QED
          BY <4>1, Words
      <3>3. QED
        BY <1>1, <1>3, <1>4, <1>5, <3>1, <3>2, Words DEF Signed
    <2>2. CASE ~ hi < 0
      <3>1. p * Word = hi * Word
        BY <1>2, <2>2
      <3>2. 0 <= hi * Word
        BY <1>1, <2>2, Words, ProductPositive
      <3>3. QED
        BY <1>1, <1>3, <1>4, <1>5, <3>1, <3>2, Words DEF Signed
    <2>3. QED
      BY <2>1, <2>2
  <1>8. i128_val(x).hi = hi /\ i128_val(x).lo = lo
    <2> DEFINE h == i128_val(x).hi
               l == i128_val(x).lo
    <2>1. h \in -Half .. Half - 1 /\ l \in 0 .. Word - 1 /\ h * Word + l = x
      BY <1>6, I128Parts
    <2> HIDE DEF h, l
    <2>2. h \in Int /\ l \in Int /\ 0 <= l /\ l < Word
      BY <2>1, Words
    <2>3. (h * Word + l) \div Word = h /\ (h * Word + l) % Word = l
      BY <2>2, Words, Division
    <2>4. Word \in Nat \ {0}
      BY Words
    <2>5. (hi * Word + lo) \div Word = hi /\ (hi * Word + lo) % Word = lo
      BY <1>1, <2>4, Division, Zenon
    <2>6. QED
      BY <2>1, <2>3, <2>5 DEF h, l
  <1>9. i128_val(x) = v
    BY <1>8 DEF i128_val
  <1>10. QED
    BY <1>6, <1>7, <1>9

LEMMA U128Number ==
  ASSUME NEW hi \in 0 .. Word - 1, NEW lo \in 0 .. Word - 1
  PROVE  LET v == [tag |-> "U128", hi |-> hi, lo |-> lo]
         IN  to_u128(v) \in U128 /\ u128_val(to_u128(v)) = v
  <1> DEFINE x == hi * Word + lo
  <1>1. hi \in Int /\ 0 <= hi /\ hi + 1 <= Word /\ lo \in Int /\ 0 <= lo /\ lo < Word
    BY Words
  <1>2. hi * Word \in Nat /\ (hi + 1) * Word = hi * Word + Word
    BY <1>1, Words, Z3
  <1>3. (hi + 1) * Word <= Word * Word
    BY <1>1, Words, ProductMonotone
  <1>4. x \in U128
    BY <1>1, <1>2, <1>3, Words DEF U128, Wider
  <1>5. x \div Word = hi /\ x % Word = lo
    BY <1>1, Words, Division
  <1>6. QED
    BY <1>4, <1>5 DEF to_u128, u128_val

(* What a decoder accepts of an element is a scalar that encodes as it.      *)
LEMMA DecodeElement ==
  ASSUME NEW T \in Types, NEW v \in Element, decode(T, v) # Err
  PROVE  \E x \in Scalar : /\ x.type = T /\ decode(T, v) = Ok(x)
                           /\ encode(x) = Ok(v)
  <1>1. v.tag = T /\ (T \in {"String", "Symbol"} => v.text.utf8)
    BY DEF decode
  <1>2. CASE T \in Plain
    <2>1. v = [tag |-> T, num |-> v.num] /\ v.num \in Int
      BY <1>1, <1>2 DEF Element, TextVal, Plain, Textual
    <2> DEFINE x == [type |-> T, num |-> v.num]
    <2>2. decode(T, v) = Ok(x)
      BY <1>1, <1>2 DEF decode, Plain
    <2>3. x \in Scalar
      BY <1>2, <2>1 DEF Scalar
    <2>4. encode(x) = Ok(v)
      BY <1>2, <2>1 DEF encode, Plain
    <2>5. QED
      BY <2>2, <2>3, <2>4
  <1>3. CASE T = "I128"
    <2>1. /\ v = [tag |-> "I128", hi |-> v.hi, lo |-> v.lo]
          /\ v.hi \in -Half .. Half - 1 /\ v.lo \in 0 .. Word - 1
      BY <1>1, <1>3 DEF Element, TextVal, Plain, Textual
    <2> DEFINE x == [type |-> "I128", num |-> to_i128(v)]
    <2>2. decode(T, v) = Ok(x)
      BY <1>1, <1>3 DEF decode, Plain
    <2>3. to_i128(v) \in I128 /\ i128_val(to_i128(v)) = v
      BY <2>1, I128Number
    <2>4. x \in Scalar
      BY <2>3 DEF Scalar
    <2>5. encode(x) = Ok(v)
      BY <2>3 DEF encode
    <2>6. QED
      BY <1>3, <2>2, <2>4, <2>5
  <1>4. CASE T = "U128"
    <2>1. /\ v = [tag |-> "U128", hi |-> v.hi, lo |-> v.lo]
          /\ v.hi \in 0 .. Word - 1 /\ v.lo \in 0 .. Word - 1
      BY <1>1, <1>4 DEF Element, TextVal, Plain, Textual
    <2> DEFINE x == [type |-> "U128", num |-> to_u128(v)]
    <2>2. decode(T, v) = Ok(x)
      BY <1>1, <1>4 DEF decode, Plain
    <2>3. to_u128(v) \in U128 /\ u128_val(to_u128(v)) = v
      BY <2>1, U128Number
    <2>4. x \in Scalar
      BY <2>3 DEF Scalar
    <2>5. encode(x) = Ok(v)
      BY <2>3 DEF encode
    <2>6. QED
      BY <1>4, <2>2, <2>4, <2>5
  <1>5. CASE T \in Textual
    <2>1. /\ v = [tag |-> T, text |-> v.text] /\ v.text \in Text
          /\ T = "Symbol" => v.text.size <= MaxSymbol
          /\ T = "Address" => v.text \in Strkey
      BY <1>1, <1>5 DEF Element, TextVal, Plain, Textual
    <2> DEFINE x == [type |-> T, text |-> v.text]
    <2>2. decode(T, v) = Ok(x)
      BY <1>1, <1>5 DEF decode, Plain, Textual
    <2>3. x.type = "Bytes" \/ x.text.utf8
      BY <1>1, <1>5, <2>1, UtilsAssumption DEF Textual
    <2>4. x \in Scalar
      BY <1>5, <2>1, <2>3 DEF Scalar
    <2>5. encode(x) = Ok(v)
      BY <1>5, <2>1 DEF encode, symbol, address, Plain, Textual
    <2>6. QED
      BY <2>2, <2>4, <2>5
  <1>6. QED
    BY <1>2, <1>3, <1>4, <1>5 DEF Types, Wide

LEMMA CollectIs ==
  ASSUME NEW r, Collect(r) # Err
  PROVE  /\ \A i \in DOMAIN r : r[i].ok
         /\ Collect(r) = Ok([i \in DOMAIN r |-> r[i].value])
  BY DEF Collect

(* What is decoded of a vector's elements encodes as that vector.            *)
LEMMA VecDecoded ==
  ASSUME NEW T \in Types, NEW s \in Seq(Element), NEW r,
         r = [i \in DOMAIN s |-> decode(T, s[i])], Collect(r) # Err
  PROVE  \E q \in Seq(Scalar) : Collect(r) = Ok(q) /\ vec_of(q) = Ok(vec_val(s))
  <1> DEFINE q == [i \in DOMAIN r |-> r[i].value]
             e == [i \in DOMAIN q |-> encode(q[i])]
  <1>1. /\ \A i \in DOMAIN r : r[i].ok
        /\ Collect(r) = Ok(q)
    BY CollectIs
  <1>2. /\ DOMAIN r = DOMAIN s /\ DOMAIN s = 1 .. Len(s) /\ Len(s) \in Nat
        /\ \A i \in DOMAIN s : s[i] \in Element
        /\ s = [i \in DOMAIN s |-> s[i]]
    OBVIOUS
  <1>3. \A i \in DOMAIN s : q[i] \in Scalar /\ encode(q[i]) = Ok(s[i])
    <2> SUFFICES ASSUME NEW i \in DOMAIN s
                 PROVE  r[i].value \in Scalar /\ encode(r[i].value) = Ok(s[i])
      BY <1>2
    <2>1. r[i] = decode(T, s[i]) /\ r[i] # Err
      BY <1>1, <1>2 DEF Err
    <2>2. PICK x \in Scalar : decode(T, s[i]) = Ok(x) /\ encode(x) = Ok(s[i])
      BY <1>2, <2>1, DecodeElement
    <2>3. r[i].value = x
      BY <2>1, <2>2 DEF Ok
    <2>4. QED
      BY <2>2, <2>3
  <1>4. DOMAIN q = DOMAIN s
    BY <1>2
  <1> HIDE DEF q
  <1>5. q \in Seq(Scalar)
    <2>1. q \in [1 .. Len(s) -> Scalar]
      BY <1>2, <1>3, <1>4 DEF q
    <2>2. QED
      BY <1>2, <2>1
  <1>6. Collect(e) = Ok(s)
    <2>1. DOMAIN e = DOMAIN s /\ \A i \in DOMAIN s : e[i] = Ok(s[i])
      BY <1>3, <1>4
    <2> HIDE DEF e
    <2>2. QED
      BY <1>2, <2>1, CollectAll
  <1>7. vec_of(q) = Ok(vec_val(s))
    <2>1. Collect(e).ok /\ Collect(e).value = s
      BY <1>6 DEF Ok
    <2> HIDE DEF e
    <2>2. vec_of(q) = IF Collect(e).ok THEN Ok(vec_val(Collect(e).value)) ELSE Err
      BY DEF vec_of, e
    <2>3. QED
      BY <2>1, <2>2
  <1>8. QED
    BY <1>1, <1>5, <1>7

(* What is decoded of a hex string encodes as that string: no digit is lost. *)
LEMMA HexDecoded ==
  ASSUME NEW v \in Hex, wasm_hash_from_hex(v) # Err
  PROVE  \E b \in Seq(Byte) : /\ Len(b) = HashLen
                              /\ wasm_hash_from_hex(v) = Ok(b)
                              /\ wasm_hash_to_hex(b) = v
  <1> DEFINE d == v.digits
             b == [i \in 1 .. HashLen |-> d[2 * i - 1] * HexBase + d[2 * i]]
  <1>1. HashLen \in Nat /\ HexBase \in Nat \ {0}
    BY UtilsAssumption
  <1>2. /\ v = [tag |-> "Hex", digits |-> d] /\ d \in Seq(Nat)
        /\ \A i \in DOMAIN d : d[i] < HexBase
        /\ Len(d) % 2 = 0 /\ Len(d) \div 2 = HashLen
        /\ wasm_hash_from_hex(v) = Ok(b)
    BY DEF Hex, wasm_hash_from_hex
  <1> HIDE DEF d
  <1>3. /\ Len(d) = 2 * HashLen /\ DOMAIN d = 1 .. 2 * HashLen
        /\ d = [i \in 1 .. 2 * HashLen |-> d[i]]
    <2>1. Len(d) = 2 * HashLen
      BY <1>1, <1>2
    <2>2. QED
      BY <1>2, <2>1
  <1>4. \A i \in 1 .. 2 * HashLen : d[i] \in Int /\ 0 <= d[i] /\ d[i] < HexBase
    <2>1. ASSUME NEW q \in Seq(Nat), NEW i \in 1 .. Len(q)
          PROVE  q[i] \in Nat
      OBVIOUS
    <2>2. QED
      BY <1>1, <1>2, <1>3, <2>1
  <1>5. \A i \in 1 .. HashLen :
          /\ 2 * i - 1 \in 1 .. 2 * HashLen /\ 2 * i \in 1 .. 2 * HashLen
          /\ b[i] = d[2 * i - 1] * HexBase + d[2 * i]
    BY <1>1
  <1>6. \A i \in 1 .. HashLen :
          b[i] \div HexBase = d[2 * i - 1] /\ b[i] % HexBase = d[2 * i]
    <2> TAKE i \in 1 .. HashLen
    <2> DEFINE h == d[2 * i - 1]
               l == d[2 * i]
    <2>1. h \in Int /\ l \in Int /\ 0 <= l /\ l < HexBase
      BY <1>1, <1>4, <1>5
    <2>2. b[i] = h * HexBase + l
      BY <1>5
    <2> HIDE DEF h, l, b
    <2>3. b[i] \div HexBase = h /\ b[i] % HexBase = l
      BY <1>1, <2>1, <2>2, Division
    <2>4. QED
      BY <2>3 DEF h, l
  <1>7. \A i \in 1 .. HashLen : b[i] \in Byte
    <2> TAKE i \in 1 .. HashLen
    <2> DEFINE h == d[2 * i - 1]
               l == d[2 * i]
    <2>1. /\ h \in Int /\ 0 <= h /\ h + 1 <= HexBase /\ h \in Nat
          /\ l \in Int /\ 0 <= l /\ l < HexBase
          /\ b[i] = h * HexBase + l
      BY <1>1, <1>4, <1>5
    <2> HIDE DEF h, l
    <2>2. h * HexBase \in Nat /\ (h + 1) * HexBase = h * HexBase + HexBase
      BY <1>1, <2>1, Z3
    <2>3. (h + 1) * HexBase <= HexBase * HexBase /\ HexBase * HexBase \in Nat
      BY <1>1, <2>1, ProductMonotone, ProductPositive
    <2>4. QED
      BY <1>1, <2>1, <2>2, <2>3 DEF Byte
  <1>8. b \in Seq(Byte) /\ Len(b) = HashLen
    <2>1. b \in [1 .. HashLen -> Byte]
      BY <1>7
    <2> HIDE DEF b
    <2>2. QED
      BY <1>1, <2>1
  <1> HIDE DEF b
  <1>9. wasm_hash_to_hex(b) = v
    <2>1. wasm_hash_to_hex(b)
            = [tag |-> "Hex",
               digits |-> [i \in 1 .. 2 * HashLen |->
                             IF i % 2 = 1 THEN b[(i + 1) \div 2] \div HexBase
                             ELSE b[(i + 1) \div 2] % HexBase]]
      BY <1>8 DEF wasm_hash_to_hex
    <2>2. ASSUME NEW i \in 1 .. 2 * HashLen
          PROVE  (IF i % 2 = 1 THEN b[(i + 1) \div 2] \div HexBase
                  ELSE b[(i + 1) \div 2] % HexBase) = d[i]
      <3> DEFINE j == (i + 1) \div 2
      <3>1. /\ j \in 1 .. HashLen
            /\ i % 2 = 1 => i = 2 * j - 1
            /\ i % 2 # 1 => i = 2 * j
        BY <1>1
      <3> HIDE DEF j
      <3>2. (IF i % 2 = 1 THEN b[j] \div HexBase ELSE b[j] % HexBase) = d[i]
        BY <1>6, <3>1
      <3>3. QED
        BY <3>2 DEF j
    <2>3. QED
      BY <1>2, <1>3, <2>1, <2>2
  <1>10. QED
    BY <1>2, <1>8, <1>9

(* An encoding is an error or a value of the library's.                      *)
LEMMA EncodedIs ==
  ASSUME NEW x \in Native, Encoded(x) # Err
  PROVE  Encoded(x) = Ok(Encoded(x).value) /\ Encoded(x).value \in ScVal \cup Hex
  <1> SUFFICES ASSUME TRUE
               PROVE  \E v \in ScVal \cup Hex : Encoded(x) = Ok(v)
    BY DEF Ok
  <1>1. CASE x \in Scalar
    <2>1. Encoded(x) = encode(x)
      BY <1>1 DEF Encoded, Scalar, Plain, Textual
    <2>2. QED
      BY <1>1, <2>1, EncodeIsElement DEF ScVal
  <1>2. CASE x \in [type : {"Vec"}, items : Seq(Element)]
    <2>1. Encoded(x) = Ok(vec_val(x.items)) /\ x.items \in Seq(Element)
      BY <1>2 DEF Encoded
    <2>2. vec_val(x.items) \in ScVal
      BY <2>1 DEF vec_val, ScVal
    <2>3. QED
      BY <2>1, <2>2
  <1>3. CASE x \in [type : {"VecOf"}, of : Types, items : Seq(Scalar)]
    <2> DEFINE s == x.items
               e == [i \in DOMAIN s |-> encode(s[i])]
               v == [i \in DOMAIN s |-> e[i].value]
    <2>1. s \in Seq(Scalar) /\ Encoded(x) = vec_of(s)
      BY <1>3 DEF Encoded
    <2> HIDE DEF s
    <2>2. \A i \in DOMAIN s : e[i].ok
      BY <2>1 DEF vec_of, Collect, Ok, Err
    <2>3. vec_of(s) = Ok(vec_val(v))
      BY <2>2 DEF vec_of, Collect, Ok
    <2>4. \A i \in DOMAIN s : v[i] \in Element
      <3> SUFFICES ASSUME NEW i \in DOMAIN s
                   PROVE  encode(s[i]).value \in Element
        OBVIOUS
      <3>1. s[i] \in Scalar /\ encode(s[i]) # Err
        BY <2>1, <2>2 DEF Err
      <3>2. QED
        BY <3>1, EncodeIsElement
    <2>5. v \in Seq(Element)
      <3>1. DOMAIN s = 1 .. Len(s) /\ Len(s) \in Nat
        BY <2>1
      <3>2. v \in [1 .. Len(s) -> Element]
        BY <2>4, <3>1
      <3> HIDE DEF v
      <3>3. QED
        BY <3>1, <3>2
    <2> HIDE DEF v
    <2>6. vec_val(v) \in ScVal
      BY <2>5 DEF vec_val, ScVal
    <2>7. QED
      BY <2>1, <2>3, <2>6
  <1>4. CASE x \in [type : {"Key"}, name : Text, details : Seq(Element)]
    <2> DEFINE first == [tag |-> "Symbol", text |-> x.name]
    <2>1. /\ Encoded(x) = mapping_entry_key(x.name, x.details)
          /\ x.name \in Text /\ x.details \in Seq(Element)
      BY <1>4 DEF Encoded
    <2>2. symbol(x.name) = Ok(first) /\ x.name.size <= MaxSymbol
      BY <2>1 DEF mapping_entry_key, symbol, Ok, Err
    <2>3. first \in Element
      BY <2>1, <2>2 DEF Element, TextVal, Textual
    <2>4. symbol(x.name).ok /\ symbol(x.name).value = first
      BY <2>2 DEF Ok
    <2> HIDE DEF first
    <2>5. <<first>> \o x.details \in Seq(Element)
      BY <2>1, <2>3
    <2>6. Encoded(x) = Ok(vec_val(<<first>> \o x.details))
      BY <2>1, <2>4 DEF mapping_entry_key
    <2>7. vec_val(<<first>> \o x.details) \in ScVal
      BY <2>5 DEF vec_val, ScVal
    <2>8. QED
      BY <2>6, <2>7
  <1>5. CASE x \in [type : {"Hash"}, bytes : Seq(Byte)] /\ Len(x.bytes) = HashLen
    <2> DEFINE b == x.bytes
               d == wasm_hash_to_hex(b).digits
    <2>1. b \in Seq(Byte) /\ Len(b) = HashLen /\ Encoded(x) = Ok(wasm_hash_to_hex(b))
      BY <1>5 DEF Encoded
    <2> HIDE DEF b
    <2>2. wasm_hash_to_hex(b) = [tag |-> "Hex", digits |-> d]
      BY DEF wasm_hash_to_hex
    <2>3. HashLen \in Nat /\ HexBase \in Nat \ {0} /\ HexBase * HexBase \in Nat
      BY UtilsAssumption, ProductPositive
    <2>4. d = [i \in 1 .. 2 * HashLen |->
                 IF i % 2 = 1 THEN b[(i + 1) \div 2] \div HexBase
                 ELSE b[(i + 1) \div 2] % HexBase]
      BY <2>1 DEF wasm_hash_to_hex
    <2>5. \A i \in 1 .. 2 * HashLen : (i + 1) \div 2 \in 1 .. HashLen
      BY <2>3
    <2>6. \A j \in 1 .. HashLen :
            b[j] \div HexBase \in Nat /\ b[j] % HexBase \in Nat
      <3> TAKE j \in 1 .. HashLen
      <3>1. b[j] \in Int /\ 0 <= b[j] /\ b[j] < HexBase * HexBase
        BY <2>1, <2>3 DEF Byte
      <3>2. /\ b[j] \div HexBase \in 0 .. HexBase - 1
            /\ b[j] % HexBase \in 0 .. HexBase - 1
        BY <2>3, <3>1, QuotientBelow
      <3>3. QED
        BY <2>3, <3>2
    <2>7. d \in [1 .. 2 * HashLen -> Nat]
      BY <2>4, <2>5, <2>6
    <2> HIDE DEF d
    <2>8. d \in Seq(Nat)
      BY <2>3, <2>7
    <2>9. [tag |-> "Hex", digits |-> d] \in Hex
      BY <2>8 DEF Hex
    <2>10. QED
      BY <2>1, <2>2, <2>9
  <1>6. QED
    BY <1>1, <1>2, <1>3, <1>4, <1>5 DEF Native

(* A decoder's answer is an error or a value that encodes as what was        *)
(* decoded, or as an empty vec where that was an absent one.                 *)
LEMMA EncodeUndoesDecode ==
  ASSUME NEW d \in Decoder, NEW v \in ScVal \cup Hex, Applies(d, v),
         Decoded(d, v) # Err
  PROVE  \E x \in Native :
           /\ Decoded(d, v) = Ok(x)
           /\ \/ Encoded(x) = Ok(v)
              \/ v.tag = "NoVec" /\ Encoded(x) = Ok(vec_val(<< >>))
  <1>1. CASE d.type \in Types
    <2>1. Decoded(d, v) = decode(d.type, v) /\ d.type \notin {"Vec", "VecOf", "Hash"}
      BY <1>1 DEF Decoded, Types, Plain, Textual, Wide
    <2>2. v \in Element
      BY <1>1, <2>1 DEF decode, ScVal, Hex, Types, Plain, Textual, Wide
    <2>3. PICK x \in Scalar : x.type = d.type /\ decode(d.type, v) = Ok(x)
                              /\ encode(x) = Ok(v)
      BY <1>1, <2>1, <2>2, DecodeElement
    <2>4. Encoded(x) = encode(x)
      BY <1>1, <2>3 DEF Encoded, Types, Plain, Textual, Wide
    <2>5. QED
      BY <2>1, <2>3, <2>4 DEF Native
  <1> DEFINE s == IF v.tag = "Vec" THEN v.items ELSE << >>
  <1>2. ASSUME to_vec_val(v) # Err, d.type # "Hash"
        PROVE  /\ to_vec_val(v).ok /\ to_vec_val(v).value = s
               /\ s \in Seq(Element)
               /\ \/ v = vec_val(s)
                  \/ v.tag = "NoVec" /\ s = << >>
    <2>1. v \in ScVal /\ v.tag \in {"Vec", "NoVec"}
      BY <1>2 DEF Applies, Hex, to_vec_val
    <2>2. CASE v.tag = "Vec"
      <3>1. v \in [tag : {"Vec"}, items : Seq(Element)]
        BY <2>1, <2>2 DEF ScVal, Element, TextVal, Plain, Textual
      <3>2. QED
        BY <2>2, <3>1 DEF to_vec_val, vec_val, Ok
    <2>3. CASE v.tag = "NoVec"
      BY <2>3 DEF to_vec_val, Ok
    <2>4. QED
      BY <2>1, <2>2, <2>3
  <1> HIDE DEF s
  <1>3. CASE d.type = "Vec"
    <2>1. to_vec_val(v) # Err
      BY <1>3 DEF Decoded, Err
    <2> DEFINE x == [type |-> "Vec", items |-> s]
    <2>2. Decoded(d, v) = Ok(x)
      BY <1>2, <1>3, <2>1 DEF Decoded
    <2>3. x \in Native
      BY <1>2, <1>3, <2>1 DEF Native
    <2>4. Encoded(x) = Ok(vec_val(s))
      BY DEF Encoded
    <2>5. QED
      BY <1>2, <1>3, <2>1, <2>2, <2>3, <2>4
  <1>4. CASE d.type = "VecOf"
    <2>1. d.of \in Types
      BY <1>4 DEF Decoder, Types, Plain, Textual, Wide
    <2>2. to_vec_of(d.of, v).ok
      BY <1>4 DEF Decoded
    <2>3. to_vec_val(v) # Err
      BY <2>2 DEF to_vec_of, Err
    <2> DEFINE r == [i \in DOMAIN s |-> decode(d.of, s[i])]
    <2>4. to_vec_of(d.of, v) = Collect(r)
      BY <1>2, <1>4, <2>3 DEF to_vec_of
    <2>5. Collect(r) # Err /\ s \in Seq(Element)
      BY <1>2, <1>4, <2>2, <2>3, <2>4 DEF Err
    <2> HIDE DEF r
    <2>6. PICK q \in Seq(Scalar) : Collect(r) = Ok(q) /\ vec_of(q) = Ok(vec_val(s))
      BY <2>1, <2>5, VecDecoded DEF r
    <2> DEFINE x == [type |-> "VecOf", of |-> d.of, items |-> q]
    <2>7. to_vec_of(d.of, v).value = q
      BY <2>4, <2>6 DEF Ok
    <2>8. Decoded(d, v) = Ok(x)
      BY <1>4, <2>2, <2>7 DEF Decoded
    <2>9. x \in Native
      BY <2>1, <2>6 DEF Native
    <2>10. Encoded(x) = Ok(vec_val(s))
      BY <2>6 DEF Encoded
    <2>11. QED
      BY <1>2, <1>4, <2>3, <2>8, <2>9, <2>10
  <1>5. CASE d.type = "Hash"
    <2>1. v \in Hex
      BY <1>5 DEF Applies, ScVal, Element, TextVal, Plain, Textual
    <2>2. wasm_hash_from_hex(v).ok
      BY <1>5 DEF Decoded
    <2>3. PICK b \in Seq(Byte) : /\ Len(b) = HashLen
                                 /\ wasm_hash_from_hex(v) = Ok(b)
                                 /\ wasm_hash_to_hex(b) = v
      BY <2>1, <2>2, HexDecoded DEF Err
    <2> DEFINE x == [type |-> "Hash", bytes |-> b]
    <2>4. wasm_hash_from_hex(v).value = b
      BY <2>3 DEF Ok
    <2>5. Decoded(d, v) = Ok(x)
      BY <1>5, <2>2, <2>4 DEF Decoded
    <2>6. x \in Native
      BY <2>3 DEF Native
    <2>7. Encoded(x) = Ok(v)
      BY <2>3 DEF Encoded
    <2>8. QED
      BY <2>5, <2>6, <2>7
  <1>6. QED
    BY <1>1, <1>3, <1>4, <1>5 DEF Decoder

-----------------------------------------------------------------------------
(* The program *)

(* What is at hand is the encoding of what was given, or was received; the   *)
(* answer is what the reader makes of it.                                    *)
ConversionInv ==
  /\ given # Nothing => given \in Given /\ coded = Encoded(given)
  /\ coded \notin {Nothing, Err} =>
       coded = Ok(coded.value) /\ coded.value \in ScVal \cup Hex
  /\ reader = Nothing => answer = Nothing
  /\ reader # Nothing =>
       /\ reader \in Decoder
       /\ coded \notin {Nothing, Err}
       /\ Applies(reader, coded.value)
       /\ answer = Decoded(reader, coded.value)

LEMMA ConversionStep == ConversionInv /\ [Next]_vars => ConversionInv'
  <1> SUFFICES ASSUME ConversionInv, [Next]_vars
               PROVE  ConversionInv'
    OBVIOUS
  <1>1. ASSUME NEW x \in Given, Encode(x) PROVE ConversionInv'
    <2>1. Encoded(x) # Err =>
            Encoded(x) = Ok(Encoded(x).value) /\ Encoded(x).value \in ScVal \cup Hex
      BY UtilsAssumption, EncodedIs
    <2>2. reader = Nothing
      BY <1>1 DEF ConversionInv, Encode
    <2>3. QED
      BY <1>1, <2>1, <2>2 DEF ConversionInv, Encode
  <1>2. ASSUME NEW v \in Received, Receive(v) PROVE ConversionInv'
    <2>1. Ok(v) = Ok(Ok(v).value) /\ Ok(v).value \in ScVal \cup Hex
      BY UtilsAssumption DEF Ok
    <2>2. reader = Nothing
      BY <1>2 DEF ConversionInv, Receive
    <2>3. QED
      BY <1>2, <2>1, <2>2 DEF ConversionInv, Receive
  <1>3. ASSUME NEW d \in Decoder, Decode(d) PROVE ConversionInv'
    <2>1. d # Nothing
      <3>1. d.type # "nothing"
        BY DEF Decoder, Types, Plain, Textual, Wide
      <3>2. QED
        BY <3>1 DEF Nothing
    <2>2. QED
      BY <1>3, <2>1 DEF ConversionInv, Decode
  <1>4. CASE UNCHANGED vars
    BY <1>4 DEF ConversionInv, vars
  <1>5. QED
    BY <1>1, <1>2, <1>3, <1>4 DEF Next

LEMMA ConversionInvariant == Spec => []ConversionInv
  <1>1. Init => ConversionInv
    BY DEF Init, ConversionInv
  <1>2. QED
    BY <1>1, ConversionStep, PTL DEF Spec

(* An encoding is an error or carries a value.                               *)
LEMMA EncodedIsAResult ==
  ASSUME NEW x, Encoded(x) # Err
  PROVE  Encoded(x).ok
  BY DEF Encoded, encode, vec_of, mapping_entry_key, symbol, address, Ok, Err

LEMMA Answers ==
  ASSUME ConversionInv, answer \notin {Nothing, Err}
  PROVE  \E x \in Native :
           /\ answer = Ok(x)
           /\ \/ Encoded(x) = coded
              \/ coded.value.tag = "NoVec" /\ Encoded(x) = Ok(vec_val(<< >>))
  <1>1. /\ reader \in Decoder /\ coded.value \in ScVal \cup Hex
        /\ coded = Ok(coded.value)
        /\ Applies(reader, coded.value)
        /\ answer = Decoded(reader, coded.value)
    BY DEF ConversionInv
  <1>2. QED
    BY <1>1, EncodeUndoesDecode

(* Type correctness: every encoding is a value of the library's, every answer*)
(* a native one.                                                             *)
THEOREM ConversionsTypeCorrect == Spec => []TypeOK
  <1>1. ConversionInv => TypeOK
    <2> SUFFICES ASSUME ConversionInv
                 PROVE  TypeOK
      OBVIOUS
    <2>1. answer \in {Err, Nothing} \/ answer.value \in Native
      BY Answers DEF Ok
    <2>2. QED
      BY <2>1 DEF ConversionInv, TypeOK
  <1>2. QED
    BY <1>1, ConversionInvariant, PTL

(* A decoder reads in full what it accepts: what it answers encodes as what  *)
(* it was given.                                                             *)
THEOREM DecodersReadAll == Spec => []NothingIsCoerced
  <1>1. ConversionInv => NothingIsCoerced
    <2> SUFFICES ASSUME ConversionInv, answer \notin {Nothing, Err}
                 PROVE  \/ Encoded(answer.value) = coded
                        \/ /\ coded.value.tag = "NoVec"
                           /\ Encoded(answer.value) = Ok(vec_val(<< >>))
      BY DEF NothingIsCoerced
    <2>1. PICK x \in Native :
            /\ answer = Ok(x)
            /\ \/ Encoded(x) = coded
               \/ coded.value.tag = "NoVec" /\ Encoded(x) = Ok(vec_val(<< >>))
      BY Answers
    <2>2. answer.value = x
      BY <2>1 DEF Ok
    <2>3. QED
      BY <2>1, <2>2
  <1>2. QED
    BY <1>1, ConversionInvariant, PTL

(* Encoded and decoded as what it was, a value is what it was.               *)
THEOREM EncodingsRoundTrip == Spec => []RoundTrip
  <1>1. ConversionInv => RoundTrip
    <2> SUFFICES ASSUME ConversionInv, given # Nothing, reader # Nothing,
                        reader = ReaderOf(given)
                 PROVE  answer = Ok(given)
      BY DEF RoundTrip
    <2>1. /\ given \in Given /\ coded = Encoded(given) /\ coded # Err
          /\ reader \in Decoder /\ answer = Decoded(reader, coded.value)
      BY DEF ConversionInv
    <2>2. given \in Native /\ Homogeneous(given)
      BY <2>1, UtilsAssumption
    <2>3. given.type # "Key"
      <3> SUFFICES ASSUME given.type = "Key" PROVE FALSE
        OBVIOUS
      <3>1. reader.type = "Key"
        BY DEF ReaderOf
      <3>2. QED
        BY <2>1, <3>1 DEF Decoder, Types, Plain, Textual, Wide
    <2>4. Encoded(given).ok
      BY <2>1, EncodedIsAResult
    <2>5. QED
      BY <2>1, <2>2, <2>3, <2>4, DecodeUndoesEncode
  <1>2. QED
    BY <1>1, ConversionInvariant, PTL

(* The parts of a 128-bit integer are the number the contract reads.         *)
THEOREM PartsAreRead == Spec => []PartsAreTheNumber
  <1>1. ConversionInv => PartsAreTheNumber
    <2> SUFFICES ASSUME ConversionInv, given # Nothing, given.type \in Wide
                 PROVE  coded.value.hi * Word + coded.value.lo = given.num
      BY DEF PartsAreTheNumber
    <2>1. given \in Native /\ coded = Encoded(given)
      BY UtilsAssumption DEF ConversionInv
    <2>2. given \in Scalar
      BY <2>1 DEF Native, Wide
    <2>3. coded = encode(given)
      BY <2>1 DEF Encoded, Wide
    <2>4. CASE given.type = "I128"
      <3>1. given.num \in I128 /\ coded.value = i128_val(given.num)
        BY <2>2, <2>3, <2>4, Kinds DEF encode, Ok, Plain, Textual
      <3>2. QED
        BY <3>1, I128Parts
    <2>5. CASE given.type = "U128"
      <3>1. given.num \in U128 /\ coded.value = u128_val(given.num)
        BY <2>2, <2>3, <2>5, Kinds DEF encode, Ok, Plain, Textual
      <3>2. QED
        BY <3>1, U128Parts
    <2>6. QED
      BY <2>4, <2>5 DEF Wide
  <1>2. QED
    BY <1>1, ConversionInvariant, PTL

(* A storage key reads back to the name and the fields it was made of, so    *)
(* two entries never share one.                                              *)
THEOREM KeysReadBack == Spec => []KeyReadsBack
  <1>1. ConversionInv => KeyReadsBack
    <2> DEFINE first == [tag |-> "Symbol", text |-> given.name]
               items == <<first>> \o given.details
    <2> SUFFICES ASSUME ConversionInv, given # Nothing, given.type = "Key"
                 PROVE  \/ given.name.size > MaxSymbol /\ coded = Err
                        \/ /\ given.name.size <= MaxSymbol
                           /\ coded.ok
                           /\ coded.value # instance_key
                           /\ to_vec_val(coded.value) = Ok(items)
      BY DEF KeyReadsBack
    <2>0. given.name \in Text /\ given.name.size \in Nat /\ MaxSymbol \in Nat
      BY UtilsAssumption, Kinds DEF ConversionInv, Native, Scalar, Types, Plain, Textual, Wide
    <2>1. coded = mapping_entry_key(given.name, given.details)
      BY DEF ConversionInv, Encoded
    <2>9. CASE given.name.size > MaxSymbol
      BY <2>0, <2>1, <2>9 DEF mapping_entry_key, symbol, Err
    <2> SUFFICES ASSUME given.name.size <= MaxSymbol
                 PROVE  coded.ok /\ coded.value # instance_key
                        /\ to_vec_val(coded.value) = Ok(items)
      BY <2>0, <2>9
    <2>2. symbol(given.name) = Ok(first)
      BY DEF symbol
    <2>3. symbol(given.name).ok /\ symbol(given.name).value = first
      BY <2>2 DEF Ok
    <2> HIDE DEF first
    <2>4. coded = Ok(vec_val(items))
      BY <2>1, <2>3 DEF mapping_entry_key
    <2> HIDE DEF items
    <2>5. coded.ok /\ coded.value = vec_val(items)
      BY <2>4 DEF Ok
    <2>6. to_vec_val(vec_val(items)) = Ok(items)
      BY DEF to_vec_val, vec_val
    <2>7. vec_val(items) # instance_key
      BY DEF vec_val, instance_key
    <2>8. QED
      BY <2>5, <2>6, <2>7 DEF items, first
  <1>2. QED
    BY <1>1, ConversionInvariant, PTL
=============================================================================
