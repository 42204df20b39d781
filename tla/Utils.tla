------------------------------- MODULE Utils -------------------------------
(***************************************************************************)
(* Conversions: native values to ScVal and back (src/utils.rs), and the    *)
(* two that ttl builds on them or beside them (src/ttl.rs), the key of a   *)
(* storage entry and the hex form of a wasm hash.                          *)
(*                                                                         *)
(* A program encodes a value, or is given one by a contract or a file, and *)
(* decodes what it has as one of the types there is a decoder for.  A text *)
(* is its length in bytes, whether it is UTF-8, and a name; vectors hold   *)
(* no vectors; the XDR limit of 2^32 - 1 elements or bytes is not reached. *)
(***************************************************************************)
EXTENDS Integers, Sequences

CONSTANTS
  Word,        \* the values of one half of a 128-bit integer: 2^64
  MaxSymbol,   \* the longest symbol, in bytes: 32
  HexBase,     \* the values of a hex digit: 16
  HashLen,     \* the length of a wasm hash, in bytes: 32
  Text,        \* texts and byte strings
  Strkey,      \* the texts that are a G... or a C... address
  Given,       \* what programs encode
  Received     \* what contracts answer and files hold

Plain == {"Bool", "I32", "U32", "I64", "U64"}
Textual == {"Address", "String", "Symbol", "Bytes"}
Wide == {"I128", "U128"}
Types == Plain \cup Textual \cup Wide

Half == Word \div 2
Wider == Word * Word

I128 == -(Half * Word) .. Half * Word - 1
U128 == 0 .. Wider - 1

(* The variants of ScVal the library builds or reads.  The XDR type keeps a  *)
(* symbol to its 32 bytes, and an address is one.  Vec(None), the absent vec,*)
(* is NoVec.                                                                 *)
TextVal ==
  {v \in [tag : Textual, text : Text] :
     /\ v.tag = "Symbol" => v.text.size <= MaxSymbol
     /\ v.tag = "Address" => v.text \in Strkey}

Element ==
  [tag : Plain, num : Int]
  \cup TextVal
  \cup [tag : {"I128"}, hi : -Half .. Half - 1, lo : 0 .. Word - 1]
  \cup [tag : {"U128"}, hi : 0 .. Word - 1, lo : 0 .. Word - 1]
  \cup [tag : {"Void", "LedgerKeyContractInstance"}]

Hex == [tag : {"Hex"}, digits : Seq(Nat)]

ScVal == Element \cup [tag : {"Vec"}, items : Seq(Element)] \cup [tag : {"NoVec"}]

(* Native values, each with the conversion it is meant for.  A str is UTF-8.  *)
Scalar ==
  [type : Plain, num : Int]
  \cup {x \in [type : Textual, text : Text] : x.type = "Bytes" \/ x.text.utf8}
  \cup [type : {"I128"}, num : I128]
  \cup [type : {"U128"}, num : U128]

Byte == 0 .. HexBase * HexBase - 1

Native ==
  Scalar
  \cup [type : {"Vec"}, items : Seq(Element)]
  \cup [type : {"VecOf"}, of : Types, items : Seq(Scalar)]
  \cup [type : {"Key"}, name : Text, details : Seq(Element)]
  \cup {x \in [type : {"Hash"}, bytes : Seq(Byte)] : Len(x.bytes) = HashLen}

Homogeneous(x) ==
  x.type = "VecOf" => \A i \in DOMAIN x.items : x.items[i].type = x.of

ASSUME UtilsAssumption ==
  /\ Half \in Nat \ {0} /\ Word = 2 * Half
  /\ MaxSymbol \in Nat
  /\ HexBase \in Nat \ {0}
  /\ HashLen \in Nat
  /\ \A t \in Text : t.size \in Nat /\ t.utf8 \in BOOLEAN
  /\ Strkey \subseteq {t \in Text : t.utf8}
  /\ \A x \in Given : x \in Native /\ Homogeneous(x)
  /\ Received \subseteq ScVal \cup Hex

-----------------------------------------------------------------------------
(* Results *)

Ok(v) == [ok |-> TRUE, value |-> v]
Err == [ok |-> FALSE]

(* Faulty variant of Collect: the elements that failed left out.             *)
CollectSome(results) ==
  LET good == SelectSeq(results, LAMBDA r : r.ok)
  IN  Ok([i \in DOMAIN good |-> good[i].value])

(* collect::<Result<Vec<_>>>(): all of them, or an error.                    *)
Collect(results) ==
  IF \A i \in DOMAIN results : results[i].ok
  THEN Ok([i \in DOMAIN results |-> results[i].value])
  ELSE Err

-----------------------------------------------------------------------------
(* Construction *)

(* to_be_bytes: a number of some width as its bit pattern, two's complement. *)
Pattern(x, size) == x % size

(* from_be_bytes of a signed type.                                           *)
Signed(p, size) == IF p < size \div 2 THEN p ELSE p - size

(* Faulty variants of i128_val: both halves cut from the end of the bytes    *)
(* that little-endian would have them; the high half read as a u64.          *)
I128ValSwapped(x) ==
  LET raw == Pattern(x, Wider)
  IN  [tag |-> "I128", hi |-> Signed(raw % Word, Word), lo |-> raw \div Word]

I128ValUnsigned(x) ==
  LET raw == Pattern(x, Wider)
  IN  [tag |-> "I128", hi |-> raw \div Word, lo |-> raw % Word]

i128_val(x) ==
  LET raw == Pattern(x, Wider)
  IN  [tag |-> "I128", hi |-> Signed(raw \div Word, Word), lo |-> raw % Word]

u128_val(x) == [tag |-> "U128", hi |-> x \div Word, lo |-> x % Word]

symbol(t) ==
  IF t.size <= MaxSymbol THEN Ok([tag |-> "Symbol", text |-> t]) ELSE Err

address(t) == IF t \in Strkey THEN Ok([tag |-> "Address", text |-> t]) ELSE Err

(* string, bytes and the scalars cannot fail.                                *)
encode(x) ==
  IF x.type = "I128" THEN Ok(i128_val(x.num))
  ELSE IF x.type = "U128" THEN Ok(u128_val(x.num))
  ELSE IF x.type = "Symbol" THEN symbol(x.text)
  ELSE IF x.type = "Address" THEN address(x.text)
  ELSE IF x.type \in Plain THEN Ok([tag |-> x.type, num |-> x.num])
  ELSE Ok([tag |-> x.type, text |-> x.text])

vec_val(items) == [tag |-> "Vec", items |-> items]

vec_of(items) ==
  LET encoded == Collect([i \in DOMAIN items |-> encode(items[i])])
  IN  IF encoded.ok THEN Ok(vec_val(encoded.value)) ELSE Err

instance_key == [tag |-> "LedgerKeyContractInstance"]

(* Faulty variant of mapping_entry_key: a unit variant as a bare symbol.     *)
KeyBareSymbol(name, details) ==
  LET first == symbol(name)
  IN  IF first.ok
      THEN Ok(IF details = << >> THEN first.value
              ELSE vec_val(<<first.value>> \o details))
      ELSE Err

mapping_entry_key(name, details) ==
  LET first == symbol(name)
  IN  IF first.ok THEN Ok(vec_val(<<first.value>> \o details)) ELSE Err

wasm_hash_to_hex(bytes) ==
  [tag |-> "Hex",
   digits |-> [i \in 1 .. 2 * Len(bytes) |->
                 LET b == bytes[(i + 1) \div 2]
                 IN  IF i % 2 = 1 THEN b \div HexBase ELSE b % HexBase]]

Encoded(x) ==
  IF x.type = "Vec" THEN Ok(vec_val(x.items))
  ELSE IF x.type = "VecOf" THEN vec_of(x.items)
  ELSE IF x.type = "Key" THEN mapping_entry_key(x.name, x.details)
  ELSE IF x.type = "Hash" THEN Ok(wasm_hash_to_hex(x.bytes))
  ELSE encode(x)

-----------------------------------------------------------------------------
(* Extraction *)

(* Faulty variant of to_i128: the low half sign-extended over the high one.  *)
ToI128SignExtends(v) ==
  Signed((Pattern(v.hi, Word) * Word + Signed(v.lo, Word)) % Wider, Wider)

to_i128(v) == Signed(Pattern(v.hi, Word) * Word + v.lo, Wider)

to_u128(v) == v.hi * Word + v.lo

(* The decoder of T: another variant is an error, and so is a string or a    *)
(* symbol that is not UTF-8.                                                 *)
decode(T, v) ==
  IF v.tag # T \/ (T \in {"String", "Symbol"} /\ ~ v.text.utf8) THEN Err
  ELSE IF T = "I128" THEN Ok([type |-> T, num |-> to_i128(v)])
  ELSE IF T = "U128" THEN Ok([type |-> T, num |-> to_u128(v)])
  ELSE IF T \in Plain THEN Ok([type |-> T, num |-> v.num])
  ELSE Ok([type |-> T, text |-> v.text])

to_vec_val(v) ==
  IF v.tag = "Vec" THEN Ok(v.items)
  ELSE IF v.tag = "NoVec" THEN Ok(<< >>) ELSE Err

to_vec_of(T, v) ==
  LET items == to_vec_val(v)
  IN  IF items.ok
      THEN Collect([i \in DOMAIN items.value |-> decode(T, items.value[i])])
      ELSE Err

(* Faulty variant of wasm_hash_from_hex: what is too long is cut off.        *)
FromHexTruncates(v) ==
  IF /\ \A i \in DOMAIN v.digits : v.digits[i] < HexBase
     /\ Len(v.digits) % 2 = 0
     /\ Len(v.digits) >= 2 * HashLen
  THEN Ok([i \in 1 .. HashLen |-> v.digits[2 * i - 1] * HexBase + v.digits[2 * i]])
  ELSE Err

(* hex::decode, then try_into [u8; 32].  A digit stands for its two cases.   *)
wasm_hash_from_hex(v) ==
  IF /\ \A i \in DOMAIN v.digits : v.digits[i] < HexBase
     /\ Len(v.digits) % 2 = 0
     /\ Len(v.digits) \div 2 = HashLen
  THEN Ok([i \in 1 .. HashLen |-> v.digits[2 * i - 1] * HexBase + v.digits[2 * i]])
  ELSE Err

(* A decoder is named by its type and, for a vec of T, by that of its        *)
(* elements.  There is none that undoes mapping_entry_key.                   *)
Decoder ==
  [type : Types \cup {"Vec", "Hash"}] \cup [type : {"VecOf"}, of : Types]

Decoded(d, v) ==
  LET items == IF d.type = "VecOf" THEN to_vec_of(d.of, v) ELSE to_vec_val(v)
      bytes == wasm_hash_from_hex(v)
  IN  IF d.type = "Vec"
      THEN IF items.ok THEN Ok([type |-> "Vec", items |-> items.value]) ELSE Err
      ELSE IF d.type = "VecOf"
      THEN IF items.ok
           THEN Ok([type |-> "VecOf", of |-> d.of, items |-> items.value])
           ELSE Err
      ELSE IF d.type = "Hash"
      THEN IF bytes.ok THEN Ok([type |-> "Hash", bytes |-> bytes.value]) ELSE Err
      ELSE decode(d.type, v)

-----------------------------------------------------------------------------
(* A program's conversions *)

VARIABLES
  given,     \* what was encoded, Nothing for a value received
  coded,     \* the result of the encoding, or what was received
  reader,    \* the decoder used on it
  answer     \* its result

vars == <<given, coded, reader, answer>>

Nothing == [type |-> "nothing"]

(* Hex strings and ScVals are different types to the compiler.               *)
Applies(d, v) == (d.type = "Hash") <=> (v.tag = "Hex")

TypeOK ==
  /\ given \in Given \cup {Nothing}
  /\ coded \in {Err, Nothing} \/ coded.value \in ScVal \cup Hex
  /\ reader \in Decoder \cup {Nothing}
  /\ answer \in {Err, Nothing} \/ answer.value \in Native

Init ==
  /\ given = Nothing
  /\ coded = Nothing
  /\ reader = Nothing
  /\ answer = Nothing

Encode(x) ==
  /\ coded = Nothing /\ given = Nothing
  /\ given' = x
  /\ coded' = Encoded(x)
  /\ UNCHANGED <<reader, answer>>

Receive(v) ==
  /\ coded = Nothing /\ given = Nothing
  /\ coded' = Ok(v)
  /\ UNCHANGED <<given, reader, answer>>

Decode(d) ==
  /\ coded \notin {Nothing, Err}
  /\ reader = Nothing
  /\ Applies(d, coded.value)
  /\ reader' = d
  /\ answer' = Decoded(d, coded.value)
  /\ UNCHANGED <<given, coded>>

Next ==
  \/ \E x \in Given : Encode(x)
  \/ \E v \in Received : Receive(v)
  \/ \E d \in Decoder : Decode(d)

Spec == Init /\ [][Next]_vars

-----------------------------------------------------------------------------
(* Properties *)

(* The decoder a value is meant for.                                         *)
ReaderOf(x) ==
  IF x.type = "VecOf" THEN [type |-> "VecOf", of |-> x.of] ELSE [type |-> x.type]

(* What a program has encoded and decodes as what it was is what it was: a   *)
(* 128-bit integer at any edge of its halves, a vector in every element, a   *)
(* hash through its hex form.                                                *)
RoundTrip ==
  given # Nothing /\ reader # Nothing /\ reader = ReaderOf(given) => answer = Ok(given)

(* What a decoder accepts it has read in full: encoded again it is the value *)
(* that was decoded, nothing left out, truncated or taken for another type.  *)
(* An absent vec alone comes back as an empty one.                           *)
NothingIsCoerced ==
  answer \notin {Nothing, Err} =>
    \/ Encoded(answer.value) = coded
    \/ coded.value.tag = "NoVec" /\ Encoded(answer.value) = Ok(vec_val(<< >>))

(* The contract's side reads Int128Parts as hi * 2^64 + lo: the parts are    *)
(* the number, not only something this library turns back into it.           *)
PartsAreTheNumber ==
  given # Nothing /\ given.type \in Wide =>
    coded.value.hi * Word + coded.value.lo = given.num

(* A storage key reads back, as a contract reads an enum variant, to the     *)
(* variant's name and its fields: entries that differ have keys that differ, *)
(* and none is the instance's.  A name too long for a symbol has no key, and *)
(* no other is refused.  The key of a unit variant is a vec too, which is not*)
(* what two comments say (BareSymbolKey).                                    *)
KeyReadsBack ==
  given # Nothing /\ given.type = "Key" =>
    \/ given.name.size > MaxSymbol /\ coded = Err
    \/ /\ given.name.size <= MaxSymbol
       /\ coded.ok
       /\ coded.value # instance_key
       /\ to_vec_val(coded.value) =
            Ok(<<[tag |-> "Symbol", text |-> given.name]>> \o given.details)

(* The comments on mapping_entry_key, ttl.rs:188-189: with no details the key*)
(* "is just the bare symbol key", and on Client::extend_ttl, client.rs:      *)
(* 123-124: "pass an empty details for a bare-symbol key".  The entry of a   *)
(* contract that stores under a bare symbol is not found with the key made.  *)
BareSymbolKey ==
  given # Nothing /\ given.type = "Key" /\ given.details = << >> /\ coded # Err =>
    coded = symbol(given.name)
=============================================================================
