------------------------------ MODULE MCUtils ------------------------------
(* Halves of two bits, so a 128-bit integer has four; symbols of three      *)
(* bytes; hashes of two bytes of two binary digits each.                    *)
EXTENDS Utils

MCText == [name : {"a", "b"}, size : {0, 3, 4}, utf8 : BOOLEAN]

Utf8 == {t \in MCText : t.utf8}

MCStrkey == {t \in Utf8 : t.name = "a" /\ t.size = 4}

Scalars ==
  [type : Plain, num : {0, 1}]
  \cup [type : {"String", "Symbol", "Address"}, text : Utf8]
  \cup [type : {"Bytes"}, text : MCText]
  \cup [type : {"I128"}, num : I128]
  \cup [type : {"U128"}, num : U128]

UpTo(S, k) == UNION {[1 .. i -> S] : i \in 0 .. k}

(* One or two values of each type, of those of which an encoding may fail    *)
(* one of each kind.                                                         *)
Samples(T) ==
  IF T = "I128" THEN [type : {T}, num : {-1, 5}]
  ELSE IF T = "U128" THEN [type : {T}, num : {3, 12}]
  ELSE IF T \in Plain THEN [type : {T}, num : {0, 1}]
  ELSE [type : {T}, text : {t \in Utf8 : t.name = "a" /\ t.size > 0}]

Elements ==
  {[tag |-> "U64", num |-> 1], [tag |-> "I64", num |-> 1], [tag |-> "Void"],
   [tag |-> "I128", hi |-> -1, lo |-> 3],
   [tag |-> "U128", hi |-> 3, lo |-> 3],
   [tag |-> "Symbol", text |-> [name |-> "a", size |-> 3, utf8 |-> TRUE]],
   [tag |-> "String", text |-> [name |-> "a", size |-> 3, utf8 |-> FALSE]]}

MCGiven ==
  Scalars
  \cup [type : {"Vec"}, items : UpTo(Elements, 2)]
  \cup UNION {[type : {"VecOf"}, of : {T}, items : UpTo(Samples(T), 3)] : T \in Types}
  \cup [type : {"Key"}, name : Utf8, details : UpTo(Elements, 1)]
  \cup [type : {"Hash"}, bytes : [1 .. HashLen -> Byte]]

MCReceived ==
  [tag : Plain, num : {0, 1}]
  \cup {v \in [tag : Textual, text : MCText] :
          /\ v.tag = "Symbol" => v.text.size <= MaxSymbol
          /\ v.tag = "Address" => v.text \in Strkey}
  \cup [tag : {"I128"}, hi : -Half .. Half - 1, lo : 0 .. Word - 1]
  \cup [tag : {"U128"}, hi : 0 .. Word - 1, lo : 0 .. Word - 1]
  \cup [tag : {"Void", "LedgerKeyContractInstance", "NoVec"}]
  \cup [tag : {"Vec"}, items : UpTo(Elements, 3)]
  \cup [tag : {"Hex"}, digits : UpTo(0 .. HexBase, 2 * HashLen + 2)]
=============================================================================
