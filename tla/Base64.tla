------------------------------- MODULE Base64 -------------------------------
(***************************************************************************)
(* The text form in which XLEncrytHelper sends and receives ciphers:       *)
(* Base64, with + and / replaced by $$ and @@ for the sake of URLs.        *)
(*                                                                         *)
(* Both loops write into a buffer that was allocated before them with a    *)
(* size computed from the length of the input; here each turn of a loop is *)
(* a step, and the buffers are functions on the indices allocated.  What   *)
(* is sent comes from a text that was encrypted or from data, what is      *)
(* received may be any text.  Of DES only the lengths are modelled: its    *)
(* buffer, too, is sized beforehand, and from characters, not from bytes.  *)
(*                                                                         *)
(* A character is a number: its value in the alphabet, or one of the names *)
(* below.                                                                  *)
(***************************************************************************)
EXTENDS Naturals, Sequences

CONSTANTS
  Plain, \* texts to be encrypted, by how many characters of a kind they have
  Fill,  \* the bytes that stand for a ciphertext
  Data,  \* the data to be encoded
  Text   \* texts that are received from elsewhere

Byte == 0..255
Plus == 62
Slash == 63
Pad == 64
Dollar == 65
At == 66
Foreign == 67    \* any other ASCII character; a text with others gives no bytes at all
Character == 0..Foreign
Digit == 0..63
Unset == 256     \* what malloc left in a place of a buffer

\* Characters that a percent escape keeps (one byte), those that it escapes (one
\* byte), and Chinese ones (three bytes, each escaped).
Kinds == [kept : Nat, percent : Nat, wide : Nat]

ASSUME Base64Assumption ==
  Plain \subseteq Kinds /\ Fill \subseteq Byte /\ Data \subseteq Seq(Byte) /\ Text \subseteq Seq(Character)

VARIABLES
  stage,              \* plain, encode, encoded, wire, decode, decoded
  plain,              \* the text to be encrypted
  escaped,            \* whether objData is the ciphertext of an escaped text
  bufferPtrSize1,     \* the size of the cipher's buffer
  objData,            \* what was encoded; empty for a received text
  sent,               \* whether the text was made from objData
  undone,             \* whether the special characters were undone
  text,               \* encoding, encryptStr or strBase64
  encodingBytes,
  rawBaseIndex,
  encodingBaseIndex,
  i, k,               \* the indices of the decoding loop
  decodingBlock,      \* its first j characters
  decodedBytes

codecVars == <<stage, plain, escaped, bufferPtrSize1, objData, sent, undone, text, encodingBytes, rawBaseIndex,
          encodingBaseIndex, i, k, decodingBlock, decodedBytes>>
cipher == <<plain, escaped, bufferPtrSize1>>
encoder == <<encodingBytes, rawBaseIndex, encodingBaseIndex>>
decoder == <<i, k, decodingBlock, decodedBytes>>

-----------------------------------------------------------------------------
(***************************************************************************)
(* Sizes and places.                                                       *)
(***************************************************************************)

\* Faulty variant: the padding table in another order.
PaddingInOrder(dataLength) == dataLength % 3

Padding(dataLength) == CASE dataLength % 3 = 0 -> 0
                         [] dataLength % 3 = 1 -> 2
                         [] dataLength % 3 = 2 -> 1

EncodedLength(dataLength) ==
  4 * ((dataLength * 8) \div 24 + (IF Padding(dataLength) > 0 THEN 1 ELSE 0))

\* Faulty variant: the last block is not rounded up.
ExpectedDataLengthOfWholeBlocks(encodedLength) == 3 * (encodedLength \div 4)

ExpectedDataLength(encodedLength) == 3 * ((encodedLength + 3) \div 4)

\* Faulty variant: rounded down.
BufferSizeOfWholeBlocks(length) == 8 * (length \div 8)

\* (length + 8) & ~7
BufferSize(length) == 8 * ((length + 8) \div 8)

\* CCCrypt with PKCS7 padding; this is also the length that it reports, and the code
\* copies, when the buffer is too small.
CipherLength(bytes) == 8 * (bytes \div 8 + 1)

\* The characters of a text, and its bytes in UTF-8, after a percent escape or without.
Characters(p, escape) ==
  IF escape THEN p.kept + 3 * p.percent + 9 * p.wide ELSE p.kept + p.percent + p.wide

Bytes(p, escape) ==
  IF escape THEN Characters(p, TRUE) ELSE p.kept + p.percent + 3 * p.wide

Allocated(length) == [n \in 0..length - 1 |-> Unset]

\* Buffer b with the sequence s written at base.  What falls outside is lost here;
\* WritesStayInside says that nothing does.
Write(b, base, s) ==
  [n \in DOMAIN b |-> IF n \in base..base + Len(s) - 1 THEN s[n - base + 1] ELSE b[n]]

\* The first n places of a buffer as a sequence.
Prefix(b, n) == [m \in 1..n |-> b[m - 1]]

CodecTypeOK ==
  /\ stage \in {"plain", "encode", "encoded", "wire", "decode", "decoded"}
  /\ plain \in Kinds /\ escaped \in BOOLEAN /\ bufferPtrSize1 \in Nat
  /\ objData \in Seq(Byte)
  /\ sent \in BOOLEAN /\ undone \in BOOLEAN
  /\ text \in Seq(Character)
  /\ DOMAIN encodingBytes = 0..EncodedLength(Len(objData)) - 1
  /\ \A n \in DOMAIN encodingBytes : encodingBytes[n] \in 0..Pad \cup {Unset}
  /\ rawBaseIndex \in 0..Len(objData)
  /\ encodingBaseIndex \in Nat
  /\ i \in 0..Len(text) /\ k \in Nat
  /\ decodingBlock \in Seq(Digit) /\ Len(decodingBlock) < 4
  /\ \A n \in DOMAIN decodedBytes : decodedBytes[n] \in Byte \cup {Unset}

InitDecoder ==
  /\ i = 0 /\ k = 0
  /\ decodingBlock = <<>>
  /\ decodedBytes = Allocated(0)

InitEncrypt ==
  /\ stage = "plain" /\ sent = TRUE
  /\ plain \in Plain
  /\ objData = <<>>
  /\ text = <<>>

Nothing == [kept |-> 0, percent |-> 0, wide |-> 0]

InitSend ==
  /\ stage = "encode" /\ sent = TRUE
  /\ plain = Nothing
  /\ objData \in Data
  /\ text = <<>>

InitReceive ==
  /\ stage = "wire" /\ sent = FALSE
  /\ plain = Nothing
  /\ objData = <<>>
  /\ text \in Text

CodecInit ==
  /\ InitEncrypt \/ InitSend \/ InitReceive
  /\ escaped = FALSE /\ bufferPtrSize1 = 0
  /\ undone = FALSE
  /\ encodingBytes = Allocated(EncodedLength(Len(objData)))
  /\ rawBaseIndex = 0 /\ encodingBaseIndex = 0
  /\ InitDecoder

-----------------------------------------------------------------------------
(***************************************************************************)
(* The three ciphers, which differ in the initial vector only, and their   *)
(* callers.                                                                *)
(***************************************************************************)

DoCipher(escape) ==
  /\ stage = "plain"
  /\ stage' = "encode"
  /\ escaped' = escape
  /\ bufferPtrSize1' = BufferSize(Characters(plain, escape))
  /\ \E b \in Fill : objData' = [n \in 1..CipherLength(Bytes(plain, escape)) |-> b]
  /\ encodingBytes' = Allocated(EncodedLength(CipherLength(Bytes(plain, escape))))
  /\ UNCHANGED <<plain, sent, undone, text, rawBaseIndex, encodingBaseIndex, decoder>>

\* desEncryptStr:key: and newDesEncryptStr:key:, which escape, since the ciphers
\* "cannot encode Chinese characters".
NewDesEncryptStr == DoCipher(TRUE)

NewDesEncryptStrWithoutEncode == DoCipher(FALSE)

-----------------------------------------------------------------------------
(***************************************************************************)
(* encodeBase64WithData:                                                   *)
(***************************************************************************)

\* The four characters of three bytes; & and | of disjoint bits.
Quartet(b1, b2, b3) ==
  <<b1 \div 4, (b1 % 4) * 16 + b2 \div 16, (b2 % 16) * 4 + b3 \div 64, b3 % 64>>

EncodeBlock ==
  /\ stage = "encode" /\ Len(objData) - rawBaseIndex >= 3
  /\ LET b(n) == objData[rawBaseIndex + n]
     IN  encodingBytes' = Write(encodingBytes, encodingBaseIndex, Quartet(b(1), b(2), b(3)))
  /\ rawBaseIndex' = rawBaseIndex + 3
  /\ encodingBaseIndex' = encodingBaseIndex + 4
  /\ UNCHANGED <<stage, cipher, objData, sent, undone, text, decoder>>

\* The last one or two bytes give three characters.
WriteRest(b) ==
  LET rest == Len(objData) - rawBaseIndex
      b1 == objData[rawBaseIndex + 1]
      b2 == IF rest = 2 THEN objData[rawBaseIndex + 2] ELSE 0
  IN  IF rest \in {1, 2} THEN Write(b, encodingBaseIndex, SubSeq(Quartet(b1, b2, 0), 1, 3)) ELSE b

\* Then the padding is written over the end.
EncodeRest ==
  /\ stage = "encode" /\ Len(objData) - rawBaseIndex < 3
  /\ LET length == EncodedLength(Len(objData))
         padding == Padding(Len(objData))
     IN  /\ encodingBytes' = Write(WriteRest(encodingBytes), length - padding,
                                   SubSeq(<<Pad, Pad>>, 1, padding))
         /\ encodingBaseIndex' = length
         /\ text' = Prefix(encodingBytes', length)
  /\ stage' = "encoded"
  /\ UNCHANGED <<cipher, objData, sent, undone, rawBaseIndex, decoder>>

-----------------------------------------------------------------------------
(***************************************************************************)
(* The special characters.                                                 *)
(***************************************************************************)

Doubled(c) == CASE c = Plus -> <<Dollar, Dollar>>
                [] c = Slash -> <<At, At>>
                [] OTHER -> <<c>>

\* Each character is replaced, which no other replacement touches.
SpecialUp(s) ==
  LET from[n \in 1..Len(s) + 1] ==
        IF n > Len(s) THEN <<>> ELSE Doubled(s[n]) \o from[n + 1]
  IN  from[1]

\* encodeSpecialUpDataCharacters:
EncodeSpecialUpDataCharacters ==
  /\ stage = "encoded"
  /\ stage' = "wire"
  /\ text' = SpecialUp(text)
  /\ UNCHANGED <<cipher, objData, sent, undone, encoder, decoder>>

\* replaceOccurrencesOfString: finds pairs from the left.
ReplacePairs(s, old, new) ==
  LET from[n \in 1..Len(s) + 2] ==
        IF n > Len(s) THEN <<>>
        ELSE IF n < Len(s) /\ s[n] = old /\ s[n + 1] = old THEN <<new>> \o from[n + 2]
        ELSE <<s[n]>> \o from[n + 1]
  IN  from[1]

\* Faulty variant: only @@ is undone, as decodeSpecialCharacters: does.
SpecialDownSlashOnly(s) == ReplacePairs(s, At, Slash)

\* encodeSpecialDownDataCharacters:
SpecialDown(s) == ReplacePairs(ReplacePairs(s, Dollar, Plus), At, Slash)

\* Which of the first n elements of s belong to S, in their order, for every n.
Kept(s, S) ==
  LET kept[n \in 0..Len(s)] ==
        IF n = 0 THEN <<>>
        ELSE IF s[n] \in S THEN Append(kept[n - 1], s[n]) ELSE kept[n - 1]
  IN  kept

Keep(s, S) == Kept(s, S)[Len(s)]

\* What a cipher does first to decrypt s: decodeBase64WithString: up to its loop.  Its
\* own buffer it allocates later, of a size that depends on s alone.
StartDecoding(s) ==
  /\ stage = "wire"
  /\ stage' = "decode"
  /\ text' = Keep(s, Character \ {Pad})
  /\ decodedBytes' = Allocated(ExpectedDataLength(Len(text')))
  /\ bufferPtrSize1' = BufferSize(Len(s))
  /\ UNCHANGED <<plain, escaped, objData, sent, encoder, i, k, decodingBlock>>

\* desDecryptStr:key: and newDesDecryptStr:key:
NewDesDecryptStr == StartDecoding(SpecialDown(text)) /\ undone' = TRUE

\* newNewDesDecryptStr:key: leaves the special characters alone.
NewNewDesDecryptStr == StartDecoding(text) /\ UNCHANGED undone

-----------------------------------------------------------------------------
(***************************************************************************)
(* decodeBase64WithString:                                                 *)
(***************************************************************************)

\* decodingTable, whose other entries are __.
InTable(c) == c \in Digit

\* Three bytes of four characters, each cut to eight bits.
Triplet(c1, c2, c3, c4) ==
  <<(c1 * 4 + c2 \div 16) % 256, (c2 * 16 + c3 \div 4) % 256, (c3 * 64 + c4) % 256>>

DecodeCharacter ==
  /\ stage = "decode" /\ i < Len(text)
  /\ i' = i + 1
  /\ LET c == text[i + 1]
         block == Append(decodingBlock, c)
     IN  \/ /\ ~InTable(c)
            /\ UNCHANGED <<decodingBlock, decodedBytes, k>>
         \/ /\ InTable(c) /\ Len(block) < 4
            /\ decodingBlock' = block
            /\ UNCHANGED <<decodedBytes, k>>
         \/ /\ InTable(c) /\ Len(block) = 4
            /\ decodedBytes' = Write(decodedBytes, k, Triplet(block[1], block[2], block[3], block[4]))
            /\ k' = k + 3
            /\ decodingBlock' = <<>>
  /\ UNCHANGED <<stage, cipher, objData, sent, undone, text, encoder>>

\* The bytes of a block that was not filled.
LeftOver ==
  LET j == Len(decodingBlock)
      d(n) == IF n <= j THEN decodingBlock[n] ELSE 0
  IN  SubSeq(Triplet(d(1), d(2), d(3), 0), 1, CASE j = 3 -> 2 [] j = 2 -> 1 [] OTHER -> 0)

DecodeRest ==
  /\ stage = "decode" /\ i = Len(text)
  /\ stage' = "decoded"
  /\ decodedBytes' = Write(decodedBytes, k, LeftOver)
  /\ k' = k + Len(LeftOver)
  /\ UNCHANGED <<cipher, objData, sent, undone, text, encoder, i, decodingBlock>>

CodecNext ==
  \/ NewDesEncryptStr \/ NewDesEncryptStrWithoutEncode
  \/ EncodeBlock \/ EncodeRest \/ EncodeSpecialUpDataCharacters
  \/ NewDesDecryptStr \/ NewNewDesDecryptStr
  \/ DecodeCharacter \/ DecodeRest

CodecSpec == CodecInit /\ [][CodecNext]_codecVars

-----------------------------------------------------------------------------
(***************************************************************************)
(* Properties.                                                             *)
(***************************************************************************)

\* Every write of either loop, and of what follows the loop, lies inside the
\* buffer, whatever the length of the data and whatever characters a received
\* text has: the sizes of lines 191-196 and 277-283 are computed beforehand.
EncodeInside ==
  stage = "encode" =>
    LET rest == Len(objData) - rawBaseIndex
    IN  /\ rest >= 3 => encodingBaseIndex + 4 <= EncodedLength(Len(objData))
        /\ rest \in {1, 2} => encodingBaseIndex + 3 <= EncodedLength(Len(objData))
        /\ Padding(Len(objData)) <= EncodedLength(Len(objData))

DecodeInside ==
  stage = "decode" =>
    /\ DOMAIN decodedBytes = 0..ExpectedDataLength(Len(text)) - 1
    /\ i < Len(text) /\ Len(decodingBlock) = 3 => k + 3 <= ExpectedDataLength(Len(text))
    /\ i = Len(text) => k + Len(LeftOver) <= ExpectedDataLength(Len(text))

WritesStayInside == EncodeInside /\ DecodeInside

\* The cipher's buffer holds all of the ciphertext of an escaped text, whatever
\* characters the text was made of, and all that a decoded text can decrypt to
\* (lines 113 and 456: the size is that of the characters).
CiphertextFits ==
  escaped /\ stage \in {"encode", "encoded", "wire"} => Len(objData) <= bufferPtrSize1

PlaintextFits == stage = "decoded" => k <= bufferPtrSize1

CipherFits == CiphertextFits /\ PlaintextFits

\* The reference: bit p of a sequence of numbers of w bits each, the highest
\* first; bits beyond the end are 0.
Weight == <<128, 64, 32, 16, 8, 4, 2, 1>>
Bit(s, w, p) ==
  IF p \div w < Len(s) THEN (s[p \div w + 1] \div Weight[9 - w + (p % w)]) % 2 ELSE 0

\* The n-th number of w bits in the bits of a sequence of numbers of v bits.
Number(s, v, w, n) ==
  LET upto[m \in 0..w] ==
        IF m = 0 THEN 0 ELSE 2 * upto[m - 1] + Bit(s, v, (n - 1) * w + m - 1)
  IN  upto[w]

\* The text that is made is the Base64 of the data as the standard defines it: six
\* bits to a character, with padding to a multiple of four (lines 199-233).
EncodingIsBase64 ==
  stage = "encoded" =>
    LET digits == (8 * Len(objData) + 5) \div 6
    IN  /\ Len(text) = 4 * ((Len(objData) + 2) \div 3)
        /\ \A n \in 1..Len(text) : text[n] = IF n <= digits THEN Number(objData, 8, 6, n) ELSE Pad

\* What is decoded are the whole bytes in the bits of the characters that belong
\* to the alphabet; all others are skipped, wherever they are (lines 289-315).
DecodingIsBase64 ==
  stage = "decoded" =>
    LET s == Keep(text, Digit)
    IN  Prefix(decodedBytes, k) = [n \in 1..(6 * Len(s)) \div 8 |-> Number(s, 6, 8, n)]

\* Both directions are the Base64 of the standard.
FollowsBase64 == EncodingIsBase64 /\ DecodingIsBase64

\* Data that is sent comes back when the special characters are undone.
RoundTrip ==
  stage = "decoded" /\ sent /\ undone => Prefix(decodedBytes, k) = objData
=============================================================================
