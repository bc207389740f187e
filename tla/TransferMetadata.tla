--------------------------- MODULE TransferMetadata ---------------------------
(***************************************************************************)
(* The text of LARGE_DATA_START: how the server writes the numbers of a    *)
(* transfer into it and how the client reads them back.  A text is a       *)
(* sequence of tokens: a key with its equals sign, a semicolon, a digit,   *)
(* or any other character.  Signs and white space are left out.            *)
(***************************************************************************)
EXTENDS Naturals, SequencesExt

CONSTANTS
  UlongLimit,  \* numbers stoul can return are below this (2^32)
  SizeLimit    \* the same for stoull (2^64)

ASSUME WidthAssumption == UlongLimit \in Nat /\ SizeLimit \in Nat

Token(kind) == [kind |-> kind, digit |-> 0]
Digit(d)    == [kind |-> "digit", digit |-> d]

\* std::to_string.
digitsOf[n \in Nat] ==
  IF n < 10 THEN <<Digit(n)>> ELSE Append(digitsOf[n \div 10], Digit(n % 10))

\* "diagnostic_payload.bin"
fileName == <<Token("other")>>

buildTransferStartText(totalSize, totalChunks, checksum) ==
  <<Token("filename=")>> \o fileName
    \o <<Token("semicolon"), Token("size=")>> \o digitsOf[totalSize]
    \o <<Token("semicolon"), Token("chunks=")>> \o digitsOf[totalChunks]
    \o <<Token("semicolon"), Token("checksum=")>> \o digitsOf[checksum]

\* What stands between a key and the next semicolon or the end; nothing where
\* the function returns false.
extractField(text, key) ==
  LET places == {p \in DOMAIN text : text[p].kind = key}
      start  == Min(places) + 1
      ends   == {p \in start .. Len(text) : text[p].kind = "semicolon"}
  IN  CASE places = {} -> <<>>
        [] ends = {}   -> SubSeq(text, start, Len(text))
        [] OTHER       -> SubSeq(text, start, Min(ends) - 1)

\* The digits a text begins with.
leadingDigits(text) ==
  SubSeq(text, 1, Max({n \in 0 .. Len(text) : \A p \in 1 .. n : text[p].kind = "digit"}))

numberOf(digits) == FoldLeft(LAMBDA n, token : 10 * n + token.digit, 0, digits)

\* Variant: the largest number is taken for the sign of an overflow.
conversions_LargestRefused(text, limit) ==
  {n \in {numberOf(leadingDigits(text))} : leadingDigits(text) # <<>> /\ n < limit - 1}

\* stoul and stoull: the number a text begins with, whatever follows it; no
\* number where the function throws.
conversions(text, limit) ==
  {n \in {numberOf(leadingDigits(text))} : leadingDigits(text) # <<>> /\ n < limit}

\* The set of what the text announces, empty where the function returns false.
parseTransferMetadata(text) ==
  [size:     conversions(extractField(text, "size="), SizeLimit),
   chunks:   conversions(extractField(text, "chunks="), UlongLimit),
   checksum: conversions(extractField(text, "checksum="), UlongLimit)]
=============================================================================
