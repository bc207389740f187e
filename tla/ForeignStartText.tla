--------------------------- MODULE ForeignStartText ---------------------------
(***************************************************************************)
(* parseTransferMetadata on texts no server of this repository writes:     *)
(* every field well formed, followed by other characters, without a        *)
(* number, empty, or missing.                                              *)
(***************************************************************************)
EXTENDS TransferMetadata

VARIABLES
  startText,  \* payload of LARGE_DATA_START
  values,     \* history: the value of each field in it
  parsed      \* "no", or what parseTransferMetadata returned: "true", "false"

foreignVars == <<startText, values, parsed>>

Number == <<Digit(1), Digit(2)>>
Other  == <<Token("other")>>
Values == {Number, Number \o Other, Number \o Other \o Number, Other, Other \o Number, <<>>}

Keys == <<"filename=", "size=", "chunks=", "checksum=">>

field(key, value) == <<Token(key)>> \o value \o <<Token("semicolon")>>

ForeignInit ==
  /\ \E size, chunks, checksum \in Values, present \in SUBSET {"size=", "chunks=", "checksum="} :
       /\ values = <<Other, size, chunks, checksum>>
       /\ startText = FlattenSeq([k \in 1 .. 4 |->
                        IF k = 1 \/ Keys[k] \in present THEN field(Keys[k], values[k]) ELSE <<>>])
  /\ parsed = "no"

Parse ==
  /\ parsed = "no"
  /\ parsed' = IF parseTransferMetadata(startText) = {} THEN "false" ELSE "true"
  /\ UNCHANGED <<startText, values>>

ForeignSpec == ForeignInit /\ [][Parse]_foreignVars

\* "Missing or malformed values cause a false return instead of partial
\* acceptance": a text that is parsed has three fields, and a number in each.
MalformedRejected ==
  parsed = "true" =>
    \A k \in 2 .. 4 : values[k] # <<>> /\ leadingDigits(values[k]) = values[k]
=============================================================================
