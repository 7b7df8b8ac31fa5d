-------------------------- MODULE PunycodeRoundTrip --------------------------
(***************************************************************************)
(* utf32_to_punycode() and punycode_to_utf32() one after the other: the    *)
(* answer of the first is the argument of the second, in either order.     *)
(* The decoder's variables have their own names, the encoder's begin with  *)
(* e.                                                                      *)
(***************************************************************************)
EXTENDS PunycodeDecode

CONSTANTS Labels, MaxCodePoint, Surrogates   \* see PunycodeEncode

\* PunycodeEncode's own assumption.
ASSUME EncodeAssumption ==
  /\ MaxCodePoint \in InitialN .. MaxInt
  /\ Surrogates \subseteq InitialN .. MaxCodePoint
  /\ Labels \subseteq {s \in Seq(Nat) : Len(s) <= MaxInt}

VARIABLES epc, einput, eout, en, ed, ebias, eh, eb, epos, eq, ek, edelta, eok

E == INSTANCE PunycodeEncode WITH
  pc <- epc, input <- einput, out <- eout, n <- en, d <- ed, bias <- ebias,
  h <- eh, b <- eb, pos <- epos, q <- eq, k <- ek, delta <- edelta, ok <- eok

encodeVars ==
  <<epc, einput, eout, en, ed, ebias, eh, eb, epos, eq, ek, edelta, eok>>
allVars == <<vars, encodeVars>>

BothInit == Init /\ E!Init

\* A label is encoded, and what came out is decoded.
EncodeFirst(s) ==
  /\ pc = "idle" /\ epc = "idle"
  /\ E!Call(s)
  /\ UNCHANGED vars

ThenDecode ==
  /\ epc = "done" /\ eok /\ pc = "idle"
  /\ Call(eout)
  /\ UNCHANGED encodeVars

\* Or a string is decoded, and what came out is encoded.
DecodeFirst(s) ==
  /\ pc = "idle" /\ epc = "idle"
  /\ Call(s)
  /\ UNCHANGED encodeVars

ThenEncode ==
  /\ pc = "done" /\ ok /\ epc = "idle"
  /\ E!Call(out)
  /\ UNCHANGED vars

BothNext ==
  \/ (\E s \in Labels : EncodeFirst(s)) \/ ThenDecode
  \/ (\E s \in Inputs : DecodeFirst(s)) \/ ThenEncode
  \/ E!Step /\ UNCHANGED vars
  \/ Step /\ UNCHANGED encodeVars

BothSpec == BothInit /\ [][BothNext]_allVars

-----------------------------------------------------------------------------
\* The encoder's own type invariant: its int32_t arithmetic stays in range.
EncoderTypeOK == E!TypeOK

\* And what its deltas rest on: that h counts the code points written.
CountsWritten == E!CountsWritten

\* The decoder counts a position from the start of the label and the encoder from
\* the last one, so near the limit of int32_t only the encoder's count may fit.
NearLimit ==
  \E c \in ToSet(einput) : (c - n) * (Len(out) + 1) + Len(out) > MaxInt

\* What utf32_to_punycode() writes, punycode_to_utf32() reads back, but for the
\* labels that begin with "xn--", which only the decoder rejects, and for those
\* whose positions are near the limit, which it may reject.
DecodesEncoding ==
  epc = "done" /\ eok /\ pc = "done" /\ source = eout =>
    IF IsPrefix(AcePrefix, einput) THEN ~ok
    ELSE IF ok THEN out = einput ELSE NearLimit

\* What punycode_to_utf32() accepts is the one encoding of what it decodes to:
\* no two strings decode to the same label, provided that its code points are
\* encodable at all.
EncodesDecoding ==
  pc = "done" /\ ok /\ epc = "done" /\ einput = out =>
    IF \A c \in ToSet(out) : E!Encodable(c) THEN eok /\ eout = source ELSE ~eok
=============================================================================
