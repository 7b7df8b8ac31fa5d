-------------------------- MODULE DomainRoundTrip --------------------------
(***************************************************************************)
(* to_ascii() of a string, then perhaps to_unicode() of the answer or of   *)
(* the string itself, then to_ascii() of what that answered: three calls   *)
(* of one thread, with the tables loaded before, between or inside them.   *)
(* The variables of the call of to_unicode() have their own names, those   *)
(* of the first and second call of to_ascii() begin with a and b.          *)
(***************************************************************************)
EXTENDS ToUnicode

VARIABLES apc, asource, amapped, aout, aok,
          bpc, bsource, bmapped, bout, bok

A == INSTANCE ToAscii WITH
  pc <- apc, source <- asource, mapped <- amapped, out <- aout, ok <- aok
B == INSTANCE ToAscii WITH
  pc <- bpc, source <- bsource, mapped <- bmapped, out <- bout, ok <- bok

\* What the scan of to_ascii() begins with.
Mapped(s) == IF is_ascii(map(s)) THEN map(s) ELSE Nfc(map(s))

\* ASCII, and none of it is changed by making it lower case.
IsLowerAscii(s) == \A c \in ToSet(s) : Ascii(c) /\ Lower(c) = c

\* What the called functions return, for the inputs: tolower() is idempotent; map()
\* leaves no capital letter and normalising makes none, nor a dot, nor loses one;
\* punycode is lower-case ASCII without a dot, but for the label's own ASCII.
ASSUME CalledAssumption ==
  /\ Lower(Dot) = Dot /\ Lower(Ace) = Ace
  /\ \A s \in Inputs :
       /\ \A c \in ToSet(s) : Ascii(c) => Ascii(Lower(c)) /\ Lower(Lower(c)) = Lower(c)
       /\ Mappable(s) =>
            /\ IsString(Mapped(s))
            /\ Dots(Mapped(s)) = Dots(map(s))
            /\ \A c \in ToSet(Mapped(s)) : Ascii(c) => Lower(c) = c
            /\ \A j, k \in DOMAIN Mapped(s) :
                 LET label == SubSeq(Mapped(s), j, k)
                     ascii == Encode(label)
                 IN  ~Contains(label, Dot) /\ ascii # Unencodable =>
                       IsString(ascii) /\ IsLowerAscii(ascii) /\ ~Contains(ascii, Dot)

aVars == <<apc, asource, amapped, aout, aok>>
bVars == <<bpc, bsource, bmapped, bout, bok>>
allVars == <<vars, aVars, bVars>>

\* The second call is of the overload that returns its string, and begins with a new one.
AllInit == Init /\ A!Idle /\ B!Idle /\ bout = <<>>

First ==
  /\ (\E s \in Inputs : A!Call(s)) \/ A!Step
  /\ UNCHANGED <<callVars, bVars>>

Second ==
  /\ \/ /\ apc = "done" /\ bpc = "idle"
        /\ Call(asource) \/ (aok /\ Call(aout))
     \/ Step
  /\ UNCHANGED <<aVars, bVars>>

Third ==
  /\ \/ apc = "done" /\ aok /\ pc = "idle" /\ B!Call(aout)
     \/ pc = "done" /\ ok /\ B!Call(out)
     \/ B!Step
  /\ UNCHANGED <<aVars, callVars>>

AllOthers == Others /\ UNCHANGED <<aVars, bVars>>

AllNext == First \/ Second \/ Third \/ AllOthers

AllSpec == AllInit /\ [][AllNext]_allVars

-----------------------------------------------------------------------------
\* In each of the calls no table is read before this thread was granted them, by the
\* first function that asks, and none is refused by those that ask after it.
AllTypeOK == TypeOK /\ A!TypeOK /\ B!TypeOK

Answered == apc = "done" /\ aok /\ bpc = "done"

\* to_ascii(to_ascii(x)) == to_ascii(x) (src/to_ascii.cpp:91), and needs neither
\* tables nor a short answer.
Idempotent == Answered /\ bsource = aout => bok /\ bout = aout

\* to_unicode() in between loses nothing: given the answer, or the string itself, it
\* makes of it the same domain, whichever of its labels it has decoded.  What it makes
\* of the answer is also accepted, unless it has become too long to be taken or was
\* made of an ASCII string, which to_ascii() answers unchecked.
RoundTrip ==
  Answered /\ pc = "done" /\ bsource = out /\ (source = aout \/ ~is_ascii(asource)) =>
    IF bok THEN bout = aout
    ELSE source = aout => is_ascii(asource) \/ TooLong(out)

\* ToAscii's own invariants, of the first call.
FailureLeavesNothing == A!FailureLeavesNothing
LabelsKept           == A!LabelsKept
=============================================================================
