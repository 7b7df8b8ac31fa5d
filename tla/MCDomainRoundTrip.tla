------------------------- MODULE MCDomainRoundTrip -------------------------
(* DomainRoundTrip for TLC: every short string over the symbols of MCDomain,
   and domains of several labels. *)
EXTENDS DomainRoundTrip, MCDomain

CONSTANT MaxLength

MCInputs == Strings(MaxLength) \cup Domains

\* There is one label behind each dot, and one before them all.
ASSUME \A s \in MCInputs : \A n \in 0 .. Dots(s) : Cardinality(LabelsAt(s, n)) = 1
=============================================================================
