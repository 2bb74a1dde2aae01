------------------------------- MODULE Strings -------------------------------
(* The strings that labels, ids, addresses and payloads are taken from.    *)

CONSTANT Text

\* The empty string, which the program takes for a value that is not set.
NoText == ""

ASSUME TextAssumption == {NoText, "server", "manual", "other"} \subseteq Text

=============================================================================
