---------------------------- MODULE CodeGraphMC ----------------------------
\* Two files: f and g of one call each other or not, and h of the other is
\* called by f and may go.  Two processes may scan the same file at once.
EXTENDS CodeGraph
CONSTANTS a, b
MCFirstText == [x \in {a, b} |-> IF x = a THEN [n \in {"f", "g"} |-> IF n = "f" THEN {"g", "h"} ELSE {}]
                                 ELSE [n \in {"h"} |-> {"f"}]]
MCTexts == [x \in {a, b} |-> IF x = a THEN {MCFirstText[a], [n \in {"f"} |-> {}]}
                             ELSE {MCFirstText[b], [n \in {"k"} |-> {"f"}]}]
=============================================================================
