--------------------------- MODULE MCCatalogSync ---------------------------
(* A series with one episode; two contents that differ in their terms.     *)
EXTENDS CatalogSync
CONSTANTS series, episode, one, two
MCItems == {series, episode}
MCSeriesOf == [i \in MCItems |-> IF i = episode THEN series ELSE None]
MCTermsOf == [c \in {one, two} |-> c]
MCFirst == {[i \in MCItems |-> IF i = series THEN one ELSE None]}
MCBoth == {[i \in MCItems |-> one]}
MCStages == <<{series}, {episode}>>
=============================================================================
