----------------------------- MODULE Algorithms -----------------------------
(***************************************************************************)
(* Three parts that share no state with anything while they run: one       *)
(* import, one text that is scanned, one listing of the persistence root.  *)
(* A behaviour is of one of them; the others rest.                         *)
(***************************************************************************)
EXTENDS Import, SqlText, PersistRoot

VARIABLE part

vars == << part, importVars, textVars, listingVars >>

ImportRests ==
    /\ request = CHOOSE r \in Imports : TRUE
    /\ table = NoTable /\ before = NoTable
    /\ phase = "answered" /\ answer = "none"
    /\ index = 0 /\ inserted = 0 /\ skipped = 0 /\ pages = 1 /\ disk = 1

TextRests == text = << >> /\ family = CHOOSE f \in Families : TRUE

ListingRests ==
    /\ tree = CHOOSE t \in Trees : TRUE
    /\ limit = CHOOSE l \in Limits : TRUE
    /\ stack = << >> /\ directory = {} /\ entries = << >>
    /\ truncated = FALSE /\ listing = "failed"

Init ==
    \/ part = "import" /\ ImportInit /\ TextRests /\ ListingRests
    \/ part = "text" /\ TextInit /\ ImportRests /\ ListingRests
    \/ part = "listing" /\ ListingInit /\ ImportRests /\ TextRests

Next ==
    \/ part = "import" /\ ImportNext /\ UNCHANGED << part, textVars, listingVars >>
    \/ part = "text" /\ GrowText /\ UNCHANGED << part, importVars, listingVars >>
    \/ part = "listing" /\ ListingNext /\ UNCHANGED << part, importVars, textVars >>

Spec == Init /\ [][Next]_vars

(* Each variable keeps to its type; a listing never holds more entries     *)
(* than its limit and an import never counts more rows than it has read.   *)
TypeOK == ImportTypeOK /\ TextTypeOK /\ ListingTypeOK
=============================================================================
