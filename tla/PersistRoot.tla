---------------------------- MODULE PersistRoot ----------------------------
(***************************************************************************)
(* list_persisted_entries: the files below the persistence root, read      *)
(* directory by directory with a stack, in whatever order the file system  *)
(* gives, up to a limit.  Other programs may take a directory away.        *)
(*                                                                         *)
(* Paths are numbers in the order of their names.                          *)
(***************************************************************************)
EXTENDS Orders, Integers, SequencesExt, FiniteSetsExt

CONSTANTS
    Root,       \* the directory it begins in
    Trees,      \* from directories to what they hold
    Limits      \* values of the argument, 0 for none

(* A tree of directories: names are of one entry each, all of it is        *)
(* reached from the root, and a directory is in one place only.            *)
IsTree(t) ==
    LET items == UNION { t[d] : d \in DOMAIN t }
        Below(D) == { f \in UNION { t[d] : d \in D } : f.kind = "dir" }
    IN /\ IsFiniteSet(items)
       /\ \A f \in items :
            /\ f.path \in Int /\ f.path # Root
            /\ f.kind = "dir" => f.path \in DOMAIN t
       /\ \A f, g \in items : f.path = g.path => f = g
       /\ \A d, e \in DOMAIN t : t[d] \cap t[e] # {} => d = e
       /\ \A D \in SUBSET DOMAIN t :
            Root \in D /\ (\A f \in Below(D) : f.path \in D) => D = DOMAIN t

ASSUME ListingAssumption ==
    /\ Trees # {} /\ \A t \in Trees : IsTree(t)
    /\ Limits # {} /\ Limits \subseteq Nat

VARIABLES
    tree, limit,
    stack,      \* directories still to read
    directory,  \* what is left of the one that is being read
    entries, truncated,
    listing     \* asked, reading, answered, failed

listingVars == << tree, limit, stack, directory, entries, truncated, listing >>

Dirs == DOMAIN tree
Files == { f \in UNION { tree[d] : d \in Dirs } : f.kind = "file" }
PathsOf(S) == { f.path : f \in S }

ListingInit ==
    /\ tree \in Trees /\ limit \in Limits
    /\ stack = << >> /\ directory = {} /\ entries = << >>
    /\ truncated = FALSE /\ listing = "asked"

(* Nothing is listed without a limit or before the root is there.          *)
Begin ==
    /\ listing = "asked"
    /\ IF limit = 0 \/ Root \notin Dirs
       THEN listing' = "answered" /\ UNCHANGED stack
       ELSE listing' = "reading" /\ stack' = << Root >>
    /\ UNCHANGED << tree, limit, directory, entries, truncated >>

ReadDir ==
    /\ listing = "reading" /\ ~truncated /\ directory = {} /\ stack # << >>
    /\ directory' = tree[Last(stack)] /\ stack' = Front(stack)
    /\ UNCHANGED << tree, limit, entries, truncated, listing >>

(* The directory, an entry of it or its metadata cannot be read.           *)
ReadFails ==
    /\ listing = "reading" /\ ~truncated /\ (directory # {} \/ stack # << >>)
    /\ listing' = "failed"
    /\ UNCHANGED << tree, limit, stack, directory, entries, truncated >>

(* Deliberately wrong: a listing of `limit` entries calls itself truncated.*)
ExceedsAtLimit(found) == Len(found) >= limit

Exceeds(found) == Len(found) > limit

(* Deliberately wrong: the entry that shows there is more stays.           *)
KeptAll(found) == found

Kept(found) == SubSeq(found, 1, Min({limit, Len(found)}))

(* A directory is read later; links, which are not followed, and anything  *)
(* else but files is left out; the first file above the limit ends it all. *)
ReadEntry ==
    /\ listing = "reading"
    /\ \E item \in directory :
        LET found == IF item.kind = "file" THEN Append(entries, item.path) ELSE entries
        IN \/ /\ item.kind = "file" /\ Exceeds(found)
              /\ entries' = Kept(found)
              /\ truncated' = TRUE /\ directory' = {} /\ stack' = stack
           \/ /\ ~(item.kind = "file" /\ Exceeds(found))
              /\ entries' = found
              /\ stack' = (IF item.kind = "dir" THEN Append(stack, item.path) ELSE stack)
              /\ directory' = directory \ {item} /\ truncated' = truncated
    /\ UNCHANGED << tree, limit, listing >>

Sort ==
    /\ listing = "reading"
    /\ truncated \/ (directory = {} /\ stack = << >>)
    /\ entries' = Rising(ToSet(entries))
    /\ listing' = "answered"
    /\ UNCHANGED << tree, limit, stack, directory, truncated >>

ListingNext == Begin \/ ReadDir \/ ReadFails \/ ReadEntry \/ Sort

-----------------------------------------------------------------------------
(* Properties                                                              *)

ListingTypeOK ==
    /\ tree \in Trees /\ limit \in Limits
    /\ ToSet(stack) \subseteq Dirs
    /\ directory \subseteq UNION { tree[d] : d \in Dirs }
    /\ ToSet(entries) \subseteq PathsOf(Files) /\ Len(entries) <= limit
    /\ truncated \in BOOLEAN
    /\ listing \in {"asked", "reading", "answered", "failed"}

(* Whatever the order and the nesting of the directories: the answer lists *)
(* files only, each once and in order, as many as there are or the limit   *)
(* allows, and says it is truncated exactly if a file is missing from it.  *)
(* (With a limit of 0 nothing is listed and nothing is said to be missing.)*)
ListingIsHonest ==
    listing = "answered" /\ limit > 0 /\ Root \in Dirs =>
        /\ \A i, j \in DOMAIN entries : i < j => entries[i] < entries[j]
        /\ Len(entries) = Min({limit, Cardinality(Files)})
        /\ truncated <=> PathsOf(Files) # ToSet(entries)
=============================================================================
