-------------------------------- MODULE Menu --------------------------------
(***************************************************************************)
(* The dispatcher's pure operations on the display-name mapping of         *)
(* src/src/main.cc: the order in which do_dmenu writes the names to the    *)
(* menu program (history block first, then the mapping in comparator       *)
(* order), the resolution of the user's answer by lookup_name, and the     *)
(* history update that follows a launch.                                   *)
(*                                                                         *)
(* A display name is a sequence of characters drawn from Alphabet, which   *)
(* lists the characters in byte order, so that prefixes of names, a name   *)
(* followed by arguments, and names differing in case can be expressed.    *)
(* The HistoryManager class is not part of src/: its increment is modelled *)
(* from section 4.7 of the specification.                                  *)
(***************************************************************************)
EXTENDS Naturals, Sequences, SequencesExt, TLC

CONSTANTS Alphabet,  \* the characters, in byte order
          Lower      \* tolower of each character of Alphabet

Rank(c) == CHOOSE j \in DOMAIN Alphabet : Alphabet[j] = c

\* Lexicographic order of std::string, byte by byte.
RECURSIVE LexLess(_, _)
LexLess(s, t) ==
    IF s = <<>> THEN t # <<>>
    ELSE IF t = <<>> THEN FALSE
    ELSE IF Head(s) = Head(t) THEN LexLess(Tail(s), Tail(t))
    ELSE Rank(Head(s)) < Rank(Head(t))

(***************************************************************************)
(* DynamicCompare(case_insensitive), the comparator of name_map and of     *)
(* do_dmenu's name set (not under src/, modelled from specification 3):   *)
(* names are compared byte by byte, after folding to lower case when      *)
(* --case-insensitive is given.  Two names are the same key when neither   *)
(* is less than the other.                                                 *)
(***************************************************************************)
Folded(s, ci) == IF ci THEN [j \in DOMAIN s |-> Lower[s[j]]] ELSE s
KeyLess(s, t, ci) == LexLess(Folded(s, ci), Folded(t, ci))
SameKey(s, t, ci) == Folded(s, ci) = Folded(t, ci)

\* Keys of a std::map, in iteration order.
SortedKeys(m, ci) == SortSeq(SetToSeq(DOMAIN m), LAMBDA s, t : KeyLess(s, t, ci))

\* A history is a sequence of entries, highest count first.
HistEntry(names) == [count : Nat \ {0}, name : names]
HistNames(h) == {h[j].name : j \in DOMAIN h}

(***************************************************************************)
(* do_dmenu: the lines written to the menu program.  With a usage log the  *)
(* mapping's names are put in a set with the mapping's comparator; each    *)
(* history entry, in history order, is written if erasing its name from    *)
(* the set succeeds (some name of the set is the same key); then the names *)
(* left in the set follow in comparator order.  Without a usage log the    *)
(* mapping is written in comparator order.                                 *)
(***************************************************************************)
\* Fault variant: the history block written without checking that the
\* name is still in the mapping (no erase), then the whole mapping.
MenuLines_noErase(mapping, hist, usageLog, ci) ==
    IF usageLog
    THEN [j \in DOMAIN hist |-> hist[j].name] \o SortedKeys(mapping, ci)
    ELSE SortedKeys(mapping, ci)

MenuLines(mapping, hist, usageLog, ci) ==
    LET erase(acc, e) ==
            IF \E k \in acc.left : SameKey(k, e.name, ci)
            THEN [lines |-> Append(acc.lines, e.name),
                  left  |-> {k \in acc.left : ~SameKey(k, e.name, ci)}]
            ELSE acc
        st == FoldLeft(erase, [lines |-> <<>>, left |-> DOMAIN mapping], hist)
    IN  IF usageLog
        THEN st.lines \o SelectSeq(SortedKeys(mapping, ci), LAMBDA n : n \in st.left)
        ELSE SortedKeys(mapping, ci)

(***************************************************************************)
(* lookup_name: map.find(query), which finds the key the comparator holds  *)
(* equal to the query; otherwise the first key, in iteration order of the  *)
(* map, that startswith (a byte-wise prefix test, Utilities) finds at the  *)
(* start of the query, with the rest of the query as the arguments;        *)
(* otherwise no application, and the query is run as a custom command.     *)
(***************************************************************************)
NoApp == [none |-> TRUE]   \* lookup_name found no application

\* Fault variant: find compares the bytes, ignoring the comparator.
lookup_name_exactFind(query, mapping, ci) ==
    LET keys == SortedKeys(mapping, ci)
        j    == SelectInSeq(keys, LAMBDA k : IsPrefix(k, query))
    IN  IF query \in DOMAIN mapping
        THEN [found |-> TRUE, app |-> mapping[query], args |-> <<>>]
        ELSE IF j # 0
        THEN [found |-> TRUE, app |-> mapping[keys[j]],
              args |-> SubSeq(query, Len(keys[j]) + 1, Len(query))]
        ELSE [found |-> FALSE, app |-> NoApp, args |-> <<>>]

lookup_name(query, mapping, ci) ==
    LET keys  == SortedKeys(mapping, ci)
        exact == {k \in DOMAIN mapping : SameKey(k, query, ci)}
        j     == SelectInSeq(keys, LAMBDA k : IsPrefix(k, query))
    IN  IF exact # {}
        THEN [found |-> TRUE, app |-> mapping[CHOOSE k \in exact : TRUE], args |-> <<>>]
        ELSE IF j # 0
        THEN [found |-> TRUE, app |-> mapping[keys[j]],
              args |-> SubSeq(query, Len(keys[j]) + 1, Len(query))]
        ELSE [found |-> FALSE, app |-> NoApp, args |-> <<>>]

(***************************************************************************)
(* HistoryManager::increment (specification 4.7): add one to the entry of  *)
(* the name, or create it with count 1, and move it in front of every      *)
(* entry whose count it now reaches (ties: most recent increment first).   *)
(***************************************************************************)
\* Fault variant: a new entry starts from the old count, not one more.
increment_noBump(hist, name) ==
    LET old  == IF name \in HistNames(hist)
                THEN hist[SelectInSeq(hist, LAMBDA e : e.name = name)].count
                ELSE 0
        rest == SelectSeq(hist, LAMBDA e : e.name # name)
        new  == [count |-> old, name |-> name]
        pos  == SelectInSeq(rest, LAMBDA e : e.count <= old)
    IN  IF pos = 0 THEN Append(rest, new) ELSE InsertAt(rest, pos, new)

increment(hist, name) ==
    LET old  == IF name \in HistNames(hist)
                THEN hist[SelectInSeq(hist, LAMBDA e : e.name = name)].count
                ELSE 0
        rest == SelectSeq(hist, LAMBDA e : e.name # name)
        new  == [count |-> old + 1, name |-> name]
        pos  == SelectInSeq(rest, LAMBDA e : e.count <= old + 1)
    IN  IF pos = 0 THEN Append(rest, new) ELSE InsertAt(rest, pos, new)
=============================================================================
