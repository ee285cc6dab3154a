------------------------------ MODULE Headers ------------------------------
(***************************************************************************)
(* http::headers: an unordered_map whose hash and equality fold case. The  *)
(* map is a set of entries; an entry keeps the spelling it was first given.*)
(***************************************************************************)
EXTENDS FiniteSets

CONSTANTS
    Names,     \* spellings of header names
    Values,
    Lower      \* Lower[name]: std::tolower of every character

ASSUME HeadersAssumption ==
    /\ Lower \in [Names -> Names]
    /\ \A n \in Names : Lower[Lower[n]] = Lower[n]

Entry == [name : Names, value : Values]

\* Mutant of HashKey: the hash is taken of the characters as they are.
HashKeyExact(name) == name

\* hash_key: the hash is taken of the lower-case characters.
HashKey(name) == Lower[name]

\* is_equal: the same characters up to case.
IsEqual(lhs, rhs) == Lower[lhs] = Lower[rhs]

\* find: an entry of the name's bucket whose name is equal to it.
Find(entries, name) ==
    {e \in entries : HashKey(e.name) = HashKey(name) /\ IsEqual(e.name, name)}

\* Mutant of Assign: a name that has a value keeps it.
AssignOnce(entries, name, value) ==
    IF Find(entries, name) = {} THEN entries \union {[name |-> name, value |-> value]}
    ELSE entries

\* set: m_headers[name] = value. A name that is there keeps its spelling.
Assign(entries, name, value) ==
    IF Find(entries, name) = {} THEN entries \union {[name |-> name, value |-> value]}
    ELSE (entries \ Find(entries, name))
            \union {[e EXCEPT !.value = value] : e \in Find(entries, name)}

\* Mutant of Erase: only the spelling given is erased.
EraseExact(entries, name) == {e \in entries : e.name # name}

\* remove
Erase(entries, name) == entries \ Find(entries, name)

=============================================================================
