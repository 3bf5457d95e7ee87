------------------------------- MODULE PathNames -------------------------------
(***************************************************************************)
(* The pure functions by which names become keys, paths and links          *)
(* (resolve_upload_name in fast_storages/base.py, _resolve_safe_path and   *)
(* the url methods of the backends).  A name is a sequence of characters;  *)
(* "/", "\" and "." are those the functions look at, "?" stands for those  *)
(* that end the path of a URL, "%" begins an escape in it.                 *)
(***************************************************************************)
EXTENDS Naturals, Sequences, SequencesExt

CONSTANTS None,   \* Python's None
          Escapes \* the character that "%" and two digits stand for in a URL

Slash     == "/"
Backslash == "\\"
Dot       == "."
Query     == "?"
Percent   == "%"

ASSUME EscapesAssumption ==
    \A digits \in DOMAIN Escapes :
        /\ digits \in Seq(STRING) /\ Len(digits) = 2
        /\ \A i \in 1 .. 2 : digits[i] \notin {Slash, Backslash, Dot, Query, Percent}

IsSlash(c) == c = Slash

StripLeft(s) ==
    LET first == SelectInSeq(s, LAMBDA c : ~IsSlash(c))
    IN  IF first = 0 THEN <<>> ELSE SubSeq(s, first, Len(s))

StripRight(s) == SubSeq(s, 1, SelectLastInSeq(s, LAMBDA c : ~IsSlash(c)))

(***************************************************************************)
(* resolve_upload_name: no upload_to, or a prefix.  A callable returns any *)
(* name, as if it had been given without upload_to.                        *)
(***************************************************************************)
ResolveUploadName(name, uploadTo) ==
    IF uploadTo = None THEN name ELSE StripRight(uploadTo) \o <<Slash>> \o name

\* The names that the local and the PostgreSQL backend refuse outright.
InvalidName(name) == name \in {<<>>, <<Dot>>, <<Dot, Dot>>}

\* name.replace("\\", "/").lstrip("/")
Cleaned(name) == StripLeft(ReplaceAll(name, Backslash, Slash))

(***************************************************************************)
(* Path.resolve of a path below the root directory, without symbolic       *)
(* links: the components that remain.                                      *)
(***************************************************************************)
Root == <<<<"root">>>>

Components(s) ==
    FoldLeft(LAMBDA cs, c : IF IsSlash(c) THEN Append(cs, <<>>)
                                          ELSE [cs EXCEPT ![Len(cs)] = Append(@, c)],
             <<<<>>>>, s)

Descend(path, component) ==
    CASE component \in {<<>>, <<Dot>>} -> path
      [] component = <<Dot, Dot>> -> IF path = <<>> THEN path ELSE Front(path)
      [] OTHER -> Append(path, component)

Resolved(s) == FoldLeft(Descend, Root, Components(s))

Inside(path) == IsPrefix(Root, path)

\* _resolve_safe_path, of a name that is valid and whose path is inside.
SafePath(name) == Resolved(Cleaned(name))

\* url: what comes after the prefix.
UrlPath(name) == Cleaned(name)

(***************************************************************************)
(* What the server makes of it, if the client sends it as it is: url does  *)
(* not quote the name, so the path ends at the first "?", and what looks   *)
(* like an escape is decoded.                                              *)
(***************************************************************************)
EscapeAt(s, i) ==
    s[i] = Percent /\ i + 2 <= Len(s) /\ <<s[i + 1], s[i + 2]>> \in DOMAIN Escapes

HasEscape(s) == \E i \in 1 .. Len(s) : EscapeAt(s, i)

Unquoted(s) ==
    LET kept == {i \in 1 .. Len(s) :
                    \A k \in {1, 2} : ~(i - k \in 1 .. Len(s) /\ EscapeAt(s, i - k))}
        Decoded(i) == IF EscapeAt(s, i) THEN Escapes[<<s[i + 1], s[i + 2]>>] ELSE s[i]
        order == SetToSortSeq(kept, <)
    IN  IF HasEscape(s) THEN [n \in DOMAIN order |-> Decoded(order[n])] ELSE s

ParsedPath(s) ==
    LET query == SelectInSeq(s, LAMBDA c : c = Query)
    IN  Unquoted(IF query = 0 THEN s ELSE SubSeq(s, 1, query - 1))
=============================================================================
