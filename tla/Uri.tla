-------------------------------- MODULE Uri --------------------------------
(***************************************************************************)
(* Uri::Create (saturn/uri.cc): the scanner reads the string one character  *)
(* at a time, then runs the end-of-input actions.  A mark remembers where   *)
(* the component being read began, and an action that ends a component      *)
(* builds its value from the mark to the current character.  A value        *)
(* is abstracted to the question whether it is the component's text.        *)
(*                                                                          *)
(* What the text of a component is comes from the delimiters alone, as in   *)
(* the regular expression of RFC 3986, appendix B: the record "split" is    *)
(* that reading of the same characters, and "posn" and "rfc" the positions   *)
(* of the two grammars.  Strings are unbounded: every reachable combination  *)
(* of scanner state, mark, split and positions is explored.                 *)
(***************************************************************************)
EXTENDS UriGrammar

Rfc == INSTANCE UriGrammar WITH RFC <- TRUE

VARIABLES
    cs,     \* the scanner's state
    mark,   \* NoMark, or the components whose text begins at the mark
    out,    \* "scan" | "thrown" | "ended"
    right,  \* the components set to their text
    wrong,  \* the components set to another text
    split,  \* the reference reading
    posn,   \* positions of the grammar
    rfc     \* positions of the grammar of RFC 3986

vars == <<cs, mark, out, right, wrong, split, posn, rfc>>

Comp == {"scheme", "userinfo", "host", "port", "path", "query", "fragment"}
NoMark == {"NULL"}
Eof == "eof"

(***************************************************************************)
(* The reference reading: "ph" is the component being read, "fresh" that    *)
(* none of its characters was, "ended" the components whose text is known.  *)
(***************************************************************************)
Delims == {"/", "?", "#", Eof}
InAuthority == {"authority", "authport", "host", "port", "closed"}
InPort == {"authport", "port"}
IntDigits == 10   \* an int has no more decimal digits

\* The components whose text begins at the next character c.
Begins(s, c) ==
    When(s.fresh, CASE s.ph = "first"     -> {"scheme", "path"}
                    [] s.ph = "hier"      -> {"path"}
                    [] s.ph = "authority" -> {"userinfo", "host"}
                    [] s.ph \in InPort    -> {"port"}
                    [] s.ph \in {"host", "query", "fragment"} -> {s.ph}
                    [] OTHER              -> {})
      \cup When(s.ph \in InAuthority /\ c \in Delims, {"path"})

\* The components whose text ends before c.  Every reference has a path, if
\* only the empty one.
Ends(s, c) ==
    When(s.ph = "first" /\ c = ":", {"scheme"}) \cup
    When(s.ph \in {"authority", "authport"} /\ c = "@", {"userinfo"}) \cup
    When(s.ph \in {"authority", "host", "closed"} /\ c \in Delims \cup {":"}, {"host"}) \cup
    When(s.ph \in InPort /\ ~s.fresh /\ c \in Delims, {"port"}) \cup
    When(s.ph \in {"first", "hier", "slash", "path"} \cup InAuthority /\ c \in {"?", "#", Eof}, {"path"}) \cup
    When(s.ph = "query" /\ c \in {"#", Eof}, {"query"}) \cup
    When(s.ph = "fragment" /\ c = Eof, {"fragment"})

PhaseAfter(s, c) ==
    CASE s.ph = "fragment" -> "fragment"
      [] s.ph = "query"    -> IF c = "#" THEN "fragment" ELSE "query"
      [] c = "#"           -> "fragment"
      [] c = "?"           -> "query"
      [] s.ph = "literal"  -> IF c = "]" THEN "closed" ELSE "literal"
      [] s.ph = "first" /\ c = ":" -> "hier"
      [] s.ph = "first"    -> IF c # "/" THEN "first" ELSE IF s.fresh THEN "slash" ELSE "path"
      [] s.ph = "hier"     -> IF c = "/" THEN "slash" ELSE "path"
      [] s.ph = "slash"    -> IF c = "/" THEN "authority" ELSE "path"
      [] c = "/"           -> "path"
      [] s.ph \in {"authority", "authport"} /\ c = "@" -> "host"
      [] s.ph = "authority" /\ c = ":" -> "authport"
      [] s.ph \in {"host", "closed"} /\ c = ":" -> "port"
      [] s.ph \in {"authority", "host"} /\ c = "[" -> "literal"
      [] OTHER             -> s.ph

\* The digits of the port that count, up to one more than fit an int; of as
\* many as an int has, some numbers fit and some do not.
SigAfter(s, c) ==
    CASE PhaseAfter(s, c) \notin InPort \/ c \notin DIGIT -> {0}
      [] c = "0" /\ s.sig = 0    -> {0}
      [] s.sig = IntDigits - 1   -> {IntDigits, IntDigits + 1}
      [] s.sig >= IntDigits      -> {IntDigits + 1}
      [] OTHER                   -> {s.sig + 1}
TooLarge(s) == s.sig > IntDigits

SplitAfter(s, c, sig) ==
    LET ph == PhaseAfter(s, c)
        restarts == s.ph = "authport" /\ c = ":"
    IN  [ph     |-> ph,
         fresh  |-> ph # s.ph \/ restarts,
         sig    |-> sig,
         huge   |-> s.huge \/ ("port" \in Ends(s, c) /\ TooLarge(s)),
         scheme |-> s.scheme \/ (s.ph = "first" /\ c = ":"),
         auth   |-> s.auth \/ ph = "authority",
         empty  |-> s.empty \/ (s.ph \in InPort /\ s.fresh /\ c \in Delims),
         digit  |-> s.digit \/ (s.ph = "authport" /\ s.fresh /\ c \in DIGIT),
         literal |-> s.literal \/ ph = "literal",
         stx    |-> s.stx \/ c = "stx",
         eight  |-> s.eight \/ c = "8bit",
         ended  |-> (s.ended \ When(c = "@" /\ ph = "host", {"host"})) \cup Ends(s, c)]

(***************************************************************************)
(* The actions of uri.rl.  r is the scanner's record while they run; "at"   *)
(* says that the mark is at the current character.                          *)
(***************************************************************************)
SetIf(fits, r, x, s, c) ==
    IF fits /\ x \in r.mark /\ x \in Ends(s, c)
    THEN [r EXCEPT !.right = @ \cup {x}, !.wrong = @ \ {x}]
    ELSE [r EXCEPT !.wrong = @ \cup {x}, !.right = @ \ {x}]
Set(r, x, s, c) == SetIf(TRUE, r, x, s, c)
Cleared(r) == [r EXCEPT !.mark = NoMark, !.at = FALSE]

\* std::string(NULL, n) throws, and atoi(NULL) has no value.
Throw(r) == [r EXCEPT !.thrown = TRUE]

Save(r, x, s, c) == IF r.mark = NoMark THEN Throw(r) ELSE Cleared(Set(r, x, s, c))

\* atoi() has no value for a number that no int is; m_port then is not the port.
save_port(r, s, c) ==
    IF r.mark = NoMark THEN Throw(r)
    ELSE IF r.at THEN Cleared(r)
    ELSE Cleared(SetIf(~TooLarge(s), r, "port", s, c))

save_userinfo(r, s, c) == IF r.mark = NoMark THEN r ELSE Cleared(Set(r, "userinfo", s, c))
\* Mutant: save_host clears the mark like the others, which a userinfo with a
\* ":" still needs.
ClearingHost(r, s, c) == IF r.mark = NoMark THEN r ELSE Cleared(Set(r, "host", s, c))
save_host(r, s, c) == IF r.mark = NoMark THEN r ELSE Set(r, "host", s, c)

Do(r, a, s, c) ==
    IF r.thrown THEN r
    ELSE CASE a \in {"marku", "markh"} -> [r EXCEPT !.mark = Begins(s, c), !.at = TRUE]
           [] a = "save_scheme"   -> Save(r, "scheme", s, c)
           [] a = "save_port"     -> save_port(r, s, c)
           [] a = "save_userinfo" -> save_userinfo(r, s, c)
           [] a = "save_host"     -> save_host(r, s, c)
           [] a = "save_path"     -> Save(r, "path", s, c)
           [] a = "save_query"    -> Save(r, "query", s, c)
           [] a = "save_fragment" -> Save(r, "fragment", s, c)

\* The actions as of the current character c, before which a component that
\* begins here no longer has its text at an older mark.
Run(as, c) ==
    LET stale == IF mark = NoMark THEN mark ELSE mark \ Begins(split, c)
        host  == When(c = "@" /\ split.ph \in {"authority", "authport"}, {"host"})
        r0    == [mark |-> stale, at |-> FALSE, right |-> right \ host, wrong |-> wrong \ host,
                  thrown |-> FALSE]
    IN  FoldLeft(LAMBDA r, a : Do(r, a, split, c), r0, as)

Effect(r) == mark' = r.mark /\ right' = r.right /\ wrong' = r.wrong

(***************************************************************************)
(* Uri::Create.                                                             *)
(***************************************************************************)
Init ==
    /\ cs = Start
    /\ mark = NoMark
    /\ out = "scan"
    /\ right = {} /\ wrong = {}
    /\ split = [ph |-> "first", fresh |-> TRUE, sig |-> 0, huge |-> FALSE,
                scheme |-> FALSE, auth |-> FALSE, empty |-> FALSE, digit |-> FALSE,
                literal |-> FALSE, stx |-> FALSE, eight |-> FALSE, ended |-> {}]
    /\ posn = {<<"start">>} /\ rfc = {<<"start">>}

\* A character with a transition.
Scan(c) ==
    /\ out = "scan"
    /\ \E e \in Enabled(cs, c) :
         LET r == Run(e.do, c)
         IN  /\ Effect(r)
             /\ cs' = e.to
             /\ out' = IF r.thrown THEN "thrown" ELSE out
    /\ \E sig \in SigAfter(split, c) : split' = SplitAfter(split, c, sig)
    /\ posn' = After(posn, c) /\ rfc' = Rfc!After(rfc, c)

\* A character without one: Create() leaves with the error state.  What the
\* grammars make of the rest of the string is still followed.
Fail(c) ==
    /\ out = "scan"
    /\ Enabled(cs, c) = {}
    /\ posn # {} \/ rfc # {}
    /\ cs' = ErrorState
    /\ posn' = After(posn, c) /\ rfc' = Rfc!After(rfc, c)
    /\ mark' = NoMark /\ right' = {} /\ wrong' = {}
    /\ UNCHANGED <<out, split>>

\* The end of the string: the end-of-input actions, then the final test on cs.
Finish ==
    /\ out = "scan"
    /\ LET r == Run(IF cs = ErrorState THEN <<>> ELSE EofActions(cs), Eof)
       IN  Effect(r) /\ out' = IF r.thrown THEN "thrown" ELSE "ended"
    /\ split' = SplitAfter(split, Eof, 0)
    /\ UNCHANGED <<cs, posn, rfc>>

Next == (\E c \in CLASS : Scan(c) \/ Fail(c)) \/ Finish

Spec == Init /\ [][Next]_vars

Accepted == cs # ErrorState /\ cs >= FirstFinal

-----------------------------------------------------------------------------
(***************************************************************************)
(* Create() returns a Uri for exactly the strings of the grammar: at every  *)
(* prefix the scanner is in a final state iff the grammar may end there.    *)
(***************************************************************************)
AcceptsGrammar == out = "scan" => (Accepted <=> InLanguage(posn))

(***************************************************************************)
(* Every component that an accepted string has is set, to its own text, and *)
(* nothing else is: the actions marku, markh and save_* run at the right    *)
(* characters.  There are three exceptions.  The path is set only behind    *)
(* both a scheme and an authority, the one place where uri.rl has save_path *)
(* (uri.rl:119): the path of "/a", of "//h/a" and of "s:/a" is lost.  The   *)
(* userinfo is wrong when a digit follows its ":", where the mark has moved *)
(* to that digit (uri.cc:1079).  And atoi() makes another number of a port  *)
(* that does not fit an int (uri.rl:30).                                    *)
(***************************************************************************)
ComponentsAreText ==
    out = "ended" /\ Accepted =>
        /\ wrong \subseteq When(split.digit, {"userinfo"}) \cup When(split.huge, {"port"})
        /\ right \cup wrong = split.ended \ When(~(split.scheme /\ split.auth), {"path"})

(***************************************************************************)
(* A component is built from a NULL mark in exactly one case: a URI with a  *)
(* scheme and an authority whose ":" has no port behind it, where save_port *)
(* clears the mark that the path needs (tr566, tr567 and tr569 of uri.cc).  *)
(***************************************************************************)
ThrowsOnEmptyPort ==
    /\ out = "thrown" => split.scheme /\ split.empty
    /\ out = "ended" /\ Accepted => ~(split.scheme /\ split.empty)

(***************************************************************************)
(* Measured against RFC 3986 itself, which uri.rl names as its source: what *)
(* the scanner accepts is a URI reference unless it has a byte that is not  *)
(* ASCII, which uri.rl adds to pchar (uri.rl:85-87), or an address octet    *)
(* whose 2 is the byte 2 (uri.rl:51); and what it refuses is none, unless   *)
(* an IP literal is in it, where uri.rl wants an exact number of groups     *)
(* before "::" (uri.rl:58-63), that byte 2, and a small v (uri.rl:64).      *)
(***************************************************************************)
DiffersFromRfc ==
    out = "scan" =>
        /\ Accepted => (Rfc!InLanguage(rfc) <=> ~split.stx /\ ~split.eight)
        /\ Rfc!InLanguage(rfc) /\ ~Accepted => split.literal
=============================================================================
