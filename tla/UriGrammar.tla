---------------------------- MODULE UriGrammar ----------------------------
(***************************************************************************)
(* The grammar that uri.rl gives the scanner, as a nondeterministic         *)
(* recogniser written from its rules and not from the generated code: a     *)
(* position in a rule, the positions one character later, and the           *)
(* positions at which the input may end.  With RFC TRUE the four rules that *)
(* uri.rl writes differently have the form of RFC 3986, which its first     *)
(* comment refers to: an address octet, the "::" of an IPv6 address, the    *)
(* letter of IPvFuture, which the RFC takes in either case, and pchar.      *)
(***************************************************************************)
EXTENDS UriTable, Integers

CONSTANT RFC
ASSUME RFCAssumption == RFC \in BOOLEAN

When(b, S) == IF b THEN S ELSE {}

\* pchar of uri.rl has every byte that is not ASCII.
Pchar == PCHAR \ When(RFC, {"8bit"})

\* The position i after a character of C or one of the two of "%" xdigit xdigit.
Chars(C, i, c) == When(c \in C, {i}) \cup When(c = "%", {<<"pct", 1, i>>})
QueryOrFragment(c) == When(c = "?", {<<"query">>}) \cup When(c = "#", {<<"fragment">>})
AfterHost(c) == When(c = "/", {<<"path">>}) \cup QueryOrFragment(c)

(***************************************************************************)
(* IPv4address and IPv6address.                                             *)
(***************************************************************************)
\* The choices of dec_octet; "end" is a complete one.  uri.rl has 2 [0-4] digit
\* where the 2 is the byte 2.
Octets(o, c) ==
    CASE o = "begin" ->
            When(c \in DIGIT, {"end"}) \cup When(c \in DIGIT \ {"0"}, {"two"})
              \cup When(c = "1", {"1"}) \cup When(c = (IF RFC THEN "2" ELSE "stx"), {"2"})
              \cup When(c = "2", {"25"})
      [] o = "two"  -> When(c \in DIGIT, {"end"})
      [] o = "1"    -> When(c \in DIGIT, {"two"})
      [] o = "2"    -> When(c \in D04, {"two"})
      [] o = "25"   -> When(c = "5", {"250"})
      [] o = "250"  -> When(c \in D05, {"end"})
      [] OTHER      -> {}

\* <<"v4", k, o, w>>: in the k-th octet, of a host or of an IPv6 address (w).
V4(k, o, w, c) ==
    {<<"v4", k, x, w>> : x \in Octets(o, c)} \cup
    When(o = "end" /\ k < 4 /\ c = ".", {<<"v4", k + 1, "begin", w>>}) \cup
    When(o = "end" /\ k = 4 /\ w = "v6" /\ c = "]", {<<"closed">>}) \cup
    When(o = "end" /\ k = 4 /\ w = "host", AfterHost(c) \cup When(c = ":", {<<"port">>}))

\* b groups before "::" and t after it, ls32 counting for two: uri.rl writes
\* ((h16 ":"){n} h16)?, the RFC up to n of them.
MayElide(b, t) == IF RFC THEN b + t <= 7 ELSE (b = 0 /\ t <= 7) \/ b + t = 7

\* <<"v6", b, a, d>>: b groups, a of them after "::" (-1: no "::" yet), d
\* digits of the next one.
V6(b, a, d, c) ==
    LET groups == IF a = -1 THEN b ELSE a IN
    When(c \in XDIGIT /\ d < 4 /\ groups < 8, {<<"v6", b, a, d + 1>>}) \cup
    When(c = ":" /\ d > 0 /\ groups < 8,
         {IF a = -1 THEN <<"v6", b + 1, a, 0>> ELSE <<"v6", b, a + 1, 0>>}) \cup
    When(c = ":" /\ d = 0 /\ a = -1 /\ b > 0, {<<"v6", b, 0, 0>>}) \cup
    When(c = "]" /\ (IF a = -1 THEN b = 7 /\ d > 0
                     ELSE \/ d > 0 /\ MayElide(b, a + 1)
                          \/ d = 0 /\ a = 0 /\ MayElide(b, 0)), {<<"closed">>}) \cup
    When(d = 0 /\ (IF a = -1 THEN b = 6 ELSE MayElide(b, a + 2)), V4(1, "begin", "v6", c))

(***************************************************************************)
(* The positions after one character.                                       *)
(***************************************************************************)
HostStart(c) ==
    Chars(REG, <<"name">>, c) \cup AfterHost(c) \cup When(c = ":", {<<"port">>})
      \cup When(c = "[", {<<"open">>}) \cup V4(1, "begin", "host", c)

Slashed(c, i) == Chars(Pchar, <<"path">>, c) \cup QueryOrFragment(c) \cup When(c = "/", {i})

Step(i, c) ==
    CASE i[1] = "start" ->
            When(c \in ALPHA, {<<"scheme">>}) \cup Chars(Pchar \ {":"}, <<"segment">>, c)
              \cup QueryOrFragment(c) \cup When(c = "/", {<<"slash">>})
      [] i[1] = "scheme" ->
            When(c \in ALPHA \cup DIGIT \cup {"+-", "."}, {i}) \cup When(c = ":", {<<"hier">>})
      [] i[1] = "segment" -> Chars(Pchar \ {":"}, i, c) \cup AfterHost(c)
      [] i[1] = "hier"  -> Slashed(c, <<"slash">>)
      [] i[1] = "slash" -> Slashed(c, <<"authority">>)
      [] i[1] = "path"  -> Slashed(c, i)
      [] i[1] = "query" -> Chars(Pchar \cup {"/", "?"}, i, c) \cup When(c = "#", {<<"fragment">>})
      [] i[1] = "fragment" -> Chars(Pchar \cup {"/", "?"}, i, c)
      [] i[1] = "authority" ->
            HostStart(c) \cup Chars(REG \cup {":"}, <<"userinfo">>, c) \cup When(c = "@", {<<"host">>})
      [] i[1] = "userinfo" -> Chars(REG \cup {":"}, i, c) \cup When(c = "@", {<<"host">>})
      [] i[1] = "host" -> HostStart(c)
      [] i[1] = "name" -> Chars(REG, i, c) \cup AfterHost(c) \cup When(c = ":", {<<"port">>})
      [] i[1] = "port" -> When(c \in DIGIT, {i}) \cup AfterHost(c)
      [] i[1] = "open" ->
            V6(0, -1, 0, c) \cup When(c = ":", {<<"colon">>}) \cup When(c \in {"v"} \cup When(RFC, {"V"}), {<<"v">>})
      [] i[1] = "colon" -> When(c = ":", {<<"v6", 0, 0, 0>>})
      [] i[1] = "v6" -> V6(i[2], i[3], i[4], c)
      [] i[1] = "v4" -> V4(i[2], i[3], i[4], c)
      [] i[1] = "v"   -> When(c \in XDIGIT, {<<"vx">>})
      [] i[1] = "vx"  -> When(c \in XDIGIT, {i}) \cup When(c = ".", {<<"vdot">>})
      [] i[1] = "vdot" -> When(c \in REG \cup {":"}, {<<"vtext">>})
      [] i[1] = "vtext" -> When(c \in REG \cup {":"}, {i}) \cup When(c = "]", {<<"closed">>})
      [] i[1] = "closed" -> AfterHost(c) \cup When(c = ":", {<<"port">>})
      [] i[1] = "pct" ->
            When(c \in XDIGIT, {IF i[2] = 1 THEN <<"pct", 2, i[3]>> ELSE i[3]})

MayEnd(i) ==
    \/ i[1] \in {"start", "segment", "hier", "slash", "path", "query", "fragment",
                 "authority", "host", "name", "port", "closed"}
    \/ i[1] = "v4" /\ i[2] = 4 /\ i[3] = "end" /\ i[4] = "host"

After(I, c) == UNION {Step(i, c) : i \in I}
InLanguage(I) == \E i \in I : MayEnd(i)
=============================================================================
