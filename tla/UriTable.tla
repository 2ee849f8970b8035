----------------------------- MODULE UriTable -----------------------------
(***************************************************************************)
(* The scanner of Uri::Create (saturn/uri.cc), which Ragel generated from   *)
(* uri.rl: 560 live states, the error state 0 and the code run on some      *)
(* transitions.  A character is represented by its class: no state of the   *)
(* scanner tells two characters of a class apart.                           *)
(*                                                                          *)
(* A transition is a record: in state "from", on a class of "on", the       *)
(* actions "do" run in order and the scanner goes to "to".  What no         *)
(* transition covers goes to the error state.  State numbers are those of   *)
(* uri.cc.                                                                  *)
(***************************************************************************)
EXTENDS Naturals, Sequences, FiniteSets, SequencesExt

DIGIT == {"0", "1", "2", "34", "5", "69"}
D04   == {"0", "1", "2", "34"}
D05   == D04 \cup {"5"}
D39   == {"34", "5", "69"}
XDIGIT == DIGIT \cup {"af"}
ALPHA == {"af", "gz", "v", "V"}         \* v is the only letter IPvFuture names
\* What a registered name is made of; "sub" is one of !$&'()*,;=_~.
REG == ALPHA \cup DIGIT \cup {"sub", "+-", "."}
\* pchar; "8bit" is any byte with its top bit set.
PCHAR == REG \cup {"8bit", ":", "@"}
\* The remaining classes: "stx" is the byte 2 and "other" any other byte.
CLASS == PCHAR \cup {"/", "?", "#", "%", "[", "]", "stx", "other"}

Start == 451
FirstFinal == 451
ErrorState == 0

T(s, on, to) == [from |-> s, on |-> on, do |-> <<>>, to |-> to]
A(s, on, do, to) == [from |-> s, on |-> on, do |-> do, to |-> to]

(***************************************************************************)
(* Shapes that many states share.                                           *)
(***************************************************************************)
\* Mutant: one hexadecimal digit is enough.
PctOneDigit(s, b) == {T(s, XDIGIT, b), T(s + 1, XDIGIT, b)}
\* "%" has been read: two hexadecimal digits, then back to the state b.
Pct(s, b) == {T(s, XDIGIT, s + 1), T(s + 1, XDIGIT, b)}

\* A path, query or fragment body: loops on C, "%" goes to p.
Body(s, C, do, loop, p) == {A(s, C, do, loop), A(s, {"%"}, do, p)}

\* Path to query or fragment.
PathEnd(s, do) == {A(s, {"?"}, do, 456), A(s, {"#"}, do, 453)}

\* A host or a port is over: what ends the authority.
AuthEnd(s, do) == PathEnd(s, do) \cup {A(s, {"/"}, do, 455)}

\* A host may end here; ":" goes to c.
HostEnd(s, c) == AuthEnd(s, <<"save_host">>) \cup {A(s, {":"}, <<"save_host">>, c)}

\* The classes that the transitions R of s cover.
Covered(R, s) == UNION {e.on : e \in {x \in R : x.from = s}}

\* The states S of R are also inside a registered name (loop) with escapes p;
\* at is where "@" leads when the name may still turn out to be userinfo.
InName(R, S, loop, p, c, at) ==
    R \cup UNION {HostEnd(s, c) \cup {T(s, {"%"}, p), T(s, REG \ Covered(R, s), loop)}
                    \cup {A(s, {"@"}, <<"save_userinfo">>, t) : t \in at} : s \in S}

\* Mutant: the last digit of 25x stops at 4.
OctetTo254(s, done, C, t) ==
    {T(x, C, t) : x \in s .. s + 3} \cup
    {T(s, DIGIT, s + 1), T(s + 1, DIGIT, done), T(s + 2, DIGIT \ {"5"}, done),
     T(s + 2, {"5"}, s + 3), T(s + 3, D04, done)}
\* Four states inside an IPv4 octet that began with 1, 3-9, 2 or 25: C ends it.
Octet(s, done, C, t) ==
    {T(x, C, t) : x \in s .. s + 3} \cup
    {T(s, DIGIT, s + 1), T(s + 1, DIGIT, done), T(s + 2, DIGIT \ {"5"}, done),
     T(s + 2, {"5"}, s + 3), T(s + 3, D05, done)}

\* The first character of an octet; stx, zero, one: where the byte 2, the
\* digit 0 and the digit 1 lead.
OctetStart(s, stx, zero, one) ==
    {T(s, {"stx"}, stx), T(s, {"0"}, zero), T(s, {"1"}, one),
     T(s, {"2"}, one + 2), T(s, D39, one + 1)}

\* The octet that begins with the byte 2 (uri.rl writes 2, not "2").
Stx(s, done) == {T(s, D04, s + 1), T(s + 1, DIGIT, done)}

\* Up to four hexadecimal digits, in s .. s+3, then ":" to c.
H16(s, c) == {T(x, XDIGIT, x + 1) : x \in s .. s + 2} \cup {T(x, {":"}, c) : x \in s .. s + 3}

\* A group of the address before any "::", and the choice after its colon:
\* another group or "::", which leads to dbl.
HeadGroup(s, dbl) == H16(s, s + 4) \cup {T(s + 4, XDIGIT, s + 5), T(s + 4, {":"}, dbl)}

\* A group that must be there after "::".
TailGroup(s, c) == {T(s, XDIGIT, s + 1)} \cup H16(s + 1, c)

\* The first character of a group that may be the first octet of an IPv4
\* address; h, o and l: the states of Group, GroupOctet and GroupLetter.
GroupStart(s, h, o, l) ==
    {T(s, {"stx"}, 69), T(s, {"0"}, h), T(s, {"1"}, o), T(s, {"2"}, o + 3),
     T(s, D39, o + 6), T(s, {"af"}, l)}

\* Such a group is over: "." makes it an octet, ":" leads to c, "]" may close.
GroupEnd(s, c, close) == {T(s, {":"}, c)} \cup {T(s, {"]"}, 460) : x \in close}
Dot(s) == {T(s, {"."}, 72)}

\* It began with 0: h .. h+3.
Group(h, c, close) ==
    Dot(h) \cup {T(x, XDIGIT, x + 1) : x \in h .. h + 2}
      \cup UNION {GroupEnd(x, c, close) : x \in h .. h + 3}

\* It began with 1, 2 or 3-9 and may still be an octet: o .. o+6.
GroupOctet(o, h, c, close) ==
    UNION {Dot(x) \cup GroupEnd(x, c, close) : x \in o .. o + 6} \cup
    {T(o, DIGIT, o + 1), T(o, {"af"}, h + 1),
     T(o + 1, DIGIT, o + 2), T(o + 1, {"af"}, h + 2),
     T(o + 2, XDIGIT, h + 3),
     T(o + 3, DIGIT \ {"5"}, o + 4), T(o + 3, {"5"}, o + 5), T(o + 3, {"af"}, h + 1),
     T(o + 4, XDIGIT, h + 2),
     T(o + 5, D05, o + 2), T(o + 5, {"69", "af"}, h + 2),
     T(o + 6, DIGIT, o + 4), T(o + 6, {"af"}, h + 1)}

\* It began with a letter.
GroupLetter(l, h, c, close) == {T(l, XDIGIT, h + 1)} \cup GroupEnd(l, c, close)

(***************************************************************************)
(* Paths, query and fragment.                                               *)
(***************************************************************************)
\* A relative reference: its first segment, which has no ":".
FirstSegment ==
    {T(451, (PCHAR \ {":"}) \ ALPHA, 452), T(452, PCHAR \ {":"}, 452),
     A(451, ALPHA, <<"marku">>, 508), T(451, {"/"}, 458), T(452, {"/"}, 455)}
      \cup UNION {PathEnd(s, <<>>) \cup {T(s, {"%"}, 3)} : s \in {451, 452}}

Fragment ==
    Body(453, PCHAR \cup {"/", "?"}, <<"marku">>, 454, 1) \cup
    Body(454, PCHAR \cup {"/", "?"}, <<>>, 454, 1) \cup Pct(1, 454)

\* A path whose value is not saved.
Path == Pct(3, 452) \cup Body(455, PCHAR \cup {"/"}, <<>>, 455, 5)
          \cup PathEnd(455, <<>>) \cup Pct(5, 455)

Query ==
    Body(456, PCHAR \cup {"/", "?"}, <<"marku">>, 457, 7) \cup
    Body(457, PCHAR \cup {"/", "?"}, <<>>, 457, 7) \cup
    {A(456, {"#"}, <<"marku", "save_query">>, 453), A(457, {"#"}, <<"save_query">>, 453)}
      \cup Pct(7, 457)

\* After the first "/": a second one opens the authority a.
Slash(s, a) == Body(s, PCHAR, <<>>, 455, 5) \cup PathEnd(s, <<>>) \cup {T(s, {"/"}, a)}

\* The characters of a scheme so far; ":" saves it.
Scheme ==
    {T(508, ALPHA \cup DIGIT \cup {"+-", "."}, 508), T(508, {"8bit", "sub", "@"}, 452),
     T(508, {"%"}, 3), T(508, {"/"}, 455), A(508, {":"}, <<"save_scheme">>, 509)}
      \cup PathEnd(508, <<>>)

HierPart == Slash(509, 510) \cup Slash(510, 511)

(***************************************************************************)
(* The authority of a relative reference, from 459.                         *)
(***************************************************************************)
Marked(R) == {[e EXCEPT !.do = <<"markh">> \o @] : e \in R}

\* Before userinfo or host.
Authority ==
    Marked(InName(OctetStart(459, 9, 490, 504) \cup {T(459, {"["}, 38)},
                  {459}, 467, 31, 468, {469}))

\* A host one octet of which began with the byte 2: no registered name any
\* more.
StxOctets ==
    Stx(9, 11) \cup {T(11, {"."}, 12)} \cup OctetStart(12, 13, 15, 27) \cup
    Stx(13, 15) \cup {T(15, {"."}, 16)} \cup OctetStart(16, 17, 19, 23) \cup
    Stx(17, 19) \cup {T(19, {"."}, 20)} \cup OctetStart(20, 21, 460, 463) \cup Stx(21, 460)
StxOctetRest == Octet(23, 19, {"."}, 20) \cup Octet(27, 15, {"."}, 16)

\* A complete host that cannot grow.
HostDone == HostEnd(460, 461)
\* The port after it, and the last octet of such a host.
HostPort ==
    AuthEnd(461, <<"markh", "save_port">>) \cup {A(461, DIGIT, <<"markh">>, 462)} \cup
    AuthEnd(462, <<"save_port">>) \cup {T(462, DIGIT, 462)} \cup
    UNION {HostEnd(s, 461) : s \in 463 .. 466} \cup Octet(463, 460, {}, 460)

\* A registered name that may still be userinfo.
NameOrUserinfo == InName({}, {467}, 467, 31, 468, {469}) \cup Pct(31, 467)

\* The ":" after it: a port, or more of the userinfo.
PortOrUserinfo(s, do) ==
    AuthEnd(s, do \o <<"save_port">>) \cup
    {A(s, DIGIT, do, 489), T(s, (REG \ DIGIT) \cup {":"}, 33), T(s, {"%"}, 34),
     A(s, {"@"}, <<"save_userinfo">>, 469)}
Userinfo ==
    PortOrUserinfo(468, <<"markh">>) \cup
    {T(33, REG \cup {":"}, 33), T(33, {"%"}, 34), A(33, {"@"}, <<"save_userinfo">>, 469)}
      \cup Pct(34, 33)
UserinfoPort == PortOrUserinfo(489, <<>>)

\* After "@": the host.
Host ==
    Marked(InName(OctetStart(469, 9, 471, 485) \cup {T(469, {"["}, 38)}, {469}, 470, 36, 461, {}))
      \cup InName({}, {470}, 470, 36, 461, {}) \cup Pct(36, 470)

\* A registered name that looks like an IPv4 address so far: the ends of its
\* octets, from state b.  The digits of an octet are those of Octet.
Dots(b) ==
    {T(b, {"."}, b + 1), T(b + 2, {"."}, b + 3), T(b + 4, {"."}, b + 5), T(b + 5, {"stx"}, 21)} \cup
    OctetStart(b + 1, 13, b + 2, b + 10) \cup OctetStart(b + 3, 17, b + 4, b + 6)
AsHost(R, S) == InName(R, S, 470, 36, 461, {})
AsUserinfo(R, S) == InName(R, S, 467, 31, 468, {469})

HostDots == AsHost(Dots(471), 471 .. 476)
HostOctet3 == AsHost(Octet(477, 475, {"."}, 476), 477 .. 480)
HostOctet2 == AsHost(Octet(481, 473, {"."}, 474), 481 .. 484)
HostOctet1 == AsHost(Octet(485, 471, {"."}, 472), 485 .. 488)
UserDots == AsUserinfo(Dots(490), 490 .. 495)
UserOctet3 == AsUserinfo(Octet(496, 494, {"."}, 495), 496 .. 499)
UserOctet2 == AsUserinfo(Octet(500, 492, {"."}, 493), 500 .. 503)
UserOctet1 == AsUserinfo(Octet(504, 490, {"."}, 491), 504 .. 507)

(***************************************************************************)
(* "[": an IPv6 address or IPvFuture, states 38 to 228.                     *)
(***************************************************************************)
V6Head12 == {T(38, XDIGIT, 39), T(38, {":"}, 146), T(38, {"v"}, 225)}
              \cup HeadGroup(39, 141) \cup HeadGroup(44, 136)
V6Head34 == HeadGroup(49, 131) \cup HeadGroup(54, 126)
V6Head56 == HeadGroup(59, 113) \cup H16(64, 68)

\* After six groups: the last 32 bits, or "::".
V6Last32 == GroupStart(68, 96, 104, 112) \cup {T(68, {":"}, 111)}
\* The octets of an IPv4 address inside brackets.
V6Octets ==
    Stx(69, 71) \cup {T(71, {"."}, 72)} \cup OctetStart(72, 73, 75, 92) \cup
    Stx(73, 75) \cup {T(75, {"."}, 76)} \cup OctetStart(76, 77, 79, 88) \cup
    Stx(77, 79) \cup {T(79, {"."}, 80)} \cup OctetStart(80, 81, 83, 84)
V6OctetRest ==
    Stx(81, 83) \cup {T(83, {"]"}, 460)} \cup Octet(84, 83, {"]"}, 460) \cup
    Octet(88, 79, {"."}, 80) \cup Octet(92, 75, {"."}, 76)
\* The seventh group, which begins with 0, and the eighth or "::".
V6Group7 ==
    Group(96, 100, {}) \cup {T(100, XDIGIT, 101), T(100, {":"}, 83), T(103, XDIGIT, 83)} \cup
    {T(x, XDIGIT, x + 1) : x \in {101, 102}} \cup {T(x, {"]"}, 460) : x \in 101 .. 103}
V6Group7Octet ==
    GroupOctet(104, 96, 100, {}) \cup {T(111, XDIGIT, 101)} \cup GroupLetter(112, 96, 100, {})
\* After "::" with five groups: the last 32 bits.
V6Tail32 == GroupStart(113, 114, 118, 125) \cup Group(114, 111, {})
V6Tail32Octet == GroupOctet(118, 114, 111, {}) \cup GroupLetter(125, 114, 111, {})
\* The groups that must follow when some came before "::".
V6Must12 == TailGroup(126, 113) \cup TailGroup(131, 126)
V6Must34 == TailGroup(136, 131) \cup TailGroup(141, 136)

\* "::" came first: up to seven groups, any of which may be the last.
Close == {"]"}
V6Any1 == {T(146, {":"}, 147), T(147, {"]"}, 460)}
            \cup GroupStart(147, 148, 217, 224) \cup Group(148, 152, Close)
V6Any2 == GroupStart(152, 153, 209, 216) \cup Group(153, 157, Close)
V6Any3 == GroupStart(157, 158, 201, 208) \cup Group(158, 162, Close)
V6Any4 == GroupStart(162, 163, 193, 200) \cup Group(163, 167, Close)
V6Any5 == GroupStart(167, 168, 185, 192) \cup Group(168, 172, Close)
V6Any6 == GroupStart(172, 173, 177, 184) \cup Group(173, 111, Close)
V6Any6Octet == GroupOctet(177, 173, 111, Close) \cup GroupLetter(184, 173, 111, Close)
V6Any5Octet == GroupOctet(185, 168, 172, Close) \cup GroupLetter(192, 168, 172, Close)
V6Any4Octet == GroupOctet(193, 163, 167, Close) \cup GroupLetter(200, 163, 167, Close)
V6Any3Octet == GroupOctet(201, 158, 162, Close) \cup GroupLetter(208, 158, 162, Close)
V6Any2Octet == GroupOctet(209, 153, 157, Close) \cup GroupLetter(216, 153, 157, Close)
V6Any1Octet == GroupOctet(217, 148, 152, Close) \cup GroupLetter(224, 148, 152, Close)

IPvFuture ==
    {T(225, XDIGIT, 226), T(226, XDIGIT, 226), T(226, {"."}, 227),
     T(227, REG \cup {":"}, 228), T(228, REG \cup {":"}, 228), T(228, {"]"}, 460)}

(***************************************************************************)
(* The authority of a URI with a scheme, from 511: the same states under    *)
(* other numbers, where the end of the authority also marks the path and,   *)
(* when the path is empty, saves it.  An action that a transition would     *)
(* run twice runs once, at its first place.                                 *)
(***************************************************************************)
Abs(s) ==
    CASE s \in 9 .. 22    -> s + 220
      [] s \in 23 .. 228  -> s + 222
      [] s \in 459 .. 460 -> s + 52
      [] s \in 461 .. 507 -> s + 53
      [] s = 455          -> 513
      [] OTHER            -> s

WithMark(do) == IF Contains(do, "markh") THEN do ELSE Append(do, "markh")

\* Mutant: the path is not marked when the authority ends.
PathUnmarked(do, to) == IF to \in {453, 456} THEN Append(do, "save_path") ELSE do
AbsoluteActions(do, to) ==
    IF to \in {453, 456} THEN Append(WithMark(do), "save_path")
    ELSE IF to = 455 THEN WithMark(do)
    ELSE do

Absolute(R) ==
    {A(Abs(e.from), e.on, AbsoluteActions(e.do, e.to), Abs(e.to)) : e \in R}

\* The path after a host, which is saved.
AbsPath == Body(513, PCHAR \cup {"/"}, <<>>, 513, 243)
             \cup PathEnd(513, <<"save_path">>) \cup Pct(243, 513)

AbsAuthority == Absolute(Authority)
AbsStxOctets == Absolute(StxOctets)
AbsStxOctetRest == Absolute(StxOctetRest)
AbsHostDone == Absolute(HostDone)
AbsHostPort == Absolute(HostPort)
AbsNameOrUserinfo == Absolute(NameOrUserinfo)
AbsUserinfo == Absolute(Userinfo)
AbsUserinfoPort == Absolute(UserinfoPort)
AbsHost == Absolute(Host)
AbsHostDots == Absolute(HostDots)
AbsHostOctet3 == Absolute(HostOctet3)
AbsHostOctet2 == Absolute(HostOctet2)
AbsHostOctet1 == Absolute(HostOctet1)
AbsUserDots == Absolute(UserDots)
AbsUserOctet3 == Absolute(UserOctet3)
AbsUserOctet2 == Absolute(UserOctet2)
AbsUserOctet1 == Absolute(UserOctet1)
AbsV6Head12 == Absolute(V6Head12)
AbsV6Head34 == Absolute(V6Head34)
AbsV6Head56 == Absolute(V6Head56)
AbsV6Last32 == Absolute(V6Last32)
AbsV6Octets == Absolute(V6Octets)
AbsV6OctetRest == Absolute(V6OctetRest)
AbsV6Group7 == Absolute(V6Group7)
AbsV6Group7Octet == Absolute(V6Group7Octet)
AbsV6Tail32 == Absolute(V6Tail32)
AbsV6Tail32Octet == Absolute(V6Tail32Octet)
AbsV6Must12 == Absolute(V6Must12)
AbsV6Must34 == Absolute(V6Must34)
AbsV6Any1 == Absolute(V6Any1)
AbsV6Any2 == Absolute(V6Any2)
AbsV6Any3 == Absolute(V6Any3)
AbsV6Any4 == Absolute(V6Any4)
AbsV6Any5 == Absolute(V6Any5)
AbsV6Any6 == Absolute(V6Any6)
AbsV6Any6Octet == Absolute(V6Any6Octet)
AbsV6Any5Octet == Absolute(V6Any5Octet)
AbsV6Any4Octet == Absolute(V6Any4Octet)
AbsV6Any3Octet == Absolute(V6Any3Octet)
AbsV6Any2Octet == Absolute(V6Any2Octet)
AbsV6Any1Octet == Absolute(V6Any1Octet)
AbsIPvFuture == Absolute(IPvFuture)

(***************************************************************************)
(* The whole table.                                                         *)
(***************************************************************************)
Relative ==
    FirstSegment \cup Fragment \cup Path \cup Query \cup Slash(458, 459) \cup Scheme \cup
    HierPart \cup Authority \cup StxOctets \cup StxOctetRest \cup HostDone \cup HostPort \cup
    NameOrUserinfo \cup Userinfo \cup UserinfoPort \cup Host \cup HostDots \cup
    HostOctet3 \cup HostOctet2 \cup HostOctet1 \cup UserDots \cup UserOctet3 \cup
    UserOctet2 \cup UserOctet1 \cup V6Head12 \cup V6Head34 \cup V6Head56 \cup V6Last32 \cup
    V6Octets \cup V6OctetRest \cup V6Group7 \cup V6Group7Octet \cup V6Tail32 \cup
    V6Tail32Octet \cup V6Must12 \cup V6Must34 \cup V6Any1 \cup V6Any2 \cup V6Any3 \cup
    V6Any4 \cup V6Any5 \cup V6Any6 \cup V6Any6Octet \cup V6Any5Octet \cup V6Any4Octet \cup
    V6Any3Octet \cup V6Any2Octet \cup V6Any1Octet \cup IPvFuture

WithScheme ==
    AbsPath \cup AbsAuthority \cup AbsStxOctets \cup AbsStxOctetRest \cup AbsHostDone \cup AbsHostPort \cup
    AbsNameOrUserinfo \cup AbsUserinfo \cup AbsUserinfoPort \cup AbsHost \cup
    AbsHostDots \cup AbsHostOctet3 \cup AbsHostOctet2 \cup AbsHostOctet1 \cup
    AbsUserDots \cup AbsUserOctet3 \cup AbsUserOctet2 \cup AbsUserOctet1 \cup
    AbsV6Head12 \cup AbsV6Head34 \cup AbsV6Head56 \cup AbsV6Last32 \cup AbsV6Octets \cup
    AbsV6OctetRest \cup AbsV6Group7 \cup AbsV6Group7Octet \cup AbsV6Tail32 \cup
    AbsV6Tail32Octet \cup AbsV6Must12 \cup AbsV6Must34 \cup AbsV6Any1 \cup AbsV6Any2 \cup
    AbsV6Any3 \cup AbsV6Any4 \cup AbsV6Any5 \cup AbsV6Any6 \cup AbsV6Any6Octet \cup
    AbsV6Any5Octet \cup AbsV6Any4Octet \cup AbsV6Any3Octet \cup AbsV6Any2Octet \cup
    AbsV6Any1Octet \cup AbsIPvFuture

Table == {e \in Relative \cup WithScheme : e.on # {}}

\* The transitions of a state, and the one for a class of character.
RowOf == [s \in 0 .. 560 |-> {e \in Table : e.from = s}]
Enabled(s, c) == {e \in RowOf[s] : c \in e.on}

(***************************************************************************)
(* The actions that run when the input ends in a final state.               *)
(***************************************************************************)
RelativeEof(s) ==
    CASE s = 453             -> <<"marku", "save_fragment">>
      [] s = 454             -> <<"save_fragment">>
      [] s = 456             -> <<"marku", "save_query">>
      [] s = 457             -> <<"save_query">>
      [] s \in {459, 469}    -> <<"markh", "save_host">>
      [] s \in {461, 468}    -> <<"markh", "save_port">>
      [] s \in {462, 489}    -> <<"save_port">>
      [] s \in 460 .. 507    -> <<"save_host">>
      [] OTHER               -> <<>>

EofActions(s) ==
    CASE s = 513       -> <<"save_path">>
      [] s \in 511 .. 560 ->
            LET r == CHOOSE r \in 459 .. 507 : Abs(r) = s
            IN  Append(WithMark(RelativeEof(r)), "save_path")
      [] OTHER         -> RelativeEof(s)
=============================================================================
