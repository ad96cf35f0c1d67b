---------------------------- MODULE MCSession ----------------------------
(* Session for TLC: one or two channels, one view or two, and nicks of up   *)
(* to three characters.                                                     *)
EXTENDS Session

CONSTANTS c1, c2, p

OneChannel == <<c1>>
TwoChannels == <<c1, c2>>
Numerics == {"903", "904", "905", "906", "907"}

\* A nick is made of b, c, 2 and 3.  "b", in use, is tried again as "b2", which is
\* free; "bb3", which has no room, as "bb4", which no server takes.
b == 98
NickCharacters == {50, 51, b, 99}
Screened == {<<b>>, <<b, b, 51>>}
Others == Screened
LongNick == <<b, b, b, 99>>
Fresh == {<<99>>}
TypedNicks == Fresh \cup {LongNick}
OneNick == {<<b>>}
=============================================================================
